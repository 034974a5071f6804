------------------------------- MODULE Lobby --------------------------------
(***************************************************************************)
(* The lobby door of the knock approver.  POST /join/api mints a public    *)
(* room per code use and records it in lobby.json (join_handler); the      *)
(* onboarding bot's sync loop (lobby_sync_loop) challenges whoever joins,  *)
(* judges their haikus, promotes one of them to the space, reposts the     *)
(* challenge to the silent and leaves stale rooms.                         *)
(*                                                                         *)
(* The loop reads a batch of events, moves its cursor past them, loads     *)
(* lobby.json, works on that copy across many awaits and saves it at the   *)
(* end of the cycle.  join_handler may run at any of those awaits, and a   *)
(* message that cannot be sent is an exception that ends the process.      *)
(* One action is what the loop does between two effects the others see.    *)
(***************************************************************************)
EXTENDS Integers, Sequences, SequencesExt

CONSTANTS
    Rooms,       \* the rooms that can be minted
    Users,       \* the people who follow a link
    MaxTries,    \* LOBBY_MAX_TRIES
    MaxResends,  \* LOBBY_MAX_RESENDS
    MaxEvents,   \* bound: joins and messages the users produce in all
    MaxCrashes,  \* bound: crashes under a running loop not due to a refused send
    Nothing      \* no such record, no such room

ASSUME LobbyBounds ==
    /\ MaxTries \in Nat \ {0} /\ MaxResends \in Nat
    /\ MaxEvents \in Nat /\ MaxCrashes \in Nat
    /\ Nothing \notin Rooms

VARIABLES
    disk,        \* lobby.json
    mem,         \* the loop's copy of it, lobby_state
    dirty,       \* l_dirty: the copy is to be saved
    pc,          \* where the loop is in its cycle
    cur,         \* the room whose events it is working on
    todo,        \* events of the batch still to work on, room by room
    feed,        \* events on the server beyond the loop's cursor
    minted,      \* rooms created so far
    botIn,       \* rooms the onboarding bot is joined to
    aged,        \* rooms older than LOBBY_TIMEOUT
    member,      \* the users' membership of the space
    named,       \* users whose profile has a displayname
    inRoom,      \* <<room, user>>: who has joined which lobby room
    events,      \* history: number of joins and messages so far
    crashes,     \* history: how often the process died under a running loop (saturates)
    challenges,  \* history: challenges posted for a joiner
    reposts,     \* history: challenges posted again since the last restart
    notYets,     \* history: "not yet ... tries left" replies since the last restart
    spoke,       \* history: <<room, user>>: who has sent a proper haiku where
    welcomes     \* history: welcome signup codes minted from a room

store == <<disk, mem, dirty>>
loop  == <<pc, cur, todo>>
world == <<feed, minted, botIn, aged, member, named, inRoom, events>>
tally == <<crashes, challenges, reposts, notYets, spoke, welcomes>>
vars  == <<store, loop, world, tally>>

Pairs == Rooms \X Users

\* A record of lobby.json.  reason "open" stands for a missing closed_reason;
\* sent tells whether LOBBY_RESEND_AFTER has passed since challenge_sent_ts.
Meta == [challenged : Seq(Users), tries : [Users -> Int], resends : [Users -> Nat],
         sent : [Users -> {"recent", "old"}], display : [Users -> BOOLEAN],
         promoted : BOOLEAN, closed : BOOLEAN,
         reason : {"open", "promoted", "already_member", "timeout"}]

ASSUME NothingAssumption == Nothing \notin Meta

\* A join carries whether the joiner has a displayname; a message, whether it
\* is a three-line haiku with the keyword and whether its sender was named.
Event == [type : {"join", "msg"}, user : Users, good : BOOLEAN, named : BOOLEAN]

TypeOK ==
    /\ disk \in [Rooms -> Meta \cup {Nothing}]
    /\ mem \in [Rooms -> Meta \cup {Nothing}]
    /\ dirty \in BOOLEAN
    /\ pc \in {"sync", "rooms", "invited", "acking", "sweep", "clean", "off"}
    /\ cur \in Rooms \cup {Nothing}
    /\ todo \in [Rooms -> Seq(Event)]
    /\ feed \in [Rooms -> Seq(Event)]
    /\ botIn \subseteq minted /\ aged \subseteq minted /\ minted \subseteq Rooms
    /\ member \in [Users -> {"no", "invited", "joined"}]
    /\ named \subseteq Users
    /\ inRoom \subseteq Pairs
    /\ events \in 0..MaxEvents
    /\ crashes \in 0..(MaxCrashes + MaxEvents)
    /\ \A h \in {challenges, reposts, notYets} : h \in [Pairs -> Nat]
    /\ spoke \subseteq Pairs
    /\ welcomes \in [Rooms -> Nat]

FreshMeta ==
    [challenged |-> << >>, tries |-> [u \in Users |-> MaxTries],
     resends |-> [u \in Users |-> 0], sent |-> [u \in Users |-> "recent"],
     display |-> [u \in Users |-> FALSE],
     promoted |-> FALSE, closed |-> FALSE, reason |-> "open"]

NoBook  == [r \in Rooms |-> Nothing]
NoBatch == [r \in Rooms |-> << >>]

\* `not meta or meta.get("promoted") or meta.get("closed")` skips a room.
Open(b, r) == b[r] # Nothing /\ ~b[r].promoted /\ ~b[r].closed

\* lobby_sync_loop asks /whoami before its first cycle.  Unless the answer is
\* 200 it returns, `lobby flow disabled`, for as long as the process lives;
\* join_handler and the main loop go on without it.
Started == {"sync", "off"}

Init ==
    /\ disk = NoBook /\ mem = NoBook /\ dirty = FALSE
    /\ pc \in Started /\ cur = Nothing /\ todo = NoBatch
    /\ feed = NoBatch
    /\ minted = {} /\ botIn = {} /\ aged = {}
    /\ member = [u \in Users |-> "no"]
    /\ named \in SUBSET Users
    /\ inRoom = {}
    /\ events = 0 /\ crashes = 0
    /\ challenges = [p \in Pairs |-> 0]
    /\ reposts = [p \in Pairs |-> 0]
    /\ notYets = [p \in Pairs |-> 0]
    /\ spoke = {}
    /\ welcomes = [r \in Rooms |-> 0]

-----------------------------------------------------------------------------
(***************************************************************************)
(* join_handler once its code was accepted and the room created: load, add *)
(* the record and save, with no await in between.                          *)
(***************************************************************************)
OpenRoom(r) ==
    /\ r \notin minted
    /\ disk' = [disk EXCEPT ![r] = FreshMeta]
    /\ minted' = minted \cup {r}
    /\ botIn' = botIn \cup {r}
    /\ UNCHANGED <<mem, dirty, loop, feed, aged, member, named, inRoom, events, tally>>

-----------------------------------------------------------------------------
(***************************************************************************)
(* The people.  Only a room the bot is in gives it events.                 *)
(***************************************************************************)
Emit(rs, e) ==
    /\ events < MaxEvents
    /\ events' = events + 1
    /\ feed' = [r \in Rooms |-> IF r \in rs THEN Append(feed[r], e) ELSE feed[r]]
    /\ UNCHANGED <<store, loop, minted, botIn, aged>>

JoinEvent(u, isNamed) ==
    [type |-> "join", user |-> u, good |-> FALSE, named |-> isNamed]

\* Follow the link; again for someone who left and comes back.
UserJoins(u, r) ==
    /\ r \in botIn
    /\ Emit({r}, JoinEvent(u, u \in named))
    /\ inRoom' = inRoom \cup {<<r, u>>}
    /\ UNCHANGED <<member, named, tally>>

\* A new displayname is a new join event in every room of the user.
UserSetsName(u) ==
    /\ u \notin named
    /\ named' = named \cup {u}
    /\ Emit({r \in botIn : <<r, u>> \in inRoom}, JoinEvent(u, TRUE))
    /\ UNCHANGED <<member, inRoom, tally>>

UserSays(u, r, good) ==
    /\ r \in botIn /\ <<r, u>> \in inRoom
    /\ Emit({r}, [type |-> "msg", user |-> u, good |-> good, named |-> u \in named])
    /\ spoke' = IF good THEN spoke \cup {<<r, u>>} ELSE spoke
    /\ UNCHANGED <<member, named, inRoom, crashes, challenges, reposts, notYets, welcomes>>

EntersSpace(u) ==
    /\ member[u] = "invited"
    /\ member' = [member EXCEPT ![u] = "joined"]
    /\ UNCHANGED <<store, loop, feed, minted, botIn, aged, named, inRoom, events, tally>>

(***************************************************************************)
(* Time, as far as the two clocks of the loop tell it apart.               *)
(***************************************************************************)
GrowsStale(r) ==
    /\ r \in minted \ aged
    /\ aged' = aged \cup {r}
    /\ UNCHANGED <<store, loop, feed, minted, botIn, member, named, inRoom, events, tally>>

Ripe(b, r, u) == IF b[r] = Nothing THEN Nothing ELSE [b[r] EXCEPT !.sent[u] = "old"]

ChallengeGrowsOld(r, u) ==
    /\ \E b \in {disk, mem} : Open(b, r) /\ Contains(b[r].challenged, u)
                              /\ b[r].sent[u] = "recent"
    /\ disk' = [disk EXCEPT ![r] = Ripe(disk, r, u)]
    /\ mem' = [mem EXCEPT ![r] = Ripe(mem, r, u)]
    /\ UNCHANGED <<dirty, loop, world, tally>>

-----------------------------------------------------------------------------
(***************************************************************************)
(* The loop.  A cycle starts with /sync; the cursor is saved before the    *)
(* batch is worked on, so a crash loses the rest of the batch.             *)
(***************************************************************************)
\* The elements of q at the positions S, in their order: SelectSeq with its
\* test made a set, about which more can be proved.
Kth(S, k) == CHOOSE i \in S : Cardinality({j \in S : j <= i}) = k
Picked(q, S) == [k \in 1..Cardinality(S) |-> q[Kth(S, k)]]

Joins(q)       == {i \in DOMAIN q : q[i].type = "join"}
Known(q, list) == {i \in DOMAIN q : Contains(list, q[i].user)}

\* A mistaken iter_lobby_rooms: of the joins too, those of the known only.
BatchOfKnown(r) ==
    IF Open(disk, r) /\ r \in botIn
    THEN Picked(feed[r], Known(feed[r], disk[r].challenged)) ELSE << >>

\* Another mistaken iter_lobby_rooms: it forgets meta.get("closed").
BatchOfClosed(r) ==
    LET known == Known(feed[r], disk[r].challenged)
        joins == Joins(feed[r])
    IN  IF disk[r] # Nothing /\ ~disk[r].promoted /\ r \in botIn
        THEN Picked(feed[r], joins \ known) \o Picked(feed[r], known \ joins) ELSE << >>

\* iter_lobby_rooms: joins of the not yet challenged, then messages of the
\* already challenged; the rest of the batch is not looked at again.
Batch(r) ==
    LET known == Known(feed[r], disk[r].challenged)
        joins == Joins(feed[r])
    IN  IF Open(disk, r) /\ r \in botIn
        THEN Picked(feed[r], joins \ known) \o Picked(feed[r], known \ joins) ELSE << >>

Sync ==
    /\ pc = "sync"
    /\ mem' = disk
    /\ todo' = [r \in Rooms |-> Batch(r)]
    /\ feed' = NoBatch
    /\ pc' = "rooms"
    /\ UNCHANGED <<disk, dirty, cur, minted, botIn, aged, member, named, inRoom, events, tally>>

\* process_lobby_room takes one room's events in order before the next room's.
Turn(r) ==
    /\ pc = "rooms" /\ todo[r] # << >>
    /\ cur \in Rooms /\ todo[cur] # << >> => cur = r

Next1(r) == Head(todo[r])

Advance(r) ==
    /\ cur' = r
    /\ todo' = [todo EXCEPT ![r] = Tail(@)]
    /\ dirty' = TRUE

Noted(m, join) ==
    [m EXCEPT !.challenged = Append(@, join.user), !.tries[join.user] = MaxTries,
              !.display[join.user] = join.named,
              !.sent[join.user] = "recent", !.resends[join.user] = 0]

\* A new joiner: note them, wait LOBBY_CHALLENGE_DELAY, post the challenge.
Challenge(r) ==
    /\ Turn(r) /\ Next1(r).type = "join" /\ r \in botIn
    /\ mem' = [mem EXCEPT ![r] = Noted(@, Next1(r))]
    /\ challenges' = [challenges EXCEPT ![<<r, Next1(r).user>>] = @ + 1]
    /\ Advance(r)
    /\ UNCHANGED <<disk, pc, world, crashes, reposts, notYets, spoke, welcomes>>

\* A mistaken _vet: any text of someone with a displayname will do.
PassesNamed(m, e) == m.display[e.user]

\* _vet: the displayname noted at the challenge, and the haiku's form.
Passes(m, e) == e.good /\ m.display[e.user]

\* A mistaken count: one reply more than there are tries.
LastTryLate(left) == left < 0

LastTry(left) == left <= 0

\* list.remove, where there is something to remove
Without(s, u) ==
    IF Contains(s, u) THEN RemoveAt(s, Min({i \in DOMAIN s : s[i] = u})) ELSE s

Tried(m, u, left) ==
    [m EXCEPT !.tries[u] = left,
              !.challenged = IF LastTry(left) THEN Without(@, u) ELSE @]

\* A haiku that does not pass costs a try; the last one ends the conversation.
Refuse(r) ==
    /\ Turn(r) /\ Next1(r).type = "msg" /\ ~Passes(mem[r], Next1(r)) /\ r \in botIn
    /\ LET u    == Next1(r).user
           left == mem[r].tries[u] - 1
       IN  /\ mem' = [mem EXCEPT ![r] = Tried(@, u, left)]
           /\ notYets' = IF LastTry(left) THEN notYets
                         ELSE [notYets EXCEPT ![<<r, u>>] = @ + 1]
    /\ Advance(r)
    /\ UNCHANGED <<disk, pc, world, crashes, challenges, reposts, spoke, welcomes>>

\* What _lobby_invite_to_space can answer but a failure.  403 is the answer for
\* a member; it is also the one for somebody banned, or if the bot has lost the
\* right to invite.
InviteAnswers(u) == IF member[u] = "joined" THEN {403} ELSE {200, 403}

\* A mistaken note: any answer that is taken for a success is a promotion.
NoticedAlike(m, answer) == [m EXCEPT !.promoted = TRUE, !.reason = "promoted"]

\* The note of an answer: every 403 is read as `already a member`.
Noticed(m, answer) ==
    [m EXCEPT !.promoted = TRUE,
              !.reason = IF answer = 403 THEN "already_member" ELSE "promoted"]

\* A mistaken promotion: the rest of the room's messages is still judged.
PromoteOn(r) ==
    /\ Turn(r) /\ Next1(r).type = "msg" /\ Passes(mem[r], Next1(r))
    /\ LET u == Next1(r).user IN \E answer \in InviteAnswers(u) :
          /\ mem' = [mem EXCEPT ![r] = Noticed(@, answer)]
          /\ member' = [member EXCEPT ![u] = IF answer = 200 THEN "invited" ELSE @]
    /\ pc' = "invited"
    /\ Advance(r)
    /\ UNCHANGED <<disk, feed, minted, botIn, aged, named, inRoom, events, tally>>

\* The invitation was answered 200 or 403: the room is done with, and the rest
\* of its messages is dropped.
Promote(r) ==
    /\ Turn(r) /\ Next1(r).type = "msg" /\ Passes(mem[r], Next1(r))
    /\ LET u == Next1(r).user IN \E answer \in InviteAnswers(u) :
          /\ mem' = [mem EXCEPT ![r] = Noticed(@, answer)]
          /\ member' = [member EXCEPT ![u] = IF answer = 200 THEN "invited" ELSE @]
    /\ pc' = "invited" /\ cur' = r /\ dirty' = TRUE
    /\ todo' = [todo EXCEPT ![r] = << >>]
    /\ UNCHANGED <<disk, feed, minted, botIn, aged, named, inRoom, events, tally>>

\* Any other answer: process_lobby_room returns without counting a try.
PromoteFails(r) ==
    /\ Turn(r) /\ Next1(r).type = "msg" /\ Passes(mem[r], Next1(r))
    /\ cur' = r /\ dirty' = TRUE
    /\ todo' = [todo EXCEPT ![r] = << >>]
    /\ UNCHANGED <<disk, mem, pc, world, tally>>

\* _invite_to_children has answered: the welcome code goes to signup_codes.json.
GiveWelcome ==
    /\ pc = "invited"
    /\ pc' = "acking"
    /\ welcomes' = [welcomes EXCEPT ![cur] = @ + 1]
    /\ UNCHANGED <<store, cur, todo, world, crashes, challenges, reposts, notYets, spoke>>

\* _lobby_leave_room swallows its errors: the bot may stay.
Leave(r) == botIn' \in {botIn, botIn \ {r}}

\* The answer in the room, then the leave.
Acknowledge ==
    /\ pc = "acking" /\ cur \in botIn
    /\ Leave(cur)
    /\ mem' = [mem EXCEPT ![cur].closed = TRUE]
    /\ pc' = "rooms"
    /\ UNCHANGED <<disk, dirty, cur, todo, feed, minted, aged, member, named, inRoom, events, tally>>

BatchDone ==
    /\ pc = "rooms" /\ todo = NoBatch
    /\ pc' = "sweep" /\ cur' = Nothing
    /\ UNCHANGED <<store, todo, world, tally>>

\* A mistaken sweep: it looks neither at the resends nor at the tries.
DueAlways(r, u) ==
    Open(mem, r) /\ Contains(mem[r].challenged, u) /\ mem[r].sent[u] = "old"

\* process_lobby_resends: challenged, silent so far, long enough ago, not yet resent.
Due(r, u) ==
    /\ Open(mem, r) /\ Contains(mem[r].challenged, u)
    /\ mem[r].sent[u] = "old"
    /\ mem[r].resends[u] < MaxResends
    /\ mem[r].tries[u] = MaxTries

Repost(r, u) ==
    /\ pc = "sweep" /\ Due(r, u) /\ r \in botIn
    /\ mem' = [mem EXCEPT ![r].sent[u] = "recent", ![r].resends[u] = @ + 1]
    /\ reposts' = [reposts EXCEPT ![<<r, u>>] = @ + 1]
    /\ dirty' = TRUE
    /\ UNCHANGED <<disk, loop, world, crashes, challenges, notYets, spoke, welcomes>>

SweepDone ==
    /\ pc = "sweep" /\ ~\E r \in Rooms, u \in Users : Due(r, u)
    /\ pc' = "clean"
    /\ UNCHANGED <<store, cur, todo, world, tally>>

\* A mistaken cleanup_stale_lobby: it does not report that anything changed.
CleanUnreported(r) ==
    /\ pc = "clean" /\ Open(mem, r) /\ r \in aged
    /\ Leave(r)
    /\ mem' = [mem EXCEPT ![r].closed = TRUE, ![r].reason = "timeout"]
    /\ UNCHANGED <<disk, dirty, loop, feed, minted, aged, member, named, inRoom, events, tally>>

\* A mistaken cleanup_stale_lobby: a closed_reason nobody knows.
CleanMisnamed(r) ==
    /\ pc = "clean" /\ Open(mem, r) /\ r \in aged
    /\ Leave(r)
    /\ mem' = [mem EXCEPT ![r].closed = TRUE, ![r].reason = "stale"]
    /\ dirty' = TRUE
    /\ UNCHANGED <<disk, loop, feed, minted, aged, member, named, inRoom, events, tally>>

\* cleanup_stale_lobby
Clean(r) ==
    /\ pc = "clean" /\ Open(mem, r) /\ r \in aged
    /\ Leave(r)
    /\ mem' = [mem EXCEPT ![r].closed = TRUE, ![r].reason = "timeout"]
    /\ dirty' = TRUE
    /\ UNCHANGED <<disk, loop, feed, minted, aged, member, named, inRoom, events, tally>>

\* The whole copy replaces the file.
Save ==
    /\ pc = "clean" /\ ~\E r \in aged : Open(mem, r)
    /\ disk' = IF dirty THEN mem ELSE disk
    /\ mem' = NoBook /\ dirty' = FALSE
    /\ pc' = "sync"
    /\ UNCHANGED <<cur, todo, world, tally>>

-----------------------------------------------------------------------------
(***************************************************************************)
(* The process dies and is started again by docker.  Only the files and    *)
(* the server's state survive.                                             *)
(***************************************************************************)
Die ==
    /\ crashes' = IF crashes < MaxCrashes + MaxEvents THEN crashes + 1 ELSE crashes
    /\ mem' = NoBook /\ dirty' = FALSE
    /\ pc' \in Started /\ cur' = Nothing /\ todo' = NoBatch
    /\ reposts' = [p \in Pairs |-> 0] /\ notYets' = [p \in Pairs |-> 0]
    /\ UNCHANGED <<disk, world, challenges, spoke, welcomes>>

\* Whether the next thing the loop does is to post in r.
AboutToPost(r) ==
    \/ Turn(r) /\ (Next1(r).type = "join" \/ ~Passes(mem[r], Next1(r)))
    \/ pc = "acking" /\ cur = r
    \/ pc = "sweep" /\ \E u \in Users : Due(r, u)

\* The server refuses a post from someone who is not in the room; nobody
\* catches _send_msg_raw's RuntimeError.
PostRefused == \E r \in Rooms \ botIn : AboutToPost(r) /\ Die

\* Any other end of the process: a refused send in the main loop, a redeploy,
\* a /whoami that raises.
Crash == pc # "off" /\ crashes < MaxCrashes /\ Die

\* The process ends while the loop is off, which has nothing to lose by it.
Reboot ==
    /\ pc = "off"
    /\ pc' \in Started
    /\ UNCHANGED <<store, cur, todo, world, tally>>

LoopStep ==
    \/ Sync
    \/ \E r \in Rooms : Challenge(r) \/ Refuse(r) \/ Promote(r) \/ PromoteFails(r)
    \/ GiveWelcome
    \/ Acknowledge
    \/ BatchDone
    \/ \E r \in Rooms, u \in Users : Repost(r, u)
    \/ SweepDone
    \/ \E r \in Rooms : Clean(r)
    \/ Save
    \/ PostRefused

Next ==
    \/ LoopStep
    \/ Crash
    \/ Reboot
    \/ \E r \in Rooms : OpenRoom(r) \/ GrowsStale(r)
    \/ \E r \in Rooms, u \in Users : UserJoins(u, r) \/ ChallengeGrowsOld(r, u)
    \/ \E r \in Rooms, u \in Users, good \in BOOLEAN : UserSays(u, r, good)
    \/ \E u \in Users : UserSetsName(u) \/ EntersSpace(u)

Spec == Init /\ [][Next]_vars

\* asyncio runs the loop on as long as it has something to do, the server
\* answers in the end, and docker restarts the process.  A loop that is off
\* takes no step, and nothing says that anybody reboots it.
FairSpec == Spec /\ WF_vars(LoopStep)

-----------------------------------------------------------------------------
(***************************************************************************)
(* To its readers lobby.json is a LobbyBook, whatever the two writers and  *)
(* the crashes do: a room is recorded once, empty; what is closed stays    *)
(* closed, for the same reason and with the same people; only a record     *)
(* nobody has been challenged in can be lost, and it does not come back.   *)
(***************************************************************************)
Entry(m) ==
    IF m = Nothing THEN Nothing
    ELSE [challenged |-> ToSet(m.challenged),
          reason |-> IF ~m.closed THEN "open"
                     ELSE IF m.reason = "timeout" THEN "timeout" ELSE "promoted"]

Book == INSTANCE LobbyBook WITH book <- [r \in Rooms |-> Entry(disk[r])]

ASSUME EntryAssumption == Nothing \notin Book!Record

KeepsTheBook == Book!Spec

\* Nobody is invited to the space who was not posted a challenge in a room
\* where they then, with a displayname, sent a proper haiku.
InvitedByHaiku ==
    \A u \in Users : member[u] # "no" =>
        \E r \in Rooms : <<r, u>> \in spoke /\ challenges[r, u] > 0 /\ u \in named

\* A room lobby.json counts as promoted sent somebody on: of those who sent a
\* proper haiku there, one was invited to the space.  (It cannot be said of a
\* room closed as already_member that anybody is a member: any 403 will do.)
PromotedIsInvited ==
    \A r \in Rooms :
        disk[r] # Nothing /\ disk[r].reason = "promoted" =>
            \E u \in Users : <<r, u>> \in spoke /\ member[u] # "no"

(***************************************************************************)
(* A haiku is the only way into the space, and the books do not claim more *)
(* than the server did.  The file is saved several awaits after an         *)
(* invitation is answered, and crashes and other writers come between.     *)
(***************************************************************************)
SpaceOnlyByHaiku == InvitedByHaiku /\ PromotedIsInvited

\* "3 tries": while the process lives, the challenges posted to someone bring
\* them at most MaxTries - 1 replies each that leave a try.
TriesPerChallenge ==
    \A p \in Pairs : notYets[p] <= (MaxTries - 1) * challenges[p]

\* "Capped at LOBBY_MAX_RESENDS per user" holds per posted challenge.
RepostsPerChallenge ==
    \A p \in Pairs : reposts[p] <= MaxResends * challenges[p]

\* A room hands out one welcome code, and one more for every crash that came
\* between the invitation and the save of lobby.json.
WelcomesBounded == \A r \in Rooms : welcomes[r] <= 1 + crashes

(***************************************************************************)
(* What the bot gives is bounded whatever joins, names and messages arrive *)
(* in whatever batches: tries and reposts per challenge while the process  *)
(* lives (a crash gives tries back and forgets what it reposted), welcome  *)
(* codes per room through every crash.                                     *)
(***************************************************************************)
BudgetsKept == TriesPerChallenge /\ RepostsPerChallenge /\ WelcomesBounded

(***************************************************************************)
(* Without a crash the bot sits in every room its books call open, so it   *)
(* never posts into a room it has left and PostRefused does not happen.    *)
(***************************************************************************)
OpenMeansInside ==
    crashes = 0 =>
        \A r \in Rooms :
            Open(IF pc \in Started THEN disk ELSE mem, r)
              \/ (pc \notin Started /\ AboutToPost(r)) => r \in botIn

\* "Leave lobby rooms older than LOBBY_TIMEOUT": a stale room does not stay
\* open.
StaleRoomsEnd ==
    \A r \in Rooms :
        Open(disk, r) /\ r \in aged ~> ~Open(disk, r) \/ crashes > 0 \/ pc = "off"

\* Whoever joins an open room is posted a challenge there, unless the room
\* ends, goes stale or loses its record first.
JoinersAreChallenged ==
    \A r \in Rooms, u \in Users :
        <<r, u>> \in inRoom /\ Open(disk, r) ~>
            \/ challenges[r, u] > 0
            \/ ~Open(disk, r) \/ r \in aged \/ crashes > 0 \/ pc = "off"

(***************************************************************************)
(* Without a crash, and unless the lobby flow was disabled at the start,   *)
(* the loop gets to everybody who waits for it: those who join are         *)
(* challenged and stale rooms are left.  (After a crash between a leave    *)
(* and the save they may not: a repost due in the left room kills the      *)
(* process at every boot.  With the flow disabled nobody is served at all, *)
(* though join_handler goes on minting rooms and handing out their links.) *)
(***************************************************************************)
EverybodyIsServed == StaleRoomsEnd /\ JoinersAreChallenged

(***************************************************************************)
(* "Each code-use mints one fresh public room.  The bot waits for the user *)
(* to join": a minted room stays in lobby.json, or nobody is challenged in *)
(* it.                                                                     *)
(***************************************************************************)
MintedStayRecorded == \A r \in minted : disk[r] # Nothing
=============================================================================
