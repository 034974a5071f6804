------------------------------ MODULE Vetting -------------------------------
(***************************************************************************)
(* The knock door of the approver.  The main sync loop (sync_loop) opens a *)
(* private vetting room for whoever knocks on the space with a good code   *)
(* (handle_knock), judges the haikus sent there (process_vetting_room),    *)
(* promotes their authors to the space and leaves stale rooms              *)
(* (cleanup_stale_vetting).  Whether a code is good is CodeBook's matter.  *)
(*                                                                         *)
(* The loop moves its cursor past a batch before it works on it, and is    *)
(* the only writer of vetting.json: once per knock, and once at the end of *)
(* the cycle if a room's record changed.  A send that raises ends the      *)
(* process; so does anything that goes wrong in the lobby's loop.          *)
(***************************************************************************)
EXTENDS Integers, Sequences

CONSTANTS
    Rooms,       \* the vetting rooms that can be created
    Users,       \* the people who knock
    MaxTries,    \* VETTING_MAX_TRIES
    MaxEvents,   \* bound: knocks, joins and messages in all
    MaxCrashes,  \* bound: how often the process dies
    Nothing      \* no such record, no such room, no owner

ASSUME VettingBounds ==
    /\ MaxTries \in Nat \ {0}
    /\ MaxEvents \in Nat /\ MaxCrashes \in Nat

VARIABLES
    disk,      \* vetting.json
    mem,       \* the loop's copy of it, vetting_state
    dirty,     \* v_dirty
    pc,        \* where the loop is in its cycle
    cur,       \* the room it is working on
    knocks,    \* knocks of the batch still to handle
    todo,      \* events of the batch still to work on, room by room
    doorbell,  \* knocks on the server beyond the loop's cursor
    feed,      \* room events on the server beyond the loop's cursor
    owner,     \* whom a room was created for
    botIn,     \* rooms the bot is joined to
    aged,      \* rooms older than VETTING_TIMEOUT
    member,    \* the users' membership of the space
    named,     \* users whose profile has a displayname
    inside,    \* rooms whose owner has accepted the invitation
    events,    \* history: knocks, joins and messages so far
    crashes,   \* history: how often the process has died
    greeted,   \* history: rooms where the challenge was posted
    notYets,   \* history: "not yet" replies in each room since the last restart
    spoke,     \* history: rooms whose owner has sent a proper haiku, named
    welcomes   \* history: welcome signup codes minted from a room

store == <<disk, mem, dirty>>
loop  == <<pc, cur, knocks, todo>>
world == <<doorbell, feed, owner, botIn, aged, member, named, inside, events>>
tally == <<crashes, greeted, notYets, spoke, welcomes>>
vars  == <<store, loop, world, tally>>

\* A record of vetting.json; its mxid is `owner`.
Meta == [left : 0..MaxTries, display : BOOLEAN, promoted : BOOLEAN,
         reason : {"open", "tries_exhausted", "timeout"}]

ASSUME NothingAssumption == Nothing \notin Rooms \cup Users \cup Meta

\* A message: whether it is a proper haiku, and its author was named then.
Message == [good : BOOLEAN, named : BOOLEAN]

\* What /sync tells of one room: the owner's joins, each with or without a
\* displayname, and the owner's messages.
News == [joins : Seq(BOOLEAN), msgs : Seq(Message)]

TypeOK ==
    /\ disk \in [Rooms -> Meta \cup {Nothing}]
    /\ mem \in [Rooms -> Meta \cup {Nothing}]
    /\ dirty \in BOOLEAN
    /\ pc \in {"sync", "knocks", "greet", "rooms", "invited", "acking", "clean"}
    /\ cur \in Rooms \cup {Nothing}
    /\ knocks \in Seq(Users) /\ doorbell \in Seq(Users)
    /\ todo \in [Rooms -> News] /\ feed \in [Rooms -> News]
    /\ owner \in [Rooms -> Users \cup {Nothing}]
    /\ botIn \subseteq Rooms /\ aged \subseteq Rooms /\ inside \subseteq Rooms
    /\ greeted \subseteq Rooms /\ spoke \subseteq Rooms
    /\ member \in [Users -> {"no", "invited", "joined"}]
    /\ named \subseteq Users
    /\ events \in 0..MaxEvents /\ crashes \in 0..MaxCrashes
    /\ notYets \in [Rooms -> Nat] /\ welcomes \in [Rooms -> Nat]

FreshMeta ==
    [left |-> MaxTries, display |-> FALSE, promoted |-> FALSE, reason |-> "open"]

NoBook  == [r \in Rooms |-> Nothing]
NoNews  == [joins |-> << >>, msgs |-> << >>]
NoBatch == [r \in Rooms |-> NoNews]

\* meta["closed"] goes with a closed_reason.
Open(b, r) == b[r] # Nothing /\ ~b[r].promoted /\ b[r].reason = "open"

Init ==
    /\ disk = NoBook /\ mem = NoBook /\ dirty = FALSE
    /\ pc = "sync" /\ cur = Nothing /\ knocks = << >> /\ todo = NoBatch
    /\ doorbell = << >> /\ feed = NoBatch
    /\ owner = NoBook /\ botIn = {} /\ aged = {}
    /\ member = [u \in Users |-> "no"]
    /\ named \in SUBSET Users
    /\ inside = {} /\ events = 0 /\ crashes = 0
    /\ greeted = {} /\ spoke = {}
    /\ notYets = [r \in Rooms |-> 0]
    /\ welcomes = [r \in Rooms |-> 0]

-----------------------------------------------------------------------------
(***************************************************************************)
(* The people.                                                             *)
(***************************************************************************)
Happens ==
    /\ events < MaxEvents
    /\ events' = events + 1
    /\ UNCHANGED <<store, loop, owner, botIn, aged, member, crashes, greeted, notYets, welcomes>>

\* A knock whose code will be accepted, or not.
Knock(u) ==
    /\ Happens
    /\ member[u] = "no"
    /\ doorbell' = Append(doorbell, u)
    /\ UNCHANGED <<feed, named, inside, spoke>>

\* The invited owner joins the vetting room; joining again is a join event too.
OwnerJoins(r) ==
    /\ Happens
    /\ owner[r] # Nothing /\ r \in botIn
    /\ inside' = inside \cup {r}
    /\ feed' = [feed EXCEPT ![r].joins = Append(@, owner[r] \in named)]
    /\ UNCHANGED <<doorbell, named, spoke>>

\* A new displayname is a new join event in every room of the user.
SetsName(u) ==
    /\ Happens
    /\ u \notin named
    /\ named' = named \cup {u}
    /\ feed' = [r \in Rooms |-> IF r \in inside \cap botIn /\ owner[r] = u
                  THEN [feed[r] EXCEPT !.joins = Append(@, TRUE)] ELSE feed[r]]
    /\ UNCHANGED <<doorbell, inside, spoke>>

OwnerSays(r, good) ==
    /\ Happens
    /\ r \in inside \cap botIn
    /\ feed' = [feed EXCEPT ![r].msgs =
                  Append(@, [good |-> good, named |-> owner[r] \in named])]
    /\ spoke' = IF good THEN spoke \cup {r} ELSE spoke
    /\ UNCHANGED <<doorbell, named, inside>>

EntersSpace(u) ==
    /\ member[u] = "invited"
    /\ member' = [member EXCEPT ![u] = "joined"]
    /\ UNCHANGED <<store, loop, doorbell, feed, owner, botIn, aged, named, inside, events, tally>>

GrowsStale(r) ==
    /\ owner[r] # Nothing /\ r \notin aged
    /\ aged' = aged \cup {r}
    /\ UNCHANGED <<store, loop, doorbell, feed, owner, botIn, member, named, inside, events, tally>>

-----------------------------------------------------------------------------
(***************************************************************************)
(* The loop: /sync, and the cursor is written.                             *)
(***************************************************************************)
Sync ==
    /\ pc = "sync"
    /\ knocks' = doorbell /\ doorbell' = << >>
    /\ todo' = [r \in Rooms |-> IF r \in botIn THEN feed[r] ELSE NoNews]
    /\ feed' = NoBatch
    /\ pc' = "knocks"
    /\ UNCHANGED <<store, cur, owner, botIn, aged, member, named, inside, events, tally>>

\* A mistaken handle_knock: it returns before the challenge is posted.
OpenRoomSilently(r) ==
    /\ pc = "knocks" /\ knocks # << >>
    /\ owner[r] = Nothing
    /\ owner' = [owner EXCEPT ![r] = Head(knocks)]
    /\ botIn' = botIn \cup {r}
    /\ disk' = [disk EXCEPT ![r] = FreshMeta]
    /\ knocks' = Tail(knocks)
    /\ cur' = r
    /\ UNCHANGED <<pc, mem, dirty, todo, doorbell, feed, aged, member, named, inside, events, tally>>

\* handle_knock with a good code: the room is created, the books are written.
OpenRoom(r) ==
    /\ pc = "knocks" /\ knocks # << >>
    /\ owner[r] = Nothing
    /\ owner' = [owner EXCEPT ![r] = Head(knocks)]
    /\ botIn' = botIn \cup {r}
    /\ disk' = [disk EXCEPT ![r] = FreshMeta]
    /\ knocks' = Tail(knocks)
    /\ cur' = r /\ pc' = "greet"
    /\ UNCHANGED <<mem, dirty, todo, doorbell, feed, aged, member, named, inside, events, tally>>

\* ... and the challenge is posted.
Greet ==
    /\ pc = "greet"
    /\ greeted' = greeted \cup {cur}
    /\ pc' = "knocks"
    /\ UNCHANGED <<store, cur, knocks, todo, world, crashes, notYets, spoke, welcomes>>

\* handle_knock with a bad code, or no room to be had.
TurnAway ==
    /\ pc = "knocks" /\ knocks # << >>
    /\ knocks' = Tail(knocks)
    /\ UNCHANGED <<store, pc, cur, todo, world, tally>>

\* vetting_state = _load(VETTING_PATH); rooms not open are skipped.
Load ==
    /\ pc = "knocks" /\ knocks = << >>
    /\ mem' = disk
    /\ todo' = [r \in Rooms |-> IF Open(disk, r) THEN todo[r] ELSE NoNews]
    /\ cur' = Nothing
    /\ pc' = "rooms"
    /\ UNCHANGED <<disk, dirty, knocks, world, tally>>

\* The loop is at room r, or at none that still has events.
Turn(r) ==
    /\ pc = "rooms" /\ todo[r] # NoNews
    /\ cur \in Rooms /\ todo[cur] # NoNews => cur = r

\* A mistaken iter_vetting_rooms: the first join of the batch is kept.
NoteFirstName(r) ==
    /\ Turn(r) /\ todo[r].joins # << >>
    /\ mem' = [mem EXCEPT ![r].display = todo[r].joins[1]]
    /\ todo' = [todo EXCEPT ![r].joins = << >>]
    /\ cur' = r /\ dirty' = TRUE
    /\ UNCHANGED <<disk, pc, knocks, world, tally>>

\* meta["displayname"], before the messages, from the last join of the batch
NoteName(r) ==
    /\ Turn(r) /\ todo[r].joins # << >>
    /\ mem' = [mem EXCEPT ![r].display = todo[r].joins[Len(todo[r].joins)]]
    /\ todo' = [todo EXCEPT ![r].joins = << >>]
    /\ cur' = r /\ dirty' = TRUE
    /\ UNCHANGED <<disk, pc, knocks, world, tally>>

\* A message of room r is up for judgement.
Judging(r) == Turn(r) /\ todo[r].joins = << >>

TheHaiku(r) == Head(todo[r].msgs)

\* A mistaken _vet: any text of someone with a displayname will do.
PassesNamed(m, e) == m.display

\* _vet: the displayname noted, and the haiku's form.
Passes(m, e) == e.good /\ m.display

\* A mistaken count: the last try still gets a "not yet".
TryLeftAtZero(r) == mem[r].left >= 1

TryLeft(r) == mem[r].left > 1

\* A haiku that does not pass, with tries left.
Refuse(r) ==
    /\ Judging(r) /\ ~Passes(mem[r], TheHaiku(r)) /\ TryLeft(r)
    /\ mem' = [mem EXCEPT ![r].left = @ - 1]
    /\ notYets' = [notYets EXCEPT ![r] = @ + 1]
    /\ todo' = [todo EXCEPT ![r].msgs = Tail(@)]
    /\ cur' = r /\ dirty' = TRUE
    /\ UNCHANGED <<disk, pc, knocks, world, crashes, greeted, spoke, welcomes>>

\* _leave swallows its errors: the bot may stay.
Leave(r) == botIn' \in {botIn, botIn \ {r}}

\* A haiku that does not pass on the last try: the room is left and closed.
Exhaust(r) ==
    /\ Judging(r) /\ ~Passes(mem[r], TheHaiku(r)) /\ ~TryLeft(r)
    /\ mem' = [mem EXCEPT ![r].left = @ - 1, ![r].reason = "tries_exhausted"]
    /\ Leave(r)
    /\ todo' = [todo EXCEPT ![r] = NoNews]
    /\ cur' = r /\ dirty' = TRUE
    /\ UNCHANGED <<disk, pc, knocks, doorbell, feed, owner, aged, member, named, inside, events, tally>>

\* A mistaken promotion: it is not reported as a change of the record.
PromoteUnsaved(r) ==
    /\ Judging(r) /\ Passes(mem[r], TheHaiku(r))
    /\ member[owner[r]] # "joined"
    /\ member' = [member EXCEPT ![owner[r]] = "invited"]
    /\ mem' = [mem EXCEPT ![r].promoted = TRUE]
    /\ todo' = [todo EXCEPT ![r] = NoNews]
    /\ cur' = r
    /\ pc' = "invited"
    /\ UNCHANGED <<disk, dirty, knocks, doorbell, feed, owner, botIn, aged, named, inside, events, tally>>

\* A haiku that passes, and the invitation to the space is accepted by the
\* server; the rest of the room's messages is dropped.
Promote(r) ==
    /\ Judging(r) /\ Passes(mem[r], TheHaiku(r))
    /\ member[owner[r]] # "joined"
    /\ member' = [member EXCEPT ![owner[r]] = "invited"]
    /\ mem' = [mem EXCEPT ![r].promoted = TRUE]
    /\ todo' = [todo EXCEPT ![r] = NoNews]
    /\ cur' = r /\ dirty' = TRUE
    /\ pc' = "invited"
    /\ UNCHANGED <<disk, knocks, doorbell, feed, owner, botIn, aged, named, inside, events, tally>>

\* A haiku that passes, but the invitation fails: no try is counted and the
\* rest of the room's messages is dropped.
PromoteFails(r) ==
    /\ Judging(r) /\ Passes(mem[r], TheHaiku(r))
    /\ todo' = [todo EXCEPT ![r] = NoNews]
    /\ cur' = r /\ dirty' = TRUE
    /\ UNCHANGED <<disk, mem, pc, knocks, world, tally>>

\* _invite_to_children has answered; the welcome code goes to its own file.
GiveWelcome ==
    /\ pc = "invited"
    /\ welcomes' = [welcomes EXCEPT ![cur] = @ + 1]
    /\ pc' = "acking"
    /\ UNCHANGED <<store, cur, knocks, todo, world, crashes, greeted, notYets, spoke>>

\* The answer to the room and the relay to the feed room.
Acknowledge ==
    /\ pc = "acking"
    /\ pc' = "rooms"
    /\ UNCHANGED <<store, cur, knocks, todo, world, tally>>

BatchDone ==
    /\ pc = "rooms" /\ todo = NoBatch
    /\ pc' = "clean" /\ cur' = Nothing
    /\ UNCHANGED <<store, knocks, todo, world, tally>>

\* A mistaken cleanup_stale_vetting: rooms already promoted are closed too.
CleanPromoted(r) ==
    /\ pc = "clean" /\ mem[r] # Nothing /\ mem[r].reason = "open" /\ r \in aged
    /\ Leave(r)
    /\ mem' = [mem EXCEPT ![r].reason = "timeout", ![r].promoted = FALSE]
    /\ dirty' = TRUE
    /\ UNCHANGED <<disk, loop, doorbell, feed, owner, aged, member, named, inside, events, tally>>

\* Another: a closed_reason nobody knows.
CleanMisnamed(r) ==
    /\ pc = "clean" /\ Open(mem, r) /\ r \in aged
    /\ Leave(r)
    /\ mem' = [mem EXCEPT ![r].reason = "stale"]
    /\ dirty' = TRUE
    /\ UNCHANGED <<disk, loop, doorbell, feed, owner, aged, member, named, inside, events, tally>>

\* Another: it does not report that anything changed.
CleanUnreported(r) ==
    /\ pc = "clean" /\ Open(mem, r) /\ r \in aged
    /\ Leave(r)
    /\ mem' = [mem EXCEPT ![r].reason = "timeout"]
    /\ UNCHANGED <<disk, dirty, loop, doorbell, feed, owner, aged, member, named, inside, events, tally>>

\* cleanup_stale_vetting
Clean(r) ==
    /\ pc = "clean" /\ Open(mem, r) /\ r \in aged
    /\ Leave(r)
    /\ mem' = [mem EXCEPT ![r].reason = "timeout"]
    /\ dirty' = TRUE
    /\ UNCHANGED <<disk, loop, doorbell, feed, owner, aged, member, named, inside, events, tally>>

Save ==
    /\ pc = "clean" /\ ~\E r \in aged : Open(mem, r)
    /\ disk' = IF dirty THEN mem ELSE disk
    /\ mem' = NoBook /\ dirty' = FALSE
    /\ pc' = "sync"
    /\ UNCHANGED <<cur, knocks, todo, world, tally>>

\* The process dies, and docker starts it again: the files and the server's
\* state are all that is left.
Crash ==
    /\ crashes < MaxCrashes
    /\ crashes' = crashes + 1
    /\ mem' = NoBook /\ dirty' = FALSE
    /\ pc' = "sync" /\ cur' = Nothing /\ knocks' = << >> /\ todo' = NoBatch
    /\ notYets' = [r \in Rooms |-> 0]
    /\ UNCHANGED <<disk, world, greeted, spoke, welcomes>>

LoopStep ==
    \/ Sync
    \/ \E r \in Rooms : OpenRoom(r)
    \/ Greet
    \/ TurnAway
    \/ Load
    \/ \E r \in Rooms : NoteName(r) \/ Refuse(r) \/ Exhaust(r)
    \/ \E r \in Rooms : Promote(r) \/ PromoteFails(r)
    \/ GiveWelcome
    \/ Acknowledge
    \/ BatchDone
    \/ \E r \in Rooms : Clean(r)
    \/ Save

Next ==
    \/ LoopStep
    \/ Crash
    \/ \E u \in Users : Knock(u) \/ SetsName(u) \/ EntersSpace(u)
    \/ \E r \in Rooms : OwnerJoins(r) \/ GrowsStale(r)
    \/ \E r \in Rooms, good \in BOOLEAN : OwnerSays(r, good)

Spec == Init /\ [][Next]_vars

\* asyncio runs the loop on, the server answers, docker restarts the process.
FairSpec == Spec /\ WF_vars(LoopStep)

-----------------------------------------------------------------------------
\* A record of vetting.json as the books of an airlock have it.
AsRecord(m) ==
    IF m = Nothing THEN Nothing
    ELSE [state |-> IF m.promoted THEN "promoted"
                    ELSE IF m.reason = "open" THEN "open" ELSE "closed",
          left  |-> m.left]

Books == INSTANCE Airlock WITH book <- [r \in Rooms |-> AsRecord(disk[r])]

(***************************************************************************)
(* vetting.json keeps the promise of an airlock's books through crashes at *)
(* any point: no record is lost, reopened or given tries back, and only an *)
(* open room moves on.                                                     *)
(***************************************************************************)
KeepsItsBooks == Books!Spec

(***************************************************************************)
(* Nobody is invited to the space but the owner of a room who sent a       *)
(* proper haiku there and has a displayname, whatever was lost or redone.  *)
(***************************************************************************)
SpaceOnlyByHaiku ==
    \A u \in Users : member[u] # "no" =>
        u \in named /\ \E r \in spoke : owner[r] = u /\ r \in inside

(***************************************************************************)
(* "3 tries": while the process lives a room sees fewer "not yet" replies  *)
(* than it has tries.  (A crash may give tries back.)                      *)
(***************************************************************************)
FewerRepliesThanTries == \A r \in Rooms : notYets[r] < MaxTries

(***************************************************************************)
(* A room hands out one welcome code, and one more for every crash that    *)
(* came between the invitation and the save of vetting.json.               *)
(***************************************************************************)
WelcomesBounded == \A r \in Rooms : welcomes[r] <= 1 + crashes

(***************************************************************************)
(* "set a displayname in element first, then re-paste the haiku" works     *)
(* here: without a crash, a proper haiku sent by someone who has a         *)
(* displayname is not turned down, wherever the join event landed.         *)
(***************************************************************************)
AdviceWorksUnlessCrashed ==
    crashes = 0 =>
        \A r \in Rooms : Judging(r) /\ TheHaiku(r).good /\ TheHaiku(r).named
            => Passes(mem[r], TheHaiku(r))

\* A stale room does not stay open, whatever crashes.
StaleRoomsEnd == \A r \in Rooms : Open(disk, r) /\ r \in aged ~> ~Open(disk, r)

\* Without a crash whoever is let in is posted the challenge.
GuestsAreGreetedUnlessCrashed ==
    \A r \in Rooms : Open(disk, r) ~> (r \in greeted \/ crashes > 0)

(***************************************************************************)
(* The loop gets to every room: its guest is greeted, unless a crash came  *)
(* between the room and the challenge, and a stale room ends whatever      *)
(* crashes, since the loop posts nothing of its own accord into a room and *)
(* so cannot get stuck on one it has left.                                 *)
(***************************************************************************)
EverybodyIsServed == StaleRoomsEnd /\ GuestsAreGreetedUnlessCrashed
=============================================================================
