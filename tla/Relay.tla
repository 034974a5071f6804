------------------------------- MODULE Relay --------------------------------
(***************************************************************************)
(* The Matrix<->Telegram relay of bridge/relay.py: two loops in one        *)
(* asyncio process that carry what people write in one Matrix room to one  *)
(* Telegram group and back, under the relay's own identity on each side.   *)
(*                                                                         *)
(* The Matrix loop moves its /sync cursor, in a file of its own, past a    *)
(* batch before it relays it, and keeps the ids of the events it has seen. *)
(* The Telegram loop keeps the id of the last message it is done with.     *)
(* Ids and last id are one State in memory, saved as one file after every  *)
(* relayed message of either loop.  A message that was sent may be in the  *)
(* other room although the sender gets an error, or is stopped, or dies.   *)
(***************************************************************************)
EXTENDS Integers, SequencesExt

CONSTANTS
    Limits,      \* [sync |-> newest events /sync returns of a room (10 by default),
                 \*  seen |-> MX_SEEN_LIMIT (500)]
    PollLimit,   \* TG_POLL_LIMIT
    MaxPosts,    \* bound: messages people write, on both sides together
    MaxBreaks,   \* bound: failed sends and polls, stops and kills together
    MaxRewinds,  \* bound: how often the cursor file is lost or set back
    NoCursor     \* there is no cursor, or its file is empty

ASSUME RelayBounds ==
    /\ Limits \subseteq [sync : Nat \ {0}, seen : Nat \ {0}]
    /\ \A l \in Limits : l.seen >= 2 * l.sync - 1
    /\ PollLimit \in Nat \ {0}
    /\ MaxPosts \in Nat /\ MaxBreaks \in Nat /\ MaxRewinds \in Nat
    /\ NoCursor \notin Nat

VARIABLES
    limits,    \* those of Limits that hold
    mx,        \* the Matrix room: 0 is what a person wrote, n > 0 a copy of tg[n]
    tg,        \* the Telegram group, likewise; the place is the message's id
    stuck,     \* the messages of tg whose get_sender raises every time
    cursor,    \* relay_next_batch: the events of mx /sync has returned
    file,      \* relay-state.json
    st,        \* State: [last |-> tg_last_id, seen |-> mx_seen]
    mxPc,      \* where mx_relay_once is
    mxJob,     \* the events of the batch it still has to look at
    tgPc,      \* where tg_poll_once is
    tgJob,     \* the messages of the poll it still has to look at
    posts,     \* history: messages people wrote
    breaks,    \* history: failed sends and polls, stops and kills
    kills,     \* history: kills alone
    rewinds,   \* history: how often the cursor file was lost or set back
    mxFailed,  \* history: Matrix events whose send raised
    tgFailed,  \* history: Telegram messages whose send raised
    mxMissed,  \* history: Matrix events never looked at, not decrypted, or in hand at the end
    tgMissed   \* history: Telegram messages never looked at

rooms == <<limits, mx, tg, stuck>>
books == <<cursor, file, st>>
mxSide == <<mxPc, mxJob>>
tgSide == <<tgPc, tgJob>>
faults == <<breaks, kills, rewinds>>
losses == <<mxFailed, tgFailed, mxMissed, tgMissed>>
vars == <<rooms, books, mxSide, tgSide, posts, faults, losses>>

Bookmarks == [last : Nat, seen : Seq(Nat)]

\* The ids from next to end; none is left when next has passed end.
Job  == [next : Nat, end : Nat]
Idle == [next |-> 1, end |-> 0]

InHand(job) == job.next..job.end

TypeOK ==
    /\ limits \in Limits
    /\ mx \in Seq(Nat) /\ tg \in Seq(Nat)
    /\ stuck \subseteq DOMAIN tg
    /\ cursor \in Nat \cup {NoCursor}
    /\ file \in Bookmarks /\ st \in Bookmarks
    /\ mxPc \in {"down", "first", "sync", "relay", "sending", "sent"}
    /\ tgPc \in {"down", "poll", "relay", "sent"}
    /\ mxJob \in Job /\ tgJob \in Job
    /\ posts \in 0..MaxPosts
    /\ breaks \in 0..MaxBreaks /\ kills \in 0..breaks /\ rewinds \in 0..MaxRewinds
    /\ mxFailed \subseteq DOMAIN mx /\ mxMissed \subseteq DOMAIN mx
    /\ tgFailed \subseteq DOMAIN tg /\ tgMissed \subseteq DOMAIN tg

\* What is written before the first start is the backlog.
Init ==
    /\ limits \in Limits
    /\ mx = << >> /\ tg \in {<< >>, <<0>>} /\ stuck = {}
    /\ cursor = NoCursor
    /\ file = [last |-> 0, seen |-> << >>] /\ st = file
    /\ mxPc = "down" /\ mxJob = Idle
    /\ tgPc = "down" /\ tgJob = Idle
    /\ posts = 0 /\ breaks = 0 /\ kills = 0 /\ rewinds = 0
    /\ mxFailed = {} /\ tgFailed = {} /\ mxMissed = {} /\ tgMissed = {}

-----------------------------------------------------------------------------
(***************************************************************************)
(* The people.                                                             *)
(***************************************************************************)
Written ==
    /\ posts < MaxPosts
    /\ posts' = posts + 1
    /\ UNCHANGED <<books, mxSide, tgSide, faults, losses>>

WritesMatrix == Written /\ mx' = Append(mx, 0) /\ UNCHANGED <<limits, tg, stuck>>

WritesTelegram ==
    /\ Written
    /\ tg' = Append(tg, 0)
    /\ stuck' \in {stuck, stuck \cup {Len(tg')}}
    /\ UNCHANGED <<limits, mx>>

-----------------------------------------------------------------------------
(***************************************************************************)
(* run(): load the state; with no cursor, a first /sync that relays        *)
(* nothing; then both loops.                                               *)
(***************************************************************************)
Up == mxPc # "down"

Start ==
    /\ ~Up
    /\ st' = file
    /\ IF cursor = NoCursor
         THEN mxPc' = "first" /\ UNCHANGED tgPc
         ELSE mxPc' = "sync" /\ tgPc' = "poll"
    /\ UNCHANGED <<rooms, cursor, file, mxJob, tgJob, posts, faults, losses>>

SkipToNow ==
    /\ mxPc = "first"
    /\ cursor' = Len(mx)
    /\ mxMissed' = DOMAIN mx
    /\ mxPc' = "sync" /\ tgPc' = "poll"
    /\ UNCHANGED <<rooms, file, st, mxJob, tgJob, posts, faults, mxFailed, tgFailed, tgMissed>>

-----------------------------------------------------------------------------
(***************************************************************************)
(* mx_relay_once.                                                          *)
(***************************************************************************)
\* A mistaken window: it reaches back by limit, however few there are.
LatestUnclipped(from, to, limit) == [next |-> to - limit, end |-> to]

\* The newest of from..to, as many as limit lets through.
Latest(from, to, limit) ==
    [next |-> IF to - from >= limit THEN to - limit + 1 ELSE from, end |-> to]

\* _mx_sync: the cursor is written before the batch is looked at.
MxSync ==
    /\ mxPc = "sync" /\ cursor < Len(mx)
    /\ cursor' = Len(mx)
    /\ mxJob' = Latest(cursor + 1, Len(mx), limits.sync)
    /\ mxMissed' = mxMissed \cup (cursor + 1)..(mxJob'.next - 1)
    /\ mxPc' = "relay"
    /\ UNCHANGED <<rooms, file, st, tgSide, posts, faults, mxFailed, tgFailed, tgMissed>>

\* The loop looks at event n of the Matrix room.
MxAt(n) == mxPc = "relay" /\ n = mxJob.next /\ n \in InHand(mxJob)

MxNext == mxJob' = [mxJob EXCEPT !.next = @ + 1]

IsSeen(n) == n \in ToSet(st.seen)

\* A mistaken ring: the oldest ids stay.
MarkedOldest(n) ==
    IF Len(st.seen) >= limits.seen THEN st.seen ELSE Append(st.seen, n)

\* mark_mx: the newest limits.seen ids, in the order they were marked.
Marked(n) ==
    LET ids == Append(st.seen, n) IN
    IF Len(ids) > limits.seen THEN Tail(ids) ELSE ids

Seen(n) == IF IsSeen(n) THEN st ELSE [st EXCEPT !.seen = Marked(n)]

\* Its own echo, or an event it has in mx_seen.
MxSkip(n) ==
    /\ MxAt(n) /\ (mx[n] # 0 \/ IsSeen(n))
    /\ st' = Seen(n)
    /\ MxNext
    /\ UNCHANGED <<rooms, cursor, file, mxPc, tgSide, posts, faults, losses>>

\* The keys to a person's event are not there (yet).
MxUndecryptable(n) ==
    /\ MxAt(n) /\ mx[n] = 0
    /\ st' = Seen(n) /\ file' = st'
    /\ mxMissed' = mxMissed \cup {n}
    /\ MxNext
    /\ UNCHANGED <<rooms, cursor, mxPc, tgSide, posts, faults, mxFailed, tgFailed, tgMissed>>

\* mark_mx, then the name of the sender and the send are awaited.
MxTake(n) ==
    /\ MxAt(n) /\ mx[n] = 0 /\ ~IsSeen(n)
    /\ st' = Seen(n)
    /\ mxPc' = "sending"
    /\ UNCHANGED <<rooms, cursor, file, mxJob, tgSide, posts, faults, losses>>

\* The message is in the Telegram group.
MxDeliver ==
    /\ mxPc = "sending"
    /\ tg' = Append(tg, mxJob.next)
    /\ mxPc' = "sent"
    /\ UNCHANGED <<limits, mx, stuck, books, mxJob, tgSide, posts, faults, losses>>

\* tg_send_relay returned: save, next event.
MxSent ==
    /\ mxPc = "sent"
    /\ file' = st
    /\ mxPc' = "relay" /\ MxNext
    /\ UNCHANGED <<rooms, cursor, st, tgSide, posts, faults, losses>>

\* A mistaken mx_relay_once: the failure breaks out of the batch.
MxFailBreaks ==
    /\ mxPc \in {"sending", "sent"} /\ breaks < MaxBreaks
    /\ breaks' = breaks + 1
    /\ mxFailed' = mxFailed \cup {mxJob.next}
    /\ mxPc' = "relay" /\ mxJob' = [mxJob EXCEPT !.next = mxJob.end + 1]
    /\ UNCHANGED <<rooms, books, tgSide, posts, kills, rewinds, tgFailed, mxMissed, tgMissed>>

\* tg_send_relay raised, whether or not the message arrived: next event.
MxFail ==
    /\ mxPc \in {"sending", "sent"} /\ breaks < MaxBreaks
    /\ breaks' = breaks + 1
    /\ mxFailed' = mxFailed \cup {mxJob.next}
    /\ mxPc' = "relay" /\ MxNext
    /\ UNCHANGED <<rooms, books, tgSide, posts, kills, rewinds, tgFailed, mxMissed, tgMissed>>

\* A mistaken mx_relay_once that waits for something to save.
MxPassDoneIfChanged ==
    /\ mxPc = "relay" /\ InHand(mxJob) = {} /\ file # st
    /\ file' = st
    /\ mxPc' = "sync" /\ mxJob' = Idle
    /\ UNCHANGED <<rooms, cursor, st, tgSide, posts, faults, losses>>

\* The pass over the batch ends with a save.
MxPassDone ==
    /\ mxPc = "relay" /\ InHand(mxJob) = {}
    /\ file' = st
    /\ mxPc' = "sync" /\ mxJob' = Idle
    /\ UNCHANGED <<rooms, cursor, st, tgSide, posts, faults, losses>>

-----------------------------------------------------------------------------
(***************************************************************************)
(* tg_poll_once.                                                           *)
(***************************************************************************)
\* With no last id yet, the newest message becomes it.
TgSkipToNow ==
    /\ tgPc = "poll" /\ tg # << >> /\ st.last = 0
    /\ st' = [st EXCEPT !.last = Len(tg)] /\ file' = st'
    /\ tgMissed' = DOMAIN tg
    /\ UNCHANGED <<rooms, cursor, mxSide, tgSide, posts, faults, mxFailed, tgFailed, mxMissed>>

\* A mistaken tg_poll_once that moves the last id first, as the Matrix side does.
TgPollMoves ==
    /\ tgPc = "poll" /\ st.last # 0 /\ st.last < Len(tg)
    /\ tgJob' = Latest(st.last + 1, Len(tg), PollLimit)
    /\ tgMissed' = tgMissed \cup (st.last + 1)..(tgJob'.next - 1)
    /\ st' = [st EXCEPT !.last = Len(tg)]
    /\ tgPc' = "relay"
    /\ UNCHANGED <<rooms, cursor, file, mxSide, posts, faults, mxFailed, tgFailed, mxMissed>>

\* The messages beyond the last id, newest first until the limit.
TgPoll ==
    /\ tgPc = "poll" /\ st.last # 0 /\ st.last < Len(tg)
    /\ tgJob' = Latest(st.last + 1, Len(tg), PollLimit)
    /\ tgMissed' = tgMissed \cup (st.last + 1)..(tgJob'.next - 1)
    /\ tgPc' = "relay"
    /\ UNCHANGED <<rooms, books, mxSide, posts, faults, mxFailed, tgFailed, mxMissed>>

\* The loop looks at message n of the Telegram group.
TgAt(n) == tgPc = "relay" /\ n = tgJob.next /\ n \in InHand(tgJob)

TgNext == tgJob' = [tgJob EXCEPT !.next = @ + 1]

\* max(state.tg_last_id, msg.id)
DoneWith(n) == [st EXCEPT !.last = IF n > @ THEN n ELSE @]

\* A mistaken tg_poll_once: its own echo does not move the last id.
TgSkipUnmoved(n) ==
    /\ TgAt(n) /\ tg[n] # 0
    /\ TgNext
    /\ UNCHANGED <<rooms, books, mxSide, tgPc, posts, faults, losses>>

\* Its own echo.
TgSkip(n) ==
    /\ TgAt(n) /\ tg[n] # 0
    /\ st' = DoneWith(n)
    /\ TgNext
    /\ UNCHANGED <<rooms, cursor, file, mxSide, tgPc, posts, faults, losses>>

\* A mistaken tg_poll_once with no loop guard.
TgDeliverAny(n) ==
    /\ TgAt(n) /\ n \notin stuck
    /\ mx' = Append(mx, n)
    /\ tgPc' = "sent"
    /\ UNCHANGED <<limits, tg, stuck, books, mxSide, tgJob, posts, faults, losses>>

\* A person's message whose get_sender can return is at hand.
TgReadable(n) == TgAt(n) /\ tg[n] = 0 /\ n \notin stuck

\* A person's message is in the Matrix room.
TgDeliver(n) ==
    /\ TgReadable(n)
    /\ mx' = Append(mx, n)
    /\ tgPc' = "sent"
    /\ UNCHANGED <<limits, tg, stuck, books, mxSide, tgJob, posts, faults, losses>>

\* A mistaken tg_poll_once: the last id stays where it was.
TgSentUnmoved ==
    /\ tgPc = "sent"
    /\ file' = st /\ st' = st
    /\ tgPc' = "relay" /\ TgNext
    /\ UNCHANGED <<rooms, cursor, mxSide, posts, faults, losses>>

\* mx_send_relay returned: move the last id, save, next message.
TgSent ==
    /\ tgPc = "sent"
    /\ st' = DoneWith(tgJob.next) /\ file' = st'
    /\ tgPc' = "relay" /\ TgNext
    /\ UNCHANGED <<rooms, cursor, mxSide, posts, faults, losses>>

\* mx_send_relay raised, whether or not the message arrived: next message.
TgFail ==
    /\ tgPc = "sent" \/ \E n \in InHand(tgJob) : TgReadable(n)
    /\ breaks < MaxBreaks
    /\ breaks' = breaks + 1
    /\ tgFailed' = tgFailed \cup {tgJob.next}
    /\ tgPc' = "relay" /\ TgNext
    /\ UNCHANGED <<rooms, books, mxSide, posts, kills, rewinds, mxFailed, mxMissed, tgMissed>>

\* get_sender raised, this once: tg_loop gives the poll up, and the next
\* begins behind the last id again.
TgPollError ==
    /\ \E n \in InHand(tgJob) : TgReadable(n)
    /\ breaks < MaxBreaks
    /\ breaks' = breaks + 1
    /\ tgPc' = "poll" /\ tgJob' = Idle
    /\ UNCHANGED <<rooms, books, mxSide, posts, kills, rewinds, losses>>

\* get_sender raised, as it does for this message every time.
TgStuck(n) ==
    /\ TgAt(n) /\ tg[n] = 0 /\ n \in stuck
    /\ tgPc' = "poll" /\ tgJob' = Idle
    /\ UNCHANGED <<rooms, books, mxSide, posts, faults, losses>>

TgPassDone ==
    /\ tgPc = "relay" /\ InHand(tgJob) = {}
    /\ file' = st
    /\ tgPc' = "poll" /\ tgJob' = Idle
    /\ UNCHANGED <<rooms, cursor, st, mxSide, posts, faults, losses>>

-----------------------------------------------------------------------------
(***************************************************************************)
(* The end of the process, and what may become of the cursor file.         *)
(***************************************************************************)
Ends ==
    /\ breaks < MaxBreaks
    /\ breaks' = breaks + 1
    /\ mxMissed' = mxMissed \cup InHand(mxJob)
    /\ mxPc' = "down" /\ mxJob' = Idle
    /\ tgPc' = "down" /\ tgJob' = Idle
    /\ UNCHANGED <<rooms, st, posts, rewinds, mxFailed, tgFailed, tgMissed>>

\* A mistaken shutdown that saves nothing.
StopUnsaved ==
    /\ Up /\ mxPc # "first"
    /\ Ends
    /\ UNCHANGED <<cursor, file, kills>>

\* A signal: both loops are cancelled wherever they are, then the last save.
Stop ==
    /\ Up /\ mxPc # "first"
    /\ Ends
    /\ file' = st
    /\ UNCHANGED <<cursor, kills>>

Kill ==
    /\ Up
    /\ Ends
    /\ kills' = kills + 1
    /\ UNCHANGED <<cursor, file>>

\* put_next_batch truncates its file before it writes.
KillInWrite ==
    /\ mxPc \in {"first", "sync"}
    /\ Ends
    /\ kills' = kills + 1
    /\ cursor' = NoCursor
    /\ UNCHANGED file

\* The cursor file is deleted, or an older one is put back.
Rewind ==
    /\ ~Up /\ cursor # NoCursor /\ rewinds < MaxRewinds
    /\ rewinds' = rewinds + 1
    /\ cursor' \in {NoCursor} \cup 0..(cursor - 1)
    /\ UNCHANGED <<rooms, file, st, mxSide, tgSide, posts, breaks, kills, losses>>

MxStep ==
    \/ SkipToNow
    \/ MxSync
    \/ \E n \in InHand(mxJob) : MxSkip(n) \/ MxUndecryptable(n) \/ MxTake(n)
    \/ MxDeliver
    \/ MxSent
    \/ MxPassDone

TgStep ==
    \/ TgSkipToNow
    \/ TgPoll
    \/ \E n \in InHand(tgJob) : TgSkip(n) \/ TgDeliver(n) \/ TgStuck(n)
    \/ TgSent
    \/ TgPassDone

Next ==
    \/ WritesMatrix
    \/ WritesTelegram
    \/ Start
    \/ MxStep
    \/ MxFail
    \/ TgStep
    \/ TgFail
    \/ TgPollError
    \/ Stop
    \/ Kill
    \/ KillInWrite
    \/ Rewind

Spec == Init /\ [][Next]_vars

\* While the process is up, asyncio runs each of the two loops on, and what
\* it awaits returns or raises.  Nothing makes anybody start it again.
FairSpec == Spec /\ WF_vars(MxStep) /\ WF_vars(TgStep)

-----------------------------------------------------------------------------
CopiesOf(n, room) == Cardinality({i \in DOMAIN room : room[i] = n})

Copied(n, room) == CopiesOf(n, room) > 0

\* "Sender-id is the sole loop guard": no copy is ever copied back.
NoEcho ==
    /\ \A i \in DOMAIN mx : mx[i] # 0 => tg[mx[i]] = 0
    /\ \A i \in DOMAIN tg : tg[i] # 0 => mx[tg[i]] = 0

\* Matrix to Telegram: "a kill between messages cannot double-relay".  Failed
\* sends, stops and a cursor set back repeat no message; a kill between a send
\* and its save repeats it, once the cursor is set back.
MxOnceUnlessKilled == \A n \in DOMAIN mx : CopiesOf(n, tg) <= 1 + kills

\* Telegram to Matrix: a message is repeated only if a failed send, a stop or
\* a kill came between it and its save, once for each.
TgOnceUnlessBroken == \A n \in DOMAIN tg : CopiesOf(n, mx) <= 1 + breaks

InOrder(room) ==
    \A i, j \in DOMAIN room :
        i < j /\ room[i] # 0 /\ room[j] # 0 => room[i] < room[j]

(***************************************************************************)
(* The two rooms mirror each other: no copy is copied back, nothing is     *)
(* copied more often than what broke explains, and if nothing broke each   *)
(* room has what was said in the other in the order it was said.           *)
(***************************************************************************)
Mirrored ==
    /\ NoEcho
    /\ MxOnceUnlessKilled
    /\ TgOnceUnlessBroken
    /\ breaks = 0 /\ rewinds = 0 => InOrder(mx) /\ InOrder(tg)

\* The cursor passes over no Matrix event but those relayed, at hand, or lost
\* in one of the known ways: a failed send, a batch over the limit, a missing
\* key, a backlog skipped at start, the end of the process.
MxAccounted ==
    cursor # NoCursor =>
        \A n \in 1..cursor :
            mx[n] = 0 => \/ Copied(n, tg) \/ n \in InHand(mxJob)
                         \/ n \in mxFailed \cup mxMissed

\* "Catch-up after downtime": neither in memory nor on disk does the last id
\* pass a Telegram message that was not relayed, unless its own send failed or
\* the poll did not reach back to it.  No stop and no kill loses a message.
TgAccounted ==
    \A n \in 1..st.last \cup 1..file.last :
        tg[n] = 0 => Copied(n, mx) \/ n \in tgFailed \cup tgMissed

(***************************************************************************)
(* A message is lost only in a way that has a name here: whatever a cursor *)
(* has passed was relayed, is at hand, or is in one of the histories of    *)
(* what failed and what was missed.                                        *)
(***************************************************************************)
Accounted == MxAccounted /\ TgAccounted

\* The oldest message the next poll reaches is one whose get_sender always
\* raises: it and all behind it stay where they are, until so much is written
\* that the poll no longer reaches back to it.
TgBlocked ==
    /\ st.last # 0 /\ st.last < Len(tg)
    /\ Latest(st.last + 1, Len(tg), PollLimit).next \in stuck

(***************************************************************************)
(* A failed send or poll holds nothing up: whenever people pause, the      *)
(* relay goes down or gets to the end of what was said, on either side.    *)
(* Where tg_poll_once says of itself "so a stuck message can't block the   *)
(* queue" there is an exception, TgBlocked: a Telegram message whose       *)
(* sender can never be fetched does.                                       *)
(***************************************************************************)
KeepsUp ==
    /\ []<>(~Up \/ (cursor = Len(mx) /\ InHand(mxJob) = {}))
    /\ []<>(~Up \/ (st.last = Len(tg) /\ InHand(tgJob) = {}) \/ TgBlocked)
=============================================================================
