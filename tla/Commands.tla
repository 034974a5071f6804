------------------------------ MODULE Commands ------------------------------
(***************************************************************************)
(* The admin room: sync_loop queues the commands a /sync brings and, at    *)
(* the end of its cycle, carries them out one by one.                      *)
(*                                                                         *)
(* The cursor is saved before anything is done, and the queue is in memory *)
(* only.  The sender's power level is asked for when the command's turn    *)
(* comes, however long ago it was sent.  A reply to a command that raised  *)
(* begins with the command's name, so to the dispatcher it is a command,   *)
(* sent by the bot, which is an admin of its room.                         *)
(***************************************************************************)
EXTENDS Naturals, FiniteSets, Sequences

CONSTANTS
    People,      \* who may write in the room
    Bot,         \* the approver's own account
    Allowlist,   \* ADMIN_ALLOWLIST
    MaxSent,     \* bound: commands in the room, error replies included
    MaxMisses    \* bound: events not delivered, requests and handlers that fail

ASSUME CommandsAssumption ==
    /\ Bot \notin People /\ Allowlist \subseteq People
    /\ MaxSent \in Nat /\ MaxMisses \in Nat

VARIABLES
    chat,       \* the sender of each command in the room
    leaders,    \* the others whose power level is high enough
    since,      \* the cursor: commands up to here were fetched, 0 without one
    queue,      \* admin_queue
    hand,       \* the command being carried out, and where it is
    nameless,   \* /whoami failed at startup: OUR_MXID is ""
    obeyed,     \* history: how often each was carried out
    answered,   \* history: commands replied to
    missed,     \* history: commands a /sync passed over or did not decrypt
    unread,     \* history: commands dropped by a bot that does not know its name
    killed,     \* history: commands queued or in hand when the process died
    rightful,   \* history: commands whose sender was an admin at some time since
    lapses,     \* history: how often the cursor was lost
    misses      \* history: how often something went wrong

taken    == <<queue, hand>>
cmdTally == <<obeyed, answered, missed, unread, killed, rightful, lapses, misses>>
cmdVars  == <<chat, leaders, since, taken, nameless, cmdTally>>

Numbers == 1..MaxSent
Sent    == DOMAIN chat
Free    == [cmd |-> 0, at |-> "free"]
InHand  == {n \in Numbers : hand.cmd = n}

CommandsTypeOK ==
    /\ chat \in Seq(People \cup {Bot}) /\ Len(chat) <= MaxSent
    /\ leaders \subseteq People \ Allowlist
    /\ since \in 0..Len(chat)
    /\ queue \subseteq Sent
    /\ hand \in [cmd : Sent, at : {"admin", "refused", "done", "raised"}] \cup {Free}
    /\ nameless \in BOOLEAN
    /\ obeyed \in [Numbers -> Nat]
    /\ \A S \in {answered, missed, unread, killed, rightful} : S \subseteq Sent
    /\ lapses \in Nat /\ misses \in 0..MaxMisses

CommandsInit ==
    /\ chat = << >> /\ leaders = {}
    /\ since = 0 /\ queue = {} /\ hand = Free /\ nameless = FALSE
    /\ obeyed = [n \in Numbers |-> 0]
    /\ answered = {} /\ missed = {} /\ unread = {} /\ killed = {} /\ rightful = {}
    /\ lapses = 0 /\ misses = 0

Miss(k) == misses + k <= MaxMisses /\ misses' = misses + k

-----------------------------------------------------------------------------
Command(p) ==
    /\ Len(chat) < MaxSent /\ chat' = Append(chat, p)
    /\ rightful' = IF p \in leaders \cup Allowlist THEN rightful \cup {Len(chat')} ELSE rightful
    /\ UNCHANGED <<leaders, since, taken, nameless, obeyed, answered, missed, unread, killed,
                   lapses, misses>>

\* The room's power levels change.
Raise(p) ==
    /\ p \notin leaders \cup Allowlist
    /\ leaders' = leaders \cup {p}
    /\ rightful' = rightful \cup {n \in Sent : chat[n] = p}
    /\ UNCHANGED <<chat, since, taken, nameless, obeyed, answered, missed, unread, killed,
                   lapses, misses>>

Lower(p) ==
    /\ p \in leaders
    /\ leaders' = leaders \ {p}
    /\ UNCHANGED <<chat, since, taken, nameless, cmdTally>>

\* Mistaken: the bot's own messages too.
NotSkipped(n) == TRUE

\* on_room_message leaves out what the bot itself has said.
Heard(n) == nameless \/ chat[n] # Bot

\* One /sync.  Without a cursor it begins with old events.  It may leave out
\* events, the oldest ones or those the bot has no key of.
Fetch ==
    /\ queue = {} /\ hand = Free
    /\ \E gap \in SUBSET {n \in Sent : n > since} :
        /\ Miss(Cardinality(gap))
        /\ queue' = {n \in Sent : n > since /\ n \notin gap /\ Heard(n)}
        /\ missed' = missed \cup gap
    /\ since' = Len(chat)
    /\ UNCHANGED <<chat, leaders, hand, nameless, obeyed, answered, unread, killed, rightful, lapses>>

Holds(n, at) == hand' = [cmd |-> n, at |-> at]

\* Mistaken: no check of the bot's own name.
TakeAnyway(n) ==
    /\ hand = Free /\ n \in queue
    /\ queue' = queue \ {n}
    /\ Holds(n, IF chat[n] \in leaders \cup Allowlist \cup {Bot} THEN "admin" ELSE "refused")
    /\ UNCHANGED <<chat, leaders, since, nameless, cmdTally>>

\* Mistaken: without a name the queue is left as it is.
TakeIfNamed(n) ==
    /\ hand = Free /\ n \in queue /\ ~nameless
    /\ queue' = queue \ {n}
    /\ Holds(n, IF chat[n] \in leaders \cup Allowlist THEN "admin" ELSE "refused")
    /\ UNCHANGED <<chat, leaders, since, nameless, cmdTally>>

\* Without a name nothing is done.  The power levels are the room's of this
\* moment; a request for them that fails makes nobody an admin.
Take(n) ==
    /\ hand = Free /\ n \in queue
    /\ queue' = queue \ {n}
    /\ \/ nameless /\ unread' = unread \cup {n} /\ UNCHANGED <<hand, misses>>
       \/ ~nameless /\ UNCHANGED unread /\
            \/ /\ Holds(n, IF chat[n] \in leaders \cup Allowlist \cup {Bot} THEN "admin" ELSE "refused")
               /\ UNCHANGED misses
            \/ chat[n] \notin Allowlist /\ Miss(1) /\ Holds(n, "refused")
    /\ UNCHANGED <<chat, leaders, since, nameless, obeyed, answered, missed, killed, rightful, lapses>>

Obey ==
    /\ hand.at = "admin"
    /\ obeyed' = [obeyed EXCEPT ![hand.cmd] = @ + 1]
    /\ \/ Holds(hand.cmd, "done") /\ UNCHANGED misses
       \/ Holds(hand.cmd, "raised") /\ Miss(1)
    /\ UNCHANGED <<chat, leaders, since, queue, nameless, answered, missed, unread, killed,
                   rightful, lapses>>

\* "!mint failed: ..." begins like a command.  (Beyond MaxSent it is not kept.)
Reply ==
    /\ hand.at \in {"refused", "done", "raised"}
    /\ chat' = IF hand.at = "raised" /\ Len(chat) < MaxSent THEN Append(chat, Bot) ELSE chat
    /\ answered' = answered \cup {hand.cmd}
    /\ hand' = Free
    /\ UNCHANGED <<leaders, since, queue, nameless, obeyed, missed, unread, killed, rightful,
                   lapses, misses>>

Drain == (\E n \in queue : Take(n)) \/ Obey \/ Reply

\* The process dies and is started again.  The cursor goes when it dies while
\* it writes the file, or when the login at startup wipes the crypto store.
Dead ==
    /\ queue' = {} /\ hand' = Free
    /\ killed' = killed \cup queue \cup InHand
    /\ \/ UNCHANGED <<since, lapses>>
       \/ since # 0 /\ since' = 0 /\ lapses' = lapses + 1
    /\ \/ nameless' = FALSE /\ UNCHANGED misses
       \/ nameless' = TRUE /\ Miss(1)
    /\ UNCHANGED <<chat, leaders, obeyed, answered, missed, unread, rightful>>

-----------------------------------------------------------------------------
\* A command is carried out once, and once more for every time the cursor was
\* lost and with it the memory of what was done.
ObeyedOnce == \A n \in Numbers : obeyed[n] <= 1 + lapses

\* Whoever is obeyed was an admin at some time since the command was sent, and
\* is never the bot itself: "avoid ever responding to our own replies (which
\* would loop)".
OnlyAdmins == \A n \in Sent : obeyed[n] > 0 => n \in rightful

\* The cursor passes no command of a person but those at hand, answered, or
\* lost in one of the known ways.
NoneForgotten ==
    \A n \in 1..since :
        chat[n] # Bot =>
            n \in queue \cup InHand \cup answered \cup missed \cup unread \cup killed

(***************************************************************************)
(* Codes are minted and revoked for admins, once for each command, and no  *)
(* command gets lost but by a death of the process, a bot without a name   *)
(* or an event that was not delivered.                                     *)
(***************************************************************************)
CommandsAreSafe == ObeyedOnce /\ OnlyAdmins /\ NoneForgotten
=============================================================================
