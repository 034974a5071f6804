------------------------------ MODULE Invites -------------------------------
(***************************************************************************)
(* The bot's side of invitations and of the history that comes with them   *)
(* (responder.py).                                                         *)
(*                                                                         *)
(* A cycle of sync_once notes who invited the bot, gives the room-key      *)
(* bundles of the batch to handlers that run side by side and are waited   *)
(* for, and then joins.  Who invited it is kept in memory, like the cursor *)
(* of /sync; what Olm has decrypted is on disk, and no message can be      *)
(* decrypted twice.  A bundle is imported session by session, and only if  *)
(* its sender is the one who invited the bot.                              *)
(*                                                                         *)
(* One room: everything here is kept by room.  Each person may invite the  *)
(* bot and send one bundle; the two arrive in either order, as they may    *)
(* from another server.  The cycle is Responder's Sync.                    *)
(***************************************************************************)
EXTENDS Naturals, Sequences

CONSTANTS
    NPeople,      \* those who may invite the bot or send a bundle
    Keys,         \* sessions in a bundle
    MaxTroubles   \* bound: joins, downloads and imports that fail

ASSUME InviteBounds ==
    /\ NPeople \in Nat /\ Keys \in Nat \ {0}
    /\ MaxTroubles \in Nat

\* Numbered as they first do something.
People == 1..NPeople
Nobody == 0

VARIABLES
    membership,  \* the bot's, on the server
    invites,     \* who invited it, in the order of arrival
    fresh,       \* the cursor is not past the last invite
    box,         \* senders whose bundle the server holds for the bot
    hand,        \* senders of the bundles of the last batch, not yet acknowledged
    first,       \* there is no cursor: the next batch has everything
    inviter,     \* _inviters
    tojoin,      \* the invite of this batch is still to be accepted
    work,        \* the handler of each sender's bundle
    olm,         \* on disk: senders whose bundle has been decrypted
    kept,        \* on disk: how many sessions of a sender's bundle are imported
    gaveUp,      \* history: the last invite shown could not be accepted
    early,       \* history: bundles given to the bot before their sender's invite was there
    failed,      \* history: bundles whose download or import failed
    cut,         \* history: bundles being loaded when the bot was killed
    forgot,      \* history: the bot was restarted when it had joined
    troubles     \* history: how often something failed

server       == <<membership, invites, fresh, box>>
cycle        == <<hand, first, inviter, tojoin>>
loading      == <<work, olm, kept>>
inviteNotes  == <<gaveUp, early, failed, cut, forgot, troubles>>
inviteVars   == <<server, cycle, loading, inviteNotes>>

Arrived == {invites[i] : i \in DOMAIN invites}

InvitesTypeOK ==
    /\ membership \in {"out", "invited", "joined"}
    /\ invites \in Seq(People) /\ fresh \in BOOLEAN
    /\ box \subseteq People /\ hand \subseteq People
    /\ first \in BOOLEAN /\ tojoin \in BOOLEAN
    /\ inviter \in People \cup {Nobody} /\ inviter \in Arrived \cup {Nobody}
    /\ work \in [People -> {"none", "waiting", "download", "import"}]
    /\ \A p \in People : work[p] # "none" => p \in hand
    /\ olm \subseteq People
    /\ kept \in [People -> 0..Keys]
    /\ \A p \in People : work[p] \in {"download", "import"} => p \in olm
    /\ gaveUp \in BOOLEAN /\ forgot \in BOOLEAN
    /\ early \subseteq People /\ failed \subseteq People /\ cut \subseteq People
    /\ troubles \in 0..MaxTroubles

Idle == [p \in People |-> "none"]

InvitesInit ==
    /\ membership = "out" /\ invites = <<>> /\ fresh = FALSE
    /\ box = {} /\ hand = {} /\ first = TRUE
    /\ inviter = Nobody /\ tojoin = FALSE
    /\ work = Idle /\ olm = {} /\ kept = [p \in People |-> 0]
    /\ gaveUp = FALSE /\ early = {} /\ failed = {} /\ cut = {} /\ forgot = FALSE
    /\ troubles = 0

Trouble == troubles < MaxTroubles /\ troubles' = troubles + 1

-----------------------------------------------------------------------------
Sent(p) == p \in box \cup hand \cup olm

InTurn(p) == \A q \in 1..(p - 1) : q \in Arrived \/ Sent(q)

\* A person's invite reaches the server: one the bot has not joined on.
Invite(p) ==
    /\ InTurn(p) /\ p \notin Arrived /\ membership # "joined"
    /\ membership' = "invited" /\ invites' = Append(invites, p) /\ fresh' = TRUE
    /\ gaveUp' = FALSE
    /\ UNCHANGED <<box, cycle, loading, early, failed, cut, forgot, troubles>>

\* A person's bundle reaches the server, encrypted for the bot's device.
SendBundle(p) ==
    /\ InTurn(p) /\ ~Sent(p)
    /\ box' = box \cup {p}
    /\ UNCHANGED <<membership, invites, fresh, cycle, loading, inviteNotes>>

-----------------------------------------------------------------------------
(***************************************************************************)
(* One cycle.  The batch shows an invite once per cursor.                  *)
(***************************************************************************)
Settled == work = Idle /\ ~tojoin

\* Mistaken: the first /sync of a process does not ask for the full state.
ShownOnce == membership = "invited" /\ fresh

Shown == membership = "invited" /\ (first \/ fresh)

\* Mistaken: the inviters of this batch only, as for the joined rooms.
InvitersOfTheBatch ==
    inviter' = IF Shown THEN invites[Len(invites)] ELSE Nobody

RememberInviters ==
    inviter' = IF Shown THEN invites[Len(invites)] ELSE inviter

SyncInvites ==
    /\ Settled
    /\ RememberInviters
    /\ tojoin' = Shown /\ first' = FALSE /\ fresh' = FALSE
    /\ hand' = box /\ box' = {}
    /\ work' = [p \in People |-> IF p \in box THEN "waiting" ELSE "none"]
    /\ early' = early \cup (box \ Arrived)
    /\ UNCHANGED <<membership, invites, olm, kept, gaveUp, failed, cut, forgot, troubles>>

Moves(p, stage) == work' = [work EXCEPT ![p] = stage]

\* Mistaken: anybody's bundle.
DecryptAny(p) ==
    /\ work[p] = "waiting"
    /\ olm' = olm \cup {p}
    /\ Moves(p, IF p \notin olm THEN "download" ELSE "none")
    /\ UNCHANGED <<server, cycle, kept, inviteNotes>>

\* on_encrypted: Olm refuses a message it has decrypted before.
Decrypt(p) ==
    /\ work[p] = "waiting"
    /\ olm' = olm \cup {p}
    /\ Moves(p, IF p \notin olm /\ inviter = p THEN "download" ELSE "none")
    /\ UNCHANGED <<server, cycle, kept, inviteNotes>>

Fails(p) ==
    /\ Trouble /\ failed' = failed \cup {p} /\ Moves(p, "none")
    /\ UNCHANGED <<olm, kept, gaveUp, early, cut, forgot>>

Download(p) ==
    /\ work[p] = "download"
    /\ \/ Moves(p, "import") /\ UNCHANGED <<olm, kept, inviteNotes>>
       \/ Fails(p)
    /\ UNCHANGED <<server, cycle>>

\* The next session, or one that is malformed or cannot be stored.
Import(p) ==
    /\ work[p] = "import"
    /\ \/ /\ kept' = [kept EXCEPT ![p] = @ + 1]
          /\ Moves(p, IF kept'[p] = Keys THEN "none" ELSE "import")
          /\ UNCHANGED <<olm, inviteNotes>>
       \/ Fails(p)
    /\ UNCHANGED <<server, cycle>>

\* After the handlers; a join that fails is not tried again.
Join ==
    /\ tojoin /\ work = Idle
    /\ tojoin' = FALSE
    /\ \/ membership' = "joined" /\ UNCHANGED <<gaveUp, troubles>>
       \/ Trouble /\ gaveUp' = TRUE /\ UNCHANGED membership
    /\ UNCHANGED <<invites, fresh, box, hand, first, inviter, loading, early, failed, cut, forgot>>

InviteStep ==
    \/ Join
    \/ \E p \in People : Decrypt(p) \/ Download(p) \/ Import(p)

\* The memory of the inviter goes, and the server gives everything again.
RestartInvites ==
    /\ box' = box \cup hand /\ hand' = {} /\ first' = TRUE
    /\ inviter' = Nobody /\ tojoin' = FALSE /\ work' = Idle
    /\ cut' = cut \cup {p \in People : work[p] \in {"download", "import"}}
    /\ forgot' = (forgot \/ membership = "joined")
    /\ gaveUp' = FALSE
    /\ UNCHANGED <<membership, invites, fresh, olm, kept, early, failed, troubles>>

-----------------------------------------------------------------------------
(***************************************************************************)
(* Sessions are imported only from someone who had invited the bot; and a  *)
(* bundle is imported in part only while it is being imported, or because  *)
(* it failed or was cut.                                                   *)
(***************************************************************************)
HistoryOnlyFromInviters ==
    \A p \in People :
        /\ kept[p] > 0 => p \in Arrived
        /\ kept[p] \in 1..(Keys - 1) => work[p] = "import" \/ p \in failed \cup cut

\* The bundle of the one person who invites the bot is imported, before or
\* after the bot joins and in spite of restarts -- unless it came before the
\* invite, failed, was cut by a kill, or the bot was restarted when it had
\* joined: it then knows of no inviter any more.
HistoryArrives ==
    \A p \in People :
        Sent(p) /\ invites = <<p>> ~>
            \/ kept[p] = Keys
            \/ Len(invites) > 1
            \/ p \in early \cup failed \cup cut
            \/ forgot

\* An invite is accepted, unless the last time the bot was shown it the join
\* failed; a restart or another invite repairs even that.
InvitesAreJoined ==
    membership = "invited" ~> membership = "joined" \/ gaveUp

(***************************************************************************)
(* Whoever invites the bot gets it into the room, and the bot gets the     *)
(* history they share: "this is what lets an invitee decrypt messages sent *)
(* before joining".                                                        *)
(***************************************************************************)
InvitersAreServed == HistoryArrives /\ InvitesAreJoined
=============================================================================
