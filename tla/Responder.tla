----------------------------- MODULE Responder ------------------------------
(***************************************************************************)
(* The responder as a whole (responder.py): one /sync loop feeds both the  *)
(* verifications of Sas and the invitations of Invites.  The loop waits    *)
(* for the bundles of a batch and for its joins, and for no verification:  *)
(* a slow bundle keeps verifications from progress, never the other way    *)
(* round.                                                                  *)
(***************************************************************************)
EXTENDS Sas, Invites

CONSTANT MaxBegun  \* bound: what others begin; a verification counts double

ASSUME ResponderBounds == MaxBegun \in Nat

allVars == <<vars, inviteVars>>

AllTypeOK == TypeOK /\ InvitesTypeOK

AllInit == Init /\ InvitesInit

Begun ==
    2 * Cardinality({t \in Txns : peer[t].at # "idle"})
    + Len(invites) + Cardinality({p \in People : Sent(p)})

\* What goes wrong on either side counts against one bound.
Bounded == (Mishaps + troubles)' <= MaxMishaps

AskOne ==
    /\ Begun + 2 <= MaxBegun
    /\ \E t \in Txns : Ask(t)
    /\ UNCHANGED inviteVars

PeerGoesOn ==
    /\ \E t \in Txns : Confirm(t) \/ GiveUp(t)
    /\ UNCHANGED inviteVars /\ Bounded

InviterStep ==
    /\ Begun < MaxBegun
    /\ \E p \in People : Invite(p) \/ SendBundle(p)
    /\ UNCHANGED vars

SyncOnce == Sync /\ SyncInvites

Verifies ==
    /\ TaskStep
    /\ UNCHANGED inviteVars /\ Bounded

Starts ==
    /\ BeginStep
    /\ UNCHANGED inviteVars /\ Bounded

TakesInvites ==
    /\ InviteStep
    /\ UNCHANGED vars /\ Bounded

KilledAndStarted == Restart /\ RestartInvites /\ Bounded

Handlers == Starts \/ Verifies \/ TakesInvites

AllNext == AskOne \/ PeerGoesOn \/ InviterStep \/ SyncOnce \/ Handlers \/ KilledAndStarted

AllSpec == AllInit /\ [][AllNext]_allVars

\* The loop polls, and asyncio resumes what waits at an await that is over.
FairSpec == AllSpec /\ WF_allVars(SyncOnce) /\ WF_allVars(Handlers)
=============================================================================
