------------------------------ MODULE MainLoop ------------------------------
(***************************************************************************)
(* sync_loop: a /sync, the scan of the lobbies, and then the admin         *)
(* commands, cycle after cycle in one process.  A scan that raises is      *)
(* given up and the cycle goes on; a reply that cannot be sent, or a knock *)
(* or vetting room that raises, ends the process.  (Vetting has the knocks *)
(* and the vetting rooms of the same cycle.)                               *)
(***************************************************************************)
EXTENDS Announce, Commands

CONSTANT MaxLoad     \* bound: what Load counts

ASSUME LoopBounds == MaxLoad \in Nat

VARIABLE stage       \* where in its cycle the loop is

announceVars == vars
loopVars     == <<announceVars, cmdVars, stage>>

LoopTypeOK == TypeOK /\ CommandsTypeOK /\ stage \in {"sync", "scan", "drain"}

LoopInit == Init /\ CommandsInit /\ stage = "sync"

\* Two rooms; or one room and a command or a deleted file; or commands with
\* what may go wrong.
Load ==
    (IF minted = {} THEN 0 ELSE 1 + Cardinality(minted)) + wipes
        + Cardinality({n \in Sent : chat[n] # Bot}) + Cardinality(leaders) + misses

Bounded == Load' <= MaxLoad \/ Load' = Load

-----------------------------------------------------------------------------
OthersMove ==
    /\ \/ (LobbyMoves \/ Wipe) /\ UNCHANGED cmdVars
       \/ (\E p \in People : Command(p) \/ Raise(p) \/ Lower(p)) /\ UNCHANGED announceVars
    /\ UNCHANGED stage /\ Bounded

Fetches ==
    /\ stage = "sync" /\ Fetch
    /\ stage' = "scan" /\ UNCHANGED announceVars /\ Bounded

\* A scan of no lobbies does nothing.
Scans ==
    /\ stage = "scan" /\ UNCHANGED cmdVars
    /\ \/ Begin /\ UNCHANGED stage
       \/ (\E r \in Rooms : TellFailure(r) \/ \E u \in Users : TellStart(r, u)) /\ UNCHANGED stage
       \/ (Seed \/ Finish) /\ stage' = "drain"
       \/ ~scanning /\ book = Blank /\ stage' = "drain" /\ UNCHANGED announceVars

ScanRaises == stage = "scan" /\ GiveUp /\ stage' = "drain" /\ UNCHANGED cmdVars

Drains ==
    /\ stage = "drain" /\ UNCHANGED announceVars
    /\ \/ Drain /\ UNCHANGED stage /\ Bounded
       \/ queue = {} /\ hand = Free /\ stage' = "sync" /\ UNCHANGED cmdVars

Dies == Abandon /\ Dead /\ stage' = "sync" /\ Bounded

LoopStep == Fetches \/ Scans \/ Drains

LoopNext == OthersMove \/ LoopStep \/ ScanRaises \/ Dies

LoopSpec == LoopInit /\ [][LoopNext]_loopVars

\* /sync returns every 30 seconds and what the loop awaits returns or raises.
LoopFairSpec == LoopSpec /\ WF_loopVars(LoopStep)

-----------------------------------------------------------------------------
(***************************************************************************)
(* Whatever the scans before it do, the commands that were fetched do not  *)
(* wait for ever.  (NoneForgotten says where they went.)                   *)
(***************************************************************************)
CommandsAreDone == queue \cup InHand # {} ~> queue \cup InHand = {}
=============================================================================
