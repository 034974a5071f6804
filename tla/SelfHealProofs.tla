--------------------------- MODULE SelfHealProofs ---------------------------
(***************************************************************************)
(* Theorems of SelfHeal: the state stays well-formed, and history is lost  *)
(* by the named mishaps only, however often tokens are revoked, requests   *)
(* fail and the process crashes.                                           *)
(***************************************************************************)
EXTENDS SelfHeal, TLAPS

\* The store at the steps that work on it.
Shape ==
    /\ pc = "exporting" => store # NoFile
    /\ pc \in {"import", "up"} => store # NoFile /\ store.key = dev

SInv == TypeOK /\ Shape

(***************************************************************************)
(* Counting on by one.                                                     *)
(***************************************************************************)
LEMMA UpTo ==
    ASSUME NEW n \in Nat
    PROVE  /\ 0 \in 0..n /\ n \in 0..n
           /\ n + 1 \in Nat
           /\ \A k \in 0..n : k \in 0..(n + 1) /\ (k < n => k + 1 \in 0..n)
           /\ n + 1 \in 0..(n + 1)
OBVIOUS

LEMMA InitSInv == Init => SInv
<1> SUFFICES ASSUME Init PROVE SInv
  OBVIOUS
<1>1. devices \in Nat /\ env = devices /\ envLive \in BOOLEAN
  BY DEF Init
<1>2. 0 \in 0..devices /\ env \in 0..devices
  BY <1>1, UpTo
<1>3. 0 \in 0..MaxTurns /\ 0 \in 0..MaxFlakes /\ 0 \in 0..MaxCrashes
  BY SelfHealBounds, UpTo
<1> QED
  BY <1>1, <1>2, <1>3 DEF Init, SInv, TypeOK, Shape

LEMMA StepSInv == SInv /\ [Next]_vars => SInv'
<1> SUFFICES ASSUME SInv, [Next]_vars PROVE SInv'
  OBVIOUS
<1>a. devices \in Nat /\ MaxTurns \in Nat /\ MaxFlakes \in Nat /\ MaxCrashes \in Nat
  BY SelfHealBounds DEF SInv, TypeOK
<1>b. /\ 0 \in 0..devices /\ devices + 1 \in Nat /\ devices + 1 \in 0..(devices + 1)
      /\ \A k \in 0..devices : k \in 0..(devices + 1)
  BY <1>a, UpTo
<1>c. /\ \A k \in 0..MaxTurns : k < MaxTurns => k + 1 \in 0..MaxTurns
      /\ \A k \in 0..MaxFlakes : k < MaxFlakes => k + 1 \in 0..MaxFlakes
      /\ \A k \in 0..MaxCrashes : k < MaxCrashes => k + 1 \in 0..MaxCrashes
  BY <1>a, UpTo
<1>d. \A f \in [key : 0..devices, sessions : SUBSET Sessions] : f # NoFile
  BY <1>a, SelfHealBounds
<1>26. CASE UNCHANGED vars
  BY <1>26 DEF SInv, TypeOK, Shape, vars, files, keys, outside, boot, tally
<1> USE <1>b, <1>c, <1>d, SelfHealBounds DEF SInv, TypeOK, Shape, Goto, Flake, Steady, Exit,
      vars, files, keys, outside, boot, tally, Mishaps
<1>1. CASE Boot
  BY <1>1 DEF Boot
<1>2. CASE AskEnv
  BY <1>2 DEF AskEnv, Whoami
<1>3. CASE AskCached
  BY <1>3 DEF AskCached, Whoami
<1>4. CASE LoginCached
  BY <1>4 DEF LoginCached, LoginAs
<1>5. CASE LoginFresh
  BY <1>5 DEF LoginFresh, LoginAs
<1>6. CASE LoginFails
  BY <1>6 DEF LoginFails
<1>7. CASE WriteToken
  BY <1>7 DEF WriteToken
<1>8. CASE WriteDevice
  BY <1>8 DEF WriteDevice
<1>9. CASE Check
  BY <1>9 DEF Check
<1>10. CASE ExportNothing
  BY <1>10 DEF ExportNothing
<1>11. CASE ExportRaises
  BY <1>11 DEF ExportRaises
<1>12. CASE ExportOpens
  BY <1>12 DEF ExportOpens
<1>13. CASE ExportWrites
  BY <1>13 DEF ExportWrites
<1>14. CASE Wipe
  BY <1>14 DEF Wipe
<1>15. CASE Open
  <2>1. [key |-> dev, sessions |-> IF store = NoFile THEN {} ELSE store.sessions]
            \in [key : 0..devices, sessions : SUBSET Sessions]
    OBVIOUS
  <2> QED
    BY <1>15, <2>1 DEF Open
<1>16. CASE OpenRaises
  BY <1>16 DEF OpenRaises
<1>17. CASE OpenAsNobody
  BY <1>17 DEF OpenAsNobody
<1>18. CASE \E s \in Sessions : Import(s)
  <2>1. PICK s \in Sessions : Import(s)
    BY <1>18
  <2>2. store \in [key : 0..devices, sessions : SUBSET Sessions] /\ store.key = dev
    BY <2>1 DEF Import
  <2>3. [store EXCEPT !.sessions = @ \cup {s}]
            = [key |-> store.key, sessions |-> store.sessions \cup {s}]
    BY ONLY <2>2
  <2>4. store'.key = dev /\ store' \in [key : 0..devices, sessions : SUBSET Sessions]
    BY <2>1, <2>2, <2>3 DEF Import
  <2>5. store' # NoFile
    BY <2>4
  <2> QED
    BY <2>1, <2>4, <2>5 DEF Import
<1>19. CASE ImportDone
  BY <1>19 DEF ImportDone
<1>20. CASE ImportRaises
  BY <1>20 DEF ImportRaises
<1>21. CASE \E s \in Sessions : Receive(s)
  <2>1. PICK s \in Sessions : Receive(s)
    BY <1>21
  <2>2. store \in [key : 0..devices, sessions : SUBSET Sessions] /\ store.key = dev
    BY <2>1 DEF Receive
  <2>3. [store EXCEPT !.sessions = @ \cup {s}]
            = [key |-> store.key, sessions |-> store.sessions \cup {s}]
    BY ONLY <2>2
  <2>4. store'.key = dev /\ store' \in [key : 0..devices, sessions : SUBSET Sessions]
    BY <2>1, <2>2, <2>3 DEF Receive
  <2>5. store' # NoFile
    BY <2>4
  <2> QED
    BY <2>1, <2>4, <2>5 DEF Receive
<1>22. CASE Stop
  BY <1>22 DEF Stop
<1>23. CASE Crash
  BY <1>23 DEF Crash
<1>24. CASE \E d \in 1..devices : Revoke(d)
  BY <1>24 DEF Revoke, Turn
<1>25. CASE NewEnv
  BY <1>25 DEF NewEnv, Turn
<1> QED
  BY <1>1, <1>2, <1>3, <1>4, <1>5, <1>6, <1>7, <1>8, <1>9, <1>10, <1>11, <1>12,
     <1>13, <1>14, <1>15, <1>16, <1>17, <1>18, <1>19, <1>20, <1>21, <1>22,
     <1>23, <1>24, <1>25, <1>26 DEF Next, BootStep

(***************************************************************************)
(* The volume and the startup stay well-formed: no device is named that    *)
(* the server did not hand out, in no file and at no step.                 *)
(***************************************************************************)
THEOREM TypeCorrect == Spec => []TypeOK
<1>1. SInv => TypeOK
  BY DEF SInv
<1> QED
  BY <1>1, InitSInv, StepSInv, PTL DEF Spec

-----------------------------------------------------------------------------
(***************************************************************************)
(* What of the history is where.  But for the import under way, the store  *)
(* has all that the escrow has; before a wipe the escrow has all that the  *)
(* store has, unless there was no cached device id to read the store with. *)
(***************************************************************************)
HistoryInv ==
    NoLoss =>
        /\ received \subseteq Kept
        /\ store # NoFile /\ pc # "import" => Escrowed \subseteq store.sessions
        /\ pc = "wipe" /\ store # NoFile /\ cached # 0 => store.sessions \subseteq Escrowed

LEMMA InitHistory == Init => HistoryInv
BY DEF Init, HistoryInv, NoLoss, Kept

LEMMA StepHistory == SInv /\ HistoryInv /\ [Next]_vars => HistoryInv'
<1> SUFFICES ASSUME SInv, HistoryInv, [Next]_vars PROVE HistoryInv'
  OBVIOUS
<1>a. /\ NoFile # Torn /\ \A S \in SUBSET Sessions : S \notin {NoFile, Torn}
      /\ NoFile \notin [key : Nat, sessions : SUBSET Sessions]
  BY SelfHealBounds
<1>b. /\ store = NoFile \/ store \in [key : 0..devices, sessions : SUBSET Sessions]
      /\ escrow \in {NoFile, Torn} \/ escrow \in SUBSET Sessions
      /\ pc = "exporting" => store # NoFile
      /\ pc \in {"import", "up"} => store # NoFile
  BY DEF SInv, TypeOK, Shape
<1>c. dev \in Nat /\ devices \in Nat
  BY DEF SInv, TypeOK
<1> USE <1>a, <1>b DEF HistoryInv, NoLoss, Kept, Escrowed, Goto, Flake, Steady, Exit,
      vars, files, keys, outside, boot, tally
<1>1. CASE Boot
  BY <1>1 DEF Boot
<1>2. CASE AskEnv
  BY <1>2 DEF AskEnv, Whoami
<1>3. CASE AskCached
  BY <1>3 DEF AskCached, Whoami
<1>4. CASE LoginCached
  BY <1>4 DEF LoginCached, LoginAs
<1>5. CASE LoginFresh
  BY <1>5 DEF LoginFresh, LoginAs
<1>6. CASE LoginFails
  BY <1>6 DEF LoginFails
<1>7. CASE WriteToken
  BY <1>7 DEF WriteToken
<1>8. CASE WriteDevice
  BY <1>8 DEF WriteDevice
<1>9. CASE Check
  BY <1>9 DEF Check
<1>10. CASE ExportNothing
  BY <1>10 DEF ExportNothing
<1>11. CASE ExportRaises
  BY <1>11 DEF ExportRaises
<1>12. CASE ExportOpens
  BY <1>12 DEF ExportOpens
<1>13. CASE ExportWrites
  BY <1>13 DEF ExportWrites
<1>14. CASE Wipe
  BY <1>14 DEF Wipe
<1>15. CASE Open
  <2>1. store'.sessions = IF store = NoFile THEN {} ELSE store.sessions
    BY <1>15 DEF Open
  <2>2. store' \in [key : Nat, sessions : SUBSET Sessions]
    BY <1>15, <1>c DEF Open
  <2>3. store' # NoFile
    BY <2>2, <1>a
  <2> QED
    BY <1>15, <2>1, <2>3 DEF Open
<1>16. CASE OpenRaises
  BY <1>16 DEF OpenRaises
<1>17. CASE OpenAsNobody
  BY <1>17 DEF OpenAsNobody
<1>18. CASE \E s \in Sessions : Import(s)
  <2>1. PICK s \in Sessions : Import(s)
    BY <1>18
  <2>2. store \in [key : 0..devices, sessions : SUBSET Sessions]
    BY <2>1, <1>b DEF Import
  <2>3. [store EXCEPT !.sessions = @ \cup {s}]
            = [key |-> store.key, sessions |-> store.sessions \cup {s}]
    BY ONLY <2>2
  <2>4. store'.sessions = store.sessions \cup {s}
    BY <2>1, <2>3 DEF Import
  <2>5. store' \in [key : Nat, sessions : SUBSET Sessions]
    <3>1. store.key \in Nat /\ store.sessions \cup {s} \in SUBSET Sessions
      BY ONLY <2>1, <2>2, <1>c
    <3>2. store' = [key |-> store.key, sessions |-> store.sessions \cup {s}]
      BY <2>1, <2>3 DEF Import
    <3> QED
      BY ONLY <3>1, <3>2
  <2>6. store' # NoFile
    BY <2>5, <1>a
  <2> QED
    BY <2>1, <2>4, <2>6 DEF Import
<1>19. CASE ImportDone
  BY <1>19 DEF ImportDone
<1>20. CASE ImportRaises
  BY <1>20 DEF ImportRaises
<1>21. CASE \E s \in Sessions : Receive(s)
  <2>1. PICK s \in Sessions : Receive(s)
    BY <1>21
  <2>2. store \in [key : 0..devices, sessions : SUBSET Sessions]
    BY <2>1, <1>b DEF Receive
  <2>3. [store EXCEPT !.sessions = @ \cup {s}]
            = [key |-> store.key, sessions |-> store.sessions \cup {s}]
    BY ONLY <2>2
  <2>4. store'.sessions = store.sessions \cup {s}
    BY <2>1, <2>3 DEF Receive
  <2>5. store' \in [key : Nat, sessions : SUBSET Sessions]
    <3>1. store.key \in Nat /\ store.sessions \cup {s} \in SUBSET Sessions
      BY ONLY <2>1, <2>2, <1>c
    <3>2. store' = [key |-> store.key, sessions |-> store.sessions \cup {s}]
      BY <2>1, <2>3 DEF Receive
    <3> QED
      BY ONLY <3>1, <3>2
  <2>6. store' # NoFile
    BY <2>5, <1>a
  <2> QED
    BY <2>1, <2>4, <2>6 DEF Receive
<1>22. CASE Stop
  BY <1>22 DEF Stop
<1>23. CASE Crash
  BY <1>23 DEF Crash
<1>24. CASE \E d \in 1..devices : Revoke(d)
  BY <1>24 DEF Revoke, Turn
<1>25. CASE NewEnv
  BY <1>25 DEF NewEnv, Turn
<1>26. CASE UNCHANGED vars
  BY <1>26
<1> QED
  BY <1>1, <1>2, <1>3, <1>4, <1>5, <1>6, <1>7, <1>8, <1>9, <1>10, <1>11, <1>12,
     <1>13, <1>14, <1>15, <1>16, <1>17, <1>18, <1>19, <1>20, <1>21, <1>22,
     <1>23, <1>24, <1>25, <1>26 DEF Next, BootStep

LEMMA HistoryAlways == Spec => [](SInv /\ HistoryInv)
BY InitSInv, StepSInv, InitHistory, StepHistory, PTL DEF Spec

(***************************************************************************)
(* A session once received is in the store or in the escrow, unless one of *)
(* the three mishaps has happened that the code does not provide for.      *)
(***************************************************************************)
THEOREM HistoryKeptAlways == Spec => []HistoryKeptUnlessMishap
<1>1. HistoryInv => HistoryKeptUnlessMishap
  BY DEF HistoryInv, HistoryKeptUnlessMishap
<1> QED
  BY <1>1, HistoryAlways, PTL

(***************************************************************************)
(* Whenever the bot runs, with its own key, it has the whole history.      *)
(***************************************************************************)
THEOREM UpMeansWholeAlways == Spec => []UpMeansWhole
<1>1. SInv /\ HistoryInv => UpMeansWhole
  BY DEF SInv, Shape, HistoryInv, UpMeansWhole, Kept
<1> QED
  BY <1>1, HistoryAlways, PTL
=============================================================================
