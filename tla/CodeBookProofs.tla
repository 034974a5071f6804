--------------------------- MODULE CodeBookProofs ---------------------------
(***************************************************************************)
(* What CodeBook guarantees for every set of codes, any number of requests *)
(* and any bound on the uses, proved from the assumptions of CodeBook.     *)
(***************************************************************************)
EXTENDS CodeBook, FiniteSetTheorems, TLAPS

USE DEF Workers, Issue, Entry, File, Handler, Suspended, Nobody

\* A live code has a positive number of uses, so one can be taken from it.
LEMMA LiveUses ==
    ASSUME NEW f \in File, NEW c \in Codes, Live(f, c)
    PROVE  f[c] \in 1..MaxUses
  BY NamesAssumption, BoundsAssumption DEF Live

\* What a copy promises on a code is a natural number.
LEMMA LeftType ==
    ASSUME NEW f \in File, NEW c \in Codes
    PROVE  Left(f, c) \in Nat
  BY NamesAssumption, BoundsAssumption DEF Left

\* The requests that take effect though the process dies are finitely many.
LEMMA TookCounts ==
    ASSUME Suspended \subseteq Workers, NEW took \in SUBSET Suspended, NEW c \in Codes
    PROVE  /\ Cardinality({w \in took : flight[w].code = c}) \in Nat
           /\ (\A w \in took : flight[w].code # c)
                => Cardinality({w \in took : flight[w].code = c}) = 0
  <1> DEFINE T == {w \in took : flight[w].code = c}
  <1>1. IsFiniteSet(Requests \cup {MainLoop})
    BY NamesAssumption, FS_AddElement
  <1>2. T \subseteq Requests \cup {MainLoop}
    OBVIOUS
  <1>3. IsFiniteSet(T)
    BY <1>1, <1>2, FS_Subset
  <1>4. Cardinality(T) \in Nat
    BY <1>3, FS_CardinalityType
  <1>5. ASSUME \A w \in took : flight[w].code # c PROVE Cardinality(T) = 0
    <2>1. T = {}
      BY <1>5
    <2>2. QED BY <2>1, FS_EmptySet
  <1>6. QED BY <1>4, <1>5

\* merge_seed yields a code file, keeps every entry it found there, and so
\* never lowers what the file promises.
LEMMA MergedKeeps ==
    ASSUME NEW f \in File, NEW seed \in Seeds
    PROVE  /\ Merged(f, seed) \in File
           /\ \A c \in Codes : f[c] # Absent => Merged(f, seed)[c] = f[c]
           /\ \A c \in Codes : Left(Merged(f, seed), c) >= Left(f, c)
  <1>1. seed \in [Codes -> 1..MaxUses \cup {Absent}]
    BY SeedAssumption
  <1>2. Merged(f, seed) \in File
    BY <1>1, BoundsAssumption DEF Merged
  <1>3. \A c \in Codes : f[c] # Absent => Merged(f, seed)[c] = f[c]
    BY DEF Merged
  <1>4. ASSUME NEW c \in Codes PROVE Left(Merged(f, seed), c) >= Left(f, c)
    <2>1. CASE f[c] = Absent
      BY <1>2, <2>1, LeftType DEF Left
    <2>2. CASE f[c] # Absent
      BY <1>3, <2>2, LeftType DEF Left
    <2>3. QED BY <2>1, <2>2
  <1>5. QED BY <1>2, <1>3, <1>4

-----------------------------------------------------------------------------
(***************************************************************************)
(* The strengthening the type invariant needs: a suspended handler holds a *)
(* copy in which its code is live, or the decrement would leave Entry.     *)
(***************************************************************************)
HoldsLive == \A w \in Suspended : Live(flight[w].snap, flight[w].code)

TInv == TypeOK /\ HoldsLive

\* Writing back a live copy with one use less yields a code file.
LEMMA SpentType ==
    ASSUME TypeOK, HoldsLive, NEW w \in Suspended
    PROVE  /\ Spent(flight[w]) \in File
           /\ flight[w].code \in Codes
           /\ flight[w].snap \in File
           /\ flight[w].snap[flight[w].code] \in 1..MaxUses
           /\ Spent(flight[w])[flight[w].code] = flight[w].snap[flight[w].code] - 1
           /\ \A c \in Codes \ {flight[w].code} :
                 Spent(flight[w])[c] = flight[w].snap[c]
  <1>1. flight[w].code \in Codes /\ flight[w].snap \in File
    BY DEF TypeOK
  <1>2. flight[w].snap[flight[w].code] \in 1..MaxUses
    BY <1>1, LiveUses DEF HoldsLive
  <1>3. QED
    BY <1>1, <1>2, BoundsAssumption DEF Spent

\* The start state: nobody is suspended and the file is a seed.
LEMMA InitTInv == Init => TInv
  <1> SUFFICES ASSUME Init PROVE TInv
    OBVIOUS
  <1>1. file \in File
    BY SeedAssumption DEF Init
  <1>2. issued \in [Codes -> Nat]
    BY <1>1, LeftType DEF Init
  <1>3. QED
    BY <1>1, <1>2 DEF Init, TInv, TypeOK, HoldsLive

\* The six shapes of a step that all the actions have.
LEMMA StepShapes ==
    ASSUME TypeOK, [Next]_vars
    PROVE  \/ \E w \in Workers, c \in Codes : Validate(w, c)
           \/ \E w \in Workers : Spend(w) \/ Refused(w) \/ Unanswered(w)
           \/ \E S \in SUBSET Codes, u \in 1..MaxUses :
                 (\A c \in S : Fresh(c)) /\ Give(S, u)
           \/ \E c \in Codes : Revoke(c)
           \/ \E seed \in Seeds, took \in SUBSET Suspended : Restart(seed, took)
           \/ UNCHANGED vars
  <1>1. ASSUME NEW c \in Codes, MintWelcome(c)
        PROVE  \E S \in SUBSET Codes, u \in 1..MaxUses :
                  (\A d \in S : Fresh(d)) /\ Give(S, u)
    <2>1. WelcomeUses \in 1..MaxUses
      BY <1>1, BoundsAssumption DEF MintWelcome
    <2>2. {c} \in SUBSET Codes /\ (\A d \in {c} : Fresh(d)) /\ Give({c}, WelcomeUses)
      BY <1>1 DEF MintWelcome
    <2>3. QED BY <2>1, <2>2
  <1>2. QED
    BY <1>1 DEF Next, JoinValidate, JoinSpend, JoinFail, KnockValidate, KnockSpend,
       KnockFail, SignupValidate, SignupSpend, SignupFail, Fail, Mint

\* Every step keeps the types and the liveness of the copies held.
LEMMA StepTInv == TInv /\ [Next]_vars => TInv'
  <1> SUFFICES ASSUME TInv, [Next]_vars PROVE TInv'
    OBVIOUS
  <1> USE DEF TInv
  <1>1. ASSUME NEW w \in Workers, NEW c \in Codes, Validate(w, c)
        PROVE  TInv'
    <2>1. TypeOK'
      BY <1>1 DEF Validate, TypeOK
    <2>2. HoldsLive'
      BY <1>1 DEF Validate, HoldsLive, Live
    <2>3. QED BY <2>1, <2>2
  <1>2. ASSUME NEW w \in Workers, Spend(w)
        PROVE  TInv'
    <2>1. file' \in File
      BY <1>2, SpentType DEF Spend
    <2>2. granted' \in [Codes -> Nat]
      BY <1>2, SpentType DEF Spend, TypeOK
    <2>3. TypeOK'
      BY <1>2, <2>1, <2>2 DEF Spend, Resume, TypeOK
    <2>4. HoldsLive'
      BY <1>2 DEF Spend, Resume, HoldsLive, Live
    <2>5. QED BY <2>3, <2>4
  <1>3. ASSUME NEW w \in Workers, Refused(w)
        PROVE  TInv'
    BY <1>3 DEF Refused, Resume, TypeOK, HoldsLive, Live
  <1>9. ASSUME NEW w \in Workers, Unanswered(w)
        PROVE  TInv'
    <2>1. flight[w].code \in Codes
      BY <1>9, SpentType DEF Unanswered
    <2>2. granted' \in [Codes -> Nat] /\ unpaid' \in [Codes -> Nat]
      BY <1>9, <2>1 DEF Unanswered, TypeOK
    <2>3. TypeOK'
      BY <1>9, <2>2 DEF Unanswered, Resume, TypeOK
    <2>4. HoldsLive'
      BY <1>9 DEF Unanswered, Resume, HoldsLive, Live
    <2>5. QED BY <2>3, <2>4
  <1>4. ASSUME NEW S \in SUBSET Codes, NEW u \in 1..MaxUses, Give(S, u)
        PROVE  TInv'
    BY <1>4, BoundsAssumption DEF Give, TypeOK, HoldsLive, Live
  <1>5. ASSUME NEW c \in Codes, Revoke(c)
        PROVE  TInv'
    <2>1. file[c] \in Nat
      BY <1>5, BoundsAssumption DEF Revoke, TypeOK
    <2>2. TypeOK'
      BY <1>5, <2>1, BoundsAssumption DEF Revoke, TypeOK
    <2>3. HoldsLive'
      BY <1>5 DEF Revoke, HoldsLive, Live
    <2>4. QED BY <2>2, <2>3
  <1>6. ASSUME NEW seed \in Seeds, NEW took \in SUBSET Suspended, Restart(seed, took)
        PROVE  TInv'
    <2>1. file \in File /\ file' \in File /\ file' = Merged(file, seed)
      BY <1>6, MergedKeeps DEF Restart, TypeOK
    <2>2. \A c \in Codes : Left(file', c) - Left(file, c) \in Nat
      BY <2>1, MergedKeeps, LeftType
    <2>3. issued' \in [Codes -> Nat]
      <3>1. ASSUME NEW c \in Codes
            PROVE  issued[c] + Left(file', c) - Left(file, c) \in Nat
        BY <2>1, <2>2, LeftType DEF TypeOK
      <3>2. QED BY <1>6, <3>1 DEF Restart
    <2>4. granted' \in [Codes -> Nat] /\ unpaid' \in [Codes -> Nat]
      <3>1. Suspended \subseteq Workers
        BY DEF TypeOK
      <3>2. \A c \in Codes : Cardinality({w \in took : flight[w].code = c}) \in Nat
        BY <3>1, TookCounts
      <3> DEFINE T(c) == Cardinality({w \in took : flight[w].code = c})
      <3>3. /\ granted' = [c \in Codes |-> granted[c] + T(c)]
            /\ unpaid' = [c \in Codes |-> unpaid[c] + T(c)]
        BY <1>6 DEF Restart
      <3>4. \A c \in Codes : T(c) \in Nat
        BY <3>2
      <3> HIDE DEF T
      <3>5. QED BY <3>3, <3>4 DEF TypeOK
    <2>5. QED
      BY <1>6, <2>1, <2>3, <2>4 DEF Restart, TypeOK, HoldsLive
  <1>7. CASE UNCHANGED vars
    BY <1>7 DEF vars, TypeOK, HoldsLive, Live
  <1>8. QED
    BY <1>1, <1>2, <1>3, <1>4, <1>5, <1>6, <1>7, <1>9, StepShapes

LEMMA TInvAlways == Spec => []TInv
  BY InitTInv, StepTInv, PTL DEF Spec

(***************************************************************************)
(* Every file ever written, and every copy ever held, is a code file.      *)
(***************************************************************************)
THEOREM TypeCorrect == Spec => []TypeOK
  <1>1. TInv => TypeOK
    BY DEF TInv
  <1>2. QED BY <1>1, TInvAlways, PTL

-----------------------------------------------------------------------------
\* The part of CopiesWithinIssue that speaks of the copies' values, spelt out
\* for the file and for one suspended handler at a time.
FileWithin == \A c \in Codes : file[c] # Absent => 0 <= file[c] /\ file[c] <= issued[c]

SnapsWithin ==
    \A w \in Suspended, c \in Codes :
        flight[w].snap[c] # Absent =>
            0 <= flight[w].snap[c] /\ flight[w].snap[c] <= issued[c]

Within == FileWithin /\ SnapsWithin

LEMMA InitWithin == Init => Within
  <1> SUFFICES ASSUME Init PROVE Within
    OBVIOUS
  <1>1. file \in File
    BY SeedAssumption DEF Init
  <1>2. QED
    BY <1>1, BoundsAssumption DEF Init, Within, FileWithin, SnapsWithin, Left

\* Writing a copy back, giving uses, revoking and merging a seed all keep
\* every copy within what was issued.
LEMMA StepWithin == TInv /\ Within /\ [Next]_vars => Within'
  <1> SUFFICES ASSUME TInv, Within, [Next]_vars PROVE Within'
    OBVIOUS
  <1> USE DEF TInv, Within
  <1>1. ASSUME NEW w \in Workers, NEW c \in Codes, Validate(w, c)
        PROVE  Within'
    BY <1>1 DEF Validate, FileWithin, SnapsWithin
  <1>2. ASSUME NEW w \in Workers, Spend(w)
        PROVE  Within'
    <2>1. ASSUME NEW c \in Codes, file'[c] # Absent
          PROVE  0 <= file'[c] /\ file'[c] <= issued[c]
      <3>1. w \in Suspended /\ file' = Spent(flight[w])
        BY <1>2 DEF Spend
      <3>2. CASE c = flight[w].code
        BY <3>1, <3>2, SpentType, NamesAssumption, BoundsAssumption
           DEF SnapsWithin, TypeOK
      <3>3. CASE c # flight[w].code
        BY <2>1, <3>1, <3>3, SpentType DEF SnapsWithin
      <3>4. QED BY <3>2, <3>3
    <2>2. QED
      BY <1>2, <2>1 DEF Spend, Resume, FileWithin, SnapsWithin
  <1>3. ASSUME NEW w \in Workers, Refused(w) \/ Unanswered(w)
        PROVE  Within'
    BY <1>3 DEF Refused, Unanswered, Resume, FileWithin, SnapsWithin
  <1>4. ASSUME NEW S \in SUBSET Codes, NEW u \in 1..MaxUses, Give(S, u)
        PROVE  Within'
    <2>1. \A c \in Codes : issued'[c] \in Nat /\ issued[c] \in Nat
                           /\ issued'[c] >= issued[c]
      BY <1>4, BoundsAssumption DEF Give, TypeOK
    <2>2. \A c \in S : file'[c] = u /\ issued'[c] >= u
      BY <1>4, BoundsAssumption DEF Give, TypeOK
    <2>3. FileWithin'
      BY <1>4, <2>1, <2>2, BoundsAssumption DEF Give, FileWithin, TypeOK
    <2>4. SnapsWithin'
      <3>1. ASSUME NEW w \in Suspended, NEW c \in Codes, flight[w].snap[c] # Absent
            PROVE  0 <= flight[w].snap[c] /\ flight[w].snap[c] <= issued'[c]
        <4>1. flight[w].snap[c] \in Nat
          BY <3>1, BoundsAssumption DEF TypeOK
        <4>2. QED BY <2>1, <3>1, <4>1 DEF SnapsWithin
      <3>2. QED BY <1>4, <3>1 DEF Give, SnapsWithin
    <2>5. QED BY <2>3, <2>4
  <1>5. ASSUME NEW c \in Codes, Revoke(c)
        PROVE  Within'
    BY <1>5 DEF Revoke, FileWithin, SnapsWithin, TypeOK
  <1>6. ASSUME NEW seed \in Seeds, NEW took \in SUBSET Suspended, Restart(seed, took)
        PROVE  Within'
    <2>1. file \in File /\ file' \in File /\ file' = Merged(file, seed)
      BY <1>6, MergedKeeps DEF Restart, TypeOK
    <2>2. ASSUME NEW c \in Codes, file'[c] # Absent
          PROVE  0 <= file'[c] /\ file'[c] <= issued'[c]
      <3>1. issued'[c] = issued[c] + Left(file', c) - Left(file, c)
        BY <1>6 DEF Restart
      <3>2. CASE file[c] = Absent
        BY <2>1, <2>2, <3>1, <3>2, LeftType DEF Left, TypeOK
      <3>3. CASE file[c] # Absent
        <4>1. file'[c] = file[c]
          BY <2>1, <3>3, MergedKeeps
        <4>2. issued'[c] = issued[c]
          BY <2>1, <3>1, <3>3, <4>1, LeftType DEF Left, TypeOK
        <4>3. QED BY <3>3, <4>1, <4>2 DEF FileWithin
      <3>4. QED BY <3>2, <3>3
    <2>3. QED
      BY <1>6, <2>2 DEF Restart, FileWithin, SnapsWithin
  <1>7. CASE UNCHANGED vars
    BY <1>7 DEF vars, FileWithin, SnapsWithin
  <1>8. QED
    BY <1>1, <1>2, <1>3, <1>4, <1>5, <1>6, <1>7, StepShapes

(***************************************************************************)
(* No interleaving of handlers, admin commands and restarts writes a       *)
(* negative uses_remaining or a copy that promises more than was issued.   *)
(***************************************************************************)
THEOREM CopiesSound == Spec => []CopiesWithinIssue
  <1>1. TInv /\ Within => CopiesWithinIssue
    BY DEF TInv, Within, FileWithin, SnapsWithin, HoldsLive, CopiesWithinIssue, Copies
  <1>2. Spec => []Within
    BY InitWithin, StepWithin, TInvAlways, PTL DEF Spec
  <1>3. QED BY <1>1, <1>2, TInvAlways, PTL

-----------------------------------------------------------------------------
LEMMA InitConserved == Init => UsesConserved
  <1> SUFFICES ASSUME Init PROVE UsesConserved
    OBVIOUS
  <1>1. file \in File
    BY SeedAssumption DEF Init
  <1>2. QED
    BY <1>1, LeftType DEF Init, UsesConserved

\* A write-back of a copy that still is the file takes one use and grants one;
\* a write-back of any other copy sets clobbered.  Whatever else grants adds the
\* same number to unpaid.
LEMMA StepConserved == TInv /\ UsesConserved /\ [Next]_vars => UsesConserved'
  <1> SUFFICES ASSUME TInv, UsesConserved, [Next]_vars, ~clobbered',
                      NEW c \in Codes
               PROVE  issued'[c] + unpaid'[c]
                         = granted'[c] + voided'[c] + Left(file', c)
    BY DEF UsesConserved
  <1> USE DEF TInv
  <1>1. /\ file \in File /\ issued \in [Codes -> Nat]
        /\ granted \in [Codes -> Nat] /\ voided \in [Codes -> Nat]
        /\ unpaid \in [Codes -> Nat]
        /\ Left(file, c) \in Nat
    BY LeftType DEF TypeOK
  <1>2. ASSUME ~clobbered
        PROVE  issued[c] + unpaid[c] = granted[c] + voided[c] + Left(file, c)
    BY <1>2 DEF UsesConserved
  <1>3. ASSUME NEW w \in Workers, Spend(w)
        PROVE  issued'[c] + unpaid'[c] = granted'[c] + voided'[c] + Left(file', c)
    <2>1. w \in Suspended /\ flight[w].snap = file /\ ~clobbered /\ file' = Spent(flight[w])
      BY <1>3 DEF Spend
    <2>2. issued[c] + unpaid[c] = granted[c] + voided[c] + Left(file, c)
      BY <2>1, <1>2
    <2>3. issued' = issued /\ voided' = voided /\ unpaid' = unpaid
      BY <1>3 DEF Spend
    <2>4. CASE c = flight[w].code
      <3>1. file[c] \in 1..MaxUses /\ file'[c] = file[c] - 1
        BY <2>1, <2>4, SpentType
      <3>2. Left(file, c) = file[c] /\ Left(file', c) = file[c] - 1
        BY <3>1, NamesAssumption, BoundsAssumption DEF Left
      <3>3. granted'[c] = granted[c] + 1
        BY <1>1, <1>3, <2>4 DEF Spend
      <3>4. QED BY <1>1, <2>2, <2>3, <3>1, <3>2, <3>3
    <2>5. CASE c # flight[w].code
      <3>1. file'[c] = file[c]
        BY <2>1, <2>5, SpentType
      <3>2. granted'[c] = granted[c]
        BY <1>1, <1>3, <2>5 DEF Spend
      <3>3. QED BY <2>2, <2>3, <3>1, <3>2 DEF Left
    <2>6. QED BY <2>4, <2>5
  <1>4. ASSUME NEW S \in SUBSET Codes, NEW u \in 1..MaxUses,
               \A d \in S : Fresh(d), Give(S, u)
        PROVE  issued'[c] + unpaid'[c] = granted'[c] + voided'[c] + Left(file', c)
    <2>1. /\ issued[c] + unpaid[c] = granted[c] + voided[c] + Left(file, c)
          /\ granted' = granted /\ voided' = voided /\ unpaid' = unpaid
      BY <1>2, <1>4 DEF Give
    <2>2. CASE c \in S
      <3>1. file[c] = Absent /\ file'[c] = u /\ issued'[c] = issued[c] + u
        BY <1>4, <2>2 DEF Fresh, Give
      <3>2. Left(file, c) = 0 /\ Left(file', c) = u
        BY <3>1, NamesAssumption, BoundsAssumption DEF Left
      <3>3. QED BY <1>1, <2>1, <3>1, <3>2, BoundsAssumption
    <2>3. CASE c \notin S
      BY <1>4, <2>1, <2>3 DEF Give, Left
    <2>4. QED BY <2>2, <2>3
  <1>5. ASSUME NEW d \in Codes, Revoke(d)
        PROVE  issued'[c] + unpaid'[c] = granted'[c] + voided'[c] + Left(file', c)
    <2>1. /\ issued[c] + unpaid[c] = granted[c] + voided[c] + Left(file, c)
          /\ granted' = granted /\ issued' = issued /\ unpaid' = unpaid
      BY <1>2, <1>5 DEF Revoke
    <2>2. CASE c = d
      <3>1. /\ file[c] # Absent /\ file'[c] = 0
            /\ voided'[c] = voided[c] + file[c]
        BY <1>1, <1>5, <2>2 DEF Revoke
      <3>2. Left(file, c) = file[c] /\ Left(file', c) = 0
        BY <3>1, NamesAssumption DEF Left
      <3>3. QED BY <1>1, <2>1, <3>1, <3>2
    <2>3. CASE c # d
      BY <1>1, <1>5, <2>1, <2>3 DEF Revoke, Left
    <2>4. QED BY <2>2, <2>3
  <1>6. ASSUME NEW seed \in Seeds, NEW took \in SUBSET Suspended, Restart(seed, took)
        PROVE  issued'[c] + unpaid'[c] = granted'[c] + voided'[c] + Left(file', c)
    <2>1. file' \in File /\ Left(file', c) \in Nat
      BY <1>1, <1>6, MergedKeeps, LeftType DEF Restart
    <2>2. /\ issued[c] + unpaid[c] = granted[c] + voided[c] + Left(file, c)
          /\ voided' = voided
          /\ issued'[c] = issued[c] + Left(file', c) - Left(file, c)
      BY <1>2, <1>6 DEF Restart
    <2>3. PICK n \in Nat : granted'[c] = granted[c] + n /\ unpaid'[c] = unpaid[c] + n
      <3>1. Suspended \subseteq Workers
        BY DEF TypeOK
      <3>2. Cardinality({w \in took : flight[w].code = c}) \in Nat
        BY <3>1, TookCounts
      <3>3. QED BY <1>6, <3>2 DEF Restart
    <2>4. QED BY <1>1, <2>1, <2>2, <2>3
  <1>9. ASSUME NEW w \in Workers, Unanswered(w)
        PROVE  issued'[c] + unpaid'[c] = granted'[c] + voided'[c] + Left(file', c)
    <2>1. /\ issued[c] + unpaid[c] = granted[c] + voided[c] + Left(file, c)
          /\ file' = file /\ issued' = issued /\ voided' = voided
      BY <1>2, <1>9 DEF Unanswered
    <2>2. CASE c = flight[w].code
      <3>1. granted'[c] = granted[c] + 1 /\ unpaid'[c] = unpaid[c] + 1
        BY <1>1, <1>9, <2>2 DEF Unanswered
      <3>2. QED BY <1>1, <2>1, <3>1
    <2>3. CASE c # flight[w].code
      <3>1. granted'[c] = granted[c] /\ unpaid'[c] = unpaid[c]
        BY <1>1, <1>9, <2>3 DEF Unanswered
      <3>2. QED BY <2>1, <3>1
    <2>4. QED BY <2>2, <2>3
  <1>7. CASE UNCHANGED <<file, issued, granted, unpaid, voided, clobbered>>
    BY <1>2, <1>7 DEF Left
  <1>8. QED
    BY <1>3, <1>4, <1>5, <1>6, <1>7, <1>9, StepShapes DEF Validate, Refused, vars

(***************************************************************************)
(* Until a stale copy is written back, what was issued on a code is        *)
(* granted, revoked or still in the file, but for the rooms and accounts   *)
(* whose handler heard no answer it could use or died waiting for it: a    *)
(* code's count is never wrong by anything but a stale write-back, and no  *)
(* room or account is free of charge but by a lost answer or a kill.       *)
(***************************************************************************)
THEOREM UsesConservedAlways == Spec => []UsesConserved
  BY InitConserved, StepConserved, TInvAlways, PTL DEF Spec

-----------------------------------------------------------------------------
\* One step leaves a dead code dead and grants nothing on it.
LEMMA StepDead ==
    ASSUME TInv, [Next]_vars, NEW c \in Codes, Dead(c)
    PROVE  Dead(c)' /\ granted'[c] = granted[c]
  <1> USE DEF TInv
  <1>1. file[c] = 0 /\ \A w \in Suspended : flight[w].snap[c] = 0
    BY DEF Dead, Copies
  <1> DEFINE Still == /\ file'[c] = 0
                      /\ \A w \in Suspended' : flight'[w].snap[c] = 0
                      /\ granted'[c] = granted[c]
  <1>2. SUFFICES Still
    BY DEF Dead, Copies
  <1>3. ASSUME NEW w \in Workers, NEW d \in Codes, Validate(w, d)
        PROVE  Still
    BY <1>1, <1>3 DEF Validate
  <1>4. ASSUME NEW w \in Workers, Spend(w)
        PROVE  Still
    <2>1. w \in Suspended /\ file' = Spent(flight[w])
      BY <1>4 DEF Spend
    <2>2. c # flight[w].code
      BY <1>1, <2>1, SpentType, BoundsAssumption
    <2>3. file'[c] = 0
      BY <1>1, <2>1, <2>2, SpentType
    <2>4. granted'[c] = granted[c]
      BY <1>4, <2>2 DEF Spend, TypeOK
    <2>5. QED BY <1>1, <1>4, <2>3, <2>4 DEF Spend, Resume
  <1>5. ASSUME NEW w \in Workers, Refused(w)
        PROVE  Still
    BY <1>1, <1>5 DEF Refused, Resume
  <1>11. ASSUME NEW w \in Workers, Unanswered(w)
        PROVE  Still
    <2>1. c # flight[w].code
      BY <1>1, <1>11, SpentType, BoundsAssumption DEF Unanswered
    <2>2. granted'[c] = granted[c]
      BY <1>11, <2>1 DEF Unanswered, TypeOK
    <2>3. QED BY <1>1, <1>11, <2>2 DEF Unanswered, Resume
  <1>6. ASSUME NEW S \in SUBSET Codes, NEW u \in 1..MaxUses,
               \A d \in S : Fresh(d), Give(S, u)
        PROVE  Still
    <2>1. c \notin S
      BY <1>1, <1>6, NamesAssumption DEF Fresh
    <2>2. QED BY <1>1, <1>6, <2>1 DEF Give
  <1>7. ASSUME NEW d \in Codes, Revoke(d)
        PROVE  Still
    BY <1>1, <1>7 DEF Revoke, TypeOK
  <1>8. ASSUME NEW seed \in Seeds, NEW took \in SUBSET Suspended, Restart(seed, took)
        PROVE  Still
    <2>1. file' = Merged(file, seed) /\ flight' = Nobody
      BY <1>8 DEF Restart
    <2>2. file \in File /\ file[c] # Absent
      BY <1>1, NamesAssumption DEF TypeOK
    <2>3. file'[c] = 0
      BY <1>1, <2>1, <2>2, MergedKeeps
    <2>4. granted'[c] = granted[c]
      <3>1. \A w \in took : flight[w].code # c
        BY <1>1, SpentType, BoundsAssumption
      <3>2. Cardinality({w \in took : flight[w].code = c}) = 0
        BY <3>1, TookCounts DEF TypeOK
      <3>3. granted'[c] = granted[c] + Cardinality({w \in took : flight[w].code = c})
        BY <1>8 DEF Restart
      <3>4. granted[c] \in Nat
        BY DEF TypeOK
      <3>5. QED BY <3>2, <3>3, <3>4
    <2>5. QED BY <2>1, <2>3, <2>4
  <1>9. CASE UNCHANGED vars
    BY <1>1, <1>9 DEF vars
  <1>10. QED
    BY <1>3, <1>4, <1>5, <1>6, <1>7, <1>8, <1>9, <1>11, StepShapes

(***************************************************************************)
(* A spent or revoked code of which no suspended handler holds an older    *)
(* copy is never granted again, whatever mint, seed, restart and other     *)
(* codes' write-backs do.                                                  *)
(***************************************************************************)
THEOREM DeadForGood == Spec => DeadStaysDead
  <1>1. TInv /\ [Next]_vars =>
           [\A c \in Codes : Dead(c) => Dead(c)' /\ granted'[c] = granted[c]]_vars
    BY StepDead
  <1>2. QED BY <1>1, TInvAlways, PTL DEF Spec, DeadStaysDead
=============================================================================
