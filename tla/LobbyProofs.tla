----------------------------- MODULE LobbyProofs -----------------------------
(***************************************************************************)
(* Proofs about Lobby, for any rooms, users, limits and number of crashes: *)
(* the variables keep their types, nobody is invited without a haiku, what *)
(* the bot gives stays within its budgets, an open room is one it is in,   *)
(* and lobby.json is a LobbyBook to its readers.                           *)
(***************************************************************************)
EXTENDS Lobby, SequenceTheorems, FiniteSetTheorems, TLAPS

USE DEF Started

-----------------------------------------------------------------------------
(***************************************************************************)
(* Sequences: the least position, one element less, some elements picked.  *)
(***************************************************************************)
\* The strict subsets of a finite set are well-founded, the intervals from 0
\* among them: a set of naturals has a least one.
LEMMA Least ==
    ASSUME NEW T, T \subseteq Nat, T # {}
    PROVE  Min(T) \in T /\ \A j \in T : Min(T) <= j
  <1> DEFINE F == {0..k : k \in T}
             R == StrictSubsetOrdering(Nat)
  <1>1. F # {} /\ F \subseteq FiniteSubsetsOf(Nat)
    <2>1. \A k \in T : 0..k \in SUBSET Nat /\ IsFiniteSet(0..k)
      BY FS_Interval
    <2>2. QED BY <2>1 DEF FiniteSubsetsOf
  <1>2. PICK X \in F : \A Y \in F : ~(<<Y, X>> \in R)
    BY <1>1, FS_StrictSubsetOrderingWellFounded, WFMin
  <1>3. PICK k \in T : X = 0..k
    OBVIOUS
  <1>4. ASSUME NEW j \in T PROVE k <= j
    <2>1. SUFFICES ASSUME j < k PROVE FALSE
      OBVIOUS
    <2>2. 0..j \subseteq 0..k /\ k \in 0..k /\ k \notin 0..j
      BY <2>1
    <2>3. <<0..j, X>> \in R
      BY <1>3, <2>2 DEF StrictSubsetOrdering
    <2>4. QED BY <1>2, <2>3
  <1>5. \E x \in T : \A j \in T : x =< j
    BY <1>4
  <1>6. QED BY <1>5 DEF Min

LEMMA Appended ==
    ASSUME NEW S, NEW q \in Seq(S), NEW m \in S
    PROVE  /\ Append(q, m) \in Seq(S) /\ Len(Append(q, m)) = Len(q) + 1
           /\ Len(q) \in Nat
           /\ \A i \in DOMAIN Append(q, m) :
                  \/ i \in DOMAIN q /\ Append(q, m)[i] = q[i]
                  \/ Append(q, m)[i] = m
  <1>1. /\ Append(q, m) \in Seq(S) /\ Len(Append(q, m)) = Len(q) + 1
        /\ \A i \in 1..Len(q) : Append(q, m)[i] = q[i]
        /\ Append(q, m)[Len(q) + 1] = m
    BY AppendProperties
  <1>2. /\ DOMAIN Append(q, m) = 1..(Len(q) + 1) /\ DOMAIN q = 1..Len(q) /\ Len(q) \in Nat
    BY <1>1
  <1>3. 1..(Len(q) + 1) = 1..Len(q) \cup {Len(q) + 1}
    BY <1>2
  <1>4. QED BY <1>1, <1>2, <1>3

LEMMA AppendedContains ==
    ASSUME NEW S, NEW q \in Seq(S), NEW m \in S, NEW x, Contains(Append(q, m), x)
    PROVE  Contains(q, x) \/ x = m
  <1>1. DOMAIN Append(q, m) = 1..Len(Append(q, m)) /\ DOMAIN q = 1..Len(q)
    BY Appended
  <1>2. QED BY <1>1, Appended DEF Contains

LEMMA Shortened ==
    ASSUME NEW S, NEW q \in Seq(S), q # << >>
    PROVE  /\ Head(q) \in S /\ Tail(q) \in Seq(S) /\ Len(Tail(q)) = Len(q) - 1 /\ Len(q) \in Nat
           /\ \E i \in DOMAIN q : Head(q) = q[i]
           /\ \A i \in DOMAIN Tail(q) : \E j \in DOMAIN q : Tail(q)[i] = q[j]
  <1>1. /\ Head(q) \in S /\ Tail(q) \in Seq(S) /\ Len(Tail(q)) = Len(q) - 1
        /\ \A i \in 1..Len(Tail(q)) : Tail(q)[i] = q[i + 1]
    BY HeadTailProperties
  <1>2. /\ Len(q) \in Nat /\ DOMAIN q = 1..Len(q) /\ DOMAIN Tail(q) = 1..(Len(q) - 1)
        /\ Len(q) # 0
    BY <1>1, EmptySeq
  <1>3. Head(q) = q[1] /\ 1 \in DOMAIN q
    BY <1>2
  <1>4. ASSUME NEW i \in DOMAIN Tail(q) PROVE \E j \in DOMAIN q : Tail(q)[i] = q[j]
    <2>1. i + 1 \in DOMAIN q /\ Tail(q)[i] = q[i + 1]
      BY <1>1, <1>2
    <2>2. QED BY <2>1
  <1>5. QED BY <1>1, <1>2, <1>3, <1>4

LEMMA WithoutOne ==
    ASSUME NEW S, NEW q \in Seq(S), NEW u
    PROVE  /\ Without(q, u) \in Seq(S)
           /\ \A x : Contains(Without(q, u), x) => Contains(q, x)
  <1>1. CASE ~Contains(q, u)
    BY <1>1 DEF Without
  <1>2. CASE Contains(q, u)
    <2> DEFINE I == {i \in DOMAIN q : q[i] = u}
               k == Min(I)
               a == SubSeq(q, 1, k - 1)
               b == SubSeq(q, k + 1, Len(q))
    <2>1. Len(q) \in Nat /\ DOMAIN q = 1..Len(q) /\ \A i \in 1..Len(q) : q[i] \in S
      OBVIOUS
    <2>2. k \in 1..Len(q)
      <3>1. I # {} /\ I \subseteq Nat /\ I \subseteq 1..Len(q)
        BY <1>2, <2>1 DEF Contains
      <3>2. QED BY <3>1, Least
    <2>3. Without(q, u) = a \o b
      BY <1>2 DEF Without, RemoveAt
    <2> HIDE DEF k
    <2>4. /\ a \in Seq(S) /\ Len(a) = k - 1 /\ \A i \in 1..(k - 1) : a[i] = q[i]
      <3>1. \A i \in 1..(k - 1) : q[i] \in S
        BY <2>1, <2>2
      <3>2. 1 \in Int /\ k - 1 \in Int
        BY <2>2
      <3>3. /\ a \in Seq(S) /\ Len(a) = IF 1 <= k - 1 THEN k - 1 - 1 + 1 ELSE 0
            /\ \A i \in 1..(k - 1 - 1 + 1) : a[i] = q[1 + i - 1]
        BY <3>1, <3>2, SubSeqProperties
      <3>4. QED BY <3>3, <2>2
    <2>5. /\ b \in Seq(S) /\ Len(b) = Len(q) - k /\ \A i \in 1..(Len(q) - k) : b[i] = q[k + i]
      <3>1. \A i \in (k + 1)..Len(q) : q[i] \in S
        BY <2>1, <2>2
      <3>2. k + 1 \in Int /\ Len(q) \in Int
        BY <2>1, <2>2
      <3>3. /\ b \in Seq(S) /\ Len(b) = IF k + 1 <= Len(q) THEN Len(q) - (k + 1) + 1 ELSE 0
            /\ \A i \in 1..(Len(q) - (k + 1) + 1) : b[i] = q[k + 1 + i - 1]
        BY <3>1, <3>2, SubSeqProperties
      <3>4. QED BY <3>3, <2>1, <2>2
    <2> HIDE DEF a, b
    <2>6. /\ a \o b \in Seq(S) /\ Len(a \o b) = Len(q) - 1
          /\ \A i \in 1..(Len(q) - 1) : (a \o b)[i] = IF i <= k - 1 THEN a[i] ELSE b[i - (k - 1)]
      <3>1. /\ a \o b \in Seq(S) /\ Len(a \o b) = Len(a) + Len(b)
            /\ \A i \in 1..(Len(a) + Len(b)) :
                   (a \o b)[i] = IF i <= Len(a) THEN a[i] ELSE b[i - Len(a)]
        BY <2>4, <2>5, ConcatProperties
      <3>2. Len(a) = k - 1 /\ Len(b) = Len(q) - k /\ k - 1 + (Len(q) - k) = Len(q) - 1
        BY <2>1, <2>2, <2>4, <2>5
      <3>3. QED BY <3>1, <3>2
    <2>7. ASSUME NEW i \in 1..(Len(q) - 1) PROVE \E j \in 1..Len(q) : (a \o b)[i] = q[j]
      <3>1. CASE i <= k - 1
        BY <3>1, <2>1, <2>2, <2>4, <2>6
      <3>2. CASE ~(i <= k - 1)
        <4>1. i - (k - 1) \in 1..(Len(q) - k) /\ k + (i - (k - 1)) = i + 1 /\ i + 1 \in 1..Len(q)
          BY <3>2, <2>1, <2>2
        <4>2. QED BY <3>2, <4>1, <2>5, <2>6
      <3>3. QED BY <3>1, <3>2
    <2>8. ASSUME NEW x, Contains(a \o b, x) PROVE Contains(q, x)
      <3>1. PICK i \in 1..Len(a \o b) : (a \o b)[i] = x
        BY <2>8 DEF Contains
      <3>2. PICK j \in 1..Len(q) : (a \o b)[i] = q[j]
        BY <3>1, <2>6, <2>7
      <3>3. QED BY <3>1, <3>2 DEF Contains
    <2>9. QED BY <2>3, <2>6, <2>8
  <1>3. QED BY <1>1, <1>2

-----------------------------------------------------------------------------

(***************************************************************************)
(* Picked: as long as its set of positions, and made of the elements there. *)
(* The ranks 1..Cardinality(S) are each taken, for the rank is an injection *)
(* of S into a set no larger.                                              *)
(***************************************************************************)
LEMMA Ranks ==
    ASSUME NEW S, IsFiniteSet(S), S \subseteq Nat, NEW k \in 1..Cardinality(S)
    PROVE  Kth(S, k) \in S
  <1> DEFINE n == Cardinality(S)
             Upto(i) == {j \in S : j <= i}
             f == [i \in S |-> Cardinality(Upto(i))]
  <1>1. n \in Nat
    BY FS_CardinalityType
  <1>2. ASSUME NEW i \in S
        PROVE  IsFiniteSet(Upto(i)) /\ f[i] = Cardinality(Upto(i)) /\ f[i] \in 1..n
    <2>1. Upto(i) \in SUBSET S /\ Upto(i) # {}
      OBVIOUS
    <2>2. IsFiniteSet(Upto(i)) /\ Cardinality(Upto(i)) <= n
      BY <2>1, FS_Subset
    <2>3. Cardinality(Upto(i)) \in Nat /\ Cardinality(Upto(i)) # 0
      BY <2>1, <2>2, FS_CardinalityType, FS_EmptySet
    <2>4. QED BY <2>2, <2>3, <1>1
  <1>3. ASSUME NEW i \in S, NEW j \in S, i < j PROVE f[i] # f[j]
    <2>1. Upto(i) \in SUBSET Upto(j) /\ j \in Upto(j) /\ j \notin Upto(i)
      <3>1. \A x \in S : x \in Nat
        OBVIOUS
      <3>2. \A x \in S : x <= i => x <= j
        BY <1>3, <3>1
      <3>3. j <= j /\ ~(j <= i)
        BY <1>3, <3>1
      <3>4. QED BY <3>2, <3>3
    <2>2. IsFiniteSet(Upto(i)) /\ IsFiniteSet(Upto(j))
          /\ f[i] = Cardinality(Upto(i)) /\ f[j] = Cardinality(Upto(j))
      BY <1>2
    <2>3. Upto(i) # Upto(j)
      BY <2>1
    <2>4. Cardinality(Upto(i)) # Cardinality(Upto(j))
      BY <2>1, <2>2, <2>3, FS_Subset
    <2>5. QED BY <2>2, <2>4
  <1>4. f \in Injection(S, 1..n)
    <2>1. f \in [S -> 1..n]
      BY <1>2
    <2>2. ASSUME NEW i \in S, NEW j \in S, f[i] = f[j] PROVE i = j
      <3>1. i < j \/ j < i \/ i = j
        OBVIOUS
      <3>2. ~(i < j) /\ ~(j < i)
        BY <2>2, <1>3
      <3>3. QED BY <3>1, <3>2
    <2>3. QED BY <2>1, <2>2 DEF Injection, IsInjective
  <1>5. IsFiniteSet(1..n) /\ Cardinality(1..n) = n
    BY <1>1, FS_Interval
  <1>6. f \in Surjection(S, 1..n)
    BY <1>4, <1>5, FS_Injection
  <1>7. \E i \in S : f[i] = k
    BY <1>6 DEF Surjection
  <1>8. \E i \in S : Cardinality(Upto(i)) = k
    BY <1>7, <1>2
  <1>9. QED BY <1>8 DEF Kth

LEMMA PickedFacts ==
    ASSUME NEW E, NEW q \in Seq(E), NEW S, S \subseteq DOMAIN q
    PROVE  /\ Picked(q, S) \in Seq(E) /\ Len(Picked(q, S)) = Cardinality(S)
           /\ IsFiniteSet(S) /\ Cardinality(S) \in Nat
           /\ \A k \in 1..Cardinality(S) : \E i \in S : Picked(q, S)[k] = q[i]
  <1>1. DOMAIN q = 1..Len(q) /\ Len(q) \in Nat /\ \A i \in 1..Len(q) : q[i] \in E
    OBVIOUS
  <1>2. IsFiniteSet(S) /\ Cardinality(S) \in Nat /\ S \subseteq Nat
    <2>1. IsFiniteSet(1..Len(q)) /\ S \in SUBSET (1..Len(q))
      BY <1>1, FS_Interval
    <2>2. IsFiniteSet(S)
      BY <2>1, FS_Subset
    <2>3. QED BY <2>1, <2>2, FS_CardinalityType
  <1>3. \A k \in 1..Cardinality(S) : Kth(S, k) \in S
    BY <1>2, Ranks
  <1> DEFINE n == Cardinality(S)
  <1> HIDE DEF n
  <1>4. Picked(q, S) = [k \in 1..n |-> q[Kth(S, k)]]
    BY DEF Picked, n
  <1>5. \A k \in 1..n : q[Kth(S, k)] \in E
    BY <1>1, <1>3 DEF n
  <1>6. Picked(q, S) \in Seq(E) /\ Len(Picked(q, S)) = n
    BY <1>2, <1>4, <1>5 DEF n
  <1>7. \A k \in 1..n : \E i \in S : Picked(q, S)[k] = q[i]
    BY <1>3, <1>4 DEF n
  <1>8. QED BY <1>2, <1>6, <1>7 DEF n

LEMMA BatchFacts ==
    ASSUME NEW r \in Rooms, feed[r] \in Seq(Event)
    PROVE  /\ Batch(r) \in Seq(Event) /\ Len(Batch(r)) <= Len(feed[r])
           /\ Len(Batch(r)) \in Nat /\ Len(feed[r]) \in Nat
           /\ Batch(r) # << >> => Open(disk, r)
           /\ \A k \in DOMAIN Batch(r) : \E i \in DOMAIN feed[r] :
                  /\ Batch(r)[k] = feed[r][i]
                  /\ feed[r][i].type = "join" \/ Contains(disk[r].challenged, feed[r][i].user)
  <1> DEFINE q == feed[r]
             J == Joins(q) \ Known(q, disk[r].challenged)
             M == Known(q, disk[r].challenged) \ Joins(q)
             a == Picked(q, J)
             b == Picked(q, M)
             Fits(e) == e.type = "join" \/ Contains(disk[r].challenged, e.user)
  <1>1. Len(q) \in Nat /\ DOMAIN q = 1..Len(q) /\ q \in Seq(Event)
    OBVIOUS
  <1>2. CASE ~(Open(disk, r) /\ r \in botIn)
    <2>1. Batch(r) = << >>
      BY <1>2 DEF Batch
    <2>2. QED BY <2>1, <1>1
  <1>3. CASE Open(disk, r) /\ r \in botIn
    <2>1. Batch(r) = a \o b
      BY <1>3 DEF Batch
    <2>2. /\ J \subseteq DOMAIN q /\ M \subseteq DOMAIN q /\ J \cap M = {}
          /\ \A i \in J : Fits(q[i])
          /\ \A i \in M : Fits(q[i])
      BY DEF Joins, Known
    <2> HIDE DEF J, M, q, Fits
    <2>3. /\ a \in Seq(Event) /\ Len(a) = Cardinality(J) /\ IsFiniteSet(J) /\ Cardinality(J) \in Nat
          /\ \A k \in 1..Cardinality(J) : \E i \in J : a[k] = q[i]
      BY <1>1, <2>2, PickedFacts
    <2>4. /\ b \in Seq(Event) /\ Len(b) = Cardinality(M) /\ IsFiniteSet(M) /\ Cardinality(M) \in Nat
          /\ \A k \in 1..Cardinality(M) : \E i \in M : b[k] = q[i]
      BY <1>1, <2>2, PickedFacts
    <2>5. Cardinality(J) + Cardinality(M) <= Len(q)
      <3>1. Cardinality(J \cup M) = Cardinality(J) + Cardinality(M) - Cardinality({})
        BY <2>2, <2>3, <2>4, FS_Union
      <3>2. Cardinality({}) = 0
        BY FS_EmptySet
      <3>3. IsFiniteSet(1..Len(q)) /\ Cardinality(1..Len(q)) = Len(q)
        <4>1. Len(q) \in Int /\ 1 \in Int
          BY <1>1
        <4>2. IsFiniteSet(1..Len(q)) /\ Cardinality(1..Len(q)) = IF 1 > Len(q) THEN 0 ELSE Len(q) - 1 + 1
          BY <4>1, FS_Interval
        <4>3. QED BY <4>2, <1>1
      <3>4. J \cup M \in SUBSET (1..Len(q))
        BY <1>1, <2>2
      <3>5. Cardinality(J \cup M) <= Len(q)
        BY <3>3, <3>4, FS_Subset
      <3>6. QED BY <3>1, <3>2, <3>5, <2>3, <2>4
    <2> HIDE DEF a, b
    <2>6. /\ a \o b \in Seq(Event) /\ Len(a \o b) = Len(a) + Len(b)
          /\ \A k \in 1..(Len(a) + Len(b)) :
                 (a \o b)[k] = IF k <= Len(a) THEN a[k] ELSE b[k - Len(a)]
      BY <2>3, <2>4, ConcatProperties
    <2>7. ASSUME NEW k \in 1..(Len(a) + Len(b))
          PROVE  \E i \in DOMAIN q : (a \o b)[k] = q[i] /\ Fits(q[i])
      <3>1. CASE k <= Len(a)
        <4>1. k \in 1..Cardinality(J) /\ (a \o b)[k] = a[k]
          BY <3>1, <2>3, <2>4, <2>6
        <4>2. QED BY <4>1, <2>2, <2>3
      <3>2. CASE ~(k <= Len(a))
        <4>1. k - Len(a) \in 1..Cardinality(M) /\ (a \o b)[k] = b[k - Len(a)]
          BY <3>2, <2>3, <2>4, <2>6
        <4>2. QED BY <4>1, <2>2, <2>4
      <3>3. QED BY <3>1, <3>2
    <2>8. DOMAIN (a \o b) = 1..(Len(a) + Len(b))
      BY <2>6
    <2>9. Len(a \o b) \in Nat /\ Len(a \o b) <= Len(q)
      BY <1>1, <2>3, <2>4, <2>5, <2>6
    <2>10. /\ Batch(r) \in Seq(Event) /\ Len(Batch(r)) <= Len(q)
           /\ Len(Batch(r)) \in Nat /\ Len(q) \in Nat
      BY <1>1, <2>1, <2>6, <2>9
    <2>11. ASSUME NEW k \in DOMAIN Batch(r)
           PROVE  \E i \in DOMAIN q : Batch(r)[k] = q[i] /\ Fits(q[i])
      <3>1. k \in 1..(Len(a) + Len(b))
        BY <2>1, <2>8
      <3>2. PICK i \in DOMAIN q : (a \o b)[k] = q[i] /\ Fits(q[i])
        BY <3>1, <2>7
      <3>3. Batch(r)[k] = (a \o b)[k]
        BY <2>1
      <3>4. QED BY <3>2, <3>3
    <2>12. QED BY <1>3, <2>10, <2>11 DEF q, Fits
  <1>4. QED BY <1>2, <1>3

-----------------------------------------------------------------------------
\* What a book says of a room holds of the world: it was minted, the people
\* listed were posted a challenge, a displayname noted is there.
RoomSound(b, r) ==
    b[r] # Nothing =>
        /\ r \in minted
        /\ \A u \in Users :
               /\ Contains(b[r].challenged, u) => challenges[<<r, u>>] > 0
               /\ b[r].display[u] => u \in named
               /\ b[r].tries[u] <= MaxTries
               /\ b[r].resends[u] <= MaxResends

BooksSound == \A r \in Rooms : RoomSound(disk, r) /\ RoomSound(mem, r)

\* What a book still gives away, with what was given, is within the budget.
RoomInBudget(b, r) ==
    b[r] # Nothing =>
        /\ \A u \in Users : challenges[<<r, u>>] > 0 =>
               /\ notYets[<<r, u>>] + b[r].tries[u] - 1 <= (MaxTries - 1) * challenges[<<r, u>>]
               /\ reposts[<<r, u>>] + MaxResends - b[r].resends[u] <= MaxResends * challenges[<<r, u>>]
        /\ Open(b, r) => /\ welcomes[r] <= crashes
                         /\ crashes = 0 => r \in botIn

\* It holds of the loop's copy, and of the file while that copy is clean.
BudgetSound == \A r \in Rooms : RoomInBudget(mem, r) /\ (~dirty => RoomInBudget(disk, r))

LoopSound ==
    /\ pc \in Started => mem = NoBook /\ ~dirty
    /\ pc \notin {"rooms", "invited", "acking"} => todo = NoBatch
    /\ \A r \in Rooms : todo[r] # << >> => Open(mem, r)
    /\ pc \in {"invited", "acking"} =>
           /\ cur \in Rooms /\ mem[cur] # Nothing /\ mem[cur].promoted /\ ~mem[cur].closed
           /\ dirty /\ todo[cur] = << >>
           /\ crashes = 0 => cur \in botIn
    /\ pc = "invited" => welcomes[cur] <= crashes

\* A haiku in an event was sent, a displayname in it is there; and whose
\* message is judged was posted a challenge.
SoundEvents(r) ==
    {e \in Event : /\ e.type = "msg" /\ e.good => <<r, e.user>> \in spoke
                   /\ e.named => e.user \in named}
HeardEvents(r) == {e \in SoundEvents(r) : e.type = "msg" => challenges[<<r, e.user>>] > 0}

EventsSound == \A r \in Rooms : feed[r] \in Seq(SoundEvents(r)) /\ todo[r] \in Seq(HeardEvents(r))

\* A welcome code has cost an event.
AtTheDoor(r) == IF pc = "invited" /\ cur = r THEN 1 ELSE 0
EventsCounted ==
    \A r \in Rooms :
        /\ Len(feed[r]) + Len(todo[r]) + welcomes[r] + AtTheDoor(r) <= events
        /\ r \notin minted => welcomes[r] = 0 /\ \A u \in Users : challenges[<<r, u>>] = 0

\* What the next save will make of the file is a move of LobbyBook.
RoomKept(r) ==
    /\ mem[r] # Nothing => disk[r] # Nothing
    /\ mem[r] = Nothing => disk[r] = Nothing \/ (disk[r].challenged = << >> /\ ~disk[r].closed)
    /\ disk[r] # Nothing /\ disk[r].closed => mem[r] = disk[r]
SaveSound == pc \notin Started => \A r \in Rooms : RoomKept(r)

LobbyInv ==
    /\ TypeOK /\ BooksSound /\ BudgetSound /\ LoopSound /\ EventsSound /\ EventsCounted /\ SaveSound
    /\ InvitedByHaiku /\ BudgetsKept

-----------------------------------------------------------------------------
(***************************************************************************)
(* Fields of the records, and what the types say of the variables.         *)
(***************************************************************************)
LEMMA MetaFields ==
    ASSUME NEW m \in Meta
    PROVE  /\ m.challenged \in Seq(Users) /\ m.tries \in [Users -> Int] /\ m.resends \in [Users -> Nat]
           /\ m.sent \in [Users -> {"recent", "old"}] /\ m.display \in [Users -> BOOLEAN]
           /\ m.promoted \in BOOLEAN /\ m.closed \in BOOLEAN
           /\ m.reason \in {"open", "promoted", "already_member", "timeout"}
           /\ m # Nothing
  BY NothingAssumption DEF Meta

LEMMA EventFields ==
    ASSUME NEW e \in Event
    PROVE  e.type \in {"join", "msg"} /\ e.user \in Users /\ e.good \in BOOLEAN /\ e.named \in BOOLEAN
  BY DEF Event

LEMMA Books ==
    ASSUME TypeOK, NEW r \in Rooms
    PROVE  /\ disk[r] # Nothing => disk[r] \in Meta
           /\ mem[r] # Nothing => mem[r] \in Meta
           /\ Open(mem, r) => mem[r] \in Meta /\ ~mem[r].promoted /\ ~mem[r].closed
           /\ Open(disk, r) => disk[r] \in Meta /\ ~disk[r].promoted /\ ~disk[r].closed
  BY DEF TypeOK, Open

LEMMA Tallies ==
    ASSUME TypeOK
    PROVE  /\ challenges \in [Pairs -> Nat] /\ reposts \in [Pairs -> Nat] /\ notYets \in [Pairs -> Nat]
           /\ welcomes \in [Rooms -> Nat] /\ crashes \in Nat /\ events \in Nat
           /\ \A r \in Rooms, u \in Users :
                  /\ challenges[<<r, u>>] \in Nat /\ reposts[<<r, u>>] \in Nat /\ notYets[<<r, u>>] \in Nat
           /\ \A r \in Rooms : /\ feed[r] \in Seq(Event) /\ todo[r] \in Seq(Event)
                               /\ Len(feed[r]) \in Nat /\ Len(todo[r]) \in Nat /\ welcomes[r] \in Nat
  <1>1. /\ challenges \in [Pairs -> Nat] /\ reposts \in [Pairs -> Nat] /\ notYets \in [Pairs -> Nat]
        /\ welcomes \in [Rooms -> Nat] /\ feed \in [Rooms -> Seq(Event)] /\ todo \in [Rooms -> Seq(Event)]
    BY DEF TypeOK
  <1>2. crashes \in Nat /\ events \in Nat
    BY LobbyBounds DEF TypeOK
  <1>3. ASSUME NEW r \in Rooms, NEW u \in Users PROVE <<r, u>> \in Pairs
    BY DEF Pairs
  <1>4. ASSUME NEW r \in Rooms
        PROVE  /\ feed[r] \in Seq(Event) /\ todo[r] \in Seq(Event)
               /\ Len(feed[r]) \in Nat /\ Len(todo[r]) \in Nat /\ welcomes[r] \in Nat
    BY <1>1
  <1>5. QED BY <1>1, <1>2, <1>3, <1>4

-----------------------------------------------------------------------------
(***************************************************************************)
(* The people: what they do makes an event.                                *)
(***************************************************************************)
LEMMA StepEmit ==
    ASSUME LobbyInv, NEW rs, NEW e \in Event, Emit(rs, e),
           named \subseteq named', named' \subseteq Users, spoke \subseteq spoke', spoke' \subseteq Pairs,
           inRoom' \subseteq Pairs, UNCHANGED <<member, crashes, challenges, reposts, notYets, welcomes>>,
           \A r \in rs \cap Rooms : e \in SoundEvents(r)'
    PROVE  LobbyInv'
  <1>0. /\ TypeOK /\ BooksSound /\ BudgetSound /\ LoopSound /\ EventsSound /\ EventsCounted /\ SaveSound
        /\ InvitedByHaiku /\ BudgetsKept
    BY DEF LobbyInv
  <1>1. /\ events < MaxEvents /\ events' = events + 1
        /\ feed' = [r \in Rooms |-> IF r \in rs THEN Append(feed[r], e) ELSE feed[r]]
        /\ UNCHANGED <<disk, mem, dirty, pc, cur, todo, minted, botIn, aged>>
    BY DEF Emit, store, loop
  <1>2. ASSUME NEW r \in Rooms
        PROVE  /\ feed'[r] \in Seq(Event) /\ Len(feed'[r]) <= Len(feed[r]) + 1
               /\ Len(feed'[r]) \in Nat /\ Len(feed[r]) \in Nat
               /\ feed'[r] \in Seq(SoundEvents(r)')
    <2>1. feed[r] \in Seq(Event) /\ Len(feed[r]) \in Nat
      BY <1>0, Tallies
    <2>2. feed[r] \in Seq(SoundEvents(r)')
      <3>1. SoundEvents(r) \subseteq SoundEvents(r)'
        BY DEF SoundEvents
      <3>2. QED BY <1>0, <3>1, SeqMonotonic DEF EventsSound
    <2>3. CASE r \in rs
      <3>1. feed'[r] = Append(feed[r], e) /\ e \in SoundEvents(r)'
        BY <1>1, <2>3
      <3>2. feed'[r] \in Seq(SoundEvents(r)')
        BY <2>2, <3>1, Appended
      <3>3. QED BY <2>1, <3>1, <3>2, Appended
    <2>4. CASE r \notin rs
      BY <1>1, <2>1, <2>2, <2>4
    <2>5. QED BY <2>3, <2>4
  <1>3. TypeOK'
    <2>1. feed' \in [Rooms -> Seq(Event)]
      BY <1>1, <1>2
    <2>2. events' \in 0..MaxEvents
      BY <1>0, <1>1, LobbyBounds DEF TypeOK
    <2>3. QED BY <1>0, <1>1, <2>1, <2>2 DEF TypeOK
  <1>4. BooksSound'
    BY <1>0, <1>1 DEF BooksSound, RoomSound
  <1>5. BudgetSound'
    BY <1>0, <1>1 DEF BudgetSound, RoomInBudget, Open
  <1>6. LoopSound'
    BY <1>0, <1>1 DEF LoopSound, Open
  <1>7. EventsSound'
    <2>1. ASSUME NEW r \in Rooms PROVE todo'[r] \in Seq(HeardEvents(r)')
      <3>1. HeardEvents(r) \subseteq HeardEvents(r)'
        BY DEF HeardEvents, SoundEvents
      <3>2. QED BY <1>0, <1>1, <3>1, SeqMonotonic DEF EventsSound
    <2>2. QED BY <1>2, <2>1 DEF EventsSound
  <1>8. EventsCounted'
    <2>1. \A r \in Rooms : AtTheDoor(r)' = AtTheDoor(r) /\ AtTheDoor(r) \in Nat
      BY <1>1 DEF AtTheDoor
    <2>2. ASSUME NEW r \in Rooms
          PROVE  /\ Len(feed'[r]) + Len(todo[r]) + welcomes[r] + AtTheDoor(r) <= events'
                 /\ r \notin minted => welcomes[r] = 0 /\ \A u \in Users : challenges[<<r, u>>] = 0
      <3>0. Len(feed[r]) + Len(todo[r]) + welcomes[r] + AtTheDoor(r) <= events
        BY <1>0 DEF EventsCounted
      <3>1. r \notin minted => welcomes[r] = 0 /\ \A u \in Users : challenges[<<r, u>>] = 0
        BY <1>0 DEF EventsCounted
      <3>2. /\ Len(feed[r]) \in Nat /\ Len(todo[r]) \in Nat /\ welcomes[r] \in Nat /\ events \in Nat
        BY <1>0, Tallies
      <3>3. AtTheDoor(r) \in Nat /\ Len(feed'[r]) \in Nat /\ Len(feed'[r]) <= Len(feed[r]) + 1
            /\ events' = events + 1
        BY <1>1, <1>2, <2>1
      <3>4. Len(feed'[r]) + Len(todo[r]) + welcomes[r] + AtTheDoor(r) <= events'
        <4>1. \A a, b, c, d, x, y \in Nat : a + b + c + d <= x /\ y <= a + 1 => y + b + c + d <= x + 1
          OBVIOUS
        <4>2. QED BY <3>0, <3>2, <3>3, <4>1
      <3>5. QED BY <3>1, <3>4
    <2>3. QED BY <1>1, <2>1, <2>2 DEF EventsCounted
  <1>9. SaveSound'
    BY <1>0, <1>1 DEF SaveSound, RoomKept
  <1>10. InvitedByHaiku'
    BY <1>0 DEF InvitedByHaiku
  <1>11. BudgetsKept'
    BY <1>0 DEF BudgetsKept, TriesPerChallenge, RepostsPerChallenge, WelcomesBounded
  <1>12. QED BY <1>3, <1>4, <1>5, <1>6, <1>7, <1>8, <1>9, <1>10, <1>11 DEF LobbyInv

LEMMA StepPeople ==
    ASSUME LobbyInv, NEW u \in Users
    PROVE  /\ \A r \in Rooms : UserJoins(u, r) => LobbyInv'
           /\ UserSetsName(u) => LobbyInv'
           /\ \A r \in Rooms, good \in BOOLEAN : UserSays(u, r, good) => LobbyInv'
  <1>0. named \subseteq Users /\ spoke \subseteq Pairs /\ inRoom \subseteq Pairs
    BY DEF LobbyInv, TypeOK
  <1>1. ASSUME NEW r \in Rooms, UserJoins(u, r) PROVE LobbyInv'
    <2> DEFINE e == JoinEvent(u, u \in named)
    <2>1. /\ Emit({r}, e) /\ inRoom' = inRoom \cup {<<r, u>>}
          /\ UNCHANGED <<named, spoke, member, crashes, challenges, reposts, notYets, welcomes>>
      BY <1>1 DEF UserJoins, tally
    <2>2. PICK known \in BOOLEAN : known = (u \in named)
      <3>1. (u \in named) \in BOOLEAN
        OBVIOUS
      <3>2. QED BY <3>1, Zenon
    <2>3. e = [type |-> "join", user |-> u, good |-> FALSE, named |-> known]
      BY <2>2 DEF JoinEvent
    <2> HIDE DEF e
    <2>4. e \in Event /\ e.type = "join" /\ e.user = u /\ e.named = known
      BY <2>3 DEF Event
    <2>5. known => u \in named
      BY <2>2
    <2> HIDE DEF e
    <2>6. e \in SoundEvents(r)'
      BY <2>1, <2>4, <2>5 DEF SoundEvents
    <2>7. inRoom' \subseteq Pairs
      BY <1>0, <2>1 DEF Pairs
    <2>8. QED BY <1>0, <2>1, <2>4, <2>6, <2>7, StepEmit
  <1>2. ASSUME UserSetsName(u) PROVE LobbyInv'
    <2> DEFINE e == JoinEvent(u, TRUE)
               rs == {r \in botIn : <<r, u>> \in inRoom}
    <2>1. /\ Emit(rs, e) /\ named' = named \cup {u}
          /\ UNCHANGED <<inRoom, spoke, member, crashes, challenges, reposts, notYets, welcomes>>
      BY <1>2 DEF UserSetsName, tally
    <2>2. e \in Event /\ e.type = "join" /\ e.user = u
      BY DEF JoinEvent, Event
    <2> HIDE DEF e, rs
    <2>3. ASSUME NEW r \in Rooms PROVE e \in SoundEvents(r)'
      BY <2>1, <2>2 DEF SoundEvents
    <2>4. QED BY <1>0, <2>1, <2>2, <2>3, StepEmit
  <1>3. ASSUME NEW r \in Rooms, NEW good \in BOOLEAN, UserSays(u, r, good) PROVE LobbyInv'
    <2> DEFINE e == [type |-> "msg", user |-> u, good |-> good, named |-> u \in named]
    <2>1. /\ Emit({r}, e) /\ spoke' = IF good THEN spoke \cup {<<r, u>>} ELSE spoke
          /\ <<r, u>> \in inRoom
          /\ inRoom' = inRoom
          /\ UNCHANGED <<named, member, crashes, challenges, reposts, notYets, welcomes>>
      BY <1>3 DEF UserSays, Emit
    <2>2. PICK known \in BOOLEAN : known = (u \in named)
      <3>1. (u \in named) \in BOOLEAN
        OBVIOUS
      <3>2. QED BY <3>1, Zenon
    <2>3. e = [type |-> "msg", user |-> u, good |-> good, named |-> known]
      BY <2>2
    <2>4. e \in Event /\ e.user = u /\ e.named = known /\ e.good = good
      BY <2>3 DEF Event
    <2>5. known => u \in named
      BY <2>2
    <2> HIDE DEF e
    <2>6. e \in SoundEvents(r)'
      BY <2>1, <2>4, <2>5 DEF SoundEvents
    <2>7. spoke \subseteq spoke' /\ spoke' \subseteq Pairs
      BY <1>0, <2>1
    <2>8. QED BY <1>0, <2>1, <2>4, <2>6, <2>7, StepEmit
  <1>4. QED BY <1>1, <1>2, <1>3

LEMMA StepEntersSpace ==
    ASSUME LobbyInv, NEW u \in Users, EntersSpace(u)
    PROVE  LobbyInv'
  <1>0. /\ TypeOK /\ BooksSound /\ BudgetSound /\ LoopSound /\ EventsSound /\ EventsCounted /\ SaveSound
        /\ InvitedByHaiku /\ BudgetsKept
    BY DEF LobbyInv
  <1>1. /\ member[u] = "invited" /\ member' = [member EXCEPT ![u] = "joined"]
        /\ UNCHANGED <<disk, mem, dirty, pc, cur, todo, feed, minted, botIn, aged, named, inRoom, events,
                       crashes, challenges, reposts, notYets, spoke, welcomes>>
    BY DEF EntersSpace, store, loop, tally
  <1>2. member' \in [Users -> {"no", "invited", "joined"}]
    BY <1>0, <1>1 DEF TypeOK
  <1>3. TypeOK'
    BY <1>0, <1>1, <1>2 DEF TypeOK
  <1>4. BooksSound' /\ BudgetSound' /\ LoopSound' /\ SaveSound'
    BY <1>0, <1>1 DEF BooksSound, RoomSound, BudgetSound, RoomInBudget, LoopSound, Open, SaveSound, RoomKept
  <1>5. EventsSound' /\ EventsCounted'
    BY <1>0, <1>1 DEF EventsSound, SoundEvents, HeardEvents, EventsCounted, AtTheDoor
  <1>6. InvitedByHaiku'
    BY <1>0, <1>1 DEF InvitedByHaiku, TypeOK
  <1>7. BudgetsKept'
    BY <1>0, <1>1 DEF BudgetsKept, TriesPerChallenge, RepostsPerChallenge, WelcomesBounded
  <1>8. QED BY <1>3, <1>4, <1>5, <1>6, <1>7 DEF LobbyInv

LEMMA StepGrowsStale ==
    ASSUME LobbyInv, NEW r \in Rooms, GrowsStale(r)
    PROVE  LobbyInv'
  <1>0. /\ TypeOK /\ BooksSound /\ BudgetSound /\ LoopSound /\ EventsSound /\ EventsCounted /\ SaveSound
        /\ InvitedByHaiku /\ BudgetsKept
    BY DEF LobbyInv
  <1>1. /\ r \in minted /\ aged' = aged \cup {r}
        /\ UNCHANGED <<disk, mem, dirty, pc, cur, todo, feed, minted, botIn, member, named, inRoom, events,
                       crashes, challenges, reposts, notYets, spoke, welcomes>>
    BY DEF GrowsStale, store, loop, tally
  <1>2. TypeOK'
    BY <1>0, <1>1 DEF TypeOK
  <1>3. BooksSound' /\ BudgetSound' /\ LoopSound' /\ SaveSound'
    BY <1>0, <1>1 DEF BooksSound, RoomSound, BudgetSound, RoomInBudget, LoopSound, Open, SaveSound, RoomKept
  <1>4. EventsSound' /\ EventsCounted' /\ InvitedByHaiku' /\ BudgetsKept'
    BY <1>0, <1>1 DEF EventsSound, SoundEvents, HeardEvents, EventsCounted, AtTheDoor, InvitedByHaiku,
                      BudgetsKept, TriesPerChallenge, RepostsPerChallenge, WelcomesBounded
  <1>5. QED BY <1>2, <1>3, <1>4 DEF LobbyInv

LEMMA FreshIsMeta == FreshMeta \in Meta
  <1>1. << >> \in Seq(Users) /\ MaxTries \in Int
    BY LobbyBounds
  <1>2. QED BY <1>1 DEF FreshMeta, Meta

LEMMA StepOpenRoom ==
    ASSUME LobbyInv, NEW r \in Rooms, OpenRoom(r)
    PROVE  LobbyInv'
  <1>0. /\ TypeOK /\ BooksSound /\ BudgetSound /\ LoopSound /\ EventsSound /\ EventsCounted /\ SaveSound
        /\ InvitedByHaiku /\ BudgetsKept
    BY DEF LobbyInv
  <1>1. /\ r \notin minted /\ disk' = [disk EXCEPT ![r] = FreshMeta]
        /\ minted' = minted \cup {r} /\ botIn' = botIn \cup {r}
        /\ UNCHANGED <<mem, dirty, pc, cur, todo, feed, aged, member, named, inRoom, events,
                       crashes, challenges, reposts, notYets, spoke, welcomes>>
    BY DEF OpenRoom, loop, tally
  <1>2. /\ disk' \in [Rooms -> Meta \cup {Nothing}] /\ disk'[r] = FreshMeta
        /\ \A x \in Rooms : x # r => disk'[x] = disk[x]
    BY <1>0, <1>1, FreshIsMeta DEF TypeOK
  <1>3. /\ FreshMeta.challenged = << >> /\ ~FreshMeta.promoted /\ ~FreshMeta.closed
        /\ \A u \in Users : /\ FreshMeta.tries[u] = MaxTries /\ FreshMeta.resends[u] = 0
                            /\ ~FreshMeta.display[u]
        /\ FreshMeta # Nothing
    BY FreshIsMeta, NothingAssumption DEF FreshMeta
  <1>4. mem[r] = Nothing
    BY <1>0, <1>1 DEF BooksSound, RoomSound
  <1>5. TypeOK'
    BY <1>0, <1>1, <1>2 DEF TypeOK
  <1>6. BooksSound'
    <2>1. RoomSound(disk, r)'
      BY <1>1, <1>2, <1>3, LobbyBounds DEF RoomSound, Contains
    <2>2. ASSUME NEW x \in Rooms, x # r PROVE RoomSound(disk, x)'
      BY <1>0, <1>1, <1>2, <2>2 DEF BooksSound, RoomSound
    <2>3. ASSUME NEW x \in Rooms PROVE RoomSound(mem, x)'
      BY <1>0, <1>1 DEF BooksSound, RoomSound
    <2>4. QED BY <2>1, <2>2, <2>3 DEF BooksSound
  <1>7. BudgetSound'
    <2>1. RoomInBudget(disk, r)'
      <3>1. welcomes[r] = 0 /\ crashes \in Nat /\ \A u \in Users : challenges[<<r, u>>] = 0
        BY <1>0, <1>1, Tallies DEF EventsCounted
      <3>2. QED BY <1>1, <1>2, <3>1 DEF RoomInBudget
    <2>2. ASSUME NEW x \in Rooms, x # r, ~dirty PROVE RoomInBudget(disk, x)'
      BY <1>0, <1>1, <1>2, <2>2 DEF BudgetSound, RoomInBudget, Open
    <2>3. ASSUME NEW x \in Rooms PROVE RoomInBudget(mem, x)'
      BY <1>0, <1>1 DEF BudgetSound, RoomInBudget, Open
    <2>4. QED BY <1>1, <2>1, <2>2, <2>3 DEF BudgetSound
  <1>8. LoopSound'
    BY <1>0, <1>1 DEF LoopSound, Open
  <1>9. EventsSound' /\ EventsCounted'
    BY <1>0, <1>1 DEF EventsSound, SoundEvents, HeardEvents, EventsCounted, AtTheDoor
  <1>10. SaveSound'
    <2>1. ASSUME NEW x \in Rooms, pc \notin Started PROVE RoomKept(x)'
      BY <1>0, <1>1, <1>2, <1>3, <1>4, <2>1 DEF SaveSound, RoomKept
    <2>2. QED BY <1>1, <2>1 DEF SaveSound
  <1>11. InvitedByHaiku' /\ BudgetsKept'
    BY <1>0, <1>1 DEF InvitedByHaiku, BudgetsKept, TriesPerChallenge, RepostsPerChallenge, WelcomesBounded
  <1>12. QED BY <1>5, <1>6, <1>7, <1>8, <1>9, <1>10, <1>11 DEF LobbyInv

\* Time makes challenges old and changes nothing else in a record.
OnlyOlder(b, b2) ==
    /\ b2 \in [Rooms -> Meta \cup {Nothing}]
    /\ \A x \in Rooms :
           /\ b2[x] = Nothing <=> b[x] = Nothing
           /\ b[x] # Nothing => /\ b2[x].challenged = b[x].challenged /\ b2[x].tries = b[x].tries
                                /\ b2[x].resends = b[x].resends /\ b2[x].display = b[x].display
                                /\ b2[x].promoted = b[x].promoted /\ b2[x].closed = b[x].closed
                                /\ b2[x].reason = b[x].reason

LEMMA RipeIs ==
    ASSUME NEW b, b \in [Rooms -> Meta \cup {Nothing}], NEW r \in Rooms, NEW u \in Users,
           NEW b2, b2 = [b EXCEPT ![r] = Ripe(b, r, u)]
    PROVE  OnlyOlder(b, b2)
  <1>1. CASE b[r] = Nothing
    <2>1. b2 = b
      BY <1>1 DEF Ripe
    <2>2. QED BY <2>1 DEF OnlyOlder
  <1>2. CASE b[r] # Nothing
    <2>1. b[r] \in Meta /\ b2[r] = [b[r] EXCEPT !.sent[u] = "old"] /\ \A x \in Rooms : x # r => b2[x] = b[x]
      BY <1>2 DEF Ripe
    <2>2. /\ b2[r].challenged = b[r].challenged /\ b2[r].tries = b[r].tries
          /\ b2[r].resends = b[r].resends /\ b2[r].display = b[r].display
          /\ b2[r].promoted = b[r].promoted /\ b2[r].closed = b[r].closed
          /\ b2[r].reason = b[r].reason
      BY <2>1 DEF Meta
    <2>3. b2[r] \in Meta
      <3>1. b[r].sent \in [Users -> {"recent", "old"}]
        BY <2>1, MetaFields
      <3>2. [b[r].sent EXCEPT ![u] = "old"] \in [Users -> {"recent", "old"}]
        BY <3>1
      <3>3. b2[r] = [b[r] EXCEPT !.sent = [b[r].sent EXCEPT ![u] = "old"]]
        BY <2>1
      <3>4. QED BY <2>1, <3>2, <3>3 DEF Meta
    <2>4. b2 \in [Rooms -> Meta \cup {Nothing}]
      BY <2>1, <2>3
    <2>5. QED BY <1>2, <2>1, <2>2, <2>3, <2>4, NothingAssumption DEF OnlyOlder
  <1>3. QED BY <1>1, <1>2

LEMMA StepGrowsOld ==
    ASSUME LobbyInv, NEW r \in Rooms, NEW u \in Users, ChallengeGrowsOld(r, u)
    PROVE  LobbyInv'
  <1>0. /\ TypeOK /\ BooksSound /\ BudgetSound /\ LoopSound /\ EventsSound /\ EventsCounted /\ SaveSound
        /\ InvitedByHaiku /\ BudgetsKept
    BY DEF LobbyInv
  <1>1. /\ disk' = [disk EXCEPT ![r] = Ripe(disk, r, u)] /\ mem' = [mem EXCEPT ![r] = Ripe(mem, r, u)]
        /\ UNCHANGED <<dirty, pc, cur, todo, feed, minted, botIn, aged, member, named, inRoom, events,
                       crashes, challenges, reposts, notYets, spoke, welcomes>>
    BY DEF ChallengeGrowsOld, loop, world, tally
  <1>2. disk \in [Rooms -> Meta \cup {Nothing}] /\ mem \in [Rooms -> Meta \cup {Nothing}]
    BY <1>0 DEF TypeOK, OnlyOlder
  <1>3. OnlyOlder(disk, disk')
    BY <1>1, <1>2, RipeIs
  <1>4. OnlyOlder(mem, mem')
    BY <1>1, <1>2, RipeIs
  <1>5. TypeOK'
    BY <1>0, <1>1, <1>3, <1>4 DEF TypeOK, OnlyOlder
  <1>6. BooksSound'
    <2>1. ASSUME NEW x \in Rooms PROVE RoomSound(disk, x)'
      BY <1>0, <1>1, <1>3 DEF BooksSound, RoomSound, OnlyOlder
    <2>2. ASSUME NEW x \in Rooms PROVE RoomSound(mem, x)'
      BY <1>0, <1>1, <1>4 DEF BooksSound, RoomSound, OnlyOlder
    <2>3. QED BY <2>1, <2>2 DEF BooksSound
  <1>7. BudgetSound'
    <2>1. ASSUME NEW x \in Rooms, ~dirty PROVE RoomInBudget(disk, x)'
      BY <1>0, <1>1, <1>3, <2>1 DEF BudgetSound, RoomInBudget, Open, OnlyOlder
    <2>2. ASSUME NEW x \in Rooms PROVE RoomInBudget(mem, x)'
      BY <1>0, <1>1, <1>4 DEF BudgetSound, RoomInBudget, Open, OnlyOlder
    <2>3. QED BY <1>1, <2>1, <2>2 DEF BudgetSound
  <1>8. \A x \in Rooms : Open(mem, x)' <=> Open(mem, x)
    BY <1>4 DEF Open, OnlyOlder
  <1>9. LoopSound'
    <2>1. pc \in Started => mem' = NoBook
      <3>1. mem = NoBook => mem' = mem
        BY <1>1 DEF NoBook, Ripe
      <3>2. QED BY <1>0, <3>1 DEF LoopSound
    <2>2. ASSUME pc \in {"invited", "acking"}
          PROVE  /\ cur \in Rooms /\ mem'[cur] # Nothing /\ mem'[cur].promoted /\ ~mem'[cur].closed
                 /\ dirty /\ todo[cur] = << >>
                 /\ crashes = 0 => cur \in botIn
      BY <1>0, <1>4, <2>2 DEF LoopSound, OnlyOlder
    <2>3. QED BY <1>0, <1>1, <1>8, <2>1, <2>2 DEF LoopSound
  <1>10. EventsSound' /\ EventsCounted'
    BY <1>0, <1>1 DEF EventsSound, SoundEvents, HeardEvents, EventsCounted, AtTheDoor
  <1>11. SaveSound'
    <2>1. ASSUME NEW x \in Rooms, pc \notin Started PROVE RoomKept(x)'
      <3>1. RoomKept(x)
        BY <1>0, <2>1 DEF SaveSound
      <3>2. mem[x] = disk[x] => mem'[x] = disk'[x]
        BY <1>1, <1>2 DEF Ripe
      <3>3. QED BY <1>3, <1>4, <3>1, <3>2 DEF RoomKept, OnlyOlder
    <2>2. QED BY <1>1, <2>1 DEF SaveSound
  <1>12. InvitedByHaiku' /\ BudgetsKept'
    BY <1>0, <1>1 DEF InvitedByHaiku, BudgetsKept, TriesPerChallenge, RepostsPerChallenge, WelcomesBounded
  <1>13. QED BY <1>5, <1>6, <1>7, <1>9, <1>10, <1>11, <1>12 DEF LobbyInv

-----------------------------------------------------------------------------
(***************************************************************************)
(* The loop loads the file and takes its batch.                            *)
(***************************************************************************)
LEMMA StepSync ==
    ASSUME LobbyInv, Sync
    PROVE  LobbyInv'
  <1>0. /\ TypeOK /\ BooksSound /\ BudgetSound /\ LoopSound /\ EventsSound /\ EventsCounted /\ SaveSound
        /\ InvitedByHaiku /\ BudgetsKept
    BY DEF LobbyInv
  <1>1. /\ pc = "sync" /\ mem' = disk /\ todo' = [r \in Rooms |-> Batch(r)] /\ feed' = NoBatch /\ pc' = "rooms"
        /\ UNCHANGED <<disk, dirty, cur, minted, botIn, aged, member, named, inRoom, events,
                       crashes, challenges, reposts, notYets, spoke, welcomes>>
    BY DEF Sync, tally
  <1>2. ~dirty /\ todo = NoBatch
    BY <1>0, <1>1 DEF LoopSound
  <1>3. ASSUME NEW r \in Rooms
        PROVE  /\ todo'[r] = Batch(r) /\ Batch(r) \in Seq(Event) /\ Len(Batch(r)) <= Len(feed[r])
               /\ Len(Batch(r)) \in Nat /\ Len(feed[r]) \in Nat
               /\ Batch(r) # << >> => Open(disk, r)
               /\ Batch(r) \in Seq(HeardEvents(r))
    <2>1. feed[r] \in Seq(Event) /\ feed[r] \in Seq(SoundEvents(r))
      BY <1>0, Tallies DEF EventsSound
    <2>2. todo'[r] = Batch(r)
      BY <1>1
    <2>3. /\ Batch(r) \in Seq(Event) /\ Len(Batch(r)) <= Len(feed[r])
          /\ Len(Batch(r)) \in Nat /\ Len(feed[r]) \in Nat
          /\ Batch(r) # << >> => Open(disk, r)
      BY <2>1, BatchFacts
    <2>4. ASSUME NEW k \in 1..Len(Batch(r)) PROVE Batch(r)[k] \in HeardEvents(r)
      <3>1. k \in DOMAIN Batch(r) /\ Batch(r) # << >>
        BY <2>3, <2>4
      <3>2. PICK i \in DOMAIN feed[r] :
                  /\ Batch(r)[k] = feed[r][i]
                  /\ feed[r][i].type = "join" \/ Contains(disk[r].challenged, feed[r][i].user)
        BY <2>1, <3>1, BatchFacts
      <3>3. PICK e \in SoundEvents(r) : e = feed[r][i]
        BY <2>1
      <3>4. e.type = "join" \/ Contains(disk[r].challenged, e.user)
        BY <3>2, <3>3
      <3>5. e \in Event /\ e.user \in Users
        BY EventFields DEF SoundEvents
      <3>6. disk[r] # Nothing
        BY <2>3, <3>1 DEF Open
      <3>7. e.type = "msg" => challenges[<<r, e.user>>] > 0
        <4>1. Contains(disk[r].challenged, e.user) => challenges[<<r, e.user>>] > 0
          BY <1>0, <3>5, <3>6 DEF BooksSound, RoomSound
        <4>2. QED BY <3>4, <4>1
      <3>8. QED BY <3>2, <3>3, <3>7 DEF HeardEvents
    <2>5. Batch(r) \in Seq(HeardEvents(r))
      BY <2>3, <2>4
    <2>6. QED BY <2>2, <2>3, <2>5
  <1>4. TypeOK'
    <2>1. todo' \in [Rooms -> Seq(Event)]
      BY <1>1, <1>3
    <2>2. feed' \in [Rooms -> Seq(Event)]
      BY <1>1 DEF NoBatch
    <2>3. mem' \in [Rooms -> Meta \cup {Nothing}]
      BY <1>0, <1>1 DEF TypeOK
    <2>4. QED BY <1>0, <1>1, <2>1, <2>2, <2>3 DEF TypeOK
  <1>5. BooksSound'
    BY <1>0, <1>1 DEF BooksSound, RoomSound
  <1>6. BudgetSound'
    BY <1>0, <1>1, <1>2 DEF BudgetSound, RoomInBudget, Open
  <1>7. LoopSound'
    <2>1. ASSUME NEW r \in Rooms, todo'[r] # << >> PROVE Open(mem, r)'
      BY <1>1, <1>3, <2>1 DEF Open
    <2>2. QED BY <1>1, <2>1 DEF LoopSound
  <1>8. EventsSound'
    <2>1. ASSUME NEW r \in Rooms PROVE feed'[r] \in Seq(SoundEvents(r)') /\ todo'[r] \in Seq(HeardEvents(r)')
      <3>1. feed'[r] = << >>
        BY <1>1 DEF NoBatch
      <3>2. HeardEvents(r)' = HeardEvents(r)
        BY <1>1 DEF HeardEvents, SoundEvents
      <3>3. QED BY <1>3, <3>1, <3>2
    <2>2. QED BY <2>1 DEF EventsSound
  <1>9. EventsCounted'
    <2>1. ASSUME NEW r \in Rooms
          PROVE  Len(feed'[r]) + Len(todo'[r]) + welcomes[r] + AtTheDoor(r)' <= events
      <3>1. feed'[r] = << >> /\ Len(feed'[r]) = 0 /\ todo[r] = << >> /\ Len(todo[r]) = 0
        BY <1>1, <1>2 DEF NoBatch
      <3>2. AtTheDoor(r) = 0 /\ AtTheDoor(r)' = 0
        BY <1>1 DEF AtTheDoor
      <3>3. Len(feed[r]) + Len(todo[r]) + welcomes[r] + AtTheDoor(r) <= events
        BY <1>0 DEF EventsCounted
      <3>4. welcomes[r] \in Nat /\ events \in Nat
        BY <1>0, Tallies
      <3>5. \A a, b, w, x \in Nat : a + 0 + w + 0 <= x /\ b <= a => 0 + b + w + 0 <= x
        OBVIOUS
      <3>6. QED BY <1>3, <3>1, <3>2, <3>3, <3>4, <3>5
    <2>2. ASSUME NEW r \in Rooms, r \notin minted
          PROVE  welcomes[r] = 0 /\ \A u \in Users : challenges[<<r, u>>] = 0
      BY <1>0, <2>2 DEF EventsCounted
    <2>3. QED BY <1>1, <2>1, <2>2 DEF EventsCounted
  <1>10. SaveSound'
    <2>1. ASSUME NEW r \in Rooms PROVE RoomKept(r)'
      BY <1>1 DEF RoomKept
    <2>2. QED BY <2>1 DEF SaveSound
  <1>11. InvitedByHaiku' /\ BudgetsKept'
    BY <1>0, <1>1 DEF InvitedByHaiku, BudgetsKept, TriesPerChallenge, RepostsPerChallenge, WelcomesBounded
  <1>12. QED BY <1>4, <1>5, <1>6, <1>7, <1>8, <1>9, <1>10, <1>11 DEF LobbyInv

-----------------------------------------------------------------------------
(***************************************************************************)
(* The loop works on one room.                                             *)
(***************************************************************************)
LEMMA AtTurn ==
    ASSUME LobbyInv, NEW r \in Rooms, Turn(r)
    PROVE  /\ pc = "rooms" /\ todo[r] # << >> /\ todo[r] \in Seq(HeardEvents(r))
           /\ Next1(r) \in HeardEvents(r) /\ Next1(r) \in SoundEvents(r)
           /\ Next1(r) \in Event /\ Next1(r).user \in Users
           /\ Tail(todo[r]) \in Seq(HeardEvents(r)) /\ Len(Tail(todo[r])) = Len(todo[r]) - 1
           /\ Len(todo[r]) \in Nat
           /\ Open(mem, r) /\ mem[r] \in Meta /\ mem[r] # Nothing
           /\ ~mem[r].promoted /\ ~mem[r].closed
           /\ r \in minted
  <1>1. pc = "rooms" /\ todo[r] # << >> /\ todo[r] \in Seq(HeardEvents(r)) /\ Open(mem, r)
    BY DEF LobbyInv, Turn, LoopSound, EventsSound
  <1>2. /\ Head(todo[r]) \in HeardEvents(r) /\ Tail(todo[r]) \in Seq(HeardEvents(r))
        /\ Len(Tail(todo[r])) = Len(todo[r]) - 1 /\ Len(todo[r]) \in Nat
    BY <1>1, Shortened
  <1>3. Next1(r) \in SoundEvents(r) /\ Next1(r) \in Event /\ Next1(r).user \in Users
    BY <1>2, EventFields DEF Next1, HeardEvents, SoundEvents
  <1>4. mem[r] # Nothing /\ mem[r] \in Meta /\ ~mem[r].promoted /\ ~mem[r].closed
    BY <1>1 DEF LobbyInv, TypeOK, Open
  <1>5. r \in minted
    BY <1>4 DEF LobbyInv, BooksSound, RoomSound
  <1>6. QED BY <1>1, <1>2, <1>3, <1>4, <1>5 DEF Next1

\* An open or just promoted record may change: the file's closed ones do not.
LEMMA Rewrites ==
    ASSUME LobbyInv, pc \notin Started, NEW r \in Rooms, mem[r] # Nothing, ~mem[r].closed,
           NEW m \in Meta, mem' = [mem EXCEPT ![r] = m], disk' = disk
    PROVE  /\ mem' \in [Rooms -> Meta \cup {Nothing}] /\ mem'[r] = m /\ m # Nothing
           /\ \A x \in Rooms : x # r => mem'[x] = mem[x]
           /\ SaveSound'
  <1>1. mem \in [Rooms -> Meta \cup {Nothing}] /\ m # Nothing
    BY MetaFields DEF LobbyInv, TypeOK
  <1>2. /\ mem' \in [Rooms -> Meta \cup {Nothing}] /\ mem'[r] = m
        /\ \A x \in Rooms : x # r => mem'[x] = mem[x]
    BY <1>1
  <1>3. \A x \in Rooms : RoomKept(x)
    BY DEF LobbyInv, SaveSound
  <1>4. ASSUME NEW x \in Rooms, x # r PROVE RoomKept(x)'
    BY <1>2, <1>3, <1>4 DEF RoomKept
  <1>5. RoomKept(r)'
    BY <1>1, <1>2, <1>3 DEF RoomKept
  <1>6. QED BY <1>1, <1>2, <1>4, <1>5 DEF SaveSound

\* The events of one room are fewer, those of the others as they were.
LEMMA EventsPass ==
    ASSUME EventsSound, NEW r \in Rooms, NEW q \in Seq(HeardEvents(r)), todo' = [todo EXCEPT ![r] = q],
           TypeOK, UNCHANGED <<feed, named, spoke>>,
           \A x \in Rooms, u \in Users : challenges[<<x, u>>] > 0 => challenges'[<<x, u>>] > 0
    PROVE  /\ EventsSound' /\ todo' \in [Rooms -> Seq(Event)] /\ todo'[r] = q
           /\ \A x \in Rooms : x # r => todo'[x] = todo[x]
  <1>1. todo'[r] = q /\ \A x \in Rooms : x # r => todo'[x] = todo[x]
    BY DEF TypeOK
  <1>2. ASSUME NEW x \in Rooms
        PROVE  /\ SoundEvents(x) = SoundEvents(x)' /\ HeardEvents(x) \subseteq HeardEvents(x)'
               /\ HeardEvents(x) \subseteq Event
    <2>1. SoundEvents(x) = SoundEvents(x)' /\ HeardEvents(x) \subseteq Event
      BY DEF SoundEvents, HeardEvents
    <2>2. \A e \in Event : e.user \in Users
      BY EventFields
    <2>3. QED BY <2>1, <2>2 DEF SoundEvents, HeardEvents
  <1>3. ASSUME NEW x \in Rooms
        PROVE  /\ feed'[x] \in Seq(SoundEvents(x)') /\ todo'[x] \in Seq(HeardEvents(x)')
               /\ todo'[x] \in Seq(Event)
    <2>1. feed[x] \in Seq(SoundEvents(x)) /\ todo[x] \in Seq(HeardEvents(x))
      BY DEF EventsSound
    <2>2. todo'[x] \in Seq(HeardEvents(x))
      BY <1>1, <2>1
    <2>3. QED BY <1>2, <2>1, <2>2, SeqMonotonic
  <1>4. todo' \in [Rooms -> Seq(Event)]
    BY <1>3 DEF TypeOK
  <1>5. QED BY <1>1, <1>3, <1>4 DEF EventsSound

\* A step of the loop in the room r, towards the person u: the other rooms'
\* records and the other people's tallies are as they were.
OthersAlone(r, u) ==
    \A x \in Rooms, y \in Users : <<x, y>> # <<r, u>> =>
        /\ challenges'[<<x, y>>] = challenges[<<x, y>>]
        /\ notYets'[<<x, y>>] = notYets[<<x, y>>]
        /\ reposts'[<<x, y>>] = reposts[<<x, y>>]

LEMMA OneRoom ==
    ASSUME LobbyInv, NEW r \in Rooms, NEW u, NEW m \in Meta,
           pc \notin Started, mem[r] # Nothing, ~mem[r].closed,
           mem' = [mem EXCEPT ![r] = m], dirty', OthersAlone(r, u),
           UNCHANGED <<disk, minted, named, crashes, welcomes>>, botIn \ {r} \subseteq botIn',
           RoomSound(mem, r)', RoomInBudget(mem, r)',
           u \in Users => /\ challenges'[<<r, u>>] \in Nat /\ challenges'[<<r, u>>] >= challenges[<<r, u>>]
                          /\ notYets'[<<r, u>>] <= (MaxTries - 1) * challenges'[<<r, u>>]
                          /\ reposts'[<<r, u>>] <= MaxResends * challenges'[<<r, u>>]
    PROVE  BooksSound' /\ BudgetSound' /\ BudgetsKept' /\ SaveSound'
  <1>0. BooksSound /\ BudgetSound /\ BudgetsKept /\ TypeOK
    BY DEF LobbyInv
  <1>1. \A x \in Rooms : x # r => mem'[x] = mem[x]
    BY Rewrites
  <1>2. SaveSound'
    BY Rewrites
  <1>3. \A x \in Rooms, y \in Users : challenges[<<x, y>>] > 0 => challenges'[<<x, y>>] > 0
    <2>1. \A x \in Rooms, y \in Users : challenges[<<x, y>>] \in Nat
      BY <1>0, Tallies
    <2>2. ASSUME NEW x \in Rooms, NEW y \in Users, challenges[<<x, y>>] > 0
          PROVE  challenges'[<<x, y>>] > 0
      <3>1. CASE <<x, y>> = <<r, u>>
        <4>1. x = r /\ y = u
          BY <3>1
        <4>2. QED BY <2>1, <2>2, <4>1
      <3>2. CASE <<x, y>> # <<r, u>>
        BY <2>2, <3>2 DEF OthersAlone
      <3>3. QED BY <3>1, <3>2
    <2>3. QED BY <2>2
  <1>4. BooksSound'
    <2>1. ASSUME NEW x \in Rooms PROVE RoomSound(disk, x)'
      BY <1>0, <1>3 DEF BooksSound, RoomSound
    <2>2. ASSUME NEW x \in Rooms, x # r PROVE RoomSound(mem, x)'
      BY <1>0, <1>1, <1>3, <2>2 DEF BooksSound, RoomSound
    <2>3. QED BY <2>1, <2>2 DEF BooksSound
  <1>5. BudgetSound'
    <2>1. ASSUME NEW x \in Rooms, x # r PROVE RoomInBudget(mem, x)'
      <3>1. \A y \in Users : /\ challenges'[<<x, y>>] = challenges[<<x, y>>]
                             /\ notYets'[<<x, y>>] = notYets[<<x, y>>]
                             /\ reposts'[<<x, y>>] = reposts[<<x, y>>]
        BY <2>1 DEF OthersAlone
      <3>2. mem'[x] = mem[x] /\ RoomInBudget(mem, x)
        BY <1>0, <1>1, <2>1 DEF BudgetSound
      <3>3. QED BY <2>1, <3>1, <3>2 DEF RoomInBudget, Open
    <2>2. QED BY <2>1 DEF BudgetSound
  <1>6. TriesPerChallenge' /\ RepostsPerChallenge'
    <2>1. ASSUME NEW p \in Pairs
          PROVE  /\ notYets'[p] <= (MaxTries - 1) * challenges'[p]
                 /\ reposts'[p] <= MaxResends * challenges'[p]
      <3>1. PICK x \in Rooms, y \in Users : p = <<x, y>>
        BY DEF Pairs
      <3>2. CASE p = <<r, u>>
        <4>1. u \in Users
          BY <3>1, <3>2
        <4>2. QED BY <3>2, <4>1
      <3>3. CASE p # <<r, u>>
        <4>1. /\ challenges'[p] = challenges[p] /\ notYets'[p] = notYets[p] /\ reposts'[p] = reposts[p]
          BY <3>1, <3>3 DEF OthersAlone
        <4>2. QED BY <1>0, <4>1 DEF BudgetsKept, TriesPerChallenge, RepostsPerChallenge
      <3>4. QED BY <3>2, <3>3
    <2>2. QED BY <2>1 DEF TriesPerChallenge, RepostsPerChallenge
  <1>7. WelcomesBounded'
    BY <1>0 DEF BudgetsKept, WelcomesBounded
  <1>8. QED BY <1>2, <1>4, <1>5, <1>6, <1>7 DEF BudgetsKept

\* What is in the books and the budgets for one person.
LEMMA Ledger ==
    ASSUME LobbyInv, NEW r \in Rooms, NEW u \in Users
    PROVE  /\ notYets[<<r, u>>] <= (MaxTries - 1) * challenges[<<r, u>>]
           /\ reposts[<<r, u>>] <= MaxResends * challenges[<<r, u>>]
           /\ notYets[<<r, u>>] \in Nat /\ reposts[<<r, u>>] \in Nat /\ challenges[<<r, u>>] \in Nat
           /\ RoomInBudget(mem, r) /\ RoomSound(mem, r)
  <1>1. <<r, u>> \in Pairs
    BY DEF Pairs
  <1>2. notYets[<<r, u>>] \in Nat /\ reposts[<<r, u>>] \in Nat /\ challenges[<<r, u>>] \in Nat
    BY Tallies DEF LobbyInv
  <1>3. QED BY <1>1, <1>2 DEF LobbyInv, BudgetsKept, TriesPerChallenge, RepostsPerChallenge, BudgetSound, BooksSound

\* One event of the room is worked off.
LEMMA OneLess ==
    ASSUME EventsCounted, TypeOK, NEW r \in Rooms, pc = "rooms", pc' = "rooms",
           Len(todo'[r]) \in Nat, Len(todo'[r]) <= Len(todo[r]), \A x \in Rooms : x # r => todo'[x] = todo[x],
           UNCHANGED <<feed, welcomes, events, minted>>,
           \A x \in Rooms, u \in Users : x \notin minted => challenges'[<<x, u>>] = challenges[<<x, u>>]
    PROVE  EventsCounted'
  <1>1. ASSUME NEW x \in Rooms
        PROVE  Len(feed[x]) + Len(todo'[x]) + welcomes[x] + AtTheDoor(x)' <= events
    <2>1. Len(feed[x]) + Len(todo[x]) + welcomes[x] + AtTheDoor(x) <= events
      BY DEF EventsCounted
    <2>2. AtTheDoor(x) = 0 /\ AtTheDoor(x)' = 0
      BY DEF AtTheDoor
    <2>3. Len(feed[x]) \in Nat /\ Len(todo[x]) \in Nat /\ welcomes[x] \in Nat /\ events \in Nat
      BY Tallies
    <2>4. Len(todo'[x]) \in Nat /\ Len(todo'[x]) <= Len(todo[x])
      BY <2>3
    <2>5. \A a, b, c, w, e \in Nat : a + b + w + 0 <= e /\ c <= b => a + c + w + 0 <= e
      OBVIOUS
    <2>6. QED BY <2>1, <2>2, <2>3, <2>4, <2>5
  <1>2. ASSUME NEW x \in Rooms, x \notin minted
        PROVE  welcomes[x] = 0 /\ \A u \in Users : challenges'[<<x, u>>] = 0
    BY <1>2 DEF EventsCounted
  <1>3. QED BY <1>1, <1>2 DEF EventsCounted

\* LobbyInv but for the world of the users, in a step between two of the
\* loop's turns.
LEMMA TurnEnds ==
    ASSUME LobbyInv, NEW r \in Rooms, pc = "rooms", pc' = "rooms",
           \A x \in Rooms : x # r => mem'[x] = mem[x] /\ todo'[x] = todo[x],
           todo'[r] # << >> => Open(mem, r)'
    PROVE  LoopSound'
  <1>1. ASSUME NEW x \in Rooms, todo'[x] # << >> PROVE Open(mem, x)'
    BY <1>1 DEF LobbyInv, LoopSound, Open
  <1>2. QED BY <1>1 DEF LoopSound

LEMMA MetaEdited ==
    ASSUME NEW m \in Meta, NEW c \in Seq(Users), NEW t \in [Users -> Int], NEW n \in [Users -> Nat],
           NEW s \in [Users -> {"recent", "old"}], NEW d \in [Users -> BOOLEAN]
    PROVE  [m EXCEPT !.challenged = c, !.tries = t, !.display = d, !.sent = s, !.resends = n] \in Meta
  BY DEF Meta

LEMMA StepChallenge ==
    ASSUME LobbyInv, NEW r \in Rooms, Challenge(r)
    PROVE  LobbyInv'
  <1>0. /\ TypeOK /\ BooksSound /\ BudgetSound /\ LoopSound /\ EventsSound /\ EventsCounted /\ SaveSound
        /\ InvitedByHaiku /\ BudgetsKept
    BY DEF LobbyInv
  <1> DEFINE e == Next1(r)
             u == e.user
             old == mem[r]
             m == Noted(old, e)
  <1>1. /\ Turn(r) /\ e.type = "join"
        /\ mem' = [mem EXCEPT ![r] = m]
        /\ challenges' = [challenges EXCEPT ![<<r, u>>] = @ + 1]
        /\ cur' = r /\ todo' = [todo EXCEPT ![r] = Tail(@)] /\ dirty' = TRUE
        /\ UNCHANGED <<disk, pc, feed, minted, botIn, aged, member, named, inRoom, events,
                       crashes, reposts, notYets, spoke, welcomes>>
    BY DEF Challenge, Advance, world
  <1>2. /\ pc = "rooms" /\ e \in SoundEvents(r) /\ e \in Event /\ u \in Users /\ e.named \in BOOLEAN
        /\ Tail(todo[r]) \in Seq(HeardEvents(r)) /\ Len(Tail(todo[r])) = Len(todo[r]) - 1
        /\ Len(todo[r]) \in Nat
        /\ old \in Meta /\ old # Nothing /\ ~old.promoted /\ ~old.closed /\ r \in minted
    BY <1>1, AtTurn, EventFields
  <1> HIDE DEF e
  <1>4. /\ old.challenged \in Seq(Users) /\ old.tries \in [Users -> Int] /\ old.resends \in [Users -> Nat]
        /\ old.sent \in [Users -> {"recent", "old"}] /\ old.display \in [Users -> BOOLEAN]
        /\ old.promoted \in BOOLEAN /\ old.closed \in BOOLEAN
        /\ old.reason \in {"open", "promoted", "already_member", "timeout"}
    BY <1>2, MetaFields
  <1>5. /\ m.challenged = Append(old.challenged, u) /\ m.tries = [old.tries EXCEPT ![u] = MaxTries]
        /\ m.display = [old.display EXCEPT ![u] = e.named] /\ m.resends = [old.resends EXCEPT ![u] = 0]
        /\ m.sent = [old.sent EXCEPT ![u] = "recent"]
        /\ m.promoted = old.promoted /\ m.closed = old.closed /\ m.reason = old.reason
    BY <1>2 DEF Meta, Noted
  <1>6. m \in Meta
    <2>1. Append(old.challenged, u) \in Seq(Users)
      BY <1>2, <1>4, Appended
    <2>2. MaxTries \in Int
      BY LobbyBounds
    <2>3. [old.tries EXCEPT ![u] = MaxTries] \in [Users -> Int]
      BY <1>4, <2>2
    <2>4. [old.resends EXCEPT ![u] = 0] \in [Users -> Nat]
      BY <1>4
    <2>5. [old.sent EXCEPT ![u] = "recent"] \in [Users -> {"recent", "old"}]
      BY <1>4
    <2>6. [old.display EXCEPT ![u] = e.named] \in [Users -> BOOLEAN]
      BY <1>2, <1>4
    <2>7. m = [old EXCEPT !.challenged = Append(old.challenged, u),
                          !.tries = [old.tries EXCEPT ![u] = MaxTries],
                          !.display = [old.display EXCEPT ![u] = e.named],
                          !.sent = [old.sent EXCEPT ![u] = "recent"],
                          !.resends = [old.resends EXCEPT ![u] = 0]]
      BY DEF Noted
    <2> HIDE DEF m
    <2>8. QED BY <1>2, <2>1, <2>3, <2>4, <2>5, <2>6, <2>7, MetaEdited
  <1> HIDE DEF m
  <1>7. /\ mem' \in [Rooms -> Meta \cup {Nothing}] /\ mem'[r] = m /\ m # Nothing
        /\ \A x \in Rooms : x # r => mem'[x] = mem[x]
    BY <1>1, <1>2, <1>6, Rewrites
  <1>8. /\ challenges' \in [Pairs -> Nat] /\ challenges'[<<r, u>>] = challenges[<<r, u>>] + 1
        /\ \A p \in Pairs : p # <<r, u>> => challenges'[p] = challenges[p]
        /\ challenges[<<r, u>>] \in Nat
    <2>1. <<r, u>> \in Pairs /\ challenges \in [Pairs -> Nat]
      BY <1>0, <1>2 DEF Pairs, TypeOK
    <2>2. QED BY <1>1, <2>1
  <1>9. OthersAlone(r, u)
    BY <1>1, <1>8 DEF OthersAlone, Pairs
  <1>10. RoomSound(mem, r)'
    <2>1. ASSUME NEW y \in Users, Contains(m.challenged, y) PROVE challenges'[<<r, y>>] > 0
      <3>1. CASE y = u
        BY <1>8, <3>1
      <3>2. CASE y # u
        <4>1. Contains(old.challenged, y)
          BY <1>2, <1>4, <1>5, <2>1, <3>2, AppendedContains
        <4>2. challenges[<<r, y>>] > 0
          BY <1>0, <1>2, <4>1 DEF BooksSound, RoomSound
        <4>3. challenges'[<<r, y>>] = challenges[<<r, y>>]
          BY <1>9, <3>2 DEF OthersAlone
        <4>4. QED BY <4>2, <4>3
      <3>3. QED BY <3>1, <3>2
    <2>2. ASSUME NEW y \in Users, m.display[y] PROVE y \in named
      <3>1. CASE y = u
        <4>1. e.named
          BY <1>2, <1>4, <1>5, <2>2, <3>1
        <4>2. QED BY <1>2, <3>1, <4>1 DEF SoundEvents
      <3>2. CASE y # u
        BY <1>0, <1>2, <1>4, <1>5, <2>2, <3>2 DEF BooksSound, RoomSound
      <3>3. QED BY <3>1, <3>2
    <2>3. ASSUME NEW y \in Users PROVE m.tries[y] <= MaxTries /\ m.resends[y] <= MaxResends
      <3>1. old.tries[y] <= MaxTries /\ old.resends[y] <= MaxResends
        BY <1>0, <1>2 DEF BooksSound, RoomSound
      <3>2. QED BY <1>4, <1>5, <3>1, LobbyBounds
    <2>4. QED BY <1>1, <1>2, <1>7, <2>1, <2>2, <2>3 DEF RoomSound
  <1>11. /\ notYets[<<r, u>>] <= (MaxTries - 1) * challenges[<<r, u>>]
         /\ reposts[<<r, u>>] <= MaxResends * challenges[<<r, u>>]
         /\ notYets[<<r, u>>] \in Nat /\ reposts[<<r, u>>] \in Nat /\ RoomInBudget(mem, r)
    BY <1>2, Ledger
  <1>12. /\ notYets[<<r, u>>] + MaxTries - 1 <= (MaxTries - 1) * challenges'[<<r, u>>]
         /\ reposts[<<r, u>>] + MaxResends <= MaxResends * challenges'[<<r, u>>]
    <2>1. \A a, b \in Nat : b * (a + 1) = b * a + b
      OBVIOUS
    <2>2. MaxTries - 1 \in Nat /\ MaxResends \in Nat
      BY LobbyBounds
    <2>3. /\ (MaxTries - 1) * challenges'[<<r, u>>] = (MaxTries - 1) * challenges[<<r, u>>] + (MaxTries - 1)
          /\ MaxResends * challenges'[<<r, u>>] = MaxResends * challenges[<<r, u>>] + MaxResends
      BY <1>8, <2>1, <2>2
    <2>4. (MaxTries - 1) * challenges[<<r, u>>] \in Nat /\ MaxResends * challenges[<<r, u>>] \in Nat
      BY <1>8, <2>2
    <2>5. QED BY <1>11, <2>2, <2>3, <2>4
  <1>13. RoomInBudget(mem, r)'
    <2>1. ASSUME NEW y \in Users, challenges'[<<r, y>>] > 0
          PROVE  /\ notYets[<<r, y>>] + m.tries[y] - 1 <= (MaxTries - 1) * challenges'[<<r, y>>]
                 /\ reposts[<<r, y>>] + MaxResends - m.resends[y] <= MaxResends * challenges'[<<r, y>>]
      <3>1. CASE y = u
        <4>1. m.tries[y] = MaxTries /\ m.resends[y] = 0
          BY <1>4, <1>5, <3>1
        <4>2. reposts[<<r, u>>] + MaxResends - 0 = reposts[<<r, u>>] + MaxResends
          BY <1>11, LobbyBounds
        <4>3. QED BY <1>12, <3>1, <4>1, <4>2
      <3>2. CASE y # u
        <4>1. challenges'[<<r, y>>] = challenges[<<r, y>>]
          BY <1>9, <3>2 DEF OthersAlone
        <4>2. m.tries[y] = old.tries[y] /\ m.resends[y] = old.resends[y]
          BY <1>4, <1>5, <3>2
        <4>3. QED BY <1>2, <1>11, <2>1, <4>1, <4>2 DEF RoomInBudget
      <3>3. QED BY <3>1, <3>2
    <2>2. welcomes[r] <= crashes /\ (crashes = 0 => r \in botIn)
      BY <1>2, <1>11 DEF RoomInBudget, Open
    <2>3. QED BY <1>1, <1>7, <2>1, <2>2 DEF RoomInBudget
  <1>14. /\ notYets[<<r, u>>] <= (MaxTries - 1) * challenges'[<<r, u>>]
         /\ reposts[<<r, u>>] <= MaxResends * challenges'[<<r, u>>]
    <2>1. MaxTries - 1 \in Nat /\ MaxResends \in Nat
      BY LobbyBounds
    <2>2. (MaxTries - 1) * challenges'[<<r, u>>] \in Nat /\ MaxResends * challenges'[<<r, u>>] \in Nat
      BY <1>8, <2>1
    <2>3. QED BY <1>11, <1>12, <2>1, <2>2
  <1>15. BooksSound' /\ BudgetSound' /\ BudgetsKept' /\ SaveSound'
    <2>1. challenges'[<<r, u>>] \in Nat /\ challenges'[<<r, u>>] >= challenges[<<r, u>>]
      BY <1>8
    <2>2. QED BY <1>1, <1>2, <1>6, <1>9, <1>10, <1>13, <1>14, <2>1, OneRoom
  <1>16. /\ EventsSound' /\ todo' \in [Rooms -> Seq(Event)] /\ todo'[r] = Tail(todo[r])
         /\ \A x \in Rooms : x # r => todo'[x] = todo[x]
    <2>1. \A x \in Rooms, y \in Users : challenges[<<x, y>>] > 0 => challenges'[<<x, y>>] > 0
      BY <1>8 DEF Pairs
    <2>2. todo' = [todo EXCEPT ![r] = Tail(todo[r])]
      BY <1>1
    <2>3. QED BY <1>0, <1>1, <1>2, <2>1, <2>2, EventsPass
  <1>17. TypeOK'
    <2>1. cur' \in Rooms \cup {Nothing} /\ dirty' \in BOOLEAN /\ pc' = pc /\ disk' = disk
      BY <1>1
    <2>2. UNCHANGED <<feed, minted, botIn, aged, member, named, inRoom, events,
                      crashes, reposts, notYets, spoke, welcomes>>
      BY <1>1
    <2>3. QED BY <1>0, <1>7, <1>8, <1>16, <2>1, <2>2 DEF TypeOK
  <1>18. LoopSound'
    BY <1>1, <1>2, <1>5, <1>7, <1>16, TurnEnds DEF Open
  <1>19. EventsCounted'
    <2>1. \A x \in Rooms, y \in Users : x \notin minted => challenges'[<<x, y>>] = challenges[<<x, y>>]
      BY <1>2, <1>8 DEF Pairs
    <2>2. Len(todo'[r]) \in Nat /\ Len(todo'[r]) <= Len(todo[r])
      BY <1>2, <1>16
    <2>3. QED BY <1>0, <1>1, <1>2, <1>16, <2>1, <2>2, OneLess
  <1>20. InvitedByHaiku'
    <2>1. \A x \in Rooms, y \in Users : challenges[<<x, y>>] > 0 => challenges'[<<x, y>>] > 0
      BY <1>8 DEF Pairs
    <2>2. QED BY <1>0, <1>1, <2>1 DEF InvitedByHaiku
  <1>21. QED BY <1>15, <1>16, <1>17, <1>18, <1>19, <1>20 DEF LobbyInv

LEMMA StepRefuse ==
    ASSUME LobbyInv, NEW r \in Rooms, Refuse(r)
    PROVE  LobbyInv'
  <1>0. /\ TypeOK /\ BooksSound /\ BudgetSound /\ LoopSound /\ EventsSound /\ EventsCounted /\ SaveSound
        /\ InvitedByHaiku /\ BudgetsKept
    BY DEF LobbyInv
  <1> DEFINE e == Next1(r)
             u == e.user
             old == mem[r]
             left == old.tries[u] - 1
             m == Tried(old, u, left)
  <1>1. /\ Turn(r) /\ e.type = "msg"
        /\ mem' = [mem EXCEPT ![r] = m]
        /\ notYets' = IF LastTry(left) THEN notYets ELSE [notYets EXCEPT ![<<r, u>>] = @ + 1]
        /\ cur' = r /\ todo' = [todo EXCEPT ![r] = Tail(@)] /\ dirty' = TRUE
        /\ UNCHANGED <<disk, pc, feed, minted, botIn, aged, member, named, inRoom, events,
                       crashes, reposts, challenges, spoke, welcomes>>
    BY DEF Refuse, Advance, world
  <1>2. /\ pc = "rooms" /\ e \in Event /\ u \in Users /\ challenges[<<r, u>>] > 0
        /\ Tail(todo[r]) \in Seq(HeardEvents(r)) /\ Len(Tail(todo[r])) = Len(todo[r]) - 1
        /\ Len(todo[r]) \in Nat
        /\ old \in Meta /\ old # Nothing /\ ~old.promoted /\ ~old.closed /\ r \in minted
    BY <1>1, AtTurn DEF HeardEvents
  <1> HIDE DEF e
  <1>4. old.challenged \in Seq(Users) /\ old.tries \in [Users -> Int] /\ left \in Int
        /\ old.tries[u] \in Int
    BY <1>2, MetaFields
  <1>5. /\ m.challenged = IF LastTry(left) THEN Without(old.challenged, u) ELSE old.challenged
        /\ m.tries = [old.tries EXCEPT ![u] = left]
        /\ m.display = old.display /\ m.resends = old.resends
        /\ m.promoted = old.promoted /\ m.closed = old.closed /\ m.reason = old.reason
    BY <1>2 DEF Meta, Tried
  <1>6. m \in Meta /\ \A y : Contains(m.challenged, y) => Contains(old.challenged, y)
    <2> DEFINE c == IF LastTry(left) THEN Without(old.challenged, u) ELSE old.challenged
               t == [old.tries EXCEPT ![u] = left]
    <2>1. c \in Seq(Users) /\ \A y : Contains(c, y) => Contains(old.challenged, y)
      BY <1>4, WithoutOne
    <2>2. t \in [Users -> Int]
      BY <1>4
    <2>3. m = [old EXCEPT !.tries = t, !.challenged = c]
      BY DEF Tried
    <2>4. m.challenged = c
      BY <1>5
    <2> HIDE DEF m, c, t
    <2>5. m \in Meta
      BY <1>2, <2>1, <2>2, <2>3 DEF Meta
    <2>6. QED BY <2>1, <2>4, <2>5
  <1> HIDE DEF m
  <1>7. /\ mem' \in [Rooms -> Meta \cup {Nothing}] /\ mem'[r] = m /\ m # Nothing
        /\ \A x \in Rooms : x # r => mem'[x] = mem[x]
    BY <1>1, <1>2, <1>6, Rewrites
  <1>8. /\ notYets' \in [Pairs -> Nat]
        /\ \A p \in Pairs : p # <<r, u>> => notYets'[p] = notYets[p]
        /\ notYets[<<r, u>>] \in Nat
        /\ notYets'[<<r, u>>] = IF LastTry(left) THEN notYets[<<r, u>>] ELSE notYets[<<r, u>>] + 1
    <2>1. <<r, u>> \in Pairs /\ notYets \in [Pairs -> Nat]
      BY <1>0, <1>2 DEF Pairs, TypeOK
    <2>2. CASE LastTry(left)
      BY <1>1, <2>1, <2>2
    <2>3. CASE ~LastTry(left)
      BY <1>1, <2>1, <2>3
    <2>4. QED BY <2>2, <2>3
  <1>9. OthersAlone(r, u)
    BY <1>1, <1>8 DEF OthersAlone, Pairs
  <1>10. RoomSound(mem, r)'
    <2>1. RoomSound(mem, r)
      BY <1>0 DEF BooksSound
    <2>2. \A y \in Users : y # u => m.tries[y] = old.tries[y]
      BY <1>4, <1>5
    <2>3. m.tries[u] = left /\ old.tries[u] <= MaxTries
      BY <1>2, <1>4, <1>5, <2>1 DEF RoomSound
    <2>4. ASSUME NEW y \in Users PROVE m.tries[y] <= MaxTries
      <3>1. CASE y = u
        BY <1>4, <2>3, <3>1, LobbyBounds
      <3>2. CASE y # u
        BY <1>2, <2>1, <2>2, <3>2 DEF RoomSound
      <3>3. QED BY <3>1, <3>2
    <2>5. QED BY <1>1, <1>2, <1>5, <1>6, <1>7, <2>1, <2>4 DEF RoomSound
  <1>11. /\ notYets[<<r, u>>] <= (MaxTries - 1) * challenges[<<r, u>>]
         /\ reposts[<<r, u>>] <= MaxResends * challenges[<<r, u>>]
         /\ challenges[<<r, u>>] \in Nat
         /\ RoomInBudget(mem, r)
    BY <1>2, Ledger
  <1> DEFINE most == (MaxTries - 1) * challenges[<<r, u>>]
  <1>12. /\ most \in Nat /\ notYets[<<r, u>>] + old.tries[u] - 1 <= most
         /\ notYets[<<r, u>>] <= most
    <2>1. most \in Nat
      BY <1>11, LobbyBounds
    <2>2. QED BY <1>2, <1>11, <2>1 DEF RoomInBudget
  <1> HIDE DEF most
  <1>13. notYets'[<<r, u>>] + left - 1 <= most /\ notYets'[<<r, u>>] <= most
    <2>0. \A a, b \in Nat, t \in Int :
             a + t - 1 <= b => a + (t - 1) - 1 <= b /\ (a + 1) + (t - 1) - 1 <= b
                               /\ (t - 1 > 0 => a + 1 <= b)
      OBVIOUS
    <2>1. CASE LastTry(left)
      <3>1. notYets'[<<r, u>>] = notYets[<<r, u>>]
        BY <1>8, <2>1
      <3>2. QED BY <1>4, <1>8, <1>12, <3>1, <2>0
    <2>2. CASE ~LastTry(left)
      <3>1. notYets'[<<r, u>>] = notYets[<<r, u>>] + 1
        BY <1>8, <2>2
      <3>2. left > 0
        BY <1>4, <2>2 DEF LastTry
      <3>3. QED BY <1>4, <1>8, <1>12, <3>1, <3>2, <2>0
    <2>3. QED BY <2>1, <2>2
  <1>14. RoomInBudget(mem, r)'
    <2>1. ASSUME NEW y \in Users, challenges[<<r, y>>] > 0
          PROVE  /\ notYets'[<<r, y>>] + m.tries[y] - 1 <= (MaxTries - 1) * challenges[<<r, y>>]
                 /\ reposts[<<r, y>>] + MaxResends - m.resends[y] <= MaxResends * challenges[<<r, y>>]
      <3>1. reposts[<<r, y>>] + MaxResends - m.resends[y] <= MaxResends * challenges[<<r, y>>]
        BY <1>2, <1>5, <1>11, <2>1 DEF RoomInBudget
      <3>2. CASE y = u
        <4>1. m.tries[y] = left
          BY <1>4, <1>5, <3>2
        <4>2. QED BY <1>13, <3>1, <3>2, <4>1 DEF most
      <3>3. CASE y # u
        <4>1. notYets'[<<r, y>>] = notYets[<<r, y>>]
          BY <1>9, <3>3 DEF OthersAlone
        <4>2. m.tries[y] = old.tries[y]
          BY <1>4, <1>5, <3>3
        <4>3. QED BY <1>2, <1>11, <2>1, <3>1, <4>1, <4>2 DEF RoomInBudget
      <3>4. QED BY <3>2, <3>3
    <2>2. welcomes[r] <= crashes /\ (crashes = 0 => r \in botIn)
      BY <1>2, <1>11 DEF RoomInBudget, Open
    <2>3. QED BY <1>1, <1>7, <2>1, <2>2 DEF RoomInBudget
  <1>15. BooksSound' /\ BudgetSound' /\ BudgetsKept' /\ SaveSound'
    <2>1. /\ challenges'[<<r, u>>] \in Nat /\ challenges'[<<r, u>>] >= challenges[<<r, u>>]
          /\ notYets'[<<r, u>>] <= (MaxTries - 1) * challenges'[<<r, u>>]
          /\ reposts'[<<r, u>>] <= MaxResends * challenges'[<<r, u>>]
      BY <1>1, <1>11, <1>13 DEF most
    <2>2. QED BY <1>1, <1>2, <1>6, <1>9, <1>10, <1>14, <2>1, OneRoom
  <1>16. /\ EventsSound' /\ todo' \in [Rooms -> Seq(Event)] /\ todo'[r] = Tail(todo[r])
         /\ \A x \in Rooms : x # r => todo'[x] = todo[x]
    <2>2. todo' = [todo EXCEPT ![r] = Tail(todo[r])]
      BY <1>1
    <2>3. QED BY <1>0, <1>1, <1>2, <2>2, EventsPass
  <1>17. TypeOK'
    <2>1. cur' \in Rooms \cup {Nothing} /\ dirty' \in BOOLEAN /\ pc' = pc /\ disk' = disk
      BY <1>1
    <2>2. UNCHANGED <<feed, minted, botIn, aged, member, named, inRoom, events,
                      crashes, challenges, reposts, spoke, welcomes>>
      BY <1>1
    <2>3. QED BY <1>0, <1>7, <1>8, <1>16, <2>1, <2>2 DEF TypeOK
  <1>18. LoopSound'
    BY <1>1, <1>2, <1>5, <1>7, <1>16, TurnEnds DEF Open
  <1>19. EventsCounted'
    <2>2. Len(todo'[r]) \in Nat /\ Len(todo'[r]) <= Len(todo[r])
      BY <1>2, <1>16
    <2>3. QED BY <1>0, <1>1, <1>2, <1>16, <2>2, OneLess
  <1>20. InvitedByHaiku'
    BY <1>0, <1>1 DEF InvitedByHaiku
  <1>21. QED BY <1>15, <1>16, <1>17, <1>18, <1>19, <1>20 DEF LobbyInv

LEMMA Emptied ==
    ASSUME EventsCounted, TypeOK, NEW r \in Rooms, pc = "rooms", todo[r] # << >>, todo'[r] = << >>,
           pc' = "rooms" \/ (pc' = "invited" /\ cur' = r),
           \A x \in Rooms : x # r => todo'[x] = todo[x],
           UNCHANGED <<feed, welcomes, events, minted, challenges>>
    PROVE  EventsCounted'
  <1>1. ASSUME NEW x \in Rooms
        PROVE  Len(feed[x]) + Len(todo'[x]) + welcomes[x] + AtTheDoor(x)' <= events
    <2>1. Len(feed[x]) + Len(todo[x]) + welcomes[x] + AtTheDoor(x) <= events
      BY DEF EventsCounted
    <2>2. AtTheDoor(x) = 0 /\ AtTheDoor(x)' \in {0, 1} /\ (x # r => AtTheDoor(x)' = 0)
      BY DEF AtTheDoor
    <2>3. /\ Len(feed[x]) \in Nat /\ Len(todo[x]) \in Nat /\ welcomes[x] \in Nat /\ events \in Nat
          /\ todo[x] \in Seq(Event)
      BY Tallies
    <2>4. CASE x = r
      <3>1. Len(todo[x]) # 0
        BY <2>3, <2>4, EmptySeq
      <3>2. Len(todo'[x]) = 0
        BY <2>4
      <3>3. \A a, b, w, e \in Nat, d \in {0, 1} : a + b + w + 0 <= e /\ b # 0 => a + 0 + w + d <= e
        OBVIOUS
      <3>4. QED BY <2>1, <2>2, <2>3, <3>1, <3>2, <3>3
    <2>5. CASE x # r
      BY <2>1, <2>2, <2>5
    <2>6. QED BY <2>4, <2>5
  <1>2. ASSUME NEW x \in Rooms, x \notin minted
        PROVE  welcomes[x] = 0 /\ \A u \in Users : challenges[<<x, u>>] = 0
    BY <1>2 DEF EventsCounted
  <1>3. QED BY <1>1, <1>2 DEF EventsCounted

LEMMA StepPromote ==
    ASSUME LobbyInv, NEW r \in Rooms, Promote(r)
    PROVE  LobbyInv'
  <1>0. /\ TypeOK /\ BooksSound /\ BudgetSound /\ LoopSound /\ EventsSound /\ EventsCounted /\ SaveSound
        /\ InvitedByHaiku /\ BudgetsKept
    BY DEF LobbyInv
  <1> DEFINE e == Next1(r)
             u == e.user
             old == mem[r]
  <1>a. PICK answer \in InviteAnswers(u) :
           /\ mem' = [mem EXCEPT ![r] = Noticed(@, answer)]
           /\ member' = [member EXCEPT ![u] = IF answer = 200 THEN "invited" ELSE @]
    BY DEF Promote
  <1> DEFINE m == Noticed(old, answer)
  <1>1. /\ Turn(r) /\ e.type = "msg" /\ Passes(mem[r], e)
        /\ mem' = [mem EXCEPT ![r] = Noticed(@, answer)]
        /\ member' = [member EXCEPT ![u] = IF answer = 200 THEN "invited" ELSE @]
        /\ pc' = "invited" /\ cur' = r /\ dirty' = TRUE
        /\ todo' = [todo EXCEPT ![r] = << >>]
        /\ UNCHANGED <<disk, feed, minted, botIn, aged, named, inRoom, events,
                       crashes, challenges, reposts, notYets, spoke, welcomes>>
    BY <1>a DEF Promote, tally
  <1>2. /\ pc = "rooms" /\ e \in Event /\ u \in Users /\ todo[r] # << >>
        /\ old \in Meta /\ old # Nothing /\ ~old.promoted /\ ~old.closed /\ r \in minted
        /\ challenges[<<r, u>>] > 0 /\ e \in SoundEvents(r)
    BY <1>1, AtTurn DEF HeardEvents
  <1>3. mem' = [mem EXCEPT ![r] = m]
    BY <1>0, <1>1 DEF TypeOK
  <1>4. e.good /\ old.display[u]
    BY <1>1 DEF Passes
  <1>5. <<r, u>> \in spoke /\ u \in named
    BY <1>0, <1>1, <1>2, <1>4 DEF SoundEvents, BooksSound, RoomSound
  <1> HIDE DEF e
  <1>6. /\ m \in Meta /\ m.challenged = old.challenged /\ m.tries = old.tries /\ m.resends = old.resends
        /\ m.display = old.display /\ m.promoted /\ ~m.closed
    <2> DEFINE why == IF answer = 403 THEN "already_member" ELSE "promoted"
    <2>1. why \in {"already_member", "promoted"}
      OBVIOUS
    <2>2. m = [old EXCEPT !.promoted = TRUE, !.reason = why]
      BY DEF Noticed
    <2> HIDE DEF why, m
    <2>3. m \in Meta
      BY <1>2, <2>1, <2>2 DEF Meta
    <2>4. QED BY <1>2, <2>2, <2>3 DEF Meta
  <1> HIDE DEF m
  <1>7. /\ mem' \in [Rooms -> Meta \cup {Nothing}] /\ mem'[r] = m /\ m # Nothing
        /\ \A x \in Rooms : x # r => mem'[x] = mem[x]
    BY <1>1, <1>2, <1>3, <1>6, Rewrites
  <1>8. OthersAlone(r, u)
    BY <1>1 DEF OthersAlone
  <1>9. /\ RoomInBudget(mem, r) /\ RoomSound(mem, r) /\ challenges[<<r, u>>] \in Nat
        /\ notYets[<<r, u>>] <= (MaxTries - 1) * challenges[<<r, u>>]
        /\ reposts[<<r, u>>] <= MaxResends * challenges[<<r, u>>]
    BY <1>2, Ledger
  <1>10. RoomSound(mem, r)'
    BY <1>1, <1>2, <1>6, <1>7, <1>9 DEF RoomSound
  <1>11. RoomInBudget(mem, r)'
    BY <1>1, <1>2, <1>6, <1>7, <1>9 DEF RoomInBudget, Open
  <1>12. welcomes[r] <= crashes /\ (crashes = 0 => r \in botIn)
    BY <1>2, <1>9 DEF RoomInBudget, Open
  <1>13. BooksSound' /\ BudgetSound' /\ BudgetsKept' /\ SaveSound'
    <2>1. challenges[<<r, u>>] >= challenges[<<r, u>>]
      BY <1>9
    <2>2. QED BY <1>1, <1>2, <1>3, <1>6, <1>8, <1>9, <1>10, <1>11, <2>1, OneRoom
  <1>14. /\ EventsSound' /\ todo' \in [Rooms -> Seq(Event)] /\ todo'[r] = << >>
         /\ \A x \in Rooms : x # r => todo'[x] = todo[x]
    <2>1. << >> \in Seq(HeardEvents(r))
      OBVIOUS
    <2>2. QED BY <1>0, <1>1, <2>1, EventsPass
  <1>15. member' \in [Users -> {"no", "invited", "joined"}]
         /\ \A x \in Users : x # u => member'[x] = member[x]
    BY <1>0, <1>1, <1>2 DEF TypeOK
  <1>16. TypeOK'
    <2>1. cur' \in Rooms \cup {Nothing} /\ dirty' \in BOOLEAN /\ pc' = "invited" /\ disk' = disk
      BY <1>1
    <2>2. UNCHANGED <<feed, minted, botIn, aged, named, inRoom, events,
                      crashes, challenges, reposts, notYets, spoke, welcomes>>
      BY <1>1
    <2>3. QED BY <1>0, <1>7, <1>14, <1>15, <2>1, <2>2 DEF TypeOK
  <1>17. LoopSound'
    <2>1. ASSUME NEW x \in Rooms, todo'[x] # << >> PROVE Open(mem, x)'
      <3>1. x # r
        BY <1>14, <2>1
      <3>2. QED BY <1>0, <1>7, <1>14, <2>1, <3>1 DEF LoopSound, Open
    <2>2. QED BY <1>1, <1>6, <1>7, <1>12, <1>14, <2>1 DEF LoopSound
  <1>18. EventsCounted'
    BY <1>0, <1>1, <1>2, <1>14, Emptied
  <1>19. InvitedByHaiku'
    <2>1. ASSUME NEW x \in Users, member'[x] # "no"
          PROVE  \E y \in Rooms : <<y, x>> \in spoke /\ challenges[<<y, x>>] > 0 /\ x \in named
      <3>1. CASE x = u
        BY <1>2, <1>5, <3>1
      <3>2. CASE x # u
        BY <1>0, <1>15, <2>1, <3>2 DEF InvitedByHaiku
      <3>3. QED BY <3>1, <3>2
    <2>2. QED BY <1>1, <2>1 DEF InvitedByHaiku
  <1>20. QED BY <1>13, <1>14, <1>16, <1>17, <1>18, <1>19 DEF LobbyInv

LEMMA StepPromoteFails ==
    ASSUME LobbyInv, NEW r \in Rooms, PromoteFails(r)
    PROVE  LobbyInv'
  <1>0. /\ TypeOK /\ BooksSound /\ BudgetSound /\ LoopSound /\ EventsSound /\ EventsCounted /\ SaveSound
        /\ InvitedByHaiku /\ BudgetsKept
    BY DEF LobbyInv
  <1>1. /\ Turn(r) /\ cur' = r /\ dirty' = TRUE
        /\ todo' = [todo EXCEPT ![r] = << >>]
        /\ UNCHANGED <<disk, mem, pc, feed, minted, botIn, aged, member, named, inRoom, events,
                       crashes, challenges, reposts, notYets, spoke, welcomes>>
    BY DEF PromoteFails, world, tally
  <1>2. pc = "rooms" /\ todo[r] # << >>
    BY <1>1, AtTurn
  <1>3. /\ EventsSound' /\ todo' \in [Rooms -> Seq(Event)] /\ todo'[r] = << >>
        /\ \A x \in Rooms : x # r => todo'[x] = todo[x]
    <2>1. << >> \in Seq(HeardEvents(r))
      OBVIOUS
    <2>2. QED BY <1>0, <1>1, <2>1, EventsPass
  <1>4. TypeOK'
    <2>1. cur' \in Rooms \cup {Nothing} /\ dirty' \in BOOLEAN
      BY <1>1
    <2>2. QED BY <1>0, <1>1, <1>3, <2>1 DEF TypeOK
  <1>5. BooksSound' /\ BudgetSound' /\ SaveSound'
    BY <1>0, <1>1 DEF BooksSound, RoomSound, BudgetSound, RoomInBudget, Open, SaveSound, RoomKept
  <1>6. LoopSound'
    BY <1>1, <1>2, <1>3, TurnEnds
  <1>7. EventsCounted'
    BY <1>0, <1>1, <1>2, <1>3, Emptied
  <1>8. InvitedByHaiku' /\ BudgetsKept'
    BY <1>0, <1>1 DEF InvitedByHaiku, BudgetsKept, TriesPerChallenge, RepostsPerChallenge, WelcomesBounded
  <1>9. QED BY <1>3, <1>4, <1>5, <1>6, <1>7, <1>8 DEF LobbyInv

LEMMA StepGiveWelcome ==
    ASSUME LobbyInv, GiveWelcome
    PROVE  LobbyInv'
  <1>0. /\ TypeOK /\ BooksSound /\ BudgetSound /\ LoopSound /\ EventsSound /\ EventsCounted /\ SaveSound
        /\ InvitedByHaiku /\ BudgetsKept
    BY DEF LobbyInv
  <1>1. /\ pc = "invited" /\ pc' = "acking" /\ welcomes' = [welcomes EXCEPT ![cur] = @ + 1]
        /\ UNCHANGED <<disk, mem, dirty, cur, todo, feed, minted, botIn, aged, member, named, inRoom, events,
                       crashes, challenges, reposts, notYets, spoke>>
    BY DEF GiveWelcome, store, world
  <1>2. /\ cur \in Rooms /\ mem[cur] # Nothing /\ mem[cur].promoted /\ dirty
        /\ welcomes[cur] <= crashes /\ cur \in minted
    BY <1>0, <1>1 DEF LoopSound, BooksSound, RoomSound
  <1>3. /\ welcomes' \in [Rooms -> Nat] /\ welcomes'[cur] = welcomes[cur] + 1
        /\ welcomes[cur] \in Nat /\ crashes \in Nat
        /\ \A x \in Rooms : x # cur => welcomes'[x] = welcomes[x]
    BY <1>0, <1>1, <1>2, Tallies
  <1>4. TypeOK'
    BY <1>0, <1>1, <1>3 DEF TypeOK
  <1>5. BooksSound' /\ SaveSound' /\ EventsSound' /\ InvitedByHaiku'
    BY <1>0, <1>1 DEF BooksSound, RoomSound, SaveSound, RoomKept, EventsSound, SoundEvents, HeardEvents,
                      InvitedByHaiku
  <1>6. BudgetSound'
    <2>1. ASSUME NEW x \in Rooms PROVE RoomInBudget(mem, x)'
      <3>1. RoomInBudget(mem, x)
        BY <1>0 DEF BudgetSound
      <3>2. CASE x = cur
        BY <1>1, <1>2, <3>1, <3>2 DEF RoomInBudget, Open
      <3>3. CASE x # cur
        BY <1>1, <1>3, <3>1, <3>3 DEF RoomInBudget, Open
      <3>4. QED BY <3>2, <3>3
    <2>2. QED BY <1>1, <1>2, <2>1 DEF BudgetSound
  <1>7. LoopSound'
    BY <1>0, <1>1 DEF LoopSound, Open
  <1>8. EventsCounted'
    <2>1. ASSUME NEW x \in Rooms
          PROVE  /\ Len(feed[x]) + Len(todo[x]) + welcomes'[x] + AtTheDoor(x)' <= events
      <3>1. Len(feed[x]) + Len(todo[x]) + welcomes[x] + AtTheDoor(x) <= events
        BY <1>0 DEF EventsCounted
      <3>2. AtTheDoor(x)' = 0
        BY <1>1 DEF AtTheDoor
      <3>3. Len(feed[x]) \in Nat /\ Len(todo[x]) \in Nat /\ welcomes[x] \in Nat /\ events \in Nat
        BY <1>0, Tallies
      <3>4. CASE x = cur
        <4>1. AtTheDoor(x) = 1
          BY <1>1, <3>4 DEF AtTheDoor
        <4>2. \A a, b, w, e \in Nat : a + b + w + 1 <= e => a + b + (w + 1) + 0 <= e
          OBVIOUS
        <4>3. welcomes'[x] = welcomes[x] + 1
          BY <1>3, <3>4
        <4>4. Len(feed[x]) + Len(todo[x]) + (welcomes[x] + 1) + 0 <= events
          BY <3>1, <3>3, <4>1, <4>2
        <4>5. QED BY <3>2, <4>3, <4>4
      <3>5. CASE x # cur
        <4>1. AtTheDoor(x) = 0
          BY <3>5 DEF AtTheDoor
        <4>2. QED BY <1>3, <3>1, <3>2, <3>5, <4>1
      <3>6. QED BY <3>4, <3>5
    <2>2. ASSUME NEW x \in Rooms, x \notin minted
          PROVE  welcomes'[x] = 0 /\ \A u \in Users : challenges[<<x, u>>] = 0
      BY <1>0, <1>2, <1>3, <2>2 DEF EventsCounted
    <2>3. QED BY <1>1, <2>1, <2>2 DEF EventsCounted
  <1>9. BudgetsKept'
    <2>1. TriesPerChallenge' /\ RepostsPerChallenge'
      BY <1>0, <1>1 DEF BudgetsKept, TriesPerChallenge, RepostsPerChallenge
    <2>2. ASSUME NEW x \in Rooms PROVE welcomes'[x] <= 1 + crashes
      <3>1. CASE x = cur
        BY <1>2, <1>3, <3>1
      <3>2. CASE x # cur
        BY <1>0, <1>3, <3>2 DEF BudgetsKept, WelcomesBounded
      <3>3. QED BY <3>1, <3>2
    <2>3. QED BY <1>1, <2>1, <2>2 DEF BudgetsKept, WelcomesBounded
  <1>10. QED BY <1>4, <1>5, <1>6, <1>7, <1>8, <1>9 DEF LobbyInv

\* A room the loop leaves is closed in its copy, whatever its record was.
LEMMA StepCloses ==
    ASSUME LobbyInv, NEW r \in Rooms, NEW m \in Meta, pc \notin Started,
           mem[r] # Nothing, ~mem[r].closed, mem' = [mem EXCEPT ![r] = m],
           m.challenged = mem[r].challenged, m.tries = mem[r].tries, m.resends = mem[r].resends,
           m.display = mem[r].display, m.closed, Leave(r), dirty',
           UNCHANGED <<disk, minted, named, crashes, welcomes, challenges, notYets, reposts,
                       feed, todo, aged, member, inRoom, events, spoke, cur>>,
           dirty' \in BOOLEAN, todo[r] = << >>,
           \/ pc = "acking" /\ cur = r /\ pc' = "rooms"
           \/ pc = "clean" /\ pc' = "clean"
    PROVE  LobbyInv'
  <1>0. /\ TypeOK /\ BooksSound /\ BudgetSound /\ LoopSound /\ EventsSound /\ EventsCounted /\ SaveSound
        /\ InvitedByHaiku /\ BudgetsKept
    BY DEF LobbyInv
  <1>1. /\ mem' \in [Rooms -> Meta \cup {Nothing}] /\ mem'[r] = m /\ m # Nothing
        /\ \A x \in Rooms : x # r => mem'[x] = mem[x]
    BY Rewrites
  <1>2. botIn' \subseteq botIn /\ botIn \ {r} \subseteq botIn'
    BY DEF Leave
  <1>3. OthersAlone(r, Nothing)
    BY DEF OthersAlone
  <1>4. /\ RoomInBudget(mem, r) /\ RoomSound(mem, r)
    BY <1>0 DEF BudgetSound, BooksSound
  <1>5. ASSUME Nothing \in Users
        PROVE  /\ challenges[<<r, Nothing>>] \in Nat
               /\ notYets[<<r, Nothing>>] <= (MaxTries - 1) * challenges[<<r, Nothing>>]
               /\ reposts[<<r, Nothing>>] <= MaxResends * challenges[<<r, Nothing>>]
    BY <1>5, Ledger
  <1>6. RoomSound(mem, r)'
    BY <1>1, <1>4 DEF RoomSound
  <1>7. RoomInBudget(mem, r)'
    BY <1>1, <1>4 DEF RoomInBudget, Open
  <1>8. BooksSound' /\ BudgetSound' /\ BudgetsKept' /\ SaveSound'
    <2>1. Nothing \in Users =>
              /\ challenges'[<<r, Nothing>>] \in Nat
              /\ challenges'[<<r, Nothing>>] >= challenges[<<r, Nothing>>]
              /\ notYets'[<<r, Nothing>>] <= (MaxTries - 1) * challenges'[<<r, Nothing>>]
              /\ reposts'[<<r, Nothing>>] <= MaxResends * challenges'[<<r, Nothing>>]
      BY <1>5
    <2>2. QED BY <1>2, <1>3, <1>6, <1>7, <2>1, OneRoom
  <1>9. TypeOK'
    BY <1>0, <1>1, <1>2 DEF TypeOK
  <1>10. EventsSound' /\ EventsCounted' /\ InvitedByHaiku'
    BY <1>0 DEF EventsSound, SoundEvents, HeardEvents, EventsCounted, AtTheDoor, InvitedByHaiku
  <1>11. LoopSound'
    <2>1. ASSUME NEW x \in Rooms, todo'[x] # << >> PROVE Open(mem, x)'
      <3>1. x # r
        BY <2>1
      <3>2. QED BY <1>0, <1>1, <2>1, <3>1 DEF LoopSound, Open
    <2>2. pc' \notin {"rooms", "invited", "acking"} => todo' = NoBatch
      BY <1>0 DEF LoopSound
    <2>3. QED BY <2>1, <2>2 DEF LoopSound
  <1>12. QED BY <1>8, <1>9, <1>10, <1>11 DEF LobbyInv

LEMMA StepLeaves ==
    ASSUME LobbyInv
    PROVE  /\ Acknowledge => LobbyInv'
           /\ \A r \in Rooms : Clean(r) => LobbyInv'
  <1>0. TypeOK /\ LoopSound
    BY DEF LobbyInv
  <1>1. ASSUME Acknowledge PROVE LobbyInv'
    <2>1. /\ pc = "acking" /\ pc' = "rooms" /\ Leave(cur) /\ mem' = [mem EXCEPT ![cur].closed = TRUE]
          /\ UNCHANGED <<disk, dirty, cur, todo, feed, minted, aged, member, named, inRoom, events,
                         crashes, challenges, reposts, notYets, spoke, welcomes>>
      BY <1>1 DEF Acknowledge, tally
    <2>2. PICK r \in Rooms : r = cur
      BY <1>0, <2>1 DEF LoopSound
    <2>3. mem[r] # Nothing /\ ~mem[r].closed /\ mem[r] \in Meta /\ dirty /\ todo[r] = << >>
      BY <1>0, <2>1, <2>2 DEF LoopSound, TypeOK
    <2> DEFINE m == [mem[r] EXCEPT !.closed = TRUE]
    <2>4. /\ m \in Meta /\ m.challenged = mem[r].challenged /\ m.tries = mem[r].tries
          /\ m.resends = mem[r].resends /\ m.display = mem[r].display /\ m.closed
      BY <2>3 DEF Meta
    <2>5. mem' = [mem EXCEPT ![r] = m]
      BY <1>0, <2>1, <2>2 DEF TypeOK
    <2> HIDE DEF m
    <2>6. dirty' /\ dirty' \in BOOLEAN /\ Leave(r)
      BY <1>0, <2>1, <2>2, <2>3 DEF TypeOK
    <2>7. QED BY <2>1, <2>2, <2>3, <2>4, <2>5, <2>6, StepCloses
  <1>2. ASSUME NEW r \in Rooms, Clean(r) PROVE LobbyInv'
    <2>1. /\ pc = "clean" /\ pc' = "clean" /\ Open(mem, r) /\ Leave(r) /\ dirty' = TRUE
          /\ mem' = [mem EXCEPT ![r].closed = TRUE, ![r].reason = "timeout"]
          /\ UNCHANGED <<disk, cur, todo, feed, minted, aged, member, named, inRoom, events,
                         crashes, challenges, reposts, notYets, spoke, welcomes>>
      BY <1>2 DEF Clean, loop, tally
    <2>2. mem[r] # Nothing /\ ~mem[r].closed /\ mem[r] \in Meta /\ todo[r] = << >>
      BY <1>0, <2>1 DEF LoopSound, TypeOK, Open, NoBatch
    <2> DEFINE m == [mem[r] EXCEPT !.closed = TRUE, !.reason = "timeout"]
    <2>3. /\ m \in Meta /\ m.challenged = mem[r].challenged /\ m.tries = mem[r].tries
          /\ m.resends = mem[r].resends /\ m.display = mem[r].display /\ m.closed
      BY <2>2 DEF Meta
    <2>4. mem' = [mem EXCEPT ![r] = m]
      BY <1>0, <2>1 DEF TypeOK
    <2> HIDE DEF m
    <2>5. dirty' /\ dirty' \in BOOLEAN
      BY <2>1
    <2>6. QED BY <2>1, <2>2, <2>3, <2>4, <2>5, StepCloses
  <1>3. QED BY <1>1, <1>2

LEMMA StepRepost ==
    ASSUME LobbyInv, NEW r \in Rooms, NEW u \in Users, Repost(r, u)
    PROVE  LobbyInv'
  <1>0. /\ TypeOK /\ BooksSound /\ BudgetSound /\ LoopSound /\ EventsSound /\ EventsCounted /\ SaveSound
        /\ InvitedByHaiku /\ BudgetsKept
    BY DEF LobbyInv
  <1> DEFINE old == mem[r]
             m == [old EXCEPT !.sent[u] = "recent", !.resends[u] = @ + 1]
  <1>1. /\ pc = "sweep" /\ Open(mem, r) /\ Contains(old.challenged, u) /\ old.resends[u] < MaxResends
        /\ mem' = [mem EXCEPT ![r].sent[u] = "recent", ![r].resends[u] = @ + 1]
        /\ reposts' = [reposts EXCEPT ![<<r, u>>] = @ + 1]
        /\ dirty' = TRUE
        /\ UNCHANGED <<disk, pc, cur, todo, feed, minted, botIn, aged, member, named, inRoom, events,
                       crashes, challenges, notYets, spoke, welcomes>>
    BY DEF Repost, Due, loop, world
  <1>2. /\ old \in Meta /\ old # Nothing /\ ~old.promoted /\ ~old.closed
    BY <1>0, <1>1, Books DEF Open
  <1>3. mem' = [mem EXCEPT ![r] = m]
    <2>1. mem \in [Rooms -> Meta \cup {Nothing}]
      BY <1>0 DEF TypeOK
    <2>2. QED BY <1>1, <2>1
  <1>4. /\ old.resends \in [Users -> Nat] /\ old.resends[u] \in Nat
        /\ old.sent \in [Users -> {"recent", "old"}]
    BY <1>2, MetaFields
  <1>5. /\ m.challenged = old.challenged /\ m.tries = old.tries /\ m.display = old.display
        /\ m.resends = [old.resends EXCEPT ![u] = @ + 1]
        /\ m.promoted = old.promoted /\ m.closed = old.closed
    BY <1>2 DEF Meta
  <1>6. m \in Meta
    <2> DEFINE s == [old.sent EXCEPT ![u] = "recent"]
               n == [old.resends EXCEPT ![u] = @ + 1]
    <2>1. s \in [Users -> {"recent", "old"}] /\ n \in [Users -> Nat]
      BY <1>4
    <2>2. m = [old EXCEPT !.sent = s, !.resends = n]
      OBVIOUS
    <2> HIDE DEF m, s, n
    <2>3. QED BY <1>2, <2>1, <2>2 DEF Meta
  <1> HIDE DEF m
  <1>7. /\ mem' \in [Rooms -> Meta \cup {Nothing}] /\ mem'[r] = m /\ m # Nothing
        /\ \A x \in Rooms : x # r => mem'[x] = mem[x]
    BY <1>1, <1>2, <1>3, <1>6, Rewrites
  <1>8. /\ reposts' \in [Pairs -> Nat]
        /\ \A p \in Pairs : p # <<r, u>> => reposts'[p] = reposts[p]
        /\ reposts[<<r, u>>] \in Nat /\ reposts'[<<r, u>>] = reposts[<<r, u>>] + 1
    <2>1. <<r, u>> \in Pairs /\ reposts \in [Pairs -> Nat]
      BY <1>0 DEF Pairs, TypeOK
    <2>2. QED BY <1>1, <2>1
  <1>9. OthersAlone(r, u)
    BY <1>1, <1>8 DEF OthersAlone, Pairs
  <1>10. /\ notYets[<<r, u>>] <= (MaxTries - 1) * challenges[<<r, u>>]
         /\ reposts[<<r, u>>] <= MaxResends * challenges[<<r, u>>]
         /\ challenges[<<r, u>>] \in Nat
         /\ RoomInBudget(mem, r) /\ RoomSound(mem, r)
    BY Ledger
  <1>11. challenges[<<r, u>>] > 0
    BY <1>1, <1>2, <1>10 DEF RoomSound
  <1> DEFINE most == MaxResends * challenges[<<r, u>>]
  <1>12. most \in Nat /\ reposts[<<r, u>>] + MaxResends - old.resends[u] <= most
    <2>1. most \in Nat
      BY <1>10, LobbyBounds
    <2>2. QED BY <1>2, <1>10, <1>11, <2>1 DEF RoomInBudget
  <1> HIDE DEF most
  <1>13. /\ m.resends[u] = old.resends[u] + 1 /\ m.resends[u] <= MaxResends
         /\ reposts'[<<r, u>>] + MaxResends - m.resends[u] <= most /\ reposts'[<<r, u>>] <= most
    <2>1. m.resends[u] = old.resends[u] + 1
      BY <1>4, <1>5
    <2>2. QED BY <1>1, <1>4, <1>8, <1>12, <2>1, LobbyBounds
  <1>14. \A y \in Users : y # u => m.resends[y] = old.resends[y]
    BY <1>4, <1>5
  <1>15. RoomSound(mem, r)'
    <2>1. ASSUME NEW y \in Users PROVE m.resends[y] <= MaxResends
      BY <1>2, <1>10, <1>13, <1>14 DEF RoomSound
    <2>2. QED BY <1>1, <1>2, <1>5, <1>7, <1>10, <2>1 DEF RoomSound
  <1>16. RoomInBudget(mem, r)'
    <2>1. ASSUME NEW y \in Users, challenges[<<r, y>>] > 0
          PROVE  /\ notYets[<<r, y>>] + m.tries[y] - 1 <= (MaxTries - 1) * challenges[<<r, y>>]
                 /\ reposts'[<<r, y>>] + MaxResends - m.resends[y] <= MaxResends * challenges[<<r, y>>]
      <3>1. notYets[<<r, y>>] + m.tries[y] - 1 <= (MaxTries - 1) * challenges[<<r, y>>]
        BY <1>2, <1>5, <1>10, <2>1 DEF RoomInBudget
      <3>2. CASE y = u
        BY <1>13, <3>1, <3>2 DEF most
      <3>3. CASE y # u
        <4>1. reposts'[<<r, y>>] = reposts[<<r, y>>] /\ m.resends[y] = old.resends[y]
          BY <1>9, <1>14, <3>3 DEF OthersAlone
        <4>2. QED BY <1>2, <1>10, <2>1, <3>1, <4>1 DEF RoomInBudget
      <3>4. QED BY <3>2, <3>3
    <2>2. welcomes[r] <= crashes /\ (crashes = 0 => r \in botIn)
      BY <1>1, <1>2, <1>10 DEF RoomInBudget
    <2>3. QED BY <1>1, <1>7, <2>1, <2>2 DEF RoomInBudget
  <1>17. BooksSound' /\ BudgetSound' /\ BudgetsKept' /\ SaveSound'
    <2>1. /\ challenges'[<<r, u>>] \in Nat /\ challenges'[<<r, u>>] >= challenges[<<r, u>>]
          /\ notYets'[<<r, u>>] <= (MaxTries - 1) * challenges'[<<r, u>>]
          /\ reposts'[<<r, u>>] <= MaxResends * challenges'[<<r, u>>]
      BY <1>1, <1>10, <1>13 DEF most
    <2>2. QED BY <1>1, <1>2, <1>3, <1>6, <1>9, <1>15, <1>16, <2>1, OneRoom
  <1>18. TypeOK'
    <2>1. dirty' \in BOOLEAN
      BY <1>1
    <2>2. mem' \in [Rooms -> Meta \cup {Nothing}] /\ reposts' \in [Pairs -> Nat]
      BY <1>7, <1>8
    <2>3. UNCHANGED <<disk, pc, cur, todo, feed, minted, botIn, aged, member, named, inRoom, events,
                      crashes, challenges, notYets, spoke, welcomes>>
      BY <1>1
    <2>4. QED BY <1>0, <2>1, <2>2, <2>3 DEF TypeOK
  <1>19. LoopSound'
    <2>1. todo' = NoBatch
      BY <1>0, <1>1 DEF LoopSound
    <2>2. QED BY <1>1, <2>1 DEF LoopSound, NoBatch
  <1>20. EventsSound' /\ EventsCounted' /\ InvitedByHaiku'
    BY <1>0, <1>1 DEF EventsSound, SoundEvents, HeardEvents, EventsCounted, AtTheDoor, InvitedByHaiku
  <1>21. QED BY <1>17, <1>18, <1>19, <1>20 DEF LobbyInv

-----------------------------------------------------------------------------
(***************************************************************************)
(* The ends of the loop's phases, and of its life.                         *)
(***************************************************************************)
LEMMA StepPhase ==
    ASSUME LobbyInv, BatchDone \/ SweepDone
    PROVE  LobbyInv'
  <1>0. /\ TypeOK /\ BooksSound /\ BudgetSound /\ LoopSound /\ EventsSound /\ EventsCounted /\ SaveSound
        /\ InvitedByHaiku /\ BudgetsKept
    BY DEF LobbyInv
  <1>1. /\ pc \in {"rooms", "sweep"} /\ pc' \in {"sweep", "clean"} /\ cur' \in {cur, Nothing}
        /\ todo = NoBatch
        /\ UNCHANGED <<disk, mem, dirty, todo, feed, minted, botIn, aged, member, named, inRoom, events,
                       crashes, challenges, reposts, notYets, spoke, welcomes>>
    BY <1>0 DEF BatchDone, SweepDone, store, world, tally, LoopSound
  <1>2. TypeOK'
    BY <1>0, <1>1 DEF TypeOK
  <1>3. BooksSound' /\ BudgetSound' /\ SaveSound'
    BY <1>0, <1>1 DEF BooksSound, RoomSound, BudgetSound, RoomInBudget, Open, SaveSound, RoomKept
  <1>4. LoopSound'
    BY <1>0, <1>1 DEF LoopSound, Open
  <1>5. EventsSound' /\ EventsCounted'
    BY <1>0, <1>1 DEF EventsSound, SoundEvents, HeardEvents, EventsCounted, AtTheDoor
  <1>6. InvitedByHaiku' /\ BudgetsKept'
    BY <1>0, <1>1 DEF InvitedByHaiku, BudgetsKept, TriesPerChallenge, RepostsPerChallenge, WelcomesBounded
  <1>7. QED BY <1>2, <1>3, <1>4, <1>5, <1>6 DEF LobbyInv

LEMMA StepSave ==
    ASSUME LobbyInv, Save
    PROVE  LobbyInv'
  <1>0. /\ TypeOK /\ BooksSound /\ BudgetSound /\ LoopSound /\ EventsSound /\ EventsCounted /\ SaveSound
        /\ InvitedByHaiku /\ BudgetsKept
    BY DEF LobbyInv
  <1>1. /\ pc = "clean" /\ disk' = (IF dirty THEN mem ELSE disk) /\ mem' = NoBook /\ dirty' = FALSE
        /\ pc' = "sync"
        /\ UNCHANGED <<cur, todo, feed, minted, botIn, aged, member, named, inRoom, events,
                       crashes, challenges, reposts, notYets, spoke, welcomes>>
    BY DEF Save, world, tally
  <1>2. todo = NoBatch
    BY <1>0, <1>1 DEF LoopSound
  <1>3. \A x \in Rooms : mem'[x] = Nothing
    BY <1>1 DEF NoBook
  <1>4. TypeOK'
    <2>1. mem' \in [Rooms -> Meta \cup {Nothing}]
      BY <1>1 DEF NoBook
    <2>2. disk' \in [Rooms -> Meta \cup {Nothing}]
      BY <1>0, <1>1 DEF TypeOK
    <2>3. dirty' \in BOOLEAN
      BY <1>1
    <2>4. QED BY <1>0, <1>1, <2>1, <2>2, <2>3 DEF TypeOK
  <1>5. BooksSound'
    BY <1>0, <1>1, <1>3 DEF BooksSound, RoomSound
  <1>6. BudgetSound'
    <2>1. ASSUME NEW x \in Rooms PROVE RoomInBudget(mem, x)' /\ RoomInBudget(disk, x)'
      <3>1. RoomInBudget(mem, x)'
        BY <1>3 DEF RoomInBudget
      <3>2. CASE dirty
        <4>1. RoomInBudget(mem, x) /\ disk'[x] = mem[x]
          BY <1>0, <1>1, <3>2 DEF BudgetSound
        <4>2. QED BY <1>1, <3>1, <4>1 DEF RoomInBudget, Open
      <3>3. CASE ~dirty
        <4>1. RoomInBudget(disk, x) /\ disk'[x] = disk[x]
          BY <1>0, <1>1, <3>3 DEF BudgetSound
        <4>2. QED BY <1>1, <3>1, <4>1 DEF RoomInBudget, Open
      <3>4. QED BY <3>2, <3>3
    <2>2. QED BY <2>1 DEF BudgetSound
  <1>7. LoopSound'
    BY <1>1, <1>2 DEF LoopSound, NoBatch
  <1>8. EventsSound' /\ EventsCounted'
    BY <1>0, <1>1 DEF EventsSound, SoundEvents, HeardEvents, EventsCounted, AtTheDoor
  <1>9. SaveSound'
    BY <1>1 DEF SaveSound
  <1>10. InvitedByHaiku' /\ BudgetsKept'
    BY <1>0, <1>1 DEF InvitedByHaiku, BudgetsKept, TriesPerChallenge, RepostsPerChallenge, WelcomesBounded
  <1>11. QED BY <1>4, <1>5, <1>6, <1>7, <1>8, <1>9, <1>10 DEF LobbyInv

\* Without a crash, the rooms the loop may post in are rooms it is in.
LEMMA Inside ==
    ASSUME LobbyInv
    PROVE  OpenMeansInside
  <1>0. TypeOK /\ BudgetSound /\ LoopSound
    BY DEF LobbyInv
  <1> SUFFICES ASSUME crashes = 0, NEW r \in Rooms,
                      Open(IF pc \in Started THEN disk ELSE mem, r) \/ (pc \notin Started /\ AboutToPost(r))
               PROVE  r \in botIn
    BY DEF OpenMeansInside
  <1>1. Open(mem, r) => r \in botIn
    BY <1>0 DEF BudgetSound, RoomInBudget, Open
  <1>2. CASE pc \in Started /\ Open(disk, r)
    BY <1>0, <1>2 DEF BudgetSound, RoomInBudget, LoopSound, Open
  <1>3. CASE AboutToPost(r)
    <2>1. Turn(r) => Open(mem, r)
      BY <1>0 DEF Turn, LoopSound
    <2>2. pc = "acking" /\ cur = r => r \in botIn
      BY <1>0 DEF LoopSound
    <2>3. \A u \in Users : Due(r, u) => Open(mem, r)
      BY DEF Due
    <2>4. QED BY <1>1, <1>3, <2>1, <2>2, <2>3 DEF AboutToPost
  <1>4. QED BY <1>1, <1>2, <1>3

(***************************************************************************)
(* A crash forgets what the books do not hold: the tries used since the    *)
(* last save, and a promotion whose welcome code is out.  It pays for both *)
(* by being counted, saturated or not: codes cost events.                  *)
(***************************************************************************)
LEMMA StepDie ==
    ASSUME LobbyInv, Die, PostRefused \/ crashes < MaxCrashes
    PROVE  LobbyInv'
  <1>0. /\ TypeOK /\ BooksSound /\ BudgetSound /\ LoopSound /\ EventsSound /\ EventsCounted /\ SaveSound
        /\ InvitedByHaiku /\ BudgetsKept
    BY DEF LobbyInv
  <1>1. /\ crashes' = (IF crashes < MaxCrashes + MaxEvents THEN crashes + 1 ELSE crashes)
        /\ mem' = NoBook /\ dirty' = FALSE /\ pc' \in Started /\ cur' = Nothing /\ todo' = NoBatch
        /\ reposts' = [p \in Pairs |-> 0] /\ notYets' = [p \in Pairs |-> 0]
        /\ UNCHANGED <<disk, feed, minted, botIn, aged, member, named, inRoom, events,
                       challenges, spoke, welcomes>>
    BY DEF Die, world
  <1>2. \A x \in Rooms : mem'[x] = Nothing
    BY <1>1 DEF NoBook
  <1>3. crashes \in Nat /\ MaxCrashes \in Nat /\ MaxEvents \in Nat /\ crashes <= MaxCrashes + MaxEvents
    BY <1>0, LobbyBounds DEF TypeOK
  <1>4. /\ crashes' \in 0..(MaxCrashes + MaxEvents) /\ crashes' >= crashes
        /\ crashes' = crashes + 1 \/ crashes' = MaxCrashes + MaxEvents
    BY <1>1, <1>3
  <1>5. crashes' # 0
    <2>1. ASSUME crashes = 0 PROVE crashes < MaxCrashes
      <3>1. OpenMeansInside
        BY Inside
      <3>2. ASSUME PostRefused PROVE FALSE
        <4>1. PICK r \in Rooms \ botIn : AboutToPost(r)
          BY <3>2 DEF PostRefused
        <4>2. pc \notin Started
          BY <1>0, <4>1 DEF AboutToPost, Turn
        <4>3. QED BY <2>1, <3>1, <4>1, <4>2 DEF OpenMeansInside
      <3>3. QED BY <3>2
    <2>2. QED BY <1>1, <1>3, <2>1
  <1>6. TypeOK'
    <2>1. mem' \in [Rooms -> Meta \cup {Nothing}] /\ todo' \in [Rooms -> Seq(Event)]
      BY <1>1 DEF NoBook, NoBatch
    <2>2. notYets' \in [Pairs -> Nat] /\ reposts' \in [Pairs -> Nat]
      BY <1>1
    <2>3. dirty' \in BOOLEAN
      BY <1>1
    <2>4. QED BY <1>0, <1>1, <1>4, <2>1, <2>2, <2>3 DEF TypeOK
  <1>7. BooksSound'
    BY <1>0, <1>1, <1>2 DEF BooksSound, RoomSound
  <1>8. \A x \in Rooms : welcomes[x] <= crashes'
    <2> SUFFICES ASSUME NEW x \in Rooms PROVE welcomes[x] <= crashes'
      OBVIOUS
    <2>1. CASE crashes' = crashes + 1
      BY <1>0, <1>3, <2>1, Tallies DEF BudgetsKept, WelcomesBounded
    <2>2. CASE crashes' = MaxCrashes + MaxEvents
      <3>1. /\ Len(feed[x]) + Len(todo[x]) + welcomes[x] + AtTheDoor(x) <= events
            /\ AtTheDoor(x) \in Nat
        BY <1>0 DEF EventsCounted, AtTheDoor
      <3>2. Len(feed[x]) \in Nat /\ Len(todo[x]) \in Nat /\ welcomes[x] \in Nat
        BY <1>0, Tallies
      <3>3. events \in Nat /\ events <= MaxEvents
        BY <1>0, LobbyBounds DEF TypeOK
      <3>4. \A a, b, w, d, e \in Nat : a + b + w + d <= e => w <= e
        OBVIOUS
      <3>5. welcomes[x] <= events
        BY <3>1, <3>2, <3>3, <3>4
      <3>6. QED BY <1>3, <2>2, <3>2, <3>3, <3>5
    <2>3. QED BY <1>4, <2>1, <2>2
  <1>9. \A p \in Pairs : notYets'[p] = 0 /\ reposts'[p] = 0
    BY <1>1
  <1>10. BudgetSound'
    <2>1. ASSUME NEW x \in Rooms, disk[x] # Nothing, NEW u \in Users, challenges[<<x, u>>] > 0
          PROVE  /\ 0 + disk[x].tries[u] - 1 <= (MaxTries - 1) * challenges[<<x, u>>]
                 /\ 0 + MaxResends - disk[x].resends[u] <= MaxResends * challenges[<<x, u>>]
      <3>1. disk[x].tries[u] \in Int /\ disk[x].resends[u] \in Nat /\ disk[x].tries[u] <= MaxTries
        BY <1>0, <2>1, Books, MetaFields DEF BooksSound, RoomSound
      <3>2. challenges[<<x, u>>] \in Nat
        BY <1>0, Tallies
      <3>3. \A m, c \in Nat : c > 0 => m <= m * c
        OBVIOUS
      <3>4. MaxTries - 1 \in Nat /\ MaxResends \in Nat
        BY LobbyBounds
      <3>5. /\ MaxTries - 1 <= (MaxTries - 1) * challenges[<<x, u>>]
            /\ MaxResends <= MaxResends * challenges[<<x, u>>]
        BY <2>1, <3>2, <3>3, <3>4
      <3> DEFINE some == (MaxTries - 1) * challenges[<<x, u>>]
                 most == MaxResends * challenges[<<x, u>>]
      <3>6. some \in Int /\ most \in Int
        BY <3>2, <3>4
      <3> HIDE DEF some, most
      <3>7. 0 + disk[x].tries[u] - 1 <= some /\ 0 + MaxResends - disk[x].resends[u] <= most
        <4>1. MaxTries - 1 <= some /\ MaxResends <= most
          BY <3>5 DEF some, most
        <4>2. MaxTries \in Int
          BY LobbyBounds
        <4>3. QED BY <3>1, <3>4, <3>6, <4>1, <4>2
      <3>8. QED BY <3>7 DEF some, most
    <2>2. ASSUME NEW x \in Rooms PROVE RoomInBudget(disk, x)' /\ RoomInBudget(mem, x)'
      <3>1. \A u \in Users : notYets'[<<x, u>>] = 0 /\ reposts'[<<x, u>>] = 0
        BY <1>9 DEF Pairs
      <3>2. QED BY <1>1, <1>2, <1>5, <1>8, <2>1, <3>1 DEF RoomInBudget
    <2>3. QED BY <2>2 DEF BudgetSound
  <1>11. LoopSound' /\ SaveSound'
    BY <1>1 DEF LoopSound, NoBatch, SaveSound
  <1>12. EventsSound'
    <2>1. \A x \in Rooms : todo'[x] = << >>
      BY <1>1 DEF NoBatch
    <2>2. ASSUME NEW x \in Rooms PROVE todo'[x] \in Seq(HeardEvents(x)')
      <3>1. << >> \in Seq(HeardEvents(x)')
        OBVIOUS
      <3>2. QED BY <2>1, <3>1
    <2>3. ASSUME NEW x \in Rooms PROVE feed'[x] \in Seq(SoundEvents(x)')
      BY <1>0, <1>1 DEF EventsSound, SoundEvents
    <2>4. QED BY <2>2, <2>3 DEF EventsSound
  <1>13. EventsCounted'
    <2>1. ASSUME NEW x \in Rooms
          PROVE  Len(feed[x]) + Len(todo'[x]) + welcomes[x] + AtTheDoor(x)' <= events
      <3>1. Len(todo'[x]) = 0 /\ AtTheDoor(x)' = 0
        BY <1>1 DEF NoBatch, AtTheDoor
      <3>2. Len(feed[x]) + Len(todo[x]) + welcomes[x] + AtTheDoor(x) <= events
        BY <1>0 DEF EventsCounted
      <3>3. /\ Len(feed[x]) \in Nat /\ Len(todo[x]) \in Nat /\ welcomes[x] \in Nat
            /\ AtTheDoor(x) \in Nat /\ events \in Nat
        BY <1>0, Tallies DEF AtTheDoor
      <3>4. \A a, b, w, d, e \in Nat : a + b + w + d <= e => a + 0 + w + 0 <= e
        OBVIOUS
      <3>5. QED BY <3>1, <3>2, <3>3, <3>4
    <2>2. QED BY <1>0, <1>1, <2>1 DEF EventsCounted
  <1>14. InvitedByHaiku'
    BY <1>0, <1>1 DEF InvitedByHaiku
  <1>15. BudgetsKept'
    <2>1. ASSUME NEW p \in Pairs
          PROVE  0 <= (MaxTries - 1) * challenges[p] /\ 0 <= MaxResends * challenges[p]
      <3>1. challenges[p] \in Nat /\ MaxTries - 1 \in Nat /\ MaxResends \in Nat
        BY <1>0, Tallies, LobbyBounds
      <3>2. QED BY <3>1
    <2>2. ASSUME NEW x \in Rooms PROVE welcomes[x] <= 1 + crashes'
      BY <1>4, <1>8, <1>0, Tallies
    <2>3. QED BY <1>1, <1>9, <2>1, <2>2 DEF BudgetsKept, TriesPerChallenge, RepostsPerChallenge, WelcomesBounded
  <1>16. QED BY <1>6, <1>7, <1>10, <1>11, <1>12, <1>13, <1>14, <1>15 DEF LobbyInv

\* A loop that is off has no copy, no batch and no room in hand.
LEMMA StepReboot ==
    ASSUME LobbyInv, Reboot
    PROVE  LobbyInv'
  <1>0. /\ TypeOK /\ BooksSound /\ BudgetSound /\ LoopSound /\ EventsSound /\ EventsCounted /\ SaveSound
        /\ InvitedByHaiku /\ BudgetsKept
    BY DEF LobbyInv
  <1>1. /\ pc = "off" /\ pc' \in Started
        /\ UNCHANGED <<disk, mem, dirty, cur, todo, feed, minted, botIn, aged, member, named, inRoom,
                       events, crashes, challenges, reposts, notYets, spoke, welcomes>>
    BY DEF Reboot, store, world, tally
  <1>2. TypeOK'
    BY <1>0, <1>1 DEF TypeOK, Started
  <1>3. BooksSound' /\ BudgetSound' /\ EventsSound'
    BY <1>0, <1>1 DEF BooksSound, RoomSound, BudgetSound, RoomInBudget, Open,
                      EventsSound, SoundEvents, HeardEvents
  <1>4. LoopSound' /\ SaveSound'
    BY <1>0, <1>1 DEF LoopSound, SaveSound, Started, Open
  <1>5. EventsCounted'
    BY <1>0, <1>1 DEF EventsCounted, AtTheDoor, Started
  <1>6. InvitedByHaiku' /\ BudgetsKept'
    BY <1>0, <1>1 DEF InvitedByHaiku, BudgetsKept, TriesPerChallenge, RepostsPerChallenge, WelcomesBounded
  <1>7. QED BY <1>2, <1>3, <1>4, <1>5, <1>6 DEF LobbyInv

-----------------------------------------------------------------------------
(***************************************************************************)
(* The invariant, from the start and through every step.                   *)
(***************************************************************************)
LEMMA AtStart ==
    ASSUME Init
    PROVE  LobbyInv
  <1>1. /\ disk = NoBook /\ mem = NoBook /\ dirty = FALSE /\ pc \in Started /\ cur = Nothing
        /\ todo = NoBatch /\ feed = NoBatch
        /\ minted = {} /\ botIn = {} /\ aged = {} /\ member = [u \in Users |-> "no"]
        /\ named \in SUBSET Users /\ inRoom = {} /\ events = 0 /\ crashes = 0 /\ spoke = {}
        /\ challenges = [p \in Pairs |-> 0] /\ reposts = [p \in Pairs |-> 0]
        /\ notYets = [p \in Pairs |-> 0] /\ welcomes = [r \in Rooms |-> 0]
    BY DEF Init
  <1>2. ASSUME NEW r \in Rooms
        PROVE  disk[r] = Nothing /\ mem[r] = Nothing /\ todo[r] = << >> /\ feed[r] = << >> /\ welcomes[r] = 0
    BY <1>1 DEF NoBook, NoBatch
  <1>3. ASSUME NEW p \in Pairs
        PROVE  challenges[p] = 0 /\ notYets[p] = 0 /\ reposts[p] = 0
    BY <1>1
  <1>4. TypeOK
    <2>1. /\ disk \in [Rooms -> Meta \cup {Nothing}] /\ mem \in [Rooms -> Meta \cup {Nothing}]
          /\ todo \in [Rooms -> Seq(Event)] /\ feed \in [Rooms -> Seq(Event)]
      BY <1>1 DEF NoBook, NoBatch
    <2>2. /\ challenges \in [Pairs -> Nat] /\ reposts \in [Pairs -> Nat] /\ notYets \in [Pairs -> Nat]
          /\ welcomes \in [Rooms -> Nat] /\ member \in [Users -> {"no", "invited", "joined"}]
      BY <1>1
    <2>3. 0 \in 0..MaxEvents /\ 0 \in 0..(MaxCrashes + MaxEvents)
      BY LobbyBounds
    <2>4. dirty \in BOOLEAN
      BY <1>1
    <2>5. QED BY <1>1, <2>1, <2>2, <2>3, <2>4 DEF TypeOK
  <1>5. BooksSound /\ BudgetSound /\ SaveSound
    BY <1>1, <1>2 DEF BooksSound, RoomSound, BudgetSound, RoomInBudget, SaveSound
  <1>6. LoopSound
    BY <1>1, <1>2 DEF LoopSound
  <1>7. EventsSound
    <2>1. \A r \in Rooms : << >> \in Seq(SoundEvents(r)) /\ << >> \in Seq(HeardEvents(r))
      OBVIOUS
    <2>2. QED BY <1>2, <2>1 DEF EventsSound
  <1>8. EventsCounted
    <2>1. \A r \in Rooms, u \in Users : challenges[<<r, u>>] = 0
      BY <1>3 DEF Pairs
    <2>2. \A r \in Rooms : AtTheDoor(r) = 0
      BY <1>1 DEF AtTheDoor
    <2>3. ASSUME NEW r \in Rooms
          PROVE  Len(feed[r]) + Len(todo[r]) + welcomes[r] + AtTheDoor(r) <= events
      BY <1>1, <1>2, <2>2
    <2>4. QED BY <1>2, <2>1, <2>3 DEF EventsCounted
  <1>9. InvitedByHaiku
    BY <1>1 DEF InvitedByHaiku
  <1>10. BudgetsKept
    <2>1. ASSUME NEW p \in Pairs
          PROVE  notYets[p] <= (MaxTries - 1) * challenges[p] /\ reposts[p] <= MaxResends * challenges[p]
      BY <1>3, LobbyBounds
    <2>2. \A r \in Rooms : welcomes[r] <= 1 + crashes
      BY <1>1, <1>2
    <2>3. QED BY <2>1, <2>2 DEF BudgetsKept, TriesPerChallenge, RepostsPerChallenge, WelcomesBounded
  <1>11. QED BY <1>4, <1>5, <1>6, <1>7, <1>8, <1>9, <1>10 DEF LobbyInv

LEMMA StutterKeeps ==
    ASSUME LobbyInv, UNCHANGED vars
    PROVE  LobbyInv'
  <1>1. UNCHANGED <<disk, mem, dirty, pc, cur, todo, feed, minted, botIn, aged, member, named, inRoom, events,
                    crashes, challenges, reposts, notYets, spoke, welcomes>>
    BY DEF vars, store, loop, world, tally
  <1>2. TypeOK' /\ BooksSound' /\ LoopSound' /\ SaveSound'
    BY <1>1 DEF LobbyInv, TypeOK, BooksSound, RoomSound, LoopSound, Open, SaveSound, RoomKept
  <1>3. BudgetSound' /\ EventsSound' /\ EventsCounted'
    BY <1>1 DEF LobbyInv, BudgetSound, RoomInBudget, Open, EventsSound, SoundEvents, HeardEvents,
                EventsCounted, AtTheDoor
  <1>4. InvitedByHaiku' /\ BudgetsKept'
    BY <1>1 DEF LobbyInv, InvitedByHaiku, BudgetsKept, TriesPerChallenge, RepostsPerChallenge, WelcomesBounded
  <1>5. QED BY <1>2, <1>3, <1>4 DEF LobbyInv

LEMMA EveryStep ==
    ASSUME LobbyInv, [Next]_vars
    PROVE  LobbyInv'
  <1>1. ASSUME LoopStep PROVE LobbyInv'
    <2>1. ASSUME Sync PROVE LobbyInv'
      BY <2>1, StepSync
    <2>2. ASSUME NEW r \in Rooms, Challenge(r) \/ Refuse(r) \/ Promote(r) \/ PromoteFails(r) PROVE LobbyInv'
      BY <2>2, StepChallenge, StepRefuse, StepPromote, StepPromoteFails
    <2>3. ASSUME GiveWelcome PROVE LobbyInv'
      BY <2>3, StepGiveWelcome
    <2>4. ASSUME Acknowledge PROVE LobbyInv'
      BY <2>4, StepLeaves
    <2>5. ASSUME BatchDone \/ SweepDone PROVE LobbyInv'
      BY <2>5, StepPhase
    <2>6. ASSUME NEW r \in Rooms, NEW u \in Users, Repost(r, u) PROVE LobbyInv'
      BY <2>6, StepRepost
    <2>7. ASSUME NEW r \in Rooms, Clean(r) PROVE LobbyInv'
      BY <2>7, StepLeaves
    <2>8. ASSUME Save PROVE LobbyInv'
      BY <2>8, StepSave
    <2>9. ASSUME PostRefused PROVE LobbyInv'
      <3>1. Die
        BY <2>9 DEF PostRefused
      <3>2. QED BY <2>9, <3>1, StepDie
    <2>10. QED BY <1>1, <2>1, <2>2, <2>3, <2>4, <2>5, <2>6, <2>7, <2>8, <2>9 DEF LoopStep
  <1>2. ASSUME Crash PROVE LobbyInv'
    BY <1>2, StepDie DEF Crash
  <1>8. ASSUME Reboot PROVE LobbyInv'
    BY <1>8, StepReboot
  <1>3. ASSUME NEW r \in Rooms, OpenRoom(r) \/ GrowsStale(r) PROVE LobbyInv'
    BY <1>3, StepOpenRoom, StepGrowsStale
  <1>4. ASSUME NEW r \in Rooms, NEW u \in Users, UserJoins(u, r) \/ ChallengeGrowsOld(r, u) PROVE LobbyInv'
    BY <1>4, StepPeople, StepGrowsOld
  <1>5. ASSUME NEW r \in Rooms, NEW u \in Users, NEW good \in BOOLEAN, UserSays(u, r, good) PROVE LobbyInv'
    BY <1>5, StepPeople
  <1>6. ASSUME NEW u \in Users, UserSetsName(u) \/ EntersSpace(u) PROVE LobbyInv'
    BY <1>6, StepPeople, StepEntersSpace
  <1>7. QED BY <1>1, <1>2, <1>3, <1>4, <1>5, <1>6, <1>8, StutterKeeps DEF Next

\* The lobby's inductive invariant: its books, its loop and its event counts.
THEOREM LobbyInvAlways == Spec => []LobbyInv
  BY AtStart, EveryStep, PTL DEF Spec

\* The lobby's variables keep their types: lobby.json and the loop's copy hold
\* records with every field, and the histories stay within their bounds.
THEOREM LobbyTypeCorrect == Spec => []TypeOK
  <1>1. LobbyInv => TypeOK
    BY DEF LobbyInv
  <1>2. QED BY <1>1, LobbyInvAlways, PTL

\* Tries and reposts per challenge, welcome codes per room: what the bot gives
\* is bounded, however joins, messages, batches and crashes come together.
THEOREM BudgetsAlwaysKept == Spec => []BudgetsKept
  <1>1. LobbyInv => BudgetsKept
    BY DEF LobbyInv
  <1>2. QED BY <1>1, LobbyInvAlways, PTL

\* Until a crash, every room the books call open is one the bot is in, and it
\* posts in no other.
THEOREM AlwaysInside == Spec => []OpenMeansInside
  <1>1. LobbyInv => OpenMeansInside
    BY Inside
  <1>2. QED BY <1>1, LobbyInvAlways, PTL

-----------------------------------------------------------------------------
(***************************************************************************)
(* Who a room counted as promoted has sent on.                             *)
(***************************************************************************)
\* The note `promoted`, in the file or in the loop's copy, is true.
SentOn(r) == \E u \in Users : <<r, u>> \in spoke /\ member[u] \in {"invited", "joined"}

NotesTrue(b) == \A r \in Rooms : b[r] # Nothing /\ b[r].reason = "promoted" => SentOn(r)

\* Nobody's haiku is taken back, and nobody is invited less than before.
LEMMA SentOnStays ==
    ASSUME LobbyInv, [Next]_vars, NEW r \in Rooms, SentOn(r)
    PROVE  SentOn(r)'
  <1>1. PICK u \in Users : <<r, u>> \in spoke /\ member[u] \in {"invited", "joined"}
    BY DEF SentOn
  <1>2. member \in [Users -> {"no", "invited", "joined"}]
    BY DEF LobbyInv, TypeOK
  <1>3. ASSUME LoopStep PROVE spoke \subseteq spoke' /\ member'[u] \in {"invited", "joined"}
    <2>1. ASSUME NEW x \in Rooms, Promote(x)
          PROVE  spoke' = spoke /\ member'[u] \in {"invited", "joined"}
      BY <1>1, <1>2, <2>1 DEF Promote, tally
    <2>2. ASSUME ~\E x \in Rooms : Promote(x) PROVE spoke' = spoke /\ member' = member
      BY <1>3, <2>2 DEF LoopStep, world, tally, Sync, Challenge, Refuse, PromoteFails, GiveWelcome,
                        Acknowledge, BatchDone, Repost, SweepDone, Clean, Save, PostRefused, Die
    <2>3. QED BY <1>1, <2>1, <2>2
  <1>4. ASSUME NEW x \in Users, EntersSpace(x)
        PROVE  spoke' = spoke /\ member'[u] \in {"invited", "joined"}
    BY <1>1, <1>2, <1>4 DEF EntersSpace, tally
  <1>5. ASSUME ~LoopStep, ~\E x \in Users : EntersSpace(x)
        PROVE  spoke \subseteq spoke' /\ member' = member
    BY <1>5 DEF Next, vars, world, tally, Crash, Reboot, Die, OpenRoom, GrowsStale, UserJoins,
                ChallengeGrowsOld, UserSays, UserSetsName
  <1>6. QED BY <1>1, <1>3, <1>4, <1>5 DEF SentOn

\* A note that was there before a step is true after it; only Promote writes a
\* new one, on an invitation to somebody whose haiku it has just judged.
LEMMA NotesStayTrue ==
    ASSUME LobbyInv, NotesTrue(disk), NotesTrue(mem), [Next]_vars
    PROVE  NotesTrue(disk)' /\ NotesTrue(mem)'
  <1> DEFINE Noted_(b, r) == b[r] # Nothing /\ b[r].reason = "promoted"
             True_(r) == SentOn(r)
  <1>1. /\ disk \in [Rooms -> Meta \cup {Nothing}]
        /\ mem \in [Rooms -> Meta \cup {Nothing}]
    BY DEF LobbyInv, TypeOK
  <1>2. \A r \in Rooms : Noted_(disk, r) \/ Noted_(mem, r) => True_(r)'
    BY SentOnStays DEF NotesTrue
  <1>3. ASSUME NEW r \in Rooms, Promote(r)
        PROVE  NotesTrue(disk)' /\ NotesTrue(mem)'
    <2> DEFINE u == Next1(r).user
    <2>1. PICK answer \in InviteAnswers(u) :
             /\ mem' = [mem EXCEPT ![r] = Noticed(@, answer)]
             /\ member' = [member EXCEPT ![u] = IF answer = 200 THEN "invited" ELSE @]
      BY <1>3 DEF Promote
    <2>2. disk' = disk /\ spoke' = spoke
      BY <1>3 DEF Promote, tally
    <2>3. u \in Users /\ <<r, u>> \in spoke /\ mem[r] \in Meta
      <3>1. Turn(r) /\ Next1(r).type = "msg" /\ Passes(mem[r], Next1(r))
        BY <1>3 DEF Promote
      <3>2. u \in Users /\ mem[r] \in Meta /\ Next1(r) \in SoundEvents(r)
        BY <3>1, AtTurn DEF HeardEvents
      <3>3. QED BY <3>1, <3>2 DEF Passes, SoundEvents
    <2>4. ASSUME Noted_(mem', r) PROVE True_(r)'
      <3>1. mem'[r] = Noticed(mem[r], answer)
        BY <1>1, <2>1
      <3>2. answer # 403
        BY <2>3, <2>4, <3>1 DEF Noticed, Meta
      <3>3. answer = 200
        BY <3>2 DEF InviteAnswers
      <3>4. member'[u] = "invited"
        <4>1. member \in [Users -> {"no", "invited", "joined"}]
          BY DEF LobbyInv, TypeOK
        <4>2. QED BY <2>1, <2>3, <3>3, <4>1
      <3>5. QED BY <2>2, <2>3, <3>4 DEF SentOn
    <2>5. \A x \in Rooms : x # r => mem'[x] = mem[x]
      BY <1>1, <2>1
    <2>6. QED BY <1>2, <2>2, <2>4, <2>5 DEF NotesTrue
  <1>4. ASSUME ~\E r \in Rooms : Promote(r), NEW r \in Rooms
        PROVE  /\ Noted_(disk', r) => Noted_(disk, r) \/ Noted_(mem, r)
               /\ Noted_(mem', r) => Noted_(disk, r) \/ Noted_(mem, r)
    <2>1. ASSUME NEW x \in Rooms, OpenRoom(x)
          PROVE  (Noted_(disk', r) => Noted_(disk, r)) /\ mem' = mem
      <3>1. disk' = [disk EXCEPT ![x] = FreshMeta] /\ FreshMeta.reason = "open" /\ mem' = mem
        BY <2>1 DEF OpenRoom, FreshMeta
      <3>2. QED BY <1>1, <3>1
    <2>2. ASSUME NEW x \in Rooms, NEW u \in Users, ChallengeGrowsOld(x, u)
          PROVE  /\ Noted_(disk', r) => Noted_(disk, r)
                 /\ Noted_(mem', r) => Noted_(mem, r)
      <3>1. \A b \in {disk, mem} : b[x] # Nothing => Ripe(b, x, u).reason = b[x].reason
        BY <1>1 DEF Ripe, Meta
      <3>2. /\ disk' = [disk EXCEPT ![x] = Ripe(disk, x, u)]
            /\ mem' = [mem EXCEPT ![x] = Ripe(mem, x, u)]
        BY <2>2 DEF ChallengeGrowsOld
      <3>3. \A b \in {disk, mem} : b[x] = Nothing => Ripe(b, x, u) = Nothing
        BY DEF Ripe
      <3>4. QED BY <1>1, <3>1, <3>2, <3>3
    <2>3. ASSUME NEW x \in Rooms, Challenge(x) \/ Refuse(x)
          PROVE  disk' = disk /\ (Noted_(mem', r) => Noted_(mem, r))
      <3>1. mem[x] \in Meta /\ Turn(x)
        BY <2>3, AtTurn DEF Challenge, Refuse
      <3>2. PICK m \in {Noted(mem[x], Next1(x)),
                        Tried(mem[x], Next1(x).user, mem[x].tries[Next1(x).user] - 1)} :
               disk' = disk /\ mem' = [mem EXCEPT ![x] = m]
        BY <2>3 DEF Challenge, Refuse
      <3>3. m.reason = mem[x].reason
        BY <3>1, <3>2 DEF Noted, Tried, Meta
      <3>4. mem[x] # Nothing
        BY <3>1, NothingAssumption
      <3>5. QED BY <1>1, <3>2, <3>3, <3>4
    <2>4. ASSUME NEW x \in Rooms, NEW u \in Users, Repost(x, u)
          PROVE  disk' = disk /\ (Noted_(mem', r) => Noted_(mem, r))
      <3>1. mem[x] # Nothing /\ disk' = disk
            /\ mem' = [mem EXCEPT ![x].sent[u] = "recent", ![x].resends[u] = @ + 1]
        BY <2>4 DEF Repost, Due, Open
      <3>2. mem[x] \in Meta
        BY <1>1, <3>1
      <3>3. mem'[x].reason = mem[x].reason /\ (x # r => mem'[r] = mem[r])
        BY <1>1, <3>1, <3>2 DEF Meta
      <3>4. QED BY <3>1, <3>3
    <2>5. ASSUME Acknowledge PROVE disk' = disk /\ (Noted_(mem', r) => Noted_(mem, r))
      <3>1. disk' = disk /\ mem' = [mem EXCEPT ![cur].closed = TRUE]
            /\ cur \in Rooms /\ mem[cur] # Nothing
        BY <2>5 DEF Acknowledge, LobbyInv, LoopSound
      <3>2. mem[cur] \in Meta
        BY <1>1, <3>1
      <3>3. mem'[cur].reason = mem[cur].reason /\ (cur # r => mem'[r] = mem[r])
        BY <1>1, <3>1, <3>2 DEF Meta
      <3>4. QED BY <3>1, <3>3
    <2>6. ASSUME NEW x \in Rooms, Clean(x)
          PROVE  disk' = disk /\ (Noted_(mem', r) => Noted_(mem, r))
      <3>1. mem[x] # Nothing /\ disk' = disk
            /\ mem' = [mem EXCEPT ![x].closed = TRUE, ![x].reason = "timeout"]
        BY <2>6 DEF Clean, Open
      <3>2. mem[x] \in Meta
        BY <1>1, <3>1
      <3>3. mem'[x].reason = "timeout" /\ (x # r => mem'[r] = mem[r])
        BY <1>1, <3>1, <3>2 DEF Meta
      <3>4. QED BY <3>1, <3>3
    <2>7. ASSUME Sync PROVE disk' = disk /\ mem' = disk
      BY <2>7 DEF Sync
    <2>8. ASSUME Save PROVE (disk' = disk \/ disk' = mem) /\ mem' = NoBook
      BY <2>8 DEF Save
    <2>9. ASSUME Die PROVE disk' = disk /\ mem' = NoBook
      BY <2>9 DEF Die
    <2>10. ASSUME \/ GiveWelcome \/ BatchDone \/ SweepDone \/ Reboot \/ UNCHANGED vars
                  \/ \E x \in Rooms : PromoteFails(x) \/ GrowsStale(x)
                  \/ \E x \in Rooms, u \in Users : UserJoins(u, x)
                  \/ \E x \in Rooms, u \in Users, good \in BOOLEAN : UserSays(u, x, good)
                  \/ \E u \in Users : UserSetsName(u) \/ EntersSpace(u)
           PROVE  disk' = disk /\ mem' = mem
      BY <2>10 DEF GiveWelcome, BatchDone, SweepDone, Reboot, vars, store, PromoteFails, GrowsStale,
                   UserJoins, UserSays, UserSetsName, EntersSpace, Emit
    <2>11. NoBook[r] = Nothing
      BY DEF NoBook
    <2>12. ASSUME LoopStep
           PROVE  \/ Sync \/ Save \/ Die \/ GiveWelcome \/ Acknowledge \/ BatchDone \/ SweepDone
                  \/ \E x \in Rooms : Challenge(x) \/ Refuse(x) \/ PromoteFails(x) \/ Clean(x)
                  \/ \E x \in Rooms, u \in Users : Repost(x, u)
      BY <1>4, <2>12 DEF LoopStep, PostRefused
    <2>13. CASE LoopStep
      BY <2>3, <2>4, <2>5, <2>6, <2>7, <2>8, <2>9, <2>10, <2>11, <2>12, <2>13
    <2> DEFINE Quiet == \/ GiveWelcome \/ BatchDone \/ SweepDone \/ Reboot \/ UNCHANGED vars
                        \/ \E x \in Rooms : PromoteFails(x) \/ GrowsStale(x)
                        \/ \E x \in Rooms, u \in Users : UserJoins(u, x)
                        \/ \E x \in Rooms, u \in Users, good \in BOOLEAN : UserSays(u, x, good)
                        \/ \E u \in Users : UserSetsName(u) \/ EntersSpace(u)
    <2>14. CASE ~LoopStep
      <3>1. \/ Die \/ Quiet
            \/ \E x \in Rooms : OpenRoom(x)
            \/ \E x \in Rooms, u \in Users : ChallengeGrowsOld(x, u)
        BY <2>14 DEF Next, Crash
      <3>2. Quiet => disk' = disk /\ mem' = mem
        BY <2>10
      <3> HIDE DEF Quiet
      <3>3. CASE Die
        BY <2>9, <2>11, <3>3
      <3>4. CASE Quiet
        BY <3>2, <3>4
      <3>5. CASE \E x \in Rooms : OpenRoom(x)
        BY <2>1, <3>5
      <3>6. CASE \E x \in Rooms, u \in Users : ChallengeGrowsOld(x, u)
        BY <2>2, <3>6
      <3>7. QED BY <3>1, <3>3, <3>4, <3>5, <3>6
    <2>15. QED BY <2>13, <2>14
  <1>5. QED BY <1>2, <1>3, <1>4 DEF NotesTrue

\* Whatever crashes and other writers come between the invitation and the save,
\* a room that lobby.json counts as promoted sent somebody on, whose haiku was
\* read there.
THEOREM AlwaysSomebodyInvited == Spec => []PromotedIsInvited
  <1>1. Init => NotesTrue(disk) /\ NotesTrue(mem)
    BY DEF Init, NoBook, NotesTrue
  <1>2. LobbyInv /\ NotesTrue(disk) /\ NotesTrue(mem) /\ [Next]_vars
            => (NotesTrue(disk) /\ NotesTrue(mem))'
    BY NotesStayTrue
  <1>3. NotesTrue(disk) => PromotedIsInvited
    BY DEF NotesTrue, SentOn, PromotedIsInvited
  <1>4. QED BY <1>1, <1>2, <1>3, LobbyInvAlways, PTL DEF Spec

\* Nobody is invited to the space who was not posted a challenge in a room
\* where they, with a displayname, sent a proper haiku; and no room is counted
\* as promoted in which nobody was.
THEOREM LobbyOnlyByHaiku == Spec => []SpaceOnlyByHaiku
  <1>1. LobbyInv => InvitedByHaiku
    BY DEF LobbyInv
  <1>2. InvitedByHaiku /\ PromotedIsInvited => SpaceOnlyByHaiku
    BY DEF SpaceOnlyByHaiku
  <1>3. QED BY <1>1, <1>2, LobbyInvAlways, AlwaysSomebodyInvited, PTL

-----------------------------------------------------------------------------
(***************************************************************************)
(* The book its readers see.                                               *)
(***************************************************************************)
LEMMA EntryOf ==
    ASSUME NEW m \in Meta
    PROVE  /\ Entry(m) \in Book!Record /\ Entry(m) # Nothing
           /\ Entry(m).challenged = ToSet(m.challenged)
           /\ Entry(m).reason = "open" <=> ~m.closed
  <1>1. m.challenged \in Seq(Users) /\ m # Nothing
    BY MetaFields
  <1>2. ToSet(m.challenged) \in SUBSET Users
    BY <1>1 DEF ToSet
  <1> DEFINE why == IF ~m.closed THEN "open"
                    ELSE IF m.reason = "timeout" THEN "timeout" ELSE "promoted"
  <1>3. Entry(m) = [challenged |-> ToSet(m.challenged), reason |-> why]
    BY <1>1 DEF Entry
  <1>4. why \in {"open", "promoted", "timeout"} /\ (why = "open" <=> ~m.closed)
    OBVIOUS
  <1> HIDE DEF why
  <1>5. Entry(m) \in Book!Record
    BY <1>2, <1>3, <1>4 DEF Book!Record
  <1>6. QED BY <1>3, <1>4, <1>5, EntryAssumption

LEMMA OpenRoomMints ==
    ASSUME LobbyInv, NEW r \in Rooms, OpenRoom(r)
    PROVE  Book!Mint(r)
  <1>1. r \notin minted /\ minted' = minted \cup {r} /\ disk' = [disk EXCEPT ![r] = FreshMeta]
    BY DEF OpenRoom
  <1>2. Entry(FreshMeta) = Book!Fresh
    <2>1. FreshMeta # Nothing /\ FreshMeta.challenged = << >> /\ ~FreshMeta.closed
      BY FreshIsMeta, NothingAssumption DEF FreshMeta
    <2>2. ToSet(<< >>) = {}
      BY DEF ToSet
    <2>3. QED BY <2>1, <2>2 DEF Entry, Book!Fresh
  <1>3. disk \in [Rooms -> Meta \cup {Nothing}]
    BY DEF LobbyInv, TypeOK
  <1>4. \A x \in Rooms : disk'[x] = IF x = r THEN FreshMeta ELSE disk[x]
    BY <1>1, <1>3
  <1>5. [x \in Rooms |-> Entry(disk'[x])] = [[x \in Rooms |-> Entry(disk[x])] EXCEPT ![r] = Book!Fresh]
    BY <1>2, <1>4
  <1>6. QED BY <1>1, <1>5 DEF Book!Mint

LEMMA SaveSaves ==
    ASSUME LobbyInv, Save, dirty
    PROVE  Book!Save
  <1>1. disk' = mem /\ minted' = minted /\ \A r \in Rooms : RoomKept(r)
    BY DEF LobbyInv, SaveSound, Save, world
  <1>2. disk \in [Rooms -> Meta \cup {Nothing}] /\ mem \in [Rooms -> Meta \cup {Nothing}]
    BY DEF LobbyInv, TypeOK
  <1>3. Entry(Nothing) = Nothing
    BY DEF Entry
  <1>4. ASSUME NEW r \in Rooms PROVE Entry(mem[r]) \in Book!Record \cup {Nothing}
    BY <1>2, <1>3, EntryOf
  <1>5. ASSUME NEW r \in Rooms PROVE Entry(mem[r]) \in Book!MayBecome(Entry(disk[r]))
    <2>1. CASE disk[r] = Nothing
      <3>1. mem[r] = Nothing
        BY <1>1, <2>1 DEF RoomKept
      <3>2. QED BY <1>3, <2>1, <3>1 DEF Book!MayBecome
    <2>2. CASE disk[r] # Nothing
      <3> DEFINE rec == Entry(disk[r])
      <3>1. /\ disk[r] \in Meta /\ rec \in Book!Record /\ rec # Nothing
            /\ rec.challenged = ToSet(disk[r].challenged)
            /\ rec.reason = "open" <=> ~disk[r].closed
        BY <1>2, <2>2, EntryOf
      <3> HIDE DEF rec
      <3>2. CASE rec.reason # "open"
        <4>1. mem[r] = disk[r]
          BY <1>1, <2>2, <3>1, <3>2 DEF RoomKept
        <4>2. QED BY <3>2, <4>1 DEF Book!MayBecome, rec
      <3>3. CASE rec.reason = "open" /\ mem[r] # Nothing
        <4>1. Entry(mem[r]) \in Book!Record
          BY <1>2, <3>3, EntryOf
        <4>2. QED BY <3>1, <3>3, <4>1 DEF Book!MayBecome, rec
      <3>4. CASE rec.reason = "open" /\ mem[r] = Nothing
        <4>1. disk[r].challenged = << >>
          BY <1>1, <2>2, <3>4 DEF RoomKept
        <4>2. rec.challenged = {}
          BY <3>1, <4>1 DEF ToSet
        <4>3. rec = Book!Fresh
          BY <3>1, <3>4, <4>2 DEF Book!Record, Book!Fresh
        <4>4. QED BY <1>3, <3>1, <3>4, <4>3 DEF Book!MayBecome, rec
      <3>5. QED BY <3>2, <3>3, <3>4
    <2>3. QED BY <2>1, <2>2
  <1>6. [x \in Rooms |-> Entry(disk'[x])] = [x \in Rooms |-> Entry(mem[x])]
    BY <1>1
  <1>7. [x \in Rooms |-> Entry(mem[x])] \in [Rooms -> Book!Record \cup {Nothing}]
    BY <1>4
  <1>8. \A r \in Rooms : [x \in Rooms |-> Entry(mem[x])][r]
                             \in Book!MayBecome([x \in Rooms |-> Entry(disk[x])][r])
    BY <1>5
  <1>9. QED BY <1>1, <1>6, <1>7, <1>8 DEF Book!Save

LEMMA TimeIsUnseen ==
    ASSUME LobbyInv, NEW r \in Rooms, NEW u \in Users, ChallengeGrowsOld(r, u)
    PROVE  [x \in Rooms |-> Entry(disk'[x])] = [x \in Rooms |-> Entry(disk[x])]
  <1>1. disk' = [disk EXCEPT ![r] = Ripe(disk, r, u)] /\ disk \in [Rooms -> Meta \cup {Nothing}]
    BY DEF ChallengeGrowsOld, LobbyInv, TypeOK
  <1>2. Entry(Ripe(disk, r, u)) = Entry(disk[r])
    <2>1. CASE disk[r] = Nothing
      BY <2>1 DEF Ripe
    <2>2. CASE disk[r] # Nothing
      <3>1. disk[r] \in Meta
        BY <1>1, <2>2
      <3> DEFINE m == Ripe(disk, r, u)
      <3>2. m \in Meta /\ m.challenged = disk[r].challenged /\ m.closed = disk[r].closed
            /\ m.reason = disk[r].reason
        BY <2>2, <3>1 DEF Ripe, Meta
      <3>3. m # Nothing
        BY <3>2, NothingAssumption
      <3> HIDE DEF m
      <3>4. Entry(m) = Entry(disk[r])
        BY <2>2, <3>2, <3>3 DEF Entry
      <3>5. QED BY <3>4 DEF m
    <2>3. QED BY <2>1, <2>2
  <1>3. \A x \in Rooms : disk'[x] = IF x = r THEN Ripe(disk, r, u) ELSE disk[x]
    BY <1>1
  <1>4. QED BY <1>2, <1>3

\* Whatever the door and the loop do to lobby.json and wherever they crash, its
\* readers see LobbyBook: Lobby implements it.
THEOREM LobbyIsBook == Spec => KeepsTheBook
  <1> DEFINE book == [r \in Rooms |-> Entry(disk[r])]
  <1>1. Init => Book!Init
    BY DEF Init, NoBook, Book!Init, Entry
  <1>2. LobbyInv /\ [Next]_vars => [Book!Next]_<<book, minted>>
    <2> SUFFICES ASSUME LobbyInv, [Next]_vars
                 PROVE  [Book!Next]_<<book, minted>>
      OBVIOUS
    <2>1. CASE disk' = disk /\ minted' = minted
      BY <2>1
    <2>2. ASSUME NEW r \in Rooms, OpenRoom(r) PROVE Book!Next
      BY <2>2, OpenRoomMints DEF Book!Next
    <2>3. ASSUME Save, dirty PROVE Book!Next
      BY <2>3, SaveSaves DEF Book!Next
    <2>4. ASSUME NEW r \in Rooms, NEW u \in Users, ChallengeGrowsOld(r, u)
          PROVE  UNCHANGED <<book, minted>>
      BY <2>4, TimeIsUnseen DEF ChallengeGrowsOld, world
    <2>5. ASSUME Save, ~dirty PROVE disk' = disk /\ minted' = minted
      BY <2>5 DEF Save, world
    <2>6. ASSUME LoopStep, ~Save PROVE disk' = disk /\ minted' = minted
      BY <2>6 DEF LoopStep, store, world, Sync, Challenge, Refuse, Promote, PromoteFails, GiveWelcome,
                  Acknowledge, BatchDone, Repost, SweepDone, Clean, PostRefused, Die
    <2>7. ASSUME Next, ~LoopStep,
                 ~\E r \in Rooms : OpenRoom(r),
                 ~\E r \in Rooms, u \in Users : ChallengeGrowsOld(r, u)
          PROVE  disk' = disk /\ minted' = minted
      BY <2>7 DEF Next, Crash, Reboot, Die, store, world, GrowsStale, UserJoins, UserSays, UserSetsName, EntersSpace, Emit
    <2>8. UNCHANGED vars => disk' = disk /\ minted' = minted
      BY DEF vars, store, world
    <2>9. CASE LoopStep
      BY <2>1, <2>3, <2>5, <2>6, <2>9
    <2>10. QED BY <2>1, <2>2, <2>4, <2>7, <2>8, <2>9
  <1>3. QED BY <1>1, <1>2, LobbyInvAlways, PTL DEF Spec, KeepsTheBook, Book!Spec
=============================================================================
