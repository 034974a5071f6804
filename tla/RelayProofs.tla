----------------------------- MODULE RelayProofs -----------------------------
(***************************************************************************)
(* Proofs about Relay, for any limits, number of messages, failures, stops *)
(* and kills: the variables keep their types, a message is lost only in a  *)
(* way that has a name (Accounted), and the two rooms mirror each other    *)
(* (Mirrored).                                                             *)
(***************************************************************************)
EXTENDS Relay, SequenceTheorems, FiniteSetTheorems, TLAPS

-----------------------------------------------------------------------------
(***************************************************************************)
(* Copies, counted and found.                                              *)
(***************************************************************************)
LEMMA Appended ==
    ASSUME NEW q \in Seq(Nat), NEW m \in Nat
    PROVE  /\ Append(q, m) \in Seq(Nat) /\ Len(Append(q, m)) = Len(q) + 1
           /\ DOMAIN Append(q, m) = DOMAIN q \cup {Len(q) + 1}
           /\ DOMAIN q = 1..Len(q) /\ Len(q) \in Nat
           /\ \A i \in DOMAIN q : Append(q, m)[i] = q[i]
           /\ Append(q, m)[Len(q) + 1] = m
  <1>1. Len(q) \in Nat /\ DOMAIN q = 1..Len(q)
    OBVIOUS
  <1>2. Append(q, m) \in Seq(Nat) /\ Len(Append(q, m)) = Len(q) + 1
    OBVIOUS
  <1>3. DOMAIN Append(q, m) = 1..(Len(q) + 1)
    BY <1>2
  <1>4. 1..(Len(q) + 1) = 1..Len(q) \cup {Len(q) + 1}
    BY <1>1
  <1>5. QED BY <1>1, <1>2, <1>3, <1>4

Places(n, q) == {i \in DOMAIN q : q[i] = n}

LEMMA PlacesFinite ==
    ASSUME NEW q \in Seq(Nat), NEW n
    PROVE  /\ IsFiniteSet(Places(n, q)) /\ CopiesOf(n, q) \in Nat
           /\ CopiesOf(n, q) = Cardinality(Places(n, q))
  <1>1. IsFiniteSet(1..Len(q))
    BY FS_Interval
  <1>2. Places(n, q) \subseteq 1..Len(q)
    BY DEF Places
  <1>3. IsFiniteSet(Places(n, q))
    BY <1>1, <1>2, FS_Subset
  <1>4. CopiesOf(n, q) = Cardinality(Places(n, q))
    BY DEF CopiesOf, Places
  <1>5. QED BY <1>3, <1>4, FS_CardinalityType

LEMMA CopiesAppend ==
    ASSUME NEW q \in Seq(Nat), NEW m \in Nat, NEW n
    PROVE  CopiesOf(n, Append(q, m)) = CopiesOf(n, q) + (IF m = n THEN 1 ELSE 0)
  <1>1. /\ IsFiniteSet(Places(n, q)) /\ CopiesOf(n, q) \in Nat
        /\ CopiesOf(n, q) = Cardinality(Places(n, q))
    BY PlacesFinite
  <1>2. CopiesOf(n, Append(q, m)) = Cardinality(Places(n, Append(q, m)))
    BY DEF CopiesOf, Places
  <1>3. CASE m = n
    <2>1. Places(n, Append(q, m)) = Places(n, q) \cup {Len(q) + 1}
      BY <1>3, Appended DEF Places
    <2>2. Len(q) + 1 \notin Places(n, q)
      BY Appended DEF Places
    <2>3. Cardinality(Places(n, q) \cup {Len(q) + 1}) = Cardinality(Places(n, q)) + 1
      BY <1>1, <2>2, FS_AddElement
    <2>4. QED BY <1>1, <1>2, <1>3, <2>1, <2>3
  <1>4. CASE m # n
    <2>1. Places(n, Append(q, m)) = Places(n, q)
      BY <1>4, Appended DEF Places
    <2>2. QED BY <1>1, <1>2, <1>4, <2>1
  <1>5. QED BY <1>3, <1>4

LEMMA CopiedIff ==
    ASSUME NEW q \in Seq(Nat), NEW n
    PROVE  Copied(n, q) <=> \E i \in DOMAIN q : q[i] = n
  <1>1. IsFiniteSet(Places(n, q)) /\ CopiesOf(n, q) = Cardinality(Places(n, q))
        /\ CopiesOf(n, q) \in Nat
    BY PlacesFinite
  <1>2. CASE Places(n, q) = {}
    <2>1. CopiesOf(n, q) = 0
      BY <1>1, <1>2, FS_EmptySet
    <2>2. QED BY <1>2, <2>1 DEF Copied, Places
  <1>3. CASE Places(n, q) # {}
    <2>1. CopiesOf(n, q) # 0
      BY <1>1, <1>3, FS_EmptySet
    <2>2. QED BY <1>1, <1>3, <2>1 DEF Copied, Places
  <1>4. QED BY <1>2, <1>3

-----------------------------------------------------------------------------
(***************************************************************************)
(* The parts of the inductive invariant.                                   *)
(***************************************************************************)
Sending == mxPc \in {"sending", "sent"}
MxBusy  == mxPc = "relay" \/ Sending
TgBusy  == tgPc \in {"relay", "sent"}

\* The batch in hand is the newest the cursor has passed.
MxInPlace ==
    /\ cursor # NoCursor => cursor <= Len(mx)
    /\ mxPc = "sync" \/ MxBusy => cursor # NoCursor
    /\ ~MxBusy => mxJob = Idle
    /\ MxBusy => /\ mxJob.end = cursor
                 /\ 1 <= mxJob.next /\ mxJob.next <= mxJob.end + 1
                 /\ mxJob.end < mxJob.next + limits.sync
    /\ Sending => /\ mxJob.next <= mxJob.end /\ mx[mxJob.next] = 0
                  /\ mxJob.next \in ToSet(st.seen)
    /\ mxPc = "sent" => Copied(mxJob.next, tg)

TgInPlace ==
    /\ mxPc \in {"down", "first"} => tgPc = "down"
    /\ st.last <= Len(tg) /\ file.last <= Len(tg)
    /\ ~TgBusy => tgJob = Idle
    /\ TgBusy => /\ tgJob.end <= Len(tg) /\ tgJob.next <= tgJob.end + 1
                 /\ st.last < tgJob.next
    /\ tgPc = "sent" => /\ tgJob.next <= tgJob.end /\ tg[tgJob.next] = 0
                        /\ Copied(tgJob.next, mx)

\* A copy is of something a person wrote.
CopiesInPlace ==
    /\ \A i \in DOMAIN mx : mx[i] # 0 => mx[i] \in DOMAIN tg /\ tg[mx[i]] = 0
    /\ \A i \in DOMAIN tg : tg[i] # 0 => tg[i] \in DOMAIN mx /\ mx[tg[i]] = 0

\* The ring holds no id twice, and none that was a batch newer than one
\* marked after it.
Ring(q) ==
    /\ \A i \in DOMAIN q : q[i] \in DOMAIN mx
    /\ \A i, j \in DOMAIN q : i < j => q[i] # q[j] /\ q[i] < q[j] + limits.sync

Rings ==
    /\ Ring(st.seen) /\ Ring(file.seen)
    /\ MxBusy => \A i \in DOMAIN st.seen : st.seen[i] <= mxJob.end

\* What became of a message the books have passed.
MxTold(n) == Copied(n, tg) \/ n \in mxFailed \cup mxMissed
TgTold(n) == Copied(n, mx) \/ n \in tgFailed \cup tgMissed

SeenTold ==
    \A n \in ToSet(st.seen) \cup ToSet(file.seen) :
        mx[n] = 0 => MxTold(n) \/ (Sending /\ n = mxJob.next)

PassedTold == TgBusy => \A n \in 1..(tgJob.next - 1) : tg[n] = 0 => TgTold(n)

\* The books that count: those of the process, or those it will start with.
Held == IF Up THEN st ELSE file

\* The events that may still come, or are, in a batch.
Window == {n \in DOMAIN mx : Len(mx) < n + limits.sync} \cup InHand(mxJob)

MxCounted ==
    /\ MxOnceUnlessKilled
    /\ \A n \in Window : n \notin ToSet(Held.seen) => CopiesOf(n, tg) <= kills
    /\ mxPc = "sending" => CopiesOf(mxJob.next, tg) <= kills

TgCounted ==
    /\ TgOnceUnlessBroken
    /\ \A n \in DOMAIN tg :
          n > Held.last => CopiesOf(n, mx) <= breaks \/ (tgPc = "sent" /\ n = tgJob.next)

\* The copy of n is no newer than what the Matrix loop has come to.
MxReached(n) ==
    \/ mxPc = "sync" /\ n <= cursor
    \/ mxPc \in {"relay", "sending"} /\ n < mxJob.next
    \/ mxPc = "sent" /\ n <= mxJob.next

TgReached(n) == Up /\ (n <= st.last \/ (tgPc = "sent" /\ n = tgJob.next))

Ordered ==
    breaks = 0 /\ rewinds = 0 =>
        /\ InOrder(mx) /\ InOrder(tg)
        /\ \A i \in DOMAIN tg : tg[i] # 0 => MxReached(tg[i])
        /\ \A i \in DOMAIN mx : mx[i] # 0 => TgReached(mx[i])

RelayInv ==
    /\ TypeOK /\ MxInPlace /\ TgInPlace /\ CopiesInPlace /\ Rings
    /\ MxAccounted /\ TgAccounted /\ SeenTold /\ PassedTold
    /\ MxCounted /\ TgCounted /\ Ordered

-----------------------------------------------------------------------------
(***************************************************************************)
(* What the types say of the fields.                                       *)
(***************************************************************************)
LEMMA Fields ==
    ASSUME TypeOK
    PROVE  /\ limits.sync \in Nat /\ limits.sync >= 1 /\ limits.seen \in Nat
           /\ limits.seen >= 2 * limits.sync - 1
           /\ st.last \in Nat /\ st.seen \in Seq(Nat)
           /\ file.last \in Nat /\ file.seen \in Seq(Nat)
           /\ mxJob.next \in Nat /\ mxJob.end \in Nat
           /\ tgJob.next \in Nat /\ tgJob.end \in Nat
           /\ Len(mx) \in Nat /\ DOMAIN mx = 1..Len(mx)
           /\ Len(tg) \in Nat /\ DOMAIN tg = 1..Len(tg)
           /\ mx \in Seq(Nat) /\ tg \in Seq(Nat)
  <1>1. limits \in [sync : Nat \ {0}, seen : Nat \ {0}] /\ limits.seen >= 2 * limits.sync - 1
    BY RelayBounds DEF TypeOK
  <1>2. st \in Bookmarks /\ file \in Bookmarks /\ mxJob \in Job /\ tgJob \in Job
    BY DEF TypeOK
  <1>3. st.last \in Nat /\ st.seen \in Seq(Nat) /\ file.last \in Nat /\ file.seen \in Seq(Nat)
    BY <1>2 DEF Bookmarks
  <1>4. /\ mxJob.next \in Nat /\ mxJob.end \in Nat
        /\ tgJob.next \in Nat /\ tgJob.end \in Nat
    BY <1>2 DEF Job
  <1>5. mx \in Seq(Nat) /\ tg \in Seq(Nat)
    BY DEF TypeOK
  <1>6. /\ Len(mx) \in Nat /\ DOMAIN mx = 1..Len(mx)
        /\ Len(tg) \in Nat /\ DOMAIN tg = 1..Len(tg)
    BY <1>5
  <1>7. limits.sync \in Nat /\ limits.sync >= 1 /\ limits.seen \in Nat
    BY <1>1
  <1>8. QED BY <1>1, <1>3, <1>4, <1>5, <1>6, <1>7

LEMMA InHandIs ==
    ASSUME NEW job \in Job, NEW n
    PROVE  n \in InHand(job) <=> n \in Nat /\ job.next <= n /\ n <= job.end
  BY DEF InHand, Job

LEMMA IdleFacts == Idle \in Job /\ Idle.next = 1 /\ Idle.end = 0 /\ InHand(Idle) = {}
  BY DEF Idle, Job, InHand

LEMMA Advances ==
    ASSUME NEW job \in Job, NEW job1, job1 = [job EXCEPT !.next = @ + 1]
    PROVE  /\ job1 \in Job /\ job1.next = job.next + 1 /\ job1.end = job.end
           /\ \A n : n \in InHand(job) <=> n \in InHand(job1) \/ (n = job.next /\ n <= job.end)
           /\ job.next \notin InHand(job1)
  <1>1. job1 \in Job /\ job1.next = job.next + 1 /\ job1.end = job.end /\ job.next \in Nat /\ job.end \in Nat
    BY DEF Job
  <1>2. ASSUME NEW n
        PROVE  n \in InHand(job) <=> n \in InHand(job1) \/ (n = job.next /\ n <= job.end)
    <2>1. n \in InHand(job) <=> n \in Nat /\ job.next <= n /\ n <= job.end
      BY InHandIs
    <2>2. n \in InHand(job1) <=> n \in Nat /\ job1.next <= n /\ n <= job1.end
      BY <1>1, InHandIs
    <2>3. QED BY <1>1, <2>1, <2>2
  <1>3. job.next \notin InHand(job1)
    <2>1. job.next \in InHand(job1) => job1.next <= job.next
      BY <1>1, InHandIs
    <2>2. QED BY <1>1, <2>1
  <1>4. QED BY <1>1, <1>2, <1>3

LEMMA Moves ==
    ASSUME NEW last \in Nat, NEW seen \in Seq(Nat), NEW s, s = [last |-> last, seen |-> seen],
           NEW m \in Nat, NEW s1, s1 = [s EXCEPT !.last = m]
    PROVE  s1 \in Bookmarks /\ s1.last = m /\ s1.seen = seen
  BY DEF Bookmarks

LEMMA LatestFacts ==
    ASSUME NEW from \in Nat, NEW to \in Nat, NEW limit \in Nat, limit >= 1, from >= 1, from <= to
    PROVE  LET w == Latest(from, to, limit) IN
           /\ w \in Job /\ w.end = to /\ from <= w.next /\ w.next <= to
           /\ to < w.next + limit
  BY DEF Latest, Job

\* mark_mx: the id is in, perhaps at the cost of the oldest.
LEMMA Marks ==
    ASSUME TypeOK, NEW n \in Nat, NEW s, s = Seen(n)
    PROVE  /\ s \in Bookmarks /\ s.last = st.last /\ s.seen \in Seq(Nat)
           /\ n \in ToSet(s.seen) /\ ToSet(s.seen) \subseteq ToSet(st.seen) \cup {n}
           /\ \/ s.seen = st.seen /\ n \in ToSet(st.seen)
              \/ n \notin ToSet(st.seen) /\ s.seen = Append(st.seen, n)
              \/ /\ n \notin ToSet(st.seen) /\ Len(st.seen) >= limits.seen /\ st.seen # << >>
                 /\ s.seen = Tail(Append(st.seen, n))
  <1>0. st \in Bookmarks /\ st.seen \in Seq(Nat) /\ st.last \in Nat /\ limits.seen \in Nat
        /\ limits.seen >= 1
    <2>1. limits.sync \in Nat /\ limits.sync >= 1 /\ limits.seen \in Nat
          /\ limits.seen >= 2 * limits.sync - 1
      BY Fields
    <2>2. limits.seen >= 1
      BY <2>1
    <2>3. QED BY Fields, <2>2 DEF TypeOK
  <1>1. CASE IsSeen(n)
    BY <1>0, <1>1 DEF Seen, IsSeen, ToSet
  <1>2. CASE ~IsSeen(n)
    <2>1. s = [st EXCEPT !.seen = Marked(n)]
      BY <1>2 DEF Seen
    <2> DEFINE ids == Append(st.seen, n)
    <2>2. /\ ids \in Seq(Nat) /\ Len(ids) = Len(st.seen) + 1 /\ Len(st.seen) \in Nat
          /\ DOMAIN ids = DOMAIN st.seen \cup {Len(st.seen) + 1} /\ DOMAIN st.seen = 1..Len(st.seen)
          /\ \A i \in DOMAIN st.seen : ids[i] = st.seen[i]
          /\ ids[Len(st.seen) + 1] = n
      BY <1>0, Appended
    <2>3. CASE ~(Len(ids) > limits.seen)
      <3>1. Marked(n) = ids
        BY <2>3 DEF Marked
      <3>2. s \in Bookmarks /\ s.last = st.last /\ s.seen = ids
        BY <1>0, <2>1, <2>2, <3>1 DEF Bookmarks
      <3>3. QED BY <1>2, <2>2, <3>2 DEF ToSet, IsSeen
    <2>4. CASE Len(ids) > limits.seen
      <3>1. Marked(n) = Tail(ids)
        BY <2>4 DEF Marked
      <3>2. /\ Tail(ids) \in Seq(Nat) /\ Len(Tail(ids)) = Len(st.seen)
            /\ \A i \in 1..Len(st.seen) : Tail(ids)[i] = ids[i + 1]
        BY <2>2
      <3>3. s \in Bookmarks /\ s.last = st.last /\ s.seen = Tail(ids)
        BY <1>0, <2>1, <3>1, <3>2 DEF Bookmarks
      <3>4. Len(st.seen) >= limits.seen /\ Len(st.seen) >= 1
        BY <1>0, <2>2, <2>4
      <3>5. DOMAIN Tail(ids) = 1..Len(st.seen)
        BY <3>2
      <3>6. Tail(ids)[Len(st.seen)] = n
        BY <2>2, <3>2, <3>4
      <3>7. \A i \in 1..Len(st.seen) : Tail(ids)[i] \in ToSet(st.seen) \cup {n}
        <4>1. ASSUME NEW i \in 1..Len(st.seen) PROVE Tail(ids)[i] \in ToSet(st.seen) \cup {n}
          <5>1. Tail(ids)[i] = ids[i + 1] /\ i + 1 \in DOMAIN ids
            BY <2>2, <3>2
          <5>2. QED BY <2>2, <5>1 DEF ToSet
        <4>2. QED BY <4>1
      <3>8. n \in ToSet(Tail(ids))
        <4>1. Len(st.seen) \in DOMAIN Tail(ids)
          BY <2>2, <3>4, <3>5
        <4>2. QED BY <3>6, <4>1 DEF ToSet
      <3>9. ToSet(Tail(ids)) \subseteq ToSet(st.seen) \cup {n}
        BY <3>5, <3>7 DEF ToSet
      <3>10. QED BY <1>2, <2>2, <3>2, <3>3, <3>4, <3>8, <3>9 DEF IsSeen
    <2>5. QED BY <2>3, <2>4
  <1>3. QED BY <1>1, <1>2

-----------------------------------------------------------------------------
(***************************************************************************)
(* What a step on one side leaves of the other's part of the invariant.    *)
(***************************************************************************)
\* A step of the Telegram loop that sends nothing.
TgOnly ==
    /\ UNCHANGED <<limits, mx, tg, cursor, mxPc, mxJob, mxFailed, mxMissed, kills, rewinds>>
    /\ st' \in Bookmarks /\ st'.seen = st.seen /\ file' \in {file, st'}
    /\ breaks' \in {breaks, breaks + 1}

LEMMA MxUntouched ==
    ASSUME RelayInv, TgOnly, Up
    PROVE  /\ MxInPlace' /\ CopiesInPlace' /\ Rings' /\ MxAccounted' /\ SeenTold' /\ MxCounted'
  <1>0. MxInPlace /\ CopiesInPlace /\ Rings /\ MxAccounted /\ SeenTold /\ MxCounted
    BY DEF RelayInv
  <1>1. /\ UNCHANGED <<limits, mx, tg, cursor, mxPc, mxJob, mxFailed, mxMissed, kills>>
        /\ st'.seen = st.seen /\ file'.seen \in {file.seen, st.seen}
    BY DEF TgOnly
  <1>2. Sending' = Sending /\ MxBusy' = MxBusy /\ Up' = Up
    BY <1>1 DEF Sending, MxBusy, Up
  <1>3. MxInPlace'
    BY <1>0, <1>1, <1>2 DEF MxInPlace
  <1>4. CopiesInPlace'
    BY <1>0, <1>1 DEF CopiesInPlace
  <1>5. Rings'
    BY <1>0, <1>1, <1>2 DEF Rings, Ring
  <1>6. MxAccounted'
    BY <1>0, <1>1 DEF MxAccounted
  <1>7. SeenTold'
    BY <1>0, <1>1, <1>2 DEF SeenTold, MxTold
  <1>8. MxCounted'
    BY <1>0, <1>1, <1>2 DEF MxCounted, MxOnceUnlessKilled, Window, Held
  <1>9. QED BY <1>3, <1>4, <1>5, <1>6, <1>7, <1>8

\* A step of the Matrix loop that sends nothing.
MxOnly ==
    /\ UNCHANGED <<limits, mx, tg, tgPc, tgJob, tgFailed, tgMissed, kills, rewinds>>
    /\ st' \in Bookmarks /\ st'.last = st.last /\ file' \in {file, st'}
    /\ mxPc # "down" /\ mxPc' \notin {"down", "first"}
    /\ breaks' \in {breaks, breaks + 1}

LEMMA TgUntouched ==
    ASSUME RelayInv, MxOnly
    PROVE  TgInPlace' /\ CopiesInPlace' /\ TgAccounted' /\ PassedTold' /\ TgCounted'
  <1>0. TgInPlace /\ CopiesInPlace /\ TgAccounted /\ PassedTold /\ TgCounted /\ TypeOK
    BY DEF RelayInv
  <1>1. /\ UNCHANGED <<limits, mx, tg, tgPc, tgJob, tgFailed, tgMissed>>
        /\ st'.last = st.last /\ file'.last \in {file.last, st.last}
        /\ mxPc' \notin {"down", "first"}
    BY DEF MxOnly
  <1>2. TgBusy' = TgBusy /\ Up /\ Up'
    BY DEF MxOnly, TgBusy, Up
  <1>3. TgInPlace'
    BY <1>0, <1>1, <1>2 DEF TgInPlace
  <1>4. CopiesInPlace'
    BY <1>0, <1>1 DEF CopiesInPlace
  <1>5. TgAccounted'
    BY <1>0, <1>1 DEF TgAccounted
  <1>6. PassedTold'
    BY <1>0, <1>1, <1>2 DEF PassedTold, TgTold
  <1>7. TgCounted'
    <2>1. breaks \in Nat /\ breaks' \in {breaks, breaks + 1}
      BY <1>0 DEF MxOnly, TypeOK
    <2>2. ASSUME NEW n \in DOMAIN tg PROVE CopiesOf(n, mx) \in Nat
      BY <1>0, PlacesFinite DEF TypeOK
    <2>3. Held'.last = Held.last
      BY <1>1, <1>2 DEF Held
    <2>4. TgOnceUnlessBroken'
      BY <1>0, <1>1, <2>1, <2>2 DEF TgCounted, TgOnceUnlessBroken
    <2>5. ASSUME NEW n \in DOMAIN tg', n > Held'.last
          PROVE  CopiesOf(n, mx') <= breaks' \/ (tgPc' = "sent" /\ n = tgJob'.next)
      BY <1>0, <1>1, <2>1, <2>2, <2>3, <2>5 DEF TgCounted
    <2>6. QED BY <2>4, <2>5 DEF TgCounted
  <1>8. QED BY <1>3, <1>4, <1>5, <1>6, <1>7

LEMMA OrderedBroken == breaks' # 0 \/ rewinds' # 0 => Ordered'
  BY DEF Ordered

-----------------------------------------------------------------------------
(***************************************************************************)
(* The types.                                                              *)
(***************************************************************************)
LEMMA StepType ==
    ASSUME RelayInv, [Next]_vars
    PROVE  TypeOK'
  <1> USE RelayBounds
  <1>0. TypeOK /\ MxInPlace /\ TgInPlace
    BY DEF RelayInv
  <1>a. Idle \in Job
    BY IdleFacts
  <1>c. ASSUME NEW job \in Job PROVE [job EXCEPT !.next = @ + 1] \in Job
    BY Advances
  <1>d. mxJob \in Job /\ tgJob \in Job
    BY <1>0 DEF TypeOK
  <1>b. breaks \in Nat /\ kills \in Nat /\ rewinds \in Nat /\ posts \in Nat
    BY <1>0 DEF TypeOK
  <1>1. CASE WritesMatrix \/ WritesTelegram
    <2>1. /\ mx' \in Seq(Nat) /\ tg' \in Seq(Nat)
          /\ DOMAIN mx \subseteq DOMAIN mx' /\ DOMAIN tg \subseteq DOMAIN tg'
          /\ stuck' \subseteq DOMAIN tg'
      <3>1. mx \in Seq(Nat) /\ tg \in Seq(Nat)
        BY <1>0 DEF TypeOK
      <3>2. ASSUME NEW q \in Seq(Nat)
            PROVE  Append(q, 0) \in Seq(Nat) /\ DOMAIN q \subseteq DOMAIN Append(q, 0)
        BY Appended
      <3>3. \/ mx' = Append(mx, 0) /\ tg' = tg
            \/ mx' = mx /\ tg' = Append(tg, 0)
        BY <1>1 DEF WritesMatrix, WritesTelegram
      <3>4. stuck' \in {stuck, stuck \cup {Len(tg')}} /\ (tg' = tg => stuck' = stuck)
        <4>1. CASE WritesMatrix
          BY <4>1 DEF WritesMatrix
        <4>2. CASE WritesTelegram
          <5>1. tg' # tg
            BY <3>1, <4>2, Appended DEF WritesTelegram
          <5>2. QED BY <4>2, <5>1 DEF WritesTelegram
        <4>3. QED BY <1>1, <4>1, <4>2
      <3>5. stuck \subseteq DOMAIN tg
        BY <1>0 DEF TypeOK
      <3>6. tg' = Append(tg, 0) => Len(tg') \in DOMAIN tg'
        BY <3>1, Appended
      <3>7. QED BY <3>1, <3>2, <3>3, <3>4, <3>5, <3>6
    <2>2. posts' \in 0..MaxPosts
      BY <1>1, <1>b DEF WritesMatrix, WritesTelegram, Written
    <2>3. UNCHANGED <<limits, books, mxSide, tgSide, faults, losses>>
      BY <1>1 DEF WritesMatrix, WritesTelegram, Written
    <2>4. QED BY <1>0, <2>1, <2>2, <2>3 DEF TypeOK, books, mxSide, tgSide, faults, losses
  <1>2. CASE Start
    BY <1>0, <1>2 DEF Start, TypeOK, rooms, faults, losses
  <1>3. CASE SkipToNow
    BY <1>0, <1>3 DEF SkipToNow, TypeOK, rooms, faults, losses
  <1>4. CASE MxSync
    <2>1. cursor \in Nat /\ cursor < Len(mx) /\ Len(mx) \in Nat /\ DOMAIN mx = 1..Len(mx)
          /\ limits.sync \in Nat /\ limits.sync >= 1
      BY <1>0, <1>4, Fields DEF MxSync, MxInPlace, TypeOK
    <2>2. mxJob' \in Job /\ cursor + 1 <= mxJob'.next /\ mxJob'.next <= Len(mx)
      BY <1>4, <2>1, LatestFacts DEF MxSync
    <2>3. mxJob'.next \in Nat
      BY <2>2 DEF Job
    <2>4. mxMissed' \subseteq DOMAIN mx
      <3>1. mxMissed \subseteq DOMAIN mx
        BY <1>0 DEF TypeOK
      <3>2. mxMissed' = mxMissed \cup (cursor + 1)..(mxJob'.next - 1)
        BY <1>4 DEF MxSync
      <3>3. (cursor + 1)..(mxJob'.next - 1) \subseteq 1..Len(mx)
        BY <2>1, <2>2, <2>3
      <3>4. QED BY <2>1, <3>1, <3>2, <3>3
    <2>5. UNCHANGED <<rooms, file, st, tgSide, posts, faults, mxFailed, tgFailed, tgMissed>>
          /\ cursor' = Len(mx) /\ mxPc' = "relay"
      BY <1>4 DEF MxSync
    <2>6. QED BY <1>0, <2>1, <2>2, <2>4, <2>5 DEF TypeOK, rooms, tgSide, faults
  <1>5. ASSUME NEW n \in InHand(mxJob), MxSkip(n) \/ MxUndecryptable(n) \/ MxTake(n) PROVE TypeOK'
    <2>1. /\ st' = Seen(n) /\ mxPc' \in {"relay", "sending"} /\ n \in DOMAIN mx
          /\ UNCHANGED <<rooms, cursor, tgSide, posts, faults, mxFailed, tgFailed, tgMissed>>
          /\ file' \in {file, st'} /\ mxMissed' \in {mxMissed, mxMissed \cup {n}}
          /\ mxJob' \in {mxJob, [mxJob EXCEPT !.next = @ + 1]}
      <3>1. n \in DOMAIN mx
        <4>1. MxBusy /\ mxJob.end = cursor /\ 1 <= mxJob.next /\ cursor <= Len(mx)
          BY <1>0, <1>5 DEF MxSkip, MxUndecryptable, MxTake, MxAt, MxBusy, MxInPlace
        <4>2. n \in Nat /\ mxJob.next <= n /\ n <= mxJob.end
          BY <1>0, InHandIs DEF TypeOK
        <4>3. QED BY <1>0, <4>1, <4>2, Fields
      <3>2. QED BY <1>5, <3>1 DEF MxSkip, MxUndecryptable, MxTake, MxAt, MxNext, losses
    <2>2. st' \in Bookmarks
      BY <1>0, <2>1, Fields, Marks
    <2>3. mxJob' \in Job
      BY <1>c, <1>d, <2>1
    <2>4. QED BY <1>0, <2>1, <2>2, <2>3 DEF TypeOK, rooms, tgSide, faults
  <1>6. CASE MxDeliver
    <2>1. tg' \in Seq(Nat) /\ DOMAIN tg \subseteq DOMAIN tg'
      BY <1>0, <1>6, Appended, Fields DEF MxDeliver
    <2>2. QED BY <1>0, <1>6, <2>1 DEF MxDeliver, TypeOK, books, tgSide, faults, losses
  <1>7. CASE MxSent
    <2>1. mxJob' \in Job
      BY <1>c, <1>d, <1>7 DEF MxSent, MxNext
    <2>2. QED BY <1>0, <1>7, <2>1 DEF MxSent, TypeOK, rooms, tgSide, faults, losses
  <1>8. CASE MxFail
    <2>1. mxJob' \in Job
      BY <1>c, <1>d, <1>8 DEF MxFail, MxNext
    <2>2. mxJob.next \in DOMAIN mx
      <3>1. Sending /\ MxBusy
        BY <1>8 DEF MxFail, Sending, MxBusy
      <3>2. 1 <= mxJob.next /\ mxJob.next <= mxJob.end /\ mxJob.end <= Len(mx)
        BY <1>0, <3>1 DEF MxInPlace
      <3>3. QED BY <1>0, <3>2, Fields
    <2>3. breaks' \in 0..MaxBreaks /\ kills' \in 0..breaks'
      BY <1>0, <1>8, <1>b DEF MxFail, TypeOK
    <2>4. UNCHANGED <<rooms, books, tgSide, posts, rewinds, tgFailed, mxMissed, tgMissed>>
          /\ mxPc' = "relay" /\ mxFailed' = mxFailed \cup {mxJob.next}
      BY <1>8 DEF MxFail
    <2>5. QED BY <1>0, <2>1, <2>2, <2>3, <2>4 DEF TypeOK, rooms, books, tgSide
  <1>9. CASE MxPassDone
    BY <1>0, <1>9, <1>a DEF MxPassDone, TypeOK, rooms, tgSide, faults, losses
  <1>10. CASE TgSkipToNow
    <2>1. st' \in Bookmarks
      BY <1>0, <1>10, Fields DEF TgSkipToNow, Bookmarks, TypeOK
    <2>2. QED BY <1>0, <1>10, <2>1 DEF TgSkipToNow, TypeOK, rooms, mxSide, tgSide, faults
  <1>11. CASE TgPoll
    <2>1. st.last \in Nat /\ st.last < Len(tg) /\ Len(tg) \in Nat /\ DOMAIN tg = 1..Len(tg)
      BY <1>0, <1>11, Fields DEF TgPoll
    <2>2. tgJob' \in Job /\ st.last + 1 <= tgJob'.next /\ tgJob'.next <= Len(tg)
      BY <1>11, <2>1, LatestFacts DEF TgPoll
    <2>3. tgJob'.next \in Nat
      BY <2>2 DEF Job
    <2>4. tgMissed' \subseteq DOMAIN tg
      <3>1. tgMissed \subseteq DOMAIN tg
        BY <1>0 DEF TypeOK
      <3>2. tgMissed' = tgMissed \cup (st.last + 1)..(tgJob'.next - 1)
        BY <1>11 DEF TgPoll
      <3>3. (st.last + 1)..(tgJob'.next - 1) \subseteq 1..Len(tg)
        BY <2>1, <2>2, <2>3
      <3>4. QED BY <2>1, <3>1, <3>2, <3>3
    <2>5. UNCHANGED <<rooms, books, mxSide, posts, faults, mxFailed, tgFailed, mxMissed>>
          /\ tgPc' = "relay"
      BY <1>11 DEF TgPoll
    <2>6. QED BY <1>0, <2>2, <2>4, <2>5 DEF TypeOK, rooms, books, mxSide, faults
  <1>12. ASSUME st' = DoneWith(tgJob.next), tgPc' = "relay", TgNext, file' \in {file, st'},
                UNCHANGED <<rooms, cursor, mxSide, posts, faults, losses>>
         PROVE  TypeOK'
    <2>1. tgJob' \in Job
      BY <1>c, <1>d, <1>12 DEF TgNext
    <2>2. st' \in Bookmarks
      BY <1>0, <1>12, Fields DEF DoneWith, Bookmarks, TypeOK
    <2>3. QED BY <1>0, <1>12, <2>1, <2>2 DEF TypeOK, rooms, mxSide, faults, losses
  <1>13. ASSUME NEW n \in InHand(tgJob), TgSkip(n) PROVE TypeOK'
    BY <1>12, <1>13 DEF TgSkip, TgAt
  <1>14. CASE TgSent
    BY <1>12, <1>14 DEF TgSent
  <1>15. ASSUME NEW n \in InHand(tgJob), TgDeliver(n) PROVE TypeOK'
    <2>1. mx' \in Seq(Nat) /\ DOMAIN mx \subseteq DOMAIN mx'
      BY <1>0, <1>15, Appended, Fields DEF TgDeliver, TgReadable, TgAt
    <2>2. QED BY <1>0, <1>15, <2>1 DEF TgDeliver, TypeOK, books, mxSide, faults, losses
  <1>16. CASE TgFail
    <2>1. tgJob' \in Job
      BY <1>c, <1>d, <1>16 DEF TgFail, TgNext
    <2>2. tgJob.next \in DOMAIN tg
      <3>1. tgPc \in {"relay", "sent"} /\ tgJob.next <= tgJob.end
        <4>1. CASE tgPc = "sent"
          BY <1>0, <4>1 DEF TgInPlace
        <4>2. CASE \E n \in InHand(tgJob) : TgReadable(n)
          BY <1>0, <4>2, InHandIs DEF TgReadable, TgAt, TypeOK
        <4>3. QED BY <1>16, <4>1, <4>2 DEF TgFail
      <3>2. st.last < tgJob.next /\ tgJob.end <= Len(tg)
        BY <1>0, <3>1 DEF TgInPlace, TgBusy
      <3>3. tgJob.next <= Len(tg) /\ 1 <= tgJob.next /\ tgJob.next \in Nat
        <4>1. /\ st.last \in Nat /\ tgJob.next \in Nat /\ tgJob.end \in Nat
              /\ Len(tg) \in Nat
          BY <1>0, Fields
        <4>2. QED BY <3>1, <3>2, <4>1
      <3>4. DOMAIN tg = 1..Len(tg) /\ Len(tg) \in Nat
        BY <1>0, Fields
      <3>5. QED BY <3>3, <3>4
    <2>3. breaks' \in 0..MaxBreaks /\ kills' \in 0..breaks'
      BY <1>0, <1>16, <1>b DEF TgFail, TypeOK
    <2>4. UNCHANGED <<rooms, books, mxSide, posts, rewinds, mxFailed, mxMissed, tgMissed>>
          /\ tgPc' = "relay" /\ tgFailed' = tgFailed \cup {tgJob.next}
      BY <1>16 DEF TgFail
    <2>5. QED BY <1>0, <2>1, <2>2, <2>3, <2>4 DEF TypeOK, rooms, books, mxSide
  <1>17. CASE TgPollError
    <2>1. breaks' \in 0..MaxBreaks /\ kills' \in 0..breaks'
      BY <1>0, <1>17, <1>b DEF TgPollError, TypeOK
    <2>2. QED BY <1>0, <1>17, <1>a, <2>1 DEF TgPollError, TypeOK, rooms, books, mxSide, losses
  <1>23. ASSUME NEW n \in InHand(tgJob), TgStuck(n) PROVE TypeOK'
    BY <1>0, <1>23, <1>a DEF TgStuck, TypeOK, rooms, books, mxSide, faults, losses
  <1>18. CASE TgPassDone
    BY <1>0, <1>18, <1>a DEF TgPassDone, TypeOK, rooms, mxSide, faults, losses
  <1>19. CASE Stop \/ Kill \/ KillInWrite
    <2>1. Ends /\ kills' \in {kills, kills + 1} /\ file' \in {file, st} /\ cursor' \in {cursor, NoCursor}
      BY <1>19 DEF Stop, Kill, KillInWrite
    <2>2. breaks' \in 0..MaxBreaks /\ kills' \in 0..breaks'
      BY <1>0, <1>b, <2>1 DEF Ends, TypeOK
    <2>3. mxMissed' \subseteq DOMAIN mx
      <3>1. ASSUME NEW n \in InHand(mxJob) PROVE n \in DOMAIN mx
        <4>1. mxJob.next <= n /\ n <= mxJob.end /\ n \in Nat
          BY <1>0, InHandIs DEF TypeOK
        <4>2. MxBusy
          BY <1>0, <4>1, IdleFacts DEF MxInPlace
        <4>3. QED BY <1>0, <4>1, <4>2, Fields DEF MxInPlace
      <3>2. QED BY <1>0, <2>1, <3>1 DEF Ends, TypeOK
    <2>4. QED BY <1>0, <1>a, <2>1, <2>2, <2>3 DEF Ends, TypeOK, rooms
  <1>20. CASE Rewind
    <2>1. cursor' \in Nat \cup {NoCursor} /\ rewinds' \in 0..MaxRewinds
      BY <1>0, <1>20, <1>b DEF Rewind, TypeOK
    <2>2. QED BY <1>0, <1>20, <2>1 DEF Rewind, TypeOK, rooms, mxSide, tgSide, losses
  <1>21. CASE UNCHANGED vars
    BY <1>0, <1>21 DEF vars, TypeOK, rooms, books, mxSide, tgSide, faults, losses
  <1>22. QED BY <1>1, <1>2, <1>3, <1>4, <1>5, <1>6, <1>7, <1>8, <1>9, <1>10, <1>11, <1>13, <1>14, <1>15,
                <1>16, <1>17, <1>18, <1>19, <1>20, <1>21, <1>23 DEF Next, MxStep, TgStep

-----------------------------------------------------------------------------
(***************************************************************************)
(* The ring is long enough: an id that falls out of it is one that no      *)
(* batch can hold any more.  Ids in a ring are less than a batch apart on  *)
(* either side of an id that may still come, so that there are too few of  *)
(* them to fill the ring (this is what RelayBounds asks of the limits).    *)
(***************************************************************************)
LEMMA Crowded ==
    ASSUME NEW ids \in Seq(Nat), NEW x \in Nat, NEW k \in Nat, k >= 1,
           \A i \in DOMAIN ids : ids[i] < x + k /\ x < ids[i] + k,
           \A i, j \in DOMAIN ids : i < j => ids[i] # ids[j]
    PROVE  Len(ids) <= 2 * k - 1
  <1> DEFINE near == (x - k + 1)..(x + k - 1)
  <1> DEFINE f == [i \in 1..Len(ids) |-> ids[i]]
  <1>1. IsFiniteSet(near) /\ Cardinality(near) = 2 * k - 1
    <2>1. /\ x - k + 1 \in Int /\ x + k - 1 \in Int /\ ~(x - k + 1 > x + k - 1)
          /\ (x + k - 1) - (x - k + 1) + 1 = 2 * k - 1
      OBVIOUS
    <2>2. QED BY <2>1, FS_Interval
  <1>2. Len(ids) \in Nat /\ DOMAIN ids = 1..Len(ids)
    OBVIOUS
  <1>3. IsFiniteSet(1..Len(ids)) /\ Cardinality(1..Len(ids)) = Len(ids)
    <2>1. Cardinality(1..Len(ids)) = IF 1 > Len(ids) THEN 0 ELSE Len(ids) - 1 + 1
      BY <1>2, FS_Interval
    <2>2. IsFiniteSet(1..Len(ids))
      BY <1>2, FS_Interval
    <2>3. QED BY <1>2, <2>1, <2>2
  <1>4. f \in [1..Len(ids) -> near]
    <2>1. ASSUME NEW i \in 1..Len(ids) PROVE ids[i] \in near
      <3>1. ids[i] \in Nat /\ ids[i] < x + k /\ x < ids[i] + k
        BY <1>2
      <3>2. QED BY <3>1
    <2>2. QED BY <2>1
  <1>5. SUFFICES ASSUME 2 * k - 1 < Len(ids) PROVE FALSE
    BY <1>2
  <1>6. PICK i, j \in 1..Len(ids) : i # j /\ f[i] = f[j]
    <2>1. Cardinality(near) < Cardinality(1..Len(ids))
      BY <1>1, <1>3, <1>5
    <2> HIDE DEF near, f
    <2>2. QED BY <1>1, <1>3, <1>4, <2>1, FS_PigeonHole
  <1>7. ids[i] = ids[j] /\ (i < j \/ j < i)
    BY <1>2, <1>6
  <1>8. QED BY <1>2, <1>7

LEMMA RingMarks ==
    ASSUME RelayInv, mxPc = "relay", NEW n \in Nat, n = mxJob.next, n <= mxJob.end,
           NEW s, s = Seen(n)
    PROVE  /\ Ring(s.seen) /\ \A i \in DOMAIN s.seen : s.seen[i] <= mxJob.end
           /\ \A x \in Window : x \in ToSet(st.seen) => x \in ToSet(s.seen)
           /\ n \in DOMAIN mx
  <1>0. /\ TypeOK /\ Ring(st.seen) /\ \A i \in DOMAIN st.seen : st.seen[i] <= mxJob.end
        /\ mxJob.end <= Len(mx) /\ mxJob.end < n + limits.sync /\ 1 <= n
    BY DEF RelayInv, Rings, MxBusy, MxInPlace
  <1>1. /\ limits.sync \in Nat /\ limits.sync >= 1 /\ limits.seen \in Nat
        /\ limits.seen >= 2 * limits.sync - 1
        /\ st.seen \in Seq(Nat) /\ mxJob.end \in Nat /\ Len(mx) \in Nat /\ DOMAIN mx = 1..Len(mx)
    BY <1>0, Fields
  <1>2. n \in DOMAIN mx
    BY <1>0, <1>1
  <1> DEFINE ids == Append(st.seen, n)
  <1>3. /\ ids \in Seq(Nat) /\ Len(ids) = Len(st.seen) + 1 /\ Len(st.seen) \in Nat
        /\ DOMAIN ids = DOMAIN st.seen \cup {Len(st.seen) + 1} /\ DOMAIN st.seen = 1..Len(st.seen)
        /\ \A i \in DOMAIN st.seen : ids[i] = st.seen[i]
        /\ ids[Len(st.seen) + 1] = n
    BY <1>1, Appended
  <1> HIDE DEF ids
  <1>4. ASSUME n \notin ToSet(st.seen)
        PROVE  Ring(ids) /\ \A i \in DOMAIN ids : ids[i] <= mxJob.end
    <2>1. \A i \in DOMAIN ids : ids[i] \in DOMAIN mx /\ ids[i] <= mxJob.end
      BY <1>0, <1>2, <1>3 DEF Ring
    <2>2. ASSUME NEW i \in DOMAIN ids, NEW j \in DOMAIN ids, i < j
          PROVE  ids[i] # ids[j] /\ ids[i] < ids[j] + limits.sync
      <3>1. i \in DOMAIN st.seen /\ ids[i] = st.seen[i] /\ st.seen[i] \in Nat
        <4>1. i \in 1..Len(st.seen)
          BY <1>3, <2>2
        <4>2. st.seen[i] \in Nat
          BY <1>1, <4>1, ElementOfSeq
        <4>3. QED BY <1>3, <4>1, <4>2
      <3>2. CASE j \in DOMAIN st.seen
        BY <1>0, <1>3, <2>2, <3>1, <3>2 DEF Ring
      <3>3. CASE j = Len(st.seen) + 1
        <4>1. ids[j] = n /\ st.seen[i] # n
          BY <1>3, <1>4, <3>1, <3>3 DEF ToSet
        <4>2. st.seen[i] <= mxJob.end
          BY <1>0, <3>1
        <4>3. st.seen[i] < n + limits.sync
          <5>1. st.seen[i] \in Nat /\ mxJob.end \in Nat /\ n + limits.sync \in Nat
            <6>1. limits.sync \in Nat /\ mxJob.end \in Nat
              BY <1>1
            <6>2. \A k \in Nat : n + k \in Nat
              OBVIOUS
            <6>3. QED BY <3>1, <6>1, <6>2
          <5>2. st.seen[i] <= mxJob.end /\ mxJob.end < n + limits.sync
            BY <1>0, <4>2
          <5>3. QED BY <5>1, <5>2
        <4>4. QED BY <3>1, <4>1, <4>3
      <3>4. QED BY <1>3, <3>2, <3>3
    <2>3. QED BY <2>1, <2>2 DEF Ring
  <1>5. CASE s.seen = st.seen
    BY <1>0, <1>2, <1>5
  <1>6. CASE n \notin ToSet(st.seen) /\ s.seen = ids
    <2>1. \A x : x \in ToSet(st.seen) => x \in ToSet(ids)
      BY <1>3 DEF ToSet
    <2>2. QED BY <1>2, <1>4, <1>6, <2>1
  <1>7. CASE /\ n \notin ToSet(st.seen) /\ Len(st.seen) >= limits.seen /\ st.seen # << >>
             /\ s.seen = Tail(ids)
    <2>1. Ring(ids) /\ \A i \in DOMAIN ids : ids[i] <= mxJob.end
      BY <1>4, <1>7
    <2>2. /\ DOMAIN Tail(ids) = 1..Len(st.seen)
          /\ \A i \in 1..Len(st.seen) : Tail(ids)[i] = ids[i + 1] /\ i + 1 \in DOMAIN ids
      <3>1. ids # << >>
        <4>1. Len(ids) # 0
          BY <1>3
        <4>2. QED BY <4>1
      <3>2. /\ Tail(ids) \in Seq(Nat) /\ Len(Tail(ids)) = Len(st.seen)
            /\ \A i \in 1..Len(Tail(ids)) : Tail(ids)[i] = ids[i + 1]
        BY <1>3, <3>1, HeadTailProperties
      <3>3. DOMAIN Tail(ids) = 1..Len(st.seen)
        BY <3>2
      <3>4. \A i \in 1..Len(st.seen) : i + 1 \in DOMAIN ids
        BY <1>3
      <3>5. QED BY <3>2, <3>3, <3>4
    <2>3. Ring(Tail(ids))
      <3>1. \A i \in DOMAIN Tail(ids) : Tail(ids)[i] \in DOMAIN mx
        BY <2>1, <2>2 DEF Ring
      <3>2. ASSUME NEW i \in DOMAIN Tail(ids), NEW j \in DOMAIN Tail(ids), i < j
            PROVE  Tail(ids)[i] # Tail(ids)[j] /\ Tail(ids)[i] < Tail(ids)[j] + limits.sync
        <4>1. i + 1 \in DOMAIN ids /\ j + 1 \in DOMAIN ids /\ i + 1 < j + 1
          BY <2>2, <3>2
        <4>2. ids[i + 1] # ids[j + 1] /\ ids[i + 1] < ids[j + 1] + limits.sync
          BY <2>1, <4>1 DEF Ring
        <4>3. Tail(ids)[i] = ids[i + 1] /\ Tail(ids)[j] = ids[j + 1]
          BY <2>2
        <4>4. QED BY <4>2, <4>3
      <3>3. QED BY <3>1, <3>2 DEF Ring
    <2>4. \A i \in DOMAIN Tail(ids) : Tail(ids)[i] <= mxJob.end
      BY <2>1, <2>2
    <2>5. ASSUME NEW x \in Window, x \in ToSet(st.seen), x \notin ToSet(Tail(ids)) PROVE FALSE
      <3>1. x = ids[1] /\ 1 \in DOMAIN ids
        <4>1. PICK i \in DOMAIN st.seen : x = st.seen[i]
          BY <2>5 DEF ToSet
        <4>2. x = ids[i] /\ i \in DOMAIN ids /\ i \in Nat /\ i >= 1 /\ i <= Len(st.seen)
          BY <1>3, <4>1
        <4>3. CASE i = 1
          BY <4>2, <4>3
        <4>4. CASE i > 1
          <5>1. i - 1 \in 1..Len(st.seen) /\ (i - 1) + 1 = i
            BY <1>3, <4>2, <4>4
          <5>2. Tail(ids)[i - 1] = x
            BY <2>2, <4>2, <5>1
          <5>3. QED BY <2>2, <2>5, <5>1, <5>2 DEF ToSet
        <4>5. QED BY <4>2, <4>3, <4>4
      <3>2. x \in Nat /\ mxJob.end < x + limits.sync
        <4>1. CASE x \in DOMAIN mx /\ Len(mx) < x + limits.sync
          BY <1>0, <1>1, <4>1
        <4>2. CASE x \in InHand(mxJob)
          <5>1. x \in Nat /\ mxJob.next <= x
            BY <1>0, <4>2, InHandIs DEF TypeOK
          <5>2. QED BY <1>0, <1>1, <5>1
        <4>3. QED BY <2>5, <4>1, <4>2 DEF Window
      <3>3. \A i \in DOMAIN ids : ids[i] < x + limits.sync /\ x < ids[i] + limits.sync
        <4>1. ASSUME NEW i \in DOMAIN ids PROVE ids[i] < x + limits.sync /\ x < ids[i] + limits.sync
          <5>1. ids[i] \in Nat /\ ids[i] <= mxJob.end
            <6>1. i \in 1..Len(ids)
              BY <1>3
            <6>2. QED BY <1>3, <2>1, <6>1, ElementOfSeq
          <5>2. ids[i] < x + limits.sync
            <6> DEFINE y == ids[i]
            <6>1. y \in Nat /\ y <= mxJob.end
              BY <5>1
            <6> HIDE DEF y
            <6>2. y < x + limits.sync
              BY <1>1, <3>2, <6>1
            <6>3. QED BY <6>2 DEF y
          <5>3. x < ids[i] + limits.sync
            <6>1. CASE i = 1
              BY <1>1, <3>1, <3>2, <6>1
            <6>2. CASE 1 < i
              BY <2>1, <3>1, <6>2 DEF Ring
            <6>3. QED BY <1>3, <6>1, <6>2
          <5>4. QED BY <5>2, <5>3
        <4>2. QED BY <4>1
      <3>4. \A i, j \in DOMAIN ids : i < j => ids[i] # ids[j]
        BY <2>1 DEF Ring
      <3>5. Len(ids) <= 2 * limits.sync - 1
        BY <1>1, <1>3, <3>2, <3>3, <3>4, Crowded
      <3>6. Len(st.seen) >= limits.seen /\ Len(ids) = Len(st.seen) + 1
        BY <1>3, <1>7
      <3>7. QED BY <1>1, <1>3, <3>5, <3>6
    <2>6. QED BY <1>2, <1>7, <2>3, <2>4, <2>5
  <1>8. QED BY <1>0, <1>5, <1>6, <1>7, Marks DEF ids

-----------------------------------------------------------------------------
(***************************************************************************)
(* A room grows: what is said of the other side's way through it stays.    *)
(***************************************************************************)
LEMMA Grown ==
    ASSUME NEW q \in Seq(Nat), NEW m \in Nat, NEW n
    PROVE  /\ CopiesOf(n, q) \in Nat
           /\ m # n => CopiesOf(n, Append(q, m)) = CopiesOf(n, q)
           /\ m = n => CopiesOf(n, Append(q, m)) = CopiesOf(n, q) + 1 /\ Copied(n, Append(q, m))
           /\ Copied(n, q) => Copied(n, Append(q, m))
  BY PlacesFinite, CopiesAppend DEF Copied

LEMMA NoCopyYet ==
    ASSUME TypeOK, CopiesInPlace, NEW n \in Nat \ {0}
    PROVE  /\ n \notin DOMAIN mx => CopiesOf(n, tg) = 0
           /\ n \notin DOMAIN tg => CopiesOf(n, mx) = 0
  <1>1. CopiesOf(n, tg) \in Nat /\ CopiesOf(n, mx) \in Nat
    BY Fields, PlacesFinite
  <1>2. /\ Copied(n, tg) => n \in DOMAIN mx
        /\ Copied(n, mx) => n \in DOMAIN tg
    <2>1. mx \in Seq(Nat) /\ tg \in Seq(Nat)
      BY Fields
    <2>2. /\ Copied(n, tg) <=> \E i \in DOMAIN tg : tg[i] = n
          /\ Copied(n, mx) <=> \E i \in DOMAIN mx : mx[i] = n
      BY <2>1, CopiedIff
    <2>3. QED BY <2>2 DEF CopiesInPlace
  <1>3. QED BY <1>1, <1>2 DEF Copied

LEMMA MxRoomGrows ==
    ASSUME RelayInv, NEW m \in Nat, m = 0 \/ (m \in DOMAIN tg /\ tg[m] = 0), mx' = Append(mx, m),
           UNCHANGED <<limits, tg, cursor, file, st, mxPc, mxJob, mxFailed, mxMissed, kills>>
    PROVE  MxInPlace' /\ CopiesInPlace' /\ Rings' /\ MxAccounted' /\ SeenTold' /\ MxCounted'
  <1>0. TypeOK /\ MxInPlace /\ CopiesInPlace /\ Rings /\ MxAccounted /\ SeenTold /\ MxCounted
    BY DEF RelayInv
  <1>1. /\ Len(mx') = Len(mx) + 1 /\ DOMAIN mx' = DOMAIN mx \cup {Len(mx) + 1}
        /\ DOMAIN mx = 1..Len(mx) /\ Len(mx) \in Nat
        /\ \A i \in DOMAIN mx : mx'[i] = mx[i]
        /\ mx'[Len(mx) + 1] = m
    BY <1>0, Fields, Appended
  <1>2. Sending' = Sending /\ MxBusy' = MxBusy /\ Up' = Up
    BY DEF Sending, MxBusy, Up
  <1>3. /\ limits.sync \in Nat /\ limits.sync >= 1 /\ mxJob.next \in Nat /\ mxJob.end \in Nat
        /\ cursor \in Nat \cup {NoCursor}
    BY <1>0, Fields DEF TypeOK
  <1>4. MxInPlace'
    <2>1. Sending => mxJob.next \in DOMAIN mx
      BY <1>0, <1>1, <1>3 DEF MxInPlace, MxBusy
    <2>2. cursor # NoCursor => cursor <= Len(mx')
      BY <1>0, <1>1, <1>3 DEF MxInPlace
    <2>3. QED BY <1>0, <1>1, <1>2, <2>1, <2>2 DEF MxInPlace
  <1>5. CopiesInPlace'
    BY <1>0, <1>1 DEF CopiesInPlace
  <1>6. Rings'
    BY <1>0, <1>1, <1>2 DEF Rings, Ring
  <1>7. MxAccounted'
    <2> SUFFICES ASSUME cursor # NoCursor, NEW n \in 1..cursor, mx'[n] = 0
                 PROVE  Copied(n, tg) \/ n \in InHand(mxJob) \/ n \in mxFailed \cup mxMissed
      BY DEF MxAccounted
    <2>1. n \in DOMAIN mx
      BY <1>0, <1>1, <1>3 DEF MxInPlace
    <2>2. QED BY <1>0, <1>1, <2>1 DEF MxAccounted
  <1>8. SeenTold'
    <2>1. \A n \in ToSet(st.seen) \cup ToSet(file.seen) : n \in DOMAIN mx
      BY <1>0 DEF Rings, Ring, ToSet
    <2>2. QED BY <1>0, <1>1, <1>2, <2>1 DEF SeenTold, MxTold
  <1>9. MxCounted'
    <2>1. kills \in Nat
      BY <1>0 DEF TypeOK
    <2>2. CopiesOf(Len(mx) + 1, tg) = 0
      <3>1. Len(mx) + 1 \in Nat \ {0} /\ Len(mx) + 1 \notin DOMAIN mx
        BY <1>1
      <3>2. QED BY <1>0, <3>1, NoCopyYet
    <2>3. MxOnceUnlessKilled'
      BY <1>0, <1>1, <2>1, <2>2 DEF MxCounted, MxOnceUnlessKilled
    <2>4. ASSUME NEW n \in Window', n \notin ToSet(Held'.seen) PROVE CopiesOf(n, tg) <= kills
      <3>1. Held' = Held
        BY <1>2 DEF Held
      <3>2. CASE n = Len(mx) + 1
        BY <2>1, <2>2, <3>2
      <3>3. CASE n # Len(mx) + 1
        <4>1. n \in Window
          <5>1. CASE n \in InHand(mxJob)
            BY <5>1 DEF Window
          <5>2. CASE n \in DOMAIN mx' /\ Len(mx') < n + limits.sync
            BY <1>1, <1>3, <3>3, <5>2 DEF Window
          <5>3. QED BY <2>4, <5>1, <5>2 DEF Window
        <4>2. QED BY <1>0, <2>4, <3>1, <4>1 DEF MxCounted
      <3>4. QED BY <3>2, <3>3
    <2>5. QED BY <1>0, <2>3, <2>4 DEF MxCounted
  <1>10. QED BY <1>4, <1>5, <1>6, <1>7, <1>8, <1>9

LEMMA TgRoomGrows ==
    ASSUME RelayInv, NEW m \in Nat, m = 0 \/ (m \in DOMAIN mx /\ mx[m] = 0), tg' = Append(tg, m),
           UNCHANGED <<limits, mx, file, st, tgPc, tgJob, tgFailed, tgMissed, breaks>>,
           Up' = Up, mxPc' \in {"down", "first"} => mxPc' = mxPc
    PROVE  TgInPlace' /\ CopiesInPlace' /\ TgAccounted' /\ PassedTold' /\ TgCounted'
  <1>0. TypeOK /\ TgInPlace /\ CopiesInPlace /\ TgAccounted /\ PassedTold /\ TgCounted
    BY DEF RelayInv
  <1>1. /\ Len(tg') = Len(tg) + 1 /\ DOMAIN tg' = DOMAIN tg \cup {Len(tg) + 1}
        /\ DOMAIN tg = 1..Len(tg) /\ Len(tg) \in Nat
        /\ \A i \in DOMAIN tg : tg'[i] = tg[i]
        /\ tg'[Len(tg) + 1] = m
    BY <1>0, Fields, Appended
  <1>2. TgBusy' = TgBusy
    BY DEF TgBusy
  <1>3. /\ tgJob.next \in Nat /\ tgJob.end \in Nat /\ st.last \in Nat /\ file.last \in Nat
    BY <1>0, Fields
  <1>4. TgInPlace'
    <2>1. tgPc = "sent" => tgJob.next \in DOMAIN tg
      BY <1>0, <1>1, <1>3 DEF TgInPlace, TgBusy
    <2>2. /\ st.last <= Len(tg') /\ file.last <= Len(tg') /\ (TgBusy => tgJob.end <= Len(tg'))
      BY <1>0, <1>1, <1>3 DEF TgInPlace
    <2>3. QED BY <1>0, <1>1, <1>2, <2>1, <2>2 DEF TgInPlace
  <1>5. CopiesInPlace'
    BY <1>0, <1>1 DEF CopiesInPlace
  <1>6. TgAccounted'
    <2> SUFFICES ASSUME NEW n \in 1..st.last \cup 1..file.last, tg'[n] = 0
                 PROVE  TgTold(n)
      BY DEF TgAccounted, TgTold
    <2>1. n \in DOMAIN tg
      BY <1>0, <1>1, <1>3 DEF TgInPlace
    <2>2. QED BY <1>0, <1>1, <2>1 DEF TgAccounted, TgTold
  <1>7. PassedTold'
    <2> SUFFICES ASSUME TgBusy, NEW n \in 1..(tgJob.next - 1), tg'[n] = 0
                 PROVE  TgTold(n)
      BY <1>2 DEF PassedTold, TgTold
    <2>1. n \in DOMAIN tg
      BY <1>0, <1>1, <1>3 DEF TgInPlace
    <2>2. QED BY <1>0, <1>1, <2>1 DEF PassedTold, TgTold
  <1>8. TgCounted'
    <2>1. breaks \in Nat
      BY <1>0 DEF TypeOK
    <2>2. CopiesOf(Len(tg) + 1, mx) = 0
      <3>1. Len(tg) + 1 \in Nat \ {0} /\ Len(tg) + 1 \notin DOMAIN tg
        BY <1>1
      <3>2. QED BY <1>0, <3>1, NoCopyYet
    <2>3. TgOnceUnlessBroken'
      BY <1>0, <1>1, <2>1, <2>2 DEF TgCounted, TgOnceUnlessBroken
    <2>4. Held' = Held
      BY DEF Held
    <2>5. ASSUME NEW n \in DOMAIN tg', n > Held'.last
          PROVE  CopiesOf(n, mx') <= breaks' \/ (tgPc' = "sent" /\ n = tgJob'.next)
      BY <1>0, <1>1, <2>1, <2>2, <2>4, <2>5 DEF TgCounted
    <2>6. QED BY <2>3, <2>5 DEF TgCounted
  <1>9. QED BY <1>4, <1>5, <1>6, <1>7, <1>8

\* What people write is no copy of anything.
LEMMA StepWrites ==
    ASSUME RelayInv, WritesMatrix \/ WritesTelegram, TypeOK'
    PROVE  RelayInv'
  <1>0. /\ TypeOK /\ MxInPlace /\ TgInPlace /\ CopiesInPlace /\ Rings /\ MxAccounted /\ TgAccounted
        /\ SeenTold /\ PassedTold /\ MxCounted /\ TgCounted /\ Ordered
    BY DEF RelayInv
  <1>1. CASE WritesMatrix
    <2>1. /\ mx' = Append(mx, 0)
          /\ UNCHANGED <<limits, tg, cursor, file, st, mxPc, mxJob, tgPc, tgJob, breaks, kills, rewinds,
                         mxFailed, tgFailed, mxMissed, tgMissed>>
      BY <1>1 DEF WritesMatrix, Written, books, mxSide, tgSide, faults, losses
    <2>2. MxInPlace' /\ CopiesInPlace' /\ Rings' /\ MxAccounted' /\ SeenTold' /\ MxCounted'
      BY <2>1, MxRoomGrows
    <2>3. \A n \in Nat \ {0} : CopiesOf(n, mx') = CopiesOf(n, mx) /\ (Copied(n, mx) => Copied(n, mx'))
      <3>1. mx \in Seq(Nat) /\ 0 \in Nat
        BY <1>0 DEF TypeOK
      <3>2. ASSUME NEW n \in Nat \ {0}
            PROVE  /\ CopiesOf(n, Append(mx, 0)) = CopiesOf(n, mx)
                   /\ Copied(n, mx) => Copied(n, Append(mx, 0))
        BY <3>1, Grown
      <3>3. QED BY <2>1, <3>2
    <2>4. /\ tgJob.next \in Nat /\ st.last \in Nat /\ file.last \in Nat /\ DOMAIN tg = 1..Len(tg)
          /\ Len(tg) \in Nat
      BY <1>0, Fields
    <2>5. TgInPlace'
      <3>1. tgPc = "sent" => tgJob.next # 0
        BY <1>0, <2>4 DEF TgInPlace, TgBusy
      <3>2. QED BY <1>0, <2>1, <2>3, <2>4, <3>1 DEF TgInPlace, TgBusy
    <2>6. TgAccounted'
      BY <1>0, <2>1, <2>3, <2>4 DEF TgAccounted
    <2>7. PassedTold'
      BY <1>0, <2>1, <2>3, <2>4 DEF PassedTold, TgTold, TgBusy
    <2>8. TgCounted'
      <3>1. Held' = Held
        BY <2>1 DEF Held, Up
      <3>2. \A n \in DOMAIN tg : CopiesOf(n, mx') = CopiesOf(n, mx)
        BY <2>3, <2>4
      <3>3. QED BY <1>0, <2>1, <3>1, <3>2 DEF TgCounted, TgOnceUnlessBroken
    <2>9. Ordered'
      <3>1. /\ DOMAIN mx' = DOMAIN mx \cup {Len(mx) + 1} /\ DOMAIN mx = 1..Len(mx) /\ Len(mx) \in Nat
            /\ \A i \in DOMAIN mx : mx'[i] = mx[i]
            /\ mx'[Len(mx) + 1] = 0
        <4>1. mx \in Seq(Nat) /\ 0 \in Nat /\ mx' = Append(mx, 0)
          BY <1>0, <2>1, Fields
        <4>2. QED BY <4>1, Appended
      <3>2. InOrder(mx) => InOrder(mx')
        BY <3>1 DEF InOrder
      <3>3. \A n : MxReached(n)' = MxReached(n) /\ TgReached(n)' = TgReached(n)
        BY <2>1 DEF MxReached, TgReached, Up
      <3>4. QED BY <1>0, <2>1, <3>1, <3>2, <3>3 DEF Ordered
    <2>10. QED BY <2>2, <2>5, <2>6, <2>7, <2>8, <2>9 DEF RelayInv
  <1>2. CASE WritesTelegram
    <2>1. /\ tg' = Append(tg, 0)
          /\ UNCHANGED <<limits, mx, cursor, file, st, mxPc, mxJob, tgPc, tgJob, breaks, kills, rewinds,
                         mxFailed, tgFailed, mxMissed, tgMissed>>
      BY <1>2 DEF WritesTelegram, Written, books, mxSide, tgSide, faults, losses
    <2>2. TgInPlace' /\ CopiesInPlace' /\ TgAccounted' /\ PassedTold' /\ TgCounted'
      BY <2>1, TgRoomGrows DEF Up
    <2>3. \A n \in Nat \ {0} : CopiesOf(n, tg') = CopiesOf(n, tg) /\ (Copied(n, tg) => Copied(n, tg'))
      <3>1. tg \in Seq(Nat) /\ 0 \in Nat
        BY <1>0 DEF TypeOK
      <3>2. ASSUME NEW n \in Nat \ {0}
            PROVE  /\ CopiesOf(n, Append(tg, 0)) = CopiesOf(n, tg)
                   /\ Copied(n, tg) => Copied(n, Append(tg, 0))
        BY <3>1, Grown
      <3>3. QED BY <2>1, <3>2
    <2>4. /\ mxJob.next \in Nat /\ DOMAIN mx = 1..Len(mx) /\ Len(mx) \in Nat
          /\ cursor \in Nat \cup {NoCursor}
      BY <1>0, Fields DEF TypeOK
    <2>5. Sending => mxJob.next \in Nat \ {0}
      BY <1>0, <2>4 DEF MxInPlace, MxBusy
    <2>6. MxInPlace'
      BY <1>0, <2>1, <2>3, <2>5 DEF MxInPlace, MxBusy, Sending
    <2>7. Rings'
      BY <1>0, <2>1 DEF Rings, Ring, MxBusy, Sending
    <2>8. MxAccounted'
      BY <1>0, <2>1, <2>3, <2>4 DEF MxAccounted
    <2>9. SeenTold'
      <3>1. \A n \in ToSet(st.seen) \cup ToSet(file.seen) : n \in Nat \ {0}
        BY <1>0, <2>4 DEF Rings, Ring, ToSet
      <3>2. QED BY <1>0, <2>1, <2>3, <3>1 DEF SeenTold, MxTold, Sending
    <2>10. MxCounted'
      <3>1. Held' = Held
        BY <2>1 DEF Held, Up
      <3>2. \A n \in DOMAIN mx : CopiesOf(n, tg') = CopiesOf(n, tg)
        BY <2>3, <2>4
      <3>3. \A n \in Window : n \in Nat \ {0}
        <4>1. ASSUME NEW n \in InHand(mxJob) PROVE n \in Nat \ {0}
          <5>1. n \in Nat /\ mxJob.next <= n
            BY <1>0, InHandIs DEF TypeOK
          <5>2. MxBusy => 1 <= mxJob.next
            BY <1>0 DEF MxInPlace
          <5>3. MxBusy
            BY <1>0, <4>1, IdleFacts DEF MxInPlace
          <5>4. QED BY <2>4, <5>1, <5>2, <5>3
        <4>2. QED BY <2>4, <4>1 DEF Window
      <3>4. Window' = Window
        BY <2>1 DEF Window
      <3>5. MxOnceUnlessKilled'
        BY <1>0, <2>1, <3>2 DEF MxCounted, MxOnceUnlessKilled
      <3>6. mxPc = "sending" => mxJob.next \in Nat \ {0}
        BY <2>5 DEF Sending
      <3>7. QED BY <1>0, <2>1, <2>3, <3>1, <3>3, <3>4, <3>5, <3>6 DEF MxCounted
    <2>11. Ordered'
      <3>1. /\ DOMAIN tg' = DOMAIN tg \cup {Len(tg) + 1} /\ DOMAIN tg = 1..Len(tg) /\ Len(tg) \in Nat
            /\ \A i \in DOMAIN tg : tg'[i] = tg[i]
            /\ tg'[Len(tg) + 1] = 0
        <4>1. tg \in Seq(Nat) /\ 0 \in Nat /\ tg' = Append(tg, 0)
          BY <1>0, <2>1, Fields
        <4>2. QED BY <4>1, Appended
      <3>2. InOrder(tg) => InOrder(tg')
        BY <3>1 DEF InOrder
      <3>3. \A n : MxReached(n)' = MxReached(n) /\ TgReached(n)' = TgReached(n)
        BY <2>1 DEF MxReached, TgReached, Up
      <3>4. QED BY <1>0, <2>1, <3>1, <3>2, <3>3 DEF Ordered
    <2>12. QED BY <2>2, <2>6, <2>7, <2>8, <2>9, <2>10, <2>11 DEF RelayInv
  <1>3. QED BY <1>1, <1>2

-----------------------------------------------------------------------------
(***************************************************************************)
(* The Telegram loop.                                                      *)
(***************************************************************************)
LEMMA TgRunsUp == RelayInv /\ tgPc # "down" => Up /\ mxPc # "first"
  BY DEF RelayInv, TgInPlace, Up

\* What the other part of the order says does not change with tgPc alone.
LEMMA StepTgQuiet ==
    ASSUME RelayInv, TypeOK', tgPc # "down",
           UNCHANGED <<rooms, cursor, mxSide, posts, kills, rewinds, mxFailed, mxMissed>>,
           st' \in Bookmarks, st'.seen = st.seen, file' \in {file, st'},
           breaks' \in {breaks, breaks + 1},
           TgInPlace', TgAccounted', PassedTold', TgCounted',
           breaks' = breaks => st.last <= st'.last,
           breaks' = breaks /\ tgPc = "sent" => tgJob.next <= st'.last
    PROVE  RelayInv'
  <1>0. Up /\ Ordered /\ TypeOK /\ CopiesInPlace
    BY TgRunsUp DEF RelayInv
  <1>1. TgOnly
    BY DEF TgOnly, rooms, mxSide
  <1>2. MxInPlace' /\ CopiesInPlace' /\ Rings' /\ MxAccounted' /\ SeenTold' /\ MxCounted'
    BY <1>0, <1>1, MxUntouched
  <1>3. Ordered'
    <2> SUFFICES ASSUME breaks' = 0, rewinds' = 0 PROVE Ordered'
      BY OrderedBroken
    <2>1. breaks \in Nat /\ st.last \in Nat /\ st'.last \in Nat
      BY <1>0, Fields DEF TypeOK, Bookmarks
    <2>2. breaks = 0 /\ rewinds = 0 /\ breaks' = breaks
      BY <2>1
    <2>3. UNCHANGED <<mx, tg, cursor, mxPc, mxJob>>
      BY DEF rooms, mxSide
    <2>4. InOrder(mx)' /\ InOrder(tg)' /\ \A i \in DOMAIN tg : tg[i] # 0 => MxReached(tg[i])
      BY <1>0, <2>2, <2>3 DEF Ordered
    <2>5. \A n : MxReached(n)' = MxReached(n)
      BY <2>3 DEF MxReached
    <2>6. ASSUME NEW i \in DOMAIN mx, mx[i] # 0 PROVE TgReached(mx[i])'
      <3>1. mx[i] \in Nat /\ tgJob.next \in Nat /\ TgReached(mx[i])
        BY <1>0, <2>2, <2>6, Fields, ElementOfSeq DEF Ordered
      <3>2. mx[i] <= st'.last
        BY <2>1, <2>2, <3>1 DEF TgReached
      <3>3. QED BY <1>0, <2>3, <3>2 DEF TgReached, Up
    <2>7. QED BY <2>3, <2>4, <2>5, <2>6 DEF Ordered
  <1>4. QED BY <1>2, <1>3 DEF RelayInv

LEMMA StepTgSkipToNow ==
    ASSUME RelayInv, TypeOK', TgSkipToNow
    PROVE  RelayInv'
  <1>0. TypeOK /\ TgInPlace /\ TgAccounted /\ PassedTold /\ TgCounted
    BY DEF RelayInv
  <1>1. /\ tgPc = "poll" /\ st.last = 0 /\ st' \in Bookmarks /\ st'.seen = st.seen /\ st'.last = Len(tg)
        /\ file' = st' /\ tgMissed' = DOMAIN tg
        /\ UNCHANGED <<rooms, cursor, mxSide, tgSide, posts, faults, mxFailed, tgFailed, mxMissed>>
    BY <1>0, Fields DEF TgSkipToNow, Bookmarks, TypeOK
  <1>2. Len(tg) \in Nat /\ DOMAIN tg = 1..Len(tg) /\ Up
    BY <1>0, <1>1, Fields, TgRunsUp DEF RelayInv
  <1>3. TgInPlace'
    BY <1>0, <1>1, <1>2 DEF TgInPlace, TgBusy, rooms, mxSide, tgSide
  <1>4. TgAccounted' /\ PassedTold'
    BY <1>0, <1>1, <1>2 DEF TgAccounted, PassedTold, TgBusy, rooms, tgSide
  <1>5. TgCounted'
    <2>1. Held'.last = Len(tg)
      BY <1>1, <1>2 DEF Held, Up, mxSide
    <2>2. QED BY <1>0, <1>1, <1>2, <2>1 DEF TgCounted, TgOnceUnlessBroken, rooms, tgSide, faults
  <1>6. QED
    <2>1. /\ tgPc # "down" /\ st.last <= st'.last /\ tgPc # "sent" /\ breaks' = breaks
          /\ UNCHANGED <<kills, rewinds>>
      BY <1>1, <1>2 DEF faults
    <2>2. QED BY <1>1, <1>3, <1>4, <1>5, <2>1, StepTgQuiet

LEMMA StepTgPoll ==
    ASSUME RelayInv, TypeOK', TgPoll
    PROVE  RelayInv'
  <1>0. TypeOK /\ TgInPlace /\ TgAccounted /\ PassedTold /\ TgCounted
    BY DEF RelayInv
  <1>1. /\ tgPc = "poll" /\ st.last < Len(tg) /\ tgPc' = "relay"
        /\ tgJob' = Latest(st.last + 1, Len(tg), PollLimit)
        /\ tgMissed' = tgMissed \cup (st.last + 1)..(tgJob'.next - 1)
        /\ UNCHANGED <<rooms, books, mxSide, posts, faults, mxFailed, tgFailed, mxMissed>>
    BY <1>0 DEF TgPoll
  <1>2. Len(tg) \in Nat /\ DOMAIN tg = 1..Len(tg) /\ st.last \in Nat
    BY <1>0, Fields
  <1>3. /\ tgJob' \in Job /\ tgJob'.end = Len(tg) /\ st.last + 1 <= tgJob'.next
        /\ tgJob'.next <= Len(tg)
    BY <1>1, <1>2, LatestFacts, RelayBounds
  <1>4. tgJob'.next \in Nat
    BY <1>3 DEF Job
  <1>5. TgInPlace'
    BY <1>0, <1>1, <1>2, <1>3, <1>4 DEF TgInPlace, TgBusy, rooms, books, mxSide
  <1>6. TgAccounted'
    BY <1>0, <1>1 DEF TgAccounted, rooms, books
  <1>7. PassedTold'
    <2> SUFFICES ASSUME NEW n \in 1..(tgJob'.next - 1), tg[n] = 0
                 PROVE  Copied(n, mx) \/ n \in tgFailed \cup tgMissed'
      BY <1>1 DEF PassedTold, TgTold, rooms
    <2>1. CASE n <= st.last
      BY <1>0, <1>1, <1>2, <1>4, <2>1 DEF TgAccounted
    <2>2. CASE n > st.last
      BY <1>1, <1>2, <1>4, <2>2
    <2>3. QED BY <1>2, <1>4, <2>1, <2>2
  <1>8. TgCounted'
    BY <1>0, <1>1 DEF TgCounted, TgOnceUnlessBroken, Held, Up, rooms, books, mxSide, faults
  <1>9. QED
    <2>1. /\ tgPc # "down" /\ st.last <= st'.last /\ tgPc # "sent" /\ breaks' = breaks
          /\ UNCHANGED <<kills, rewinds, cursor>> /\ st' \in Bookmarks /\ st'.seen = st.seen
          /\ file' \in {file, st'}
      BY <1>0, <1>1, <1>2 DEF faults, books, TypeOK
    <2>2. QED BY <1>1, <1>5, <1>6, <1>7, <1>8, <2>1, StepTgQuiet

\* The last id moves to a message that is an echo, or that was sent.
LEMMA StepTgMoves ==
    ASSUME RelayInv, TypeOK', (\E n \in InHand(tgJob) : TgSkip(n)) \/ TgSent
    PROVE  RelayInv'
  <1>0. TypeOK /\ TgInPlace /\ TgAccounted /\ PassedTold /\ TgCounted
    BY DEF RelayInv
  <1>1. /\ st' = DoneWith(tgJob.next) /\ tgPc' = "relay" /\ TgNext /\ file' \in {file, st'}
        /\ tgPc \in {"relay", "sent"} /\ tgJob.next <= tgJob.end
        /\ tgPc = "sent" \/ tg[tgJob.next] # 0
        /\ UNCHANGED <<rooms, cursor, mxSide, posts, faults, losses>>
    <2>1. CASE \E n \in InHand(tgJob) : TgSkip(n)
      <3>1. PICK n \in InHand(tgJob) : TgSkip(n)
        BY <2>1
      <3>2. n = tgJob.next /\ tgPc = "relay"
        BY <3>1 DEF TgSkip, TgAt
      <3>3. tgJob.next <= tgJob.end
        BY <1>0, <3>2, InHandIs DEF TypeOK
      <3>4. QED BY <3>1, <3>2, <3>3 DEF TgSkip
    <2>2. CASE TgSent
      BY <1>0, <2>2 DEF TgSent, TgInPlace
    <2>3. QED BY <2>1, <2>2
  <1>2. /\ Len(tg) \in Nat /\ DOMAIN tg = 1..Len(tg) /\ st.last \in Nat
        /\ tgJob.next \in Nat /\ tgJob.end \in Nat /\ file.last \in Nat
    BY <1>0, Fields
  <1>3. /\ tgJob' \in Job /\ tgJob'.next = tgJob.next + 1 /\ tgJob'.end = tgJob.end
    BY <1>0, <1>1, Advances DEF TgNext, TypeOK
  <1>4. st' \in Bookmarks /\ st'.seen = st.seen /\ st'.last = tgJob.next
    <2>1. st.last < tgJob.next
      BY <1>0, <1>1 DEF TgInPlace, TgBusy
    <2>2. QED BY <1>0, <1>1, <1>2, <2>1 DEF DoneWith, Bookmarks, TypeOK
  <1>5. TgInPlace'
    BY <1>0, <1>1, <1>2, <1>3, <1>4 DEF TgInPlace, TgBusy, rooms, mxSide
  <1>6. ASSUME NEW n \in 1..tgJob.next, tg[n] = 0 PROVE TgTold(n)
    <2>1. CASE n = tgJob.next
      BY <1>0, <1>1, <1>6, <2>1 DEF TgInPlace, TgTold
    <2>2. CASE n # tgJob.next
      BY <1>0, <1>1, <1>2, <1>6, <2>2 DEF PassedTold, TgBusy
    <2>3. QED BY <2>1, <2>2
  <1>7. TgAccounted'
    <2> SUFFICES ASSUME NEW n \in 1..st'.last \cup 1..file'.last, tg[n] = 0 PROVE TgTold(n)
      BY <1>1 DEF TgAccounted, TgTold, rooms, losses
    <2>1. CASE n \in 1..tgJob.next
      BY <1>6, <2>1
    <2>2. CASE n \in 1..file.last
      BY <1>0, <2>2 DEF TgAccounted, TgTold
    <2>3. QED BY <1>1, <1>4, <2>1, <2>2
  <1>8. PassedTold'
    <2>1. tgJob'.next - 1 = tgJob.next
      BY <1>2, <1>3
    <2>2. QED BY <1>1, <1>6, <2>1 DEF PassedTold, TgTold, rooms, losses
  <1>9. TgCounted'
    <2>1. /\ Held.last = st.last /\ Held'.last = tgJob.next
      BY <1>1, <1>4, TgRunsUp DEF Held, Up, mxSide
    <2>2. ASSUME NEW n \in DOMAIN tg, n > tgJob.next PROVE CopiesOf(n, mx) <= breaks
      <3>1. n > Held.last /\ n # tgJob.next
        BY <1>0, <1>1, <1>2, <2>1, <2>2 DEF TgInPlace, TgBusy
      <3>2. QED BY <1>0, <3>1 DEF TgCounted
    <2>3. QED BY <1>0, <1>1, <2>1, <2>2 DEF TgCounted, TgOnceUnlessBroken, rooms, faults
  <1>10. QED
    <2>1. /\ tgPc # "down" /\ st.last <= st'.last /\ tgJob.next <= st'.last /\ breaks' = breaks
          /\ UNCHANGED <<kills, rewinds, mxFailed, mxMissed>>
      BY <1>0, <1>1, <1>2, <1>4 DEF faults, losses, TgInPlace, TgBusy
    <2>2. QED BY <1>1, <1>4, <1>5, <1>7, <1>8, <1>9, <2>1, StepTgQuiet

LEMMA StepTgDeliver ==
    ASSUME RelayInv, TypeOK', NEW n \in InHand(tgJob), TgDeliver(n)
    PROVE  RelayInv'
  <1>0. TypeOK /\ TgInPlace /\ TgAccounted /\ PassedTold /\ TgCounted /\ CopiesInPlace /\ Ordered
    BY DEF RelayInv
  <1>1. /\ tgPc = "relay" /\ n = tgJob.next /\ tg[n] = 0 /\ mx' = Append(mx, n) /\ tgPc' = "sent"
        /\ UNCHANGED <<limits, tg, books, mxSide, tgJob, posts, faults, losses>>
    BY DEF TgDeliver, TgReadable, TgAt
  <1>2. /\ Len(tg) \in Nat /\ DOMAIN tg = 1..Len(tg) /\ st.last \in Nat
        /\ tgJob.next \in Nat /\ tgJob.end \in Nat /\ file.last \in Nat
        /\ mx \in Seq(Nat) /\ breaks \in Nat
    BY <1>0, Fields DEF TypeOK
  <1>3. n \in Nat \ {0} /\ n <= tgJob.end /\ n \in DOMAIN tg /\ st.last < n
    <2>1. n <= tgJob.end
      BY <1>0, <1>1, InHandIs DEF TypeOK
    <2>2. st.last < n /\ tgJob.end <= Len(tg)
      BY <1>0, <1>1 DEF TgInPlace, TgBusy
    <2>3. QED BY <1>1, <1>2, <2>1, <2>2
  <1>4. MxInPlace' /\ CopiesInPlace' /\ Rings' /\ MxAccounted' /\ SeenTold' /\ MxCounted'
    BY <1>1, <1>3, MxRoomGrows DEF books, mxSide, faults, losses
  <1>5. /\ \A x : CopiesOf(x, mx) \in Nat
        /\ \A x : x # n => CopiesOf(x, mx') = CopiesOf(x, mx)
        /\ CopiesOf(n, mx') = CopiesOf(n, mx) + 1 /\ Copied(n, mx')
        /\ \A x : Copied(x, mx) => Copied(x, mx')
    <2>1. ASSUME NEW x
          PROVE  /\ CopiesOf(x, mx) \in Nat
                 /\ n # x => CopiesOf(x, mx') = CopiesOf(x, mx)
                 /\ n = x => CopiesOf(x, mx') = CopiesOf(x, mx) + 1 /\ Copied(x, mx')
                 /\ Copied(x, mx) => Copied(x, mx')
      <3>1. mx \in Seq(Nat) /\ n \in Nat /\ mx' = Append(mx, n)
        BY <1>1, <1>2, <1>3
      <3>2. /\ CopiesOf(x, mx) \in Nat
            /\ n # x => CopiesOf(x, Append(mx, n)) = CopiesOf(x, mx)
            /\ n = x => CopiesOf(x, Append(mx, n)) = CopiesOf(x, mx) + 1 /\ Copied(x, Append(mx, n))
            /\ Copied(x, mx) => Copied(x, Append(mx, n))
        BY <3>1, Grown
      <3>3. QED BY <3>1, <3>2
    <2>2. QED BY <2>1
  <1>6. TgInPlace'
    BY <1>0, <1>1, <1>2, <1>3, <1>5 DEF TgInPlace, TgBusy, books, mxSide
  <1>7. TgAccounted' /\ PassedTold'
    BY <1>0, <1>1, <1>5 DEF TgAccounted, PassedTold, TgTold, TgBusy, books, losses
  <1>8. TgCounted'
    <2>1. Held' = Held /\ Held.last = st.last
      BY <1>1, TgRunsUp DEF Held, Up, books, mxSide
    <2>2. CopiesOf(n, mx) <= breaks
      BY <1>0, <1>1, <1>3, <2>1 DEF TgCounted
    <2>3. TgOnceUnlessBroken'
      <3>1. ASSUME NEW x \in DOMAIN tg PROVE CopiesOf(x, mx') <= 1 + breaks
        <4>1. CopiesOf(x, mx) <= 1 + breaks
          BY <1>0 DEF TgCounted, TgOnceUnlessBroken
        <4>2. CASE x = n
          <5>1. CopiesOf(n, mx') = CopiesOf(n, mx) + 1 /\ CopiesOf(n, mx) \in Nat
            BY <1>5, <4>2
          <5>2. QED BY <1>2, <2>2, <4>2, <5>1
        <4>3. CASE x # n
          BY <1>5, <4>1, <4>3
        <4>4. QED BY <4>2, <4>3
      <3>2. QED BY <1>1, <3>1 DEF TgOnceUnlessBroken, faults
    <2>4. ASSUME NEW x \in DOMAIN tg, x > Held.last PROVE CopiesOf(x, mx') <= breaks \/ x = n
      BY <1>0, <1>1, <1>5, <2>4 DEF TgCounted
    <2>5. QED BY <1>1, <2>1, <2>3, <2>4 DEF TgCounted, faults
  <1>9. Ordered'
    <2> SUFFICES ASSUME breaks = 0, rewinds = 0 PROVE Ordered'
      BY <1>1 DEF Ordered, faults
    <2>1. /\ DOMAIN mx' = DOMAIN mx \cup {Len(mx) + 1} /\ DOMAIN mx = 1..Len(mx) /\ Len(mx) \in Nat
          /\ \A i \in DOMAIN mx : mx'[i] = mx[i]
          /\ mx'[Len(mx) + 1] = n
      BY <1>1, <1>2, <1>3, Appended
    <2>2. Up /\ Up' /\ \A x : MxReached(x)' = MxReached(x)
      BY <1>1, TgRunsUp DEF Up, MxReached, books, mxSide
    <2>3. ASSUME NEW i \in DOMAIN mx, mx[i] # 0 PROVE mx[i] \in Nat /\ mx[i] < n /\ mx[i] <= st.last
      <3>1. mx[i] \in Nat /\ mx[i] <= st.last
        BY <1>0, <1>1, <1>2, <2>3, ElementOfSeq DEF Ordered, TgReached
      <3>2. QED BY <1>2, <1>3, <3>1
    <2>4. InOrder(mx')
      <3> SUFFICES ASSUME NEW i \in DOMAIN mx', NEW j \in DOMAIN mx', i < j, mx'[i] # 0, mx'[j] # 0
                   PROVE  mx'[i] < mx'[j]
        BY DEF InOrder
      <3>1. i \in DOMAIN mx
        BY <2>1
      <3>2. CASE j \in DOMAIN mx
        BY <1>0, <2>1, <3>1, <3>2 DEF Ordered, InOrder
      <3>3. CASE j = Len(mx) + 1
        BY <2>1, <2>3, <3>1, <3>3
      <3>4. QED BY <2>1, <3>2, <3>3
    <2>5. ASSUME NEW i \in DOMAIN mx', mx'[i] # 0 PROVE TgReached(mx[i])'
      <3>1. CASE i \in DOMAIN mx
        BY <1>1, <2>1, <2>2, <2>3, <2>5, <3>1 DEF TgReached, books
      <3>2. CASE i = Len(mx) + 1
        BY <1>1, <2>1, <2>2, <3>2 DEF TgReached, books
      <3>3. QED BY <2>1, <3>1, <3>2
    <2>6. InOrder(tg') /\ \A i \in DOMAIN tg' : tg'[i] # 0 => MxReached(tg[i])'
      BY <1>0, <1>1, <2>2 DEF Ordered
    <2>7. QED BY <2>4, <2>5, <2>6 DEF Ordered
  <1>10. QED BY <1>4, <1>6, <1>7, <1>8, <1>9 DEF RelayInv

\* A send that raised leaves the last id behind; the poll that follows, or
\* the one given up, finds the message again.
LEMMA StepTgFail ==
    ASSUME RelayInv, TypeOK', TgFail
    PROVE  RelayInv'
  <1>0. TypeOK /\ TgInPlace /\ TgAccounted /\ PassedTold /\ TgCounted
    BY DEF RelayInv
  <1>1. /\ tgPc \in {"relay", "sent"} /\ tgJob.next <= tgJob.end /\ tgPc' = "relay" /\ TgNext
        /\ breaks' = breaks + 1 /\ tgFailed' = tgFailed \cup {tgJob.next}
        /\ UNCHANGED <<rooms, books, mxSide, posts, kills, rewinds, mxFailed, mxMissed, tgMissed>>
    <2>1. CASE tgPc = "sent"
      BY <1>0, <2>1 DEF TgFail, TgInPlace
    <2>2. CASE \E n \in InHand(tgJob) : TgReadable(n)
      <3>1. PICK n \in InHand(tgJob) : TgAt(n)
        BY <2>2 DEF TgReadable
      <3>2. tgPc = "relay" /\ tgJob.next <= tgJob.end
        BY <1>0, <3>1, InHandIs DEF TgAt, TypeOK
      <3>3. QED BY <3>2 DEF TgFail
    <2>3. QED BY <2>1, <2>2 DEF TgFail
  <1>2. /\ tgJob.next \in Nat /\ tgJob.end \in Nat /\ st.last \in Nat /\ breaks \in Nat
        /\ mx \in Seq(Nat)
    BY <1>0, Fields DEF TypeOK
  <1>3. tgJob' \in Job /\ tgJob'.next = tgJob.next + 1 /\ tgJob'.end = tgJob.end
    BY <1>0, <1>1, Advances DEF TgNext, TypeOK
  <1>4. TgInPlace'
    BY <1>0, <1>1, <1>2, <1>3 DEF TgInPlace, TgBusy, rooms, books, mxSide
  <1>5. TgAccounted'
    BY <1>0, <1>1 DEF TgAccounted, rooms, books
  <1>6. PassedTold'
    <2> SUFFICES ASSUME NEW n \in 1..tgJob.next, tg[n] = 0 PROVE TgTold(n)'
      BY <1>1, <1>2, <1>3 DEF PassedTold, rooms
    <2>1. CASE n = tgJob.next
      BY <1>1, <2>1 DEF TgTold
    <2>2. CASE n # tgJob.next
      BY <1>0, <1>1, <1>2, <2>2 DEF PassedTold, TgBusy, TgTold, rooms
    <2>3. QED BY <2>1, <2>2
  <1>7. TgCounted'
    <2>1. \A x : CopiesOf(x, mx) \in Nat
      BY <1>2, PlacesFinite
    <2>2. QED BY <1>0, <1>1, <1>2, <2>1 DEF TgCounted, TgOnceUnlessBroken, rooms
  <1>8. QED
    <2>1. /\ tgPc # "down" /\ st' \in Bookmarks /\ st'.seen = st.seen /\ file' \in {file, st'}
          /\ breaks' # breaks /\ breaks' \in {breaks, breaks + 1} /\ cursor' = cursor
      BY <1>0, <1>1, <1>2 DEF books, TypeOK
    <2>2. QED BY <1>1, <1>4, <1>5, <1>6, <1>7, <2>1, StepTgQuiet

LEMMA StepTgEnds ==
    ASSUME RelayInv, TypeOK',
           TgPollError \/ TgPassDone \/ \E n \in InHand(tgJob) : TgStuck(n)
    PROVE  RelayInv'
  <1>0. TypeOK /\ TgInPlace /\ TgAccounted /\ PassedTold /\ TgCounted
    BY DEF RelayInv
  <1>1. /\ tgPc = "relay" /\ tgPc' = "poll" /\ tgJob' = Idle /\ breaks' \in {breaks, breaks + 1}
        /\ file' \in {file, st} /\ kills' = kills /\ rewinds' = rewinds
        /\ UNCHANGED <<rooms, cursor, st, mxSide, posts, losses>>
    BY DEF TgPollError, TgPassDone, TgStuck, TgReadable, TgAt, books, faults
  <1>2. breaks \in Nat /\ mx \in Seq(Nat)
    BY <1>0 DEF TypeOK
  <1>3. TgInPlace'
    BY <1>0, <1>1 DEF TgInPlace, TgBusy, rooms, mxSide
  <1>4. TgAccounted' /\ PassedTold'
    BY <1>0, <1>1 DEF TgAccounted, PassedTold, TgBusy, rooms, losses
  <1>5. TgCounted'
    <2>1. \A x : CopiesOf(x, mx) \in Nat
      BY <1>2, PlacesFinite
    <2>2. Held.last = st.last /\ Held'.last = st.last
      BY <1>1, TgRunsUp DEF Held, Up, mxSide
    <2>3. QED BY <1>0, <1>1, <1>2, <2>1, <2>2 DEF TgCounted, TgOnceUnlessBroken, rooms
  <1>6. QED
    <2>1. tgPc # "down" /\ tgPc # "sent"
      BY <1>1
    <2>2. st' = st /\ file' \in {file, st'} /\ UNCHANGED <<mxFailed, mxMissed>>
      BY <1>1 DEF losses
    <2>3. st \in Bookmarks /\ st.last \in Nat
      BY <1>0, Fields DEF TypeOK
    <2>4. st' \in Bookmarks /\ st'.seen = st.seen /\ st.last <= st'.last
      BY <2>2, <2>3
    <2>5. QED BY <1>1, <1>3, <1>4, <1>5, <2>1, <2>2, <2>4, StepTgQuiet

-----------------------------------------------------------------------------
(***************************************************************************)
(* The Matrix loop.                                                        *)
(***************************************************************************)
LEMMA StepMxQuiet ==
    ASSUME RelayInv, TypeOK', MxOnly, MxInPlace', Rings', MxAccounted', SeenTold', MxCounted',
           breaks' = breaks => \A k \in Nat : MxReached(k) => MxReached(k)'
    PROVE  RelayInv'
  <1>0. Up /\ Up' /\ Ordered /\ TypeOK /\ CopiesInPlace
    BY DEF RelayInv, MxOnly, Up
  <1>1. TgInPlace' /\ CopiesInPlace' /\ TgAccounted' /\ PassedTold' /\ TgCounted'
    BY TgUntouched
  <1>2. Ordered'
    <2> SUFFICES ASSUME breaks' = 0, rewinds' = 0 PROVE Ordered'
      BY OrderedBroken
    <2>1. breaks \in Nat /\ breaks' \in {breaks, breaks + 1} /\ rewinds' = rewinds
      BY <1>0 DEF TypeOK, MxOnly
    <2>2. breaks = 0 /\ rewinds = 0 /\ breaks' = breaks
      BY <2>1
    <2>3. UNCHANGED <<mx, tg, tgPc, tgJob>> /\ st'.last = st.last
      BY DEF MxOnly
    <2>4. \A n : TgReached(n)' = TgReached(n)
      BY <1>0, <2>3 DEF TgReached
    <2>5. InOrder(mx)' /\ InOrder(tg)' /\ \A i \in DOMAIN mx : mx[i] # 0 => TgReached(mx[i])
      BY <1>0, <2>2, <2>3 DEF Ordered
    <2>6. ASSUME NEW i \in DOMAIN tg, tg[i] # 0 PROVE MxReached(tg[i])'
      <3>1. PICK k \in Nat : k = tg[i]
        BY <1>0, Fields, ElementOfSeq
      <3>2. MxReached(k)
        BY <1>0, <2>2, <2>6, <3>1 DEF Ordered
      <3>3. MxReached(k)'
        BY <2>2, <3>2
      <3>4. QED BY <2>3, <3>1, <3>3 DEF MxReached
    <2>7. QED BY <2>3, <2>4, <2>5, <2>6 DEF Ordered
  <1>3. QED BY <1>1, <1>2 DEF RelayInv

LEMMA StepMxSync ==
    ASSUME RelayInv, TypeOK', MxSync
    PROVE  RelayInv'
  <1>0. TypeOK /\ MxInPlace /\ Rings /\ MxAccounted /\ SeenTold /\ MxCounted
    BY DEF RelayInv
  <1>1. /\ mxPc = "sync" /\ cursor < Len(mx) /\ cursor' = Len(mx) /\ mxPc' = "relay"
        /\ mxJob' = Latest(cursor + 1, Len(mx), limits.sync)
        /\ mxMissed' = mxMissed \cup (cursor + 1)..(mxJob'.next - 1)
        /\ UNCHANGED <<rooms, file, st, tgSide, posts, faults, mxFailed, tgFailed, tgMissed>>
    BY DEF MxSync
  <1>2. /\ cursor \in Nat /\ Len(mx) \in Nat /\ DOMAIN mx = 1..Len(mx) /\ NoCursor \notin Nat
        /\ limits.sync \in Nat /\ limits.sync >= 1
    BY <1>0, <1>1, Fields, RelayBounds DEF MxInPlace, TypeOK
  <1>3. /\ mxJob' \in Job /\ mxJob'.end = Len(mx) /\ cursor + 1 <= mxJob'.next
        /\ mxJob'.next <= Len(mx) /\ Len(mx) < mxJob'.next + limits.sync
    BY <1>1, <1>2, LatestFacts
  <1>4. mxJob'.next \in Nat
    BY <1>3 DEF Job
  <1>5. ~Sending /\ ~Sending' /\ ~MxBusy /\ MxBusy' /\ mxJob = Idle /\ InHand(mxJob) = {}
    BY <1>0, <1>1, IdleFacts DEF Sending, MxBusy, MxInPlace
  <1>6. MxInPlace'
    BY <1>1, <1>2, <1>3, <1>4, <1>5 DEF MxInPlace, rooms
  <1>7. Rings'
    <2>1. \A i \in DOMAIN st.seen : st.seen[i] \in DOMAIN mx
      BY <1>0 DEF Rings, Ring
    <2>2. QED BY <1>0, <1>1, <1>2, <1>3, <2>1 DEF Rings, Ring, rooms
  <1>8. MxAccounted'
    <2> SUFFICES ASSUME NEW n \in 1..Len(mx), mx[n] = 0
                 PROVE  Copied(n, tg) \/ n \in InHand(mxJob)' \/ n \in mxFailed \cup mxMissed'
      BY <1>1 DEF MxAccounted, rooms
    <2>1. CASE n <= cursor
      BY <1>0, <1>1, <1>2, <1>5, <2>1 DEF MxAccounted
    <2>2. CASE cursor < n /\ n < mxJob'.next
      BY <1>1, <1>2, <1>4, <2>2
    <2>3. CASE mxJob'.next <= n
      BY <1>2, <1>3, <1>4, <2>3 DEF InHand
    <2>4. QED BY <1>2, <1>4, <2>1, <2>2, <2>3
  <1>9. SeenTold'
    BY <1>0, <1>1, <1>5 DEF SeenTold, MxTold, rooms
  <1>10. MxCounted'
    <2>1. ASSUME NEW n \in Window' PROVE n \in Window
      <3>1. CASE n \in DOMAIN mx /\ Len(mx) < n + limits.sync
        BY <3>1 DEF Window
      <3>2. CASE n \in InHand(mxJob)'
        <4>1. n \in Nat /\ mxJob'.next <= n /\ n <= Len(mx)
          BY <1>3, <3>2, InHandIs
        <4>2. QED BY <1>2, <1>3, <1>4, <4>1 DEF Window
      <3>3. QED BY <1>1, <2>1, <3>1, <3>2 DEF Window, rooms
    <2>2. Held' = Held
      BY <1>1 DEF Held, Up
    <2>3. QED BY <1>0, <1>1, <2>1, <2>2 DEF MxCounted, MxOnceUnlessKilled, rooms, faults
  <1>11. \A k \in Nat : MxReached(k) => MxReached(k)'
    BY <1>1, <1>2, <1>3, <1>4 DEF MxReached
  <1>12. MxOnly
    BY <1>0, <1>1 DEF MxOnly, rooms, tgSide, faults, TypeOK
  <1>13. QED BY <1>6, <1>7, <1>8, <1>9, <1>10, <1>11, <1>12, StepMxQuiet

\* What the first /sync passes over is missed, on either side's account.
LEMMA StepSkipToNow ==
    ASSUME RelayInv, TypeOK', SkipToNow
    PROVE  RelayInv'
  <1>0. /\ TypeOK /\ MxInPlace /\ TgInPlace /\ CopiesInPlace /\ Rings /\ MxAccounted /\ TgAccounted
        /\ SeenTold /\ PassedTold /\ MxCounted /\ TgCounted /\ Ordered
    BY DEF RelayInv
  <1>1. /\ mxPc = "first" /\ cursor' = Len(mx) /\ mxMissed' = DOMAIN mx /\ mxPc' = "sync" /\ tgPc' = "poll"
        /\ UNCHANGED <<limits, mx, tg, file, st, mxJob, tgJob, breaks, kills, rewinds, mxFailed, tgFailed,
                       tgMissed>>
    BY DEF SkipToNow, rooms, faults
  <1>2. Len(mx) \in Nat /\ DOMAIN mx = 1..Len(mx) /\ NoCursor \notin Nat /\ mxMissed \subseteq DOMAIN mx
    BY <1>0, Fields, RelayBounds DEF TypeOK
  <1>3. ~MxBusy /\ ~MxBusy' /\ ~Sending /\ ~Sending' /\ ~TgBusy /\ ~TgBusy' /\ Held' = Held /\ tgPc = "down"
    BY <1>0, <1>1 DEF MxBusy, Sending, TgBusy, Held, Up, TgInPlace
  <1>4. MxInPlace' /\ TgInPlace'
    BY <1>0, <1>1, <1>2, <1>3 DEF MxInPlace, TgInPlace
  <1>5. CopiesInPlace' /\ Rings'
    BY <1>0, <1>1, <1>3 DEF CopiesInPlace, Rings, Ring
  <1>6. MxAccounted' /\ TgAccounted' /\ PassedTold'
    BY <1>0, <1>1, <1>2, <1>3 DEF MxAccounted, TgAccounted, PassedTold
  <1>7. SeenTold'
    BY <1>0, <1>1, <1>2, <1>3 DEF SeenTold, MxTold
  <1>8. MxCounted' /\ TgCounted'
    BY <1>0, <1>1, <1>3 DEF MxCounted, TgCounted, MxOnceUnlessKilled, TgOnceUnlessBroken, Window
  <1>9. Ordered'
    <2>1. \A k : ~MxReached(k)
      BY <1>1 DEF MxReached
    <2>2. \A k : TgReached(k) => TgReached(k)'
      BY <1>1, <1>3 DEF TgReached, Up
    <2>3. breaks = 0 /\ rewinds = 0 => \A i \in DOMAIN tg : tg[i] = 0
      BY <1>0, <2>1 DEF Ordered
    <2>4. QED BY <1>0, <1>1, <2>2, <2>3 DEF Ordered, InOrder
  <1>10. QED BY <1>4, <1>5, <1>6, <1>7, <1>8, <1>9 DEF RelayInv

\* An event that is looked at is marked: its id is in the ring from then on.
LEMMA LooksAt ==
    ASSUME RelayInv, NEW n, mxPc = "relay", n = mxJob.next, n \in InHand(mxJob), st' = Seen(n),
           UNCHANGED <<limits, mx>>
    PROVE  /\ n \in DOMAIN mx /\ n \in Nat \ {0} /\ n <= mxJob.end
           /\ st' \in Bookmarks /\ st'.last = st.last
           /\ n \in ToSet(st'.seen) /\ ToSet(st'.seen) \subseteq ToSet(st.seen) \cup {n}
           /\ Ring(st.seen)' /\ \A i \in DOMAIN st'.seen : st'.seen[i] <= mxJob.end
           /\ \A x \in Window : x \in ToSet(st.seen) => x \in ToSet(st'.seen)
  <1>1. TypeOK /\ n \in Nat /\ n <= mxJob.end /\ mxJob.next \in Nat
    BY InHandIs, Fields DEF RelayInv, TypeOK
  <1>2. 1 <= n
    BY DEF RelayInv, MxInPlace, MxBusy
  <1>3. /\ st' \in Bookmarks /\ st'.last = st.last
        /\ n \in ToSet(st'.seen) /\ ToSet(st'.seen) \subseteq ToSet(st.seen) \cup {n}
    BY <1>1, Marks
  <1>4. /\ Ring(st'.seen) /\ \A i \in DOMAIN st'.seen : st'.seen[i] <= mxJob.end
        /\ \A x \in Window : x \in ToSet(st.seen) => x \in ToSet(st'.seen)
        /\ n \in DOMAIN mx
    BY <1>1, RingMarks
  <1>5. Ring(st.seen)'
    BY <1>4 DEF Ring
  <1>6. QED BY <1>1, <1>2, <1>3, <1>4, <1>5

LEMMA StepMxLook ==
    ASSUME RelayInv, TypeOK', NEW n \in InHand(mxJob), MxSkip(n) \/ MxUndecryptable(n)
    PROVE  RelayInv'
  <1>0. TypeOK /\ MxInPlace /\ Rings /\ MxAccounted /\ SeenTold /\ MxCounted
    BY DEF RelayInv
  <1>1. /\ mxPc = "relay" /\ n = mxJob.next /\ st' = Seen(n) /\ MxNext /\ mxPc' = "relay"
        /\ file' \in {file, st'} /\ mxMissed' \in {mxMissed, mxMissed \cup {n}}
        /\ mx[n] # 0 \/ n \in ToSet(st.seen) \/ n \in mxMissed'
        /\ UNCHANGED <<limits, mx, tg, cursor, tgPc, tgJob, posts, breaks, kills, rewinds, mxFailed, tgFailed,
                       tgMissed>>
    BY DEF MxSkip, MxUndecryptable, MxAt, IsSeen, rooms, tgSide, faults, losses
  <1>2. /\ n \in DOMAIN mx /\ n \in Nat \ {0} /\ n <= mxJob.end
        /\ st' \in Bookmarks /\ st'.last = st.last
        /\ n \in ToSet(st'.seen) /\ ToSet(st'.seen) \subseteq ToSet(st.seen) \cup {n}
        /\ Ring(st.seen)' /\ \A i \in DOMAIN st'.seen : st'.seen[i] <= mxJob.end
        /\ \A x \in Window : x \in ToSet(st.seen) => x \in ToSet(st'.seen)
    BY <1>1, LooksAt
  <1>3. /\ mxJob' \in Job /\ mxJob'.next = n + 1 /\ mxJob'.end = mxJob.end
        /\ \A x : x \in InHand(mxJob) <=> x \in InHand(mxJob') \/ x = n
    <2>1. mxJob \in Job /\ mxJob' = [mxJob EXCEPT !.next = @ + 1]
      BY <1>0, <1>1 DEF MxNext, TypeOK
    <2>2. /\ mxJob' \in Job /\ mxJob'.next = mxJob.next + 1 /\ mxJob'.end = mxJob.end
          /\ \A x : x \in InHand(mxJob) <=> x \in InHand(mxJob') \/ (x = mxJob.next /\ x <= mxJob.end)
      BY <2>1, Advances
    <2>3. QED BY <1>1, <1>2, <2>2
  <1>4. /\ ~Sending /\ ~Sending' /\ MxBusy /\ MxBusy' /\ mxJob.end \in Nat
        /\ limits.sync \in Nat /\ limits.sync >= 1
    BY <1>0, <1>1, Fields DEF Sending, MxBusy
  <1>5. MxInPlace'
    BY <1>0, <1>1, <1>2, <1>3, <1>4 DEF MxInPlace
  <1>6. Rings'
    <2>1. Ring(file.seen)'
      <3>1. CASE file' = file
        BY <1>0, <1>1, <3>1 DEF Rings, Ring
      <3>2. CASE file' = st'
        BY <1>2, <3>2 DEF Ring
      <3>3. QED BY <1>1, <3>1, <3>2
    <2>2. QED BY <1>2, <1>3, <2>1 DEF Rings
  <1>7. mx[n] = 0 => Copied(n, tg) \/ n \in mxFailed \cup mxMissed'
    BY <1>0, <1>1, <1>4 DEF SeenTold, MxTold
  <1>8. MxAccounted'
    BY <1>0, <1>1, <1>3, <1>7 DEF MxAccounted
  <1>9. SeenTold'
    <2> SUFFICES ASSUME NEW x \in ToSet(st'.seen) \cup ToSet(file'.seen), mx[x] = 0
                 PROVE  Copied(x, tg) \/ x \in mxFailed \cup mxMissed'
      BY <1>1 DEF SeenTold, MxTold
    <2>1. CASE x = n
      BY <1>7, <2>1
    <2>2. CASE x # n
      <3>1. x \in ToSet(st.seen) \cup ToSet(file.seen)
        BY <1>1, <1>2, <2>2
      <3>2. QED BY <1>0, <1>1, <1>4, <3>1 DEF SeenTold, MxTold
    <2>3. QED BY <2>1, <2>2
  <1>10. MxCounted'
    <2>1. Held = st /\ Held' = st'
      BY <1>1 DEF Held, Up
    <2>2. Window' \subseteq Window
      BY <1>1, <1>3 DEF Window
    <2>3. QED BY <1>0, <1>1, <1>2, <2>1, <2>2 DEF MxCounted, MxOnceUnlessKilled
  <1>11. \A k \in Nat : MxReached(k) => MxReached(k)'
    BY <1>1, <1>2, <1>3 DEF MxReached
  <1>12. MxOnly
    BY <1>1, <1>2 DEF MxOnly
  <1>13. QED BY <1>5, <1>6, <1>8, <1>9, <1>10, <1>11, <1>12, StepMxQuiet

LEMMA StepMxTake ==
    ASSUME RelayInv, TypeOK', NEW n \in InHand(mxJob), MxTake(n)
    PROVE  RelayInv'
  <1>0. TypeOK /\ MxInPlace /\ Rings /\ MxAccounted /\ SeenTold /\ MxCounted
    BY DEF RelayInv
  <1>1. /\ mxPc = "relay" /\ n = mxJob.next /\ st' = Seen(n) /\ mxPc' = "sending"
        /\ mx[n] = 0 /\ n \notin ToSet(st.seen)
        /\ UNCHANGED <<limits, mx, tg, cursor, file, mxJob, tgPc, tgJob, posts, breaks, kills, rewinds,
                       mxFailed, tgFailed, mxMissed, tgMissed>>
    BY DEF MxTake, MxAt, IsSeen, rooms, tgSide, faults, losses
  <1>2. /\ n \in DOMAIN mx /\ n \in Nat \ {0} /\ n <= mxJob.end
        /\ st' \in Bookmarks /\ st'.last = st.last
        /\ n \in ToSet(st'.seen) /\ ToSet(st'.seen) \subseteq ToSet(st.seen) \cup {n}
        /\ Ring(st.seen)' /\ \A i \in DOMAIN st'.seen : st'.seen[i] <= mxJob.end
        /\ \A x \in Window : x \in ToSet(st.seen) => x \in ToSet(st'.seen)
    BY <1>1, LooksAt
  <1>3. ~Sending /\ Sending' /\ MxBusy /\ MxBusy'
    BY <1>1 DEF Sending, MxBusy
  <1>4. MxInPlace'
    BY <1>0, <1>1, <1>2, <1>3 DEF MxInPlace
  <1>5. Rings'
    BY <1>0, <1>1, <1>2 DEF Rings, Ring
  <1>6. MxAccounted'
    BY <1>0, <1>1 DEF MxAccounted
  <1>7. SeenTold'
    BY <1>0, <1>1, <1>2, <1>3 DEF SeenTold, MxTold
  <1>8. MxCounted'
    <2>1. Held = st /\ Held' = st' /\ Window' = Window /\ n \in Window
      BY <1>1 DEF Held, Up, Window
    <2>2. QED BY <1>0, <1>1, <1>2, <2>1 DEF MxCounted, MxOnceUnlessKilled
  <1>9. \A k \in Nat : MxReached(k) => MxReached(k)'
    BY <1>1 DEF MxReached
  <1>10. MxOnly
    BY <1>1, <1>2 DEF MxOnly
  <1>11. QED BY <1>4, <1>5, <1>6, <1>7, <1>8, <1>9, <1>10, StepMxQuiet

LEMMA StepMxDeliver ==
    ASSUME RelayInv, TypeOK', MxDeliver
    PROVE  RelayInv'
  <1>0. /\ TypeOK /\ MxInPlace /\ TgInPlace /\ Rings /\ MxAccounted /\ SeenTold /\ MxCounted /\ Ordered
        /\ CopiesInPlace
    BY DEF RelayInv
  <1> DEFINE n == mxJob.next
  <1>1. /\ mxPc = "sending" /\ tg' = Append(tg, n) /\ mxPc' = "sent"
        /\ UNCHANGED <<limits, mx, cursor, file, st, mxJob, tgPc, tgJob, posts, breaks, kills, rewinds,
                       mxFailed, tgFailed, mxMissed, tgMissed>>
    BY DEF MxDeliver, books, tgSide, faults, losses
  <1>2. /\ n \in Nat \ {0} /\ n \in DOMAIN mx /\ mx[n] = 0 /\ n \in ToSet(st.seen)
        /\ tg \in Seq(Nat) /\ kills \in Nat /\ DOMAIN mx = 1..Len(mx)
    <2>1. Sending /\ MxBusy /\ cursor # NoCursor
      BY <1>0, <1>1 DEF Sending, MxBusy, MxInPlace
    <2>2. /\ mxJob.end \in Nat /\ n \in Nat /\ DOMAIN mx = 1..Len(mx) /\ Len(mx) \in Nat
      BY <1>0, Fields
    <2>3. /\ 1 <= n /\ n <= mxJob.end /\ mxJob.end = cursor /\ cursor <= Len(mx)
          /\ mx[n] = 0 /\ n \in ToSet(st.seen)
      BY <1>0, <2>1 DEF MxInPlace
    <2>4. n \in Nat \ {0} /\ n \in 1..Len(mx)
      BY <2>2, <2>3
    <2>5. tg \in Seq(Nat) /\ kills \in Nat
      BY <1>0 DEF TypeOK
    <2>6. QED BY <2>2, <2>3, <2>4, <2>5
  <1>3. Sending /\ Sending' /\ MxBusy /\ MxBusy' /\ Up /\ Up'
    BY <1>1 DEF Sending, MxBusy, Up
  <1>4. TgInPlace' /\ CopiesInPlace' /\ TgAccounted' /\ PassedTold' /\ TgCounted'
    BY <1>1, <1>2, <1>3, TgRoomGrows
  <1> HIDE DEF n
  <1>5. /\ \A x : CopiesOf(x, tg) \in Nat
        /\ \A x : x # n => CopiesOf(x, tg') = CopiesOf(x, tg)
        /\ CopiesOf(n, tg') = CopiesOf(n, tg) + 1 /\ Copied(n, tg')
        /\ \A x : Copied(x, tg) => Copied(x, tg')
    <2>1. ASSUME NEW x
          PROVE  /\ CopiesOf(x, tg) \in Nat
                 /\ n # x => CopiesOf(x, tg') = CopiesOf(x, tg)
                 /\ n = x => CopiesOf(x, tg') = CopiesOf(x, tg) + 1 /\ Copied(x, tg')
                 /\ Copied(x, tg) => Copied(x, tg')
      <3>1. tg \in Seq(Nat) /\ n \in Nat /\ tg' = Append(tg, n)
        BY <1>1, <1>2
      <3>2. /\ CopiesOf(x, tg) \in Nat
            /\ n # x => CopiesOf(x, Append(tg, n)) = CopiesOf(x, tg)
            /\ n = x => CopiesOf(x, Append(tg, n)) = CopiesOf(x, tg) + 1 /\ Copied(x, Append(tg, n))
            /\ Copied(x, tg) => Copied(x, Append(tg, n))
        BY <3>1, Grown
      <3>3. QED BY <3>1, <3>2
    <2>2. QED BY <2>1
  <1>6. n = mxJob.next
    BY DEF n
  <1>7. MxInPlace'
    BY <1>0, <1>1, <1>3, <1>5, <1>6 DEF MxInPlace
  <1>8. Rings'
    BY <1>0, <1>1, <1>3 DEF Rings, Ring
  <1>9. MxAccounted'
    BY <1>0, <1>1, <1>5 DEF MxAccounted
  <1>10. SeenTold'
    BY <1>0, <1>1, <1>3, <1>5 DEF SeenTold, MxTold
  <1>11. MxCounted'
    <2>1. Held = st /\ Held' = st /\ Window' = Window
      BY <1>1, <1>3 DEF Held, Window
    <2>2. CopiesOf(n, tg) <= kills
      BY <1>0, <1>1, <1>6 DEF MxCounted
    <2>3. ASSUME NEW x \in DOMAIN mx PROVE CopiesOf(x, tg') <= 1 + kills
      BY <1>0, <1>2, <1>5, <2>2 DEF MxCounted, MxOnceUnlessKilled
    <2>4. ASSUME NEW x \in Window, x \notin ToSet(st.seen) PROVE CopiesOf(x, tg') <= kills
      BY <1>0, <1>2, <1>5, <2>1, <2>4 DEF MxCounted
    <2>5. QED BY <1>1, <2>1, <2>3, <2>4 DEF MxCounted, MxOnceUnlessKilled
  <1>12. Ordered'
    <2> SUFFICES ASSUME breaks = 0, rewinds = 0 PROVE Ordered'
      BY <1>1 DEF Ordered
    <2>1. /\ DOMAIN tg' = DOMAIN tg \cup {Len(tg) + 1} /\ DOMAIN tg = 1..Len(tg) /\ Len(tg) \in Nat
          /\ \A i \in DOMAIN tg : tg'[i] = tg[i]
          /\ tg'[Len(tg) + 1] = n
      BY <1>1, <1>2, <1>6, Appended
    <2>2. \A x : TgReached(x)' = TgReached(x)
      BY <1>1, <1>3 DEF TgReached
    <2>3. ASSUME NEW i \in DOMAIN tg, tg[i] # 0 PROVE tg[i] \in Nat /\ tg[i] < n
      BY <1>0, <1>1, <1>2, <1>6, <2>3, ElementOfSeq DEF Ordered, MxReached
    <2>4. InOrder(tg')
      <3> SUFFICES ASSUME NEW i \in DOMAIN tg', NEW j \in DOMAIN tg', i < j, tg'[i] # 0, tg'[j] # 0
                   PROVE  tg'[i] < tg'[j]
        BY DEF InOrder
      <3>1. i \in DOMAIN tg
        BY <2>1
      <3>2. CASE j \in DOMAIN tg
        BY <1>0, <2>1, <3>1, <3>2 DEF Ordered, InOrder
      <3>3. CASE j = Len(tg) + 1
        BY <2>1, <2>3, <3>1, <3>3
      <3>4. QED BY <2>1, <3>2, <3>3
    <2>5. ASSUME NEW i \in DOMAIN tg', tg'[i] # 0 PROVE MxReached(tg[i])'
      <3>1. CASE i \in DOMAIN tg
        BY <1>1, <1>2, <1>6, <2>1, <2>3, <2>5, <3>1 DEF MxReached
      <3>2. CASE i = Len(tg) + 1
        BY <1>1, <1>2, <1>6, <2>1, <3>2 DEF MxReached
      <3>3. QED BY <2>1, <3>1, <3>2
    <2>6. InOrder(mx') /\ \A i \in DOMAIN mx' : mx'[i] # 0 => TgReached(mx[i])'
      BY <1>0, <1>1, <2>2 DEF Ordered
    <2>7. QED BY <2>4, <2>5, <2>6 DEF Ordered
  <1>13. QED BY <1>4, <1>7, <1>8, <1>9, <1>10, <1>11, <1>12 DEF RelayInv

\* On to the next event: the one in hand is in the group, or has failed.
LEMMA StepMxLeaves ==
    ASSUME RelayInv, TypeOK', MxSent \/ MxFail
    PROVE  RelayInv'
  <1>0. TypeOK /\ MxInPlace /\ Rings /\ MxAccounted /\ SeenTold /\ MxCounted
    BY DEF RelayInv
  <1>1. /\ Sending /\ mxPc' = "relay" /\ MxNext /\ file' \in {file, st}
        /\ mxFailed' \in {mxFailed, mxFailed \cup {mxJob.next}}
        /\ mxPc = "sent" \/ mxJob.next \in mxFailed'
        /\ breaks' \in {breaks, breaks + 1}
        /\ UNCHANGED <<limits, mx, tg, cursor, st, tgPc, tgJob, posts, kills, rewinds, tgFailed, mxMissed,
                       tgMissed>>
    BY DEF MxSent, MxFail, Sending, rooms, books, tgSide, faults, losses
  <1>2. /\ mxJob' \in Job /\ mxJob'.next = mxJob.next + 1 /\ mxJob'.end = mxJob.end
        /\ \A x : x \in InHand(mxJob) => x \in InHand(mxJob') \/ x = mxJob.next
        /\ \A x : x \in InHand(mxJob') => x \in InHand(mxJob)
    <2>1. mxJob \in Job /\ mxJob' = [mxJob EXCEPT !.next = @ + 1]
      BY <1>0, <1>1 DEF MxNext, TypeOK
    <2>2. /\ mxJob' \in Job /\ mxJob'.next = mxJob.next + 1 /\ mxJob'.end = mxJob.end
          /\ \A x : x \in InHand(mxJob) <=> x \in InHand(mxJob') \/ (x = mxJob.next /\ x <= mxJob.end)
      BY <2>1, Advances
    <2>3. QED BY <2>2
  <1>3. /\ ~Sending' /\ MxBusy /\ MxBusy' /\ mxJob.next \in Nat /\ mxJob.end \in Nat
        /\ limits.sync \in Nat
    BY <1>0, <1>1, Fields DEF Sending, MxBusy
  <1>4. MxInPlace'
    BY <1>0, <1>1, <1>2, <1>3 DEF MxInPlace
  <1>5. Rings'
    BY <1>0, <1>1, <1>2, <1>3 DEF Rings, Ring
  <1>6. Copied(mxJob.next, tg) \/ mxJob.next \in mxFailed' \cup mxMissed
    BY <1>0, <1>1 DEF MxInPlace
  <1>7. MxAccounted'
    BY <1>0, <1>1, <1>2, <1>6 DEF MxAccounted
  <1>8. SeenTold'
    BY <1>0, <1>1, <1>3, <1>6 DEF SeenTold, MxTold
  <1>9. MxCounted'
    <2>1. Held = st /\ Held' = st /\ Window' \subseteq Window
      BY <1>1, <1>2 DEF Held, Up, Window, Sending
    <2>2. QED BY <1>0, <1>1, <2>1 DEF MxCounted, MxOnceUnlessKilled
  <1>10. breaks' = breaks => \A k \in Nat : MxReached(k) => MxReached(k)'
    BY <1>1, <1>2, <1>3 DEF MxReached, Sending
  <1>11. MxOnly
    BY <1>0, <1>1 DEF MxOnly, Sending, TypeOK
  <1>12. QED BY <1>4, <1>5, <1>7, <1>8, <1>9, <1>10, <1>11, StepMxQuiet

LEMMA StepMxPassDone ==
    ASSUME RelayInv, TypeOK', MxPassDone
    PROVE  RelayInv'
  <1>0. TypeOK /\ MxInPlace /\ Rings /\ MxAccounted /\ SeenTold /\ MxCounted
    BY DEF RelayInv
  <1>1. /\ mxPc = "relay" /\ InHand(mxJob) = {} /\ file' = st /\ mxPc' = "sync" /\ mxJob' = Idle
        /\ UNCHANGED <<limits, mx, tg, cursor, st, tgPc, tgJob, posts, breaks, kills, rewinds, mxFailed,
                       tgFailed, mxMissed, tgMissed>>
    BY DEF MxPassDone, rooms, tgSide, faults, losses
  <1>2. ~Sending /\ ~Sending' /\ MxBusy /\ ~MxBusy' /\ InHand(mxJob)' = {}
    BY <1>1, IdleFacts DEF Sending, MxBusy
  <1>3. MxInPlace'
    BY <1>0, <1>1, <1>2 DEF MxInPlace
  <1>4. Rings'
    BY <1>0, <1>1, <1>2 DEF Rings, Ring
  <1>5. MxAccounted'
    BY <1>0, <1>1, <1>2 DEF MxAccounted
  <1>6. SeenTold'
    BY <1>0, <1>1, <1>2 DEF SeenTold, MxTold
  <1>7. MxCounted'
    BY <1>0, <1>1, <1>2 DEF MxCounted, MxOnceUnlessKilled, Window, Held, Up
  <1>8. \A k \in Nat : MxReached(k) => MxReached(k)'
    <2>1. /\ mxJob.next \in Nat /\ mxJob.end \in Nat /\ mxJob.end = cursor
          /\ mxJob.next <= mxJob.end + 1
      BY <1>0, <1>2, Fields DEF MxInPlace
    <2>2. QED BY <1>1, <2>1 DEF MxReached
  <1>9. MxOnly
    BY <1>0, <1>1 DEF MxOnly, TypeOK
  <1>10. QED BY <1>3, <1>4, <1>5, <1>6, <1>7, <1>8, <1>9, StepMxQuiet

-----------------------------------------------------------------------------
(***************************************************************************)
(* Starts, ends, and a cursor set back.                                    *)
(***************************************************************************)
LEMMA StepStart ==
    ASSUME RelayInv, TypeOK', Start
    PROVE  RelayInv'
  <1>0. /\ TypeOK /\ MxInPlace /\ TgInPlace /\ CopiesInPlace /\ Rings /\ MxAccounted /\ TgAccounted
        /\ SeenTold /\ PassedTold /\ MxCounted /\ TgCounted /\ Ordered
    BY DEF RelayInv
  <1>1. /\ mxPc = "down" /\ st' = file
        /\ \/ cursor = NoCursor /\ mxPc' = "first" /\ tgPc' = tgPc
           \/ cursor # NoCursor /\ mxPc' = "sync" /\ tgPc' = "poll"
        /\ UNCHANGED <<limits, mx, tg, cursor, file, mxJob, tgJob, breaks, kills, rewinds, mxFailed,
                       tgFailed, mxMissed, tgMissed>>
    BY DEF Start, Up, rooms, faults, losses
  <1>2. /\ ~MxBusy /\ ~MxBusy' /\ ~Sending /\ ~Sending' /\ ~TgBusy /\ ~TgBusy' /\ Held = file /\ Held' = file
        /\ tgPc = "down"
    BY <1>0, <1>1 DEF MxBusy, Sending, TgBusy, Held, Up, TgInPlace
  <1>3. MxInPlace'
    BY <1>0, <1>1, <1>2 DEF MxInPlace
  <1>4. TgInPlace'
    BY <1>0, <1>1, <1>2 DEF TgInPlace
  <1>5. CopiesInPlace' /\ Rings'
    BY <1>0, <1>1, <1>2 DEF CopiesInPlace, Rings, Ring
  <1>6. MxAccounted' /\ TgAccounted' /\ PassedTold'
    BY <1>0, <1>1, <1>2 DEF MxAccounted, TgAccounted, PassedTold
  <1>7. SeenTold'
    BY <1>0, <1>1, <1>2 DEF SeenTold, MxTold
  <1>8. MxCounted' /\ TgCounted'
    BY <1>0, <1>1, <1>2 DEF MxCounted, TgCounted, MxOnceUnlessKilled, TgOnceUnlessBroken, Window
  <1>9. Ordered'
    <2>1. \A k : ~MxReached(k) /\ ~TgReached(k)
      BY <1>1 DEF MxReached, TgReached, Up
    <2>2. breaks = 0 /\ rewinds = 0 => /\ \A i \in DOMAIN tg : tg[i] = 0
                                       /\ \A i \in DOMAIN mx : mx[i] = 0
      BY <1>0, <2>1 DEF Ordered
    <2>3. QED BY <1>0, <1>1, <2>2 DEF Ordered, InOrder
  <1>10. QED BY <1>3, <1>4, <1>5, <1>6, <1>7, <1>8, <1>9 DEF RelayInv

\* What is in hand is lost, and everybody may be sent one copy more.
LEMMA StepEnds ==
    ASSUME RelayInv, TypeOK', Stop \/ Kill \/ KillInWrite
    PROVE  RelayInv'
  <1>0. /\ TypeOK /\ MxInPlace /\ TgInPlace /\ CopiesInPlace /\ Rings /\ MxAccounted /\ TgAccounted
        /\ SeenTold /\ PassedTold /\ MxCounted /\ TgCounted
    BY DEF RelayInv
  <1>1. /\ breaks' = breaks + 1 /\ mxMissed' = mxMissed \cup InHand(mxJob)
        /\ mxPc' = "down" /\ mxJob' = Idle /\ tgPc' = "down" /\ tgJob' = Idle
        /\ Up /\ file' \in {file, st} /\ cursor' \in {cursor, NoCursor}
        /\ (kills' = kills /\ file' = st) \/ kills' = kills + 1
        /\ UNCHANGED <<limits, mx, tg, st, rewinds, mxFailed, tgFailed, tgMissed>>
    BY DEF Stop, Kill, KillInWrite, Ends, Up, rooms
  <1>2. /\ ~MxBusy' /\ ~Sending' /\ ~TgBusy' /\ Held = st /\ Held' = file' /\ InHand(mxJob)' = {}
    BY <1>1, IdleFacts DEF MxBusy, Sending, TgBusy, Held, Up
  <1>3. /\ kills \in Nat /\ breaks \in Nat
        /\ \A n : CopiesOf(n, tg) \in Nat /\ CopiesOf(n, mx) \in Nat
        /\ mxJob.next \in Nat /\ mxJob.end \in Nat
    <2>1. mx \in Seq(Nat) /\ tg \in Seq(Nat)
      BY <1>0 DEF TypeOK
    <2>2. ASSUME NEW n PROVE CopiesOf(n, tg) \in Nat /\ CopiesOf(n, mx) \in Nat
      BY <2>1, PlacesFinite
    <2>3. kills \in Nat /\ breaks \in Nat
      BY <1>0 DEF TypeOK
    <2>4. mxJob.next \in Nat /\ mxJob.end \in Nat
      BY <1>0, Fields
    <2>5. QED BY <2>2, <2>3, <2>4
  <1>4. MxInPlace' /\ TgInPlace'
    BY <1>0, <1>1, <1>2 DEF MxInPlace, TgInPlace
  <1>5. CopiesInPlace' /\ Rings'
    BY <1>0, <1>1, <1>2 DEF CopiesInPlace, Rings, Ring
  <1>6. MxAccounted' /\ TgAccounted' /\ PassedTold'
    BY <1>0, <1>1, <1>2 DEF MxAccounted, TgAccounted, PassedTold
  <1>7. SeenTold'
    <2>1. Sending => mxJob.next \in InHand(mxJob)
      BY <1>0, <1>3 DEF MxInPlace, InHand
    <2>2. QED BY <1>0, <1>1, <1>2, <2>1 DEF SeenTold, MxTold
  <1>8. MxCounted'
    <2>1. MxOnceUnlessKilled'
      BY <1>0, <1>1, <1>3 DEF MxCounted, MxOnceUnlessKilled
    <2>2. ASSUME NEW n \in Window', n \notin ToSet(file'.seen) PROVE CopiesOf(n, tg) <= kills'
      <3>1. n \in DOMAIN mx /\ n \in Window
        BY <1>1, <1>2, <2>2 DEF Window
      <3>2. CASE kills' = kills + 1
        BY <1>0, <1>3, <3>1, <3>2 DEF MxCounted, MxOnceUnlessKilled
      <3>3. CASE kills' = kills /\ file' = st
        BY <1>0, <1>2, <2>2, <3>1, <3>3 DEF MxCounted
      <3>4. QED BY <1>1, <3>2, <3>3
    <2>3. QED BY <1>1, <1>2, <2>1, <2>2 DEF MxCounted
  <1>9. TgCounted'
    BY <1>0, <1>1, <1>3 DEF TgCounted, TgOnceUnlessBroken
  <1>10. Ordered'
    BY <1>1, <1>3, OrderedBroken
  <1>11. QED BY <1>4, <1>5, <1>6, <1>7, <1>8, <1>9, <1>10 DEF RelayInv

LEMMA StepRewind ==
    ASSUME RelayInv, TypeOK', Rewind
    PROVE  RelayInv'
  <1>0. /\ TypeOK /\ MxInPlace /\ TgInPlace /\ CopiesInPlace /\ Rings /\ MxAccounted /\ TgAccounted
        /\ SeenTold /\ PassedTold /\ MxCounted /\ TgCounted
    BY DEF RelayInv
  <1>1. /\ mxPc = "down" /\ cursor # NoCursor /\ cursor' \in {NoCursor} \cup 0..(cursor - 1)
        /\ rewinds' = rewinds + 1
        /\ UNCHANGED <<limits, mx, tg, file, st, mxPc, mxJob, tgPc, tgJob, breaks, kills, mxFailed,
                       tgFailed, mxMissed, tgMissed>>
    BY DEF Rewind, Up, rooms, mxSide, tgSide, losses
  <1>2. cursor \in Nat /\ rewinds \in Nat /\ Len(mx) \in Nat
    BY <1>0, <1>1, Fields DEF TypeOK
  <1>3. ~MxBusy /\ ~MxBusy' /\ ~Sending /\ ~Sending' /\ TgBusy' = TgBusy /\ Held' = Held
    BY <1>1 DEF MxBusy, Sending, TgBusy, Held, Up
  <1>4. MxInPlace'
    BY <1>0, <1>1, <1>2, <1>3 DEF MxInPlace
  <1>5. TgInPlace' /\ CopiesInPlace' /\ Rings'
    BY <1>0, <1>1, <1>3 DEF TgInPlace, CopiesInPlace, Rings, Ring
  <1>6. MxAccounted'
    BY <1>0, <1>1, <1>2 DEF MxAccounted
  <1>7. TgAccounted' /\ PassedTold'
    BY <1>0, <1>1, <1>3 DEF TgAccounted, PassedTold, TgTold
  <1>8. SeenTold'
    BY <1>0, <1>1, <1>3 DEF SeenTold, MxTold
  <1>9. MxCounted' /\ TgCounted'
    BY <1>0, <1>1, <1>3 DEF MxCounted, TgCounted, MxOnceUnlessKilled, TgOnceUnlessBroken, Window
  <1>10. Ordered'
    BY <1>1, <1>2, OrderedBroken
  <1>11. QED BY <1>4, <1>5, <1>6, <1>7, <1>8, <1>9, <1>10 DEF RelayInv

LEMMA StepStutters ==
    ASSUME RelayInv, UNCHANGED vars
    PROVE  RelayInv'
  <1>1. /\ UNCHANGED <<limits, mx, tg, stuck, cursor, file, st, mxPc, mxJob, tgPc, tgJob, posts>>
        /\ UNCHANGED <<breaks, kills, rewinds, mxFailed, tgFailed, mxMissed, tgMissed>>
    BY DEF vars, rooms, books, mxSide, tgSide, faults, losses
  <1> USE <1>1 DEF RelayInv
  <1>2. TypeOK' /\ MxInPlace' /\ TgInPlace'
    BY DEF TypeOK, MxInPlace, TgInPlace, MxBusy, Sending, TgBusy
  <1>3. CopiesInPlace' /\ Rings' /\ MxAccounted' /\ TgAccounted'
    BY DEF CopiesInPlace, Rings, Ring, MxBusy, Sending, MxAccounted, TgAccounted
  <1>4. SeenTold' /\ PassedTold' /\ MxCounted' /\ TgCounted'
    BY DEF SeenTold, MxTold, Sending, PassedTold, TgTold, TgBusy, MxCounted, TgCounted,
           MxOnceUnlessKilled, TgOnceUnlessBroken, Window, Held, Up
  <1>5. Ordered'
    BY DEF Ordered, InOrder, MxReached, TgReached, Up
  <1>6. QED BY <1>2, <1>3, <1>4, <1>5

-----------------------------------------------------------------------------
(***************************************************************************)
(* The theorems.                                                           *)
(***************************************************************************)
LEMMA InitRelay == Init => RelayInv
  <1> SUFFICES ASSUME Init PROVE RelayInv
    OBVIOUS
  <1> USE RelayBounds
  <1>1. TypeOK
    <2>1. file \in Bookmarks /\ st \in Bookmarks /\ Idle \in Job
      BY IdleFacts DEF Init, Bookmarks
    <2>2. << >> \in Seq(Nat) /\ <<0>> \in Seq(Nat)
      OBVIOUS
    <2>3. mx \in Seq(Nat) /\ tg \in Seq(Nat)
      BY <2>2 DEF Init
    <2>4. /\ limits \in Limits /\ cursor \in Nat \cup {NoCursor}
          /\ mxPc = "down" /\ tgPc = "down" /\ mxJob \in Job /\ tgJob \in Job
      BY <2>1 DEF Init
    <2>5. posts = 0 /\ breaks = 0 /\ kills = 0 /\ rewinds = 0
      BY DEF Init
    <2>6. posts \in 0..MaxPosts /\ breaks \in 0..MaxBreaks /\ kills \in 0..breaks
          /\ rewinds \in 0..MaxRewinds
      BY <2>5
    <2>7. /\ mxFailed \subseteq DOMAIN mx /\ mxMissed \subseteq DOMAIN mx
          /\ tgFailed \subseteq DOMAIN tg /\ tgMissed \subseteq DOMAIN tg /\ stuck \subseteq DOMAIN tg
      BY DEF Init
    <2>8. QED BY <2>1, <2>3, <2>4, <2>6, <2>7 DEF TypeOK
  <1>2. /\ mx = << >> /\ DOMAIN mx = {} /\ Len(mx) = 0 /\ \A i \in DOMAIN tg : tg[i] = 0
        /\ DOMAIN tg = 1..Len(tg) /\ Len(tg) \in Nat
    BY DEF Init
  <1>3. /\ st.last = 0 /\ file.last = 0 /\ st.seen = << >> /\ file.seen = << >>
        /\ ToSet(st.seen) = {} /\ ToSet(file.seen) = {}
    BY DEF Init, ToSet
  <1>4. ~MxBusy /\ ~Sending /\ ~TgBusy /\ mxPc = "down" /\ tgPc = "down" /\ mxJob = Idle /\ tgJob = Idle
        /\ cursor = NoCursor /\ InHand(mxJob) = {}
    BY IdleFacts DEF Init, MxBusy, Sending, TgBusy
  <1>5. MxInPlace /\ TgInPlace
    BY <1>2, <1>3, <1>4 DEF MxInPlace, TgInPlace
  <1>6. CopiesInPlace /\ Rings
    BY <1>2, <1>3, <1>4 DEF CopiesInPlace, Rings, Ring
  <1>7. MxAccounted /\ TgAccounted /\ SeenTold /\ PassedTold
    BY <1>3, <1>4 DEF MxAccounted, TgAccounted, SeenTold, PassedTold
  <1>8. MxCounted
    <2>1. Window = {}
      BY <1>2, <1>4 DEF Window
    <2>2. QED BY <1>2, <1>4, <2>1 DEF MxCounted, MxOnceUnlessKilled
  <1>9. TgCounted
    <2>1. ASSUME NEW n \in DOMAIN tg PROVE CopiesOf(n, mx) = 0
      <3>0. mx \in Seq(Nat)
        BY <1>1 DEF TypeOK
      <3>1. CopiesOf(n, mx) \in Nat
        BY <3>0, PlacesFinite
      <3>2. ~Copied(n, mx)
        BY <1>1, <1>2, CopiedIff DEF TypeOK
      <3>3. QED BY <3>1, <3>2 DEF Copied
    <2>2. breaks = 0
      BY DEF Init
    <2>3. QED BY <2>1, <2>2 DEF TgCounted, TgOnceUnlessBroken
  <1>10. Ordered
    BY <1>2 DEF Ordered, InOrder
  <1>11. QED BY <1>1, <1>5, <1>6, <1>7, <1>8, <1>9, <1>10 DEF RelayInv

LEMMA StepRelay == RelayInv /\ [Next]_vars => RelayInv'
  <1> SUFFICES ASSUME RelayInv, [Next]_vars PROVE RelayInv'
    OBVIOUS
  <1>1. TypeOK'
    BY StepType
  <1>2. CASE WritesMatrix \/ WritesTelegram
    BY <1>1, <1>2, StepWrites
  <1>3. CASE MxStep \/ MxFail
    <2>1. ASSUME NEW n \in InHand(mxJob), MxSkip(n) \/ MxUndecryptable(n) \/ MxTake(n) PROVE RelayInv'
      BY <1>1, <2>1, StepMxLook, StepMxTake
    <2>2. QED BY <1>1, <1>3, <2>1, StepSkipToNow, StepMxSync, StepMxDeliver, StepMxLeaves, StepMxPassDone
              DEF MxStep
  <1>4. CASE TgStep \/ TgFail \/ TgPollError
    <2>1. ASSUME NEW n \in InHand(tgJob), TgSkip(n) \/ TgDeliver(n) \/ TgStuck(n) PROVE RelayInv'
      BY <1>1, <2>1, StepTgMoves, StepTgDeliver, StepTgEnds
    <2>2. QED BY <1>1, <1>4, <2>1, StepTgSkipToNow, StepTgPoll, StepTgMoves, StepTgFail, StepTgEnds
              DEF TgStep
  <1>5. CASE Start \/ Stop \/ Kill \/ KillInWrite \/ Rewind
    BY <1>1, <1>5, StepStart, StepEnds, StepRewind
  <1>6. CASE UNCHANGED vars
    BY <1>6, StepStutters
  <1>7. QED BY <1>2, <1>3, <1>4, <1>5, <1>6 DEF Next

(***************************************************************************)
(* The inductive invariant of the relay.                                   *)
(***************************************************************************)
THEOREM RelayInvAlways == Spec => []RelayInv
  BY InitRelay, StepRelay, PTL DEF Spec

(***************************************************************************)
(* Every variable of the relay keeps its type; what is called failed or    *)
(* missed is a message of the room it is listed for.                       *)
(***************************************************************************)
THEOREM RelayTypeCorrect == Spec => []TypeOK
  <1>1. RelayInv => TypeOK
    BY DEF RelayInv
  <1>2. QED BY <1>1, RelayInvAlways, PTL

(***************************************************************************)
(* relay.py loses a message only in one of the ways listed in losses, for  *)
(* any batch sizes, crashes and cursors set back.                          *)
(***************************************************************************)
THEOREM AlwaysAccounted == Spec => []Accounted
  <1>1. RelayInv => Accounted
    BY DEF RelayInv, Accounted
  <1>2. QED BY <1>1, RelayInvAlways, PTL

(***************************************************************************)
(* relay.py echoes nothing, repeats nothing but what a kill (to Telegram)  *)
(* or a break (to Matrix) explains, and keeps the order if nothing broke:  *)
(* MX_SEEN_LIMIT is large enough once it is twice the batch, less one.     *)
(***************************************************************************)
THEOREM AlwaysMirrored == Spec => []Mirrored
  <1>1. RelayInv => Mirrored
    <2>1. RelayInv => NoEcho
      BY DEF RelayInv, CopiesInPlace, NoEcho
    <2>2. QED BY <2>1 DEF RelayInv, MxCounted, TgCounted, Ordered, Mirrored
  <1>2. QED BY <1>1, RelayInvAlways, PTL
=============================================================================
