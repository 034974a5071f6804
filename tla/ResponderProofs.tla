--------------------------- MODULE ResponderProofs ---------------------------
(***************************************************************************)
(* Proofs about Responder for any number of transactions, devices, people, *)
(* keys and mishaps: the variables keep their types, a client that was     *)
(* told "done" has its device verified (DoneMeansVerified), and history is *)
(* imported from those who had invited the bot (HistoryOnlyFromInviters).  *)
(***************************************************************************)
EXTENDS Responder, SequenceTheorems, FiniteSetTheorems, TLAPS

-----------------------------------------------------------------------------
In(q) == {q[i] : i \in DOMAIN q}

\* A client sends its events in this order, each but the last once.
Rank(e) ==
    IF e.kind = "request" THEN 1
    ELSE IF e.kind \in {"start", "odd"} THEN 2
    ELSE IF e.kind = "key" THEN 3
    ELSE IF e.kind = "mac" THEN 4
    ELSE 5

\* How far it has come with them.
Level(at) ==
    IF at = "idle" THEN 0
    ELSE IF at = "asked" THEN 1
    ELSE IF at = "started" THEN 2
    ELSE IF at \in {"keyed", "confirming"} THEN 3
    ELSE IF at \in {"confirmed", "done"} THEN 4
    ELSE 5

\* The events that make a session.
Makes(e) == e.kind \in {"request", "start", "odd"}

Held(t) == In(batch[t]) \cup In(pending[t])

\* A batch is older than what waits on the server, and a MAC is of the session
\* the client has committed to.
Ordered(t) ==
    /\ In(ready[t]) \subseteq In(batch[t])
    /\ \A e \in Held(t) : Rank(e) <= Level(peer[t].at)
    /\ \A e \in In(batch[t]), f \in In(pending[t]) : Rank(e) < Rank(f)
    /\ \A e \in Held(t) : e.kind = "mac" => e.obj = peer[t].commit

\* The client has compared keys with the session it committed to.
Locked(t) ==
    \/ peer[t].at \in {"confirming", "confirmed", "done"}
    \/ \E e \in Held(t) : e.kind = "mac"

\* While the session the client committed to is alive, nothing that would make
\* another is on its way; once keys are compared no other session comes, and
\* that one knows the client's key.
CommitSound(t) ==
    /\ peer[t].commit <= made[t]
    /\ peer[t].at \in {"idle", "asked", "started"} => peer[t].commit = 0
    /\ sessions[t] # 0 /\ sessions[t] = peer[t].commit =>
          /\ \A f \in In(pending[t]) : ~Makes(f)
          /\ (\E e \in In(batch[t]) : e.kind = "key") => \A e \in In(batch[t]) : ~Makes(e)
    /\ Locked(t) =>
          /\ \A e \in Held(t) : ~Makes(e)
          /\ sessions[t] # 0 =>
                sessions[t] = peer[t].commit /\ <<t, sessions[t]>> \in keyed

TxnSound(t) == Ordered(t) /\ CommitSound(t)

\* A MAC is judged by the session it was computed with, which has its key.
MacsMatch ==
    \A k \in tasks :
        k.at \in {"lookup", "query", "put", "trust", "done"} =>
            <<k.txn, k.obj>> \in keyed /\ k.mac = k.obj

\* The device is verified, or about to be, or has lost its trust in one of the
\* known ways.
Secured(d) ==
    \/ store[d] = "verified"
    \/ d \in replaced \cup halfway
    \/ \E k \in tasks : k.at = "trust" /\ DeviceOf(k) = d

DoneSecured ==
    /\ \A t \in told : Secured(device[t])
    /\ \A k \in tasks : k.at = "done" => Secured(DeviceOf(k))

SasInv == TypeOK /\ (\A t \in Txns : TxnSound(t)) /\ MacsMatch /\ DoneSecured

-----------------------------------------------------------------------------
\* A bundle gets past Olm once, for its sender's invite, and is imported from
\* its first session on.
ImportsSound ==
    /\ membership = "invited" => Len(invites) > 0
    /\ \A p \in People :
          /\ work[p] \in {"download", "import"} \/ kept[p] > 0 => p \in Arrived
          /\ kept[p] > 0 => p \in olm
          /\ work[p] = "download" => kept[p] = 0
          /\ work[p] = "import" => kept[p] < Keys
          /\ kept[p] \in 1..(Keys - 1) => work[p] = "import" \/ p \in failed \cup cut

InvitesInv == InvitesTypeOK /\ ImportsSound

-----------------------------------------------------------------------------
(***************************************************************************)
(* Queues as sets of events.                                               *)
(***************************************************************************)
LEMMA InFacts ==
    /\ In(<<>>) = {}
    /\ \A q \in Seq(Event) : In(q) \subseteq Event
    /\ \A q \in Seq(Event), e \in Event :
          Append(q, e) \in Seq(Event) /\ In(Append(q, e)) = In(q) \cup {e}
    /\ \A q, r \in Seq(Event) : q \o r \in Seq(Event) /\ In(q \o r) = In(q) \cup In(r)
    /\ \A q \in Seq(Event) :
          q # <<>> => /\ Head(q) \in In(q) /\ Head(q) \in Event
                      /\ Tail(q) \in Seq(Event) /\ In(Tail(q)) \subseteq In(q)
  <1>1. In(<<>>) = {}
    BY DEF In
  <1>2. ASSUME NEW q \in Seq(Event) PROVE In(q) \subseteq Event
    BY DEF In
  <1>3. ASSUME NEW q \in Seq(Event), NEW e \in Event
        PROVE  Append(q, e) \in Seq(Event) /\ In(Append(q, e)) = In(q) \cup {e}
    <2>1. /\ Append(q, e) \in Seq(Event) /\ DOMAIN Append(q, e) = 1..(Len(q) + 1)
          /\ DOMAIN q = 1..Len(q) /\ Len(q) \in Nat
          /\ \A i \in 1..Len(q) : Append(q, e)[i] = q[i]
          /\ Append(q, e)[Len(q) + 1] = e
      BY AppendProperties
    <2>2. QED BY <2>1 DEF In
  <1>4. ASSUME NEW q \in Seq(Event), NEW r \in Seq(Event)
        PROVE  q \o r \in Seq(Event) /\ In(q \o r) = In(q) \cup In(r)
    <2>1. /\ q \o r \in Seq(Event) /\ DOMAIN (q \o r) = 1..(Len(q) + Len(r))
          /\ DOMAIN q = 1..Len(q) /\ DOMAIN r = 1..Len(r)
          /\ Len(q) \in Nat /\ Len(r) \in Nat
          /\ \A i \in 1..(Len(q) + Len(r)) :
                (q \o r)[i] = IF i <= Len(q) THEN q[i] ELSE r[i - Len(q)]
      BY ConcatProperties
    <2>2. In(q \o r) \subseteq In(q) \cup In(r)
      BY <2>1 DEF In
    <2>3. In(q) \subseteq In(q \o r)
      BY <2>1 DEF In
    <2>4. ASSUME NEW j \in 1..Len(r) PROVE r[j] \in In(q \o r)
      <3>1. j + Len(q) \in DOMAIN (q \o r) /\ (q \o r)[j + Len(q)] = r[j]
        BY <2>1
      <3>2. QED BY <3>1 DEF In
    <2>5. In(r) \subseteq In(q \o r)
      BY <2>1, <2>4 DEF In
    <2>6. QED BY <2>1, <2>2, <2>3, <2>5
  <1>5. ASSUME NEW q \in Seq(Event), q # <<>>
        PROVE  /\ Head(q) \in In(q) /\ Head(q) \in Event
               /\ Tail(q) \in Seq(Event) /\ In(Tail(q)) \subseteq In(q)
    <2>1. /\ Len(q) \in Nat \ {0} /\ DOMAIN q = 1..Len(q) /\ Head(q) = q[1]
          /\ Tail(q) \in Seq(Event) /\ Len(Tail(q)) = Len(q) - 1
          /\ \A i \in 1..(Len(q) - 1) : Tail(q)[i] = q[i + 1]
      BY <1>5, HeadTailProperties, EmptySeq
    <2>2. DOMAIN Tail(q) = 1..(Len(q) - 1)
      BY <2>1
    <2>3. ASSUME NEW i \in DOMAIN Tail(q) PROVE Tail(q)[i] \in In(q)
      <3>1. i + 1 \in DOMAIN q /\ Tail(q)[i] = q[i + 1]
        BY <2>1, <2>2
      <3>2. QED BY <3>1 DEF In
    <2>4. QED BY <2>1, <2>3 DEF In
  <1>6. QED BY <1>1, <1>2, <1>3, <1>4, <1>5

-----------------------------------------------------------------------------
(***************************************************************************)
(* What a message of the bot does to its client and to what the server     *)
(* holds, without the order of the cases.                                  *)
(***************************************************************************)
Kinds == {"ready", "accept", "key", "mac", "done", "cancel"}

StillSays(t) == In(pending'[t]) = In(pending[t])

Says(t, kinds) ==
    \E e \in Event : e.kind \in kinds /\ e.obj = 0 /\ In(pending'[t]) = In(pending[t]) \cup {e}

SameCommit(t) == peer'[t].commit = peer[t].commit

Moved(t, kind, obj) ==
    \/ peer'[t].at = peer[t].at /\ SameCommit(t) /\ StillSays(t)
    \/ /\ kind = "ready" /\ peer[t].at = "asked" /\ peer'[t].at = "started"
       /\ SameCommit(t) /\ Says(t, {"start", "odd"})
    \/ /\ kind = "accept" /\ peer[t].at = "started" /\ peer'[t].at = "keyed"
       /\ peer'[t].commit = obj /\ Says(t, {"key"})
    \/ /\ kind = "key" /\ peer[t].at = "keyed" /\ peer[t].commit = obj
       /\ peer'[t].at = "confirming" /\ SameCommit(t) /\ StillSays(t)
    \/ /\ kind = "done" /\ peer[t].at = "confirmed" /\ peer'[t].at = "done"
       /\ SameCommit(t) /\ StillSays(t)
    \/ /\ ~Over(t) /\ peer'[t].at = "cancelled"
       /\ SameCommit(t) /\ (StillSays(t) \/ Says(t, {"cancel"}))

OthersStay(t) ==
    \A x \in Txns : x # t => peer'[x] = peer[x] /\ pending'[x] = pending[x]

PeerType == [Txns -> [at : Phase, commit : Nat, checked : BOOLEAN]]

LEMMA SaysOne ==
    ASSUME pending \in Queues, NEW t \in Txns,
           NEW kind \in {"request", "start", "odd", "key", "mac", "cancel"}, NEW obj \in Nat,
           ToBot(t, kind, obj)
    PROVE  /\ pending' \in Queues
           /\ [kind |-> kind, obj |-> obj] \in Event
           /\ In(pending'[t]) = In(pending[t]) \cup {[kind |-> kind, obj |-> obj]}
           /\ \A x \in Txns : x # t => pending'[x] = pending[x]
  <1> DEFINE e == [kind |-> kind, obj |-> obj]
  <1>1. e \in Event
    BY DEF Event
  <1>2. pending' = [pending EXCEPT ![t] = Append(@, e)]
    BY DEF ToBot
  <1> HIDE DEF e
  <1>3. pending[t] \in Seq(Event)
    BY DEF Queues
  <1>4. Append(pending[t], e) \in Seq(Event) /\ In(Append(pending[t], e)) = In(pending[t]) \cup {e}
    BY <1>1, <1>3, InFacts
  <1>5. /\ pending' \in Queues /\ In(pending'[t]) = In(pending[t]) \cup {e}
        /\ \A x \in Txns : x # t => pending'[x] = pending[x]
    BY <1>2, <1>4 DEF Queues
  <1>6. QED BY <1>1, <1>5 DEF e

LEMMA GoesOn ==
    ASSUME peer \in PeerType, NEW t \in Txns, NEW next \in Phase, Goes(t, next)
    PROVE  /\ peer' \in PeerType
           /\ peer'[t].at = next /\ SameCommit(t)
           /\ \A x \in Txns : x # t => peer'[x] = peer[x]
  BY DEF Goes, PeerType, SameCommit

LEMMA TellsMoves ==
    ASSUME peer \in PeerType, pending \in Queues, NEW t \in Txns, NEW kind \in Kinds, NEW obj \in Nat,
           Tells(t, kind, obj)
    PROVE  peer' \in PeerType /\ pending' \in Queues /\ OthersStay(t) /\ Moved(t, kind, obj)
  <1> DEFINE Goal == peer' \in PeerType /\ pending' \in Queues /\ OthersStay(t) /\ Moved(t, kind, obj)
             at == peer[t].at
  <1>1. CASE UNCHANGED <<peer, pending>>
    BY <1>1 DEF OthersStay, Moved, SameCommit, StillSays
  <1>2. ASSUME NEW next \in Phase, Goes(t, next),
               NEW k \in {"start", "odd", "cancel"}, ToBot(t, k, 0)
        PROVE  /\ peer' \in PeerType /\ pending' \in Queues /\ OthersStay(t)
               /\ peer'[t].at = next /\ SameCommit(t) /\ Says(t, {k})
    <2>1. [kind |-> k, obj |-> 0] \in Event /\ pending' \in Queues
          /\ In(pending'[t]) = In(pending[t]) \cup {[kind |-> k, obj |-> 0]}
          /\ \A x \in Txns : x # t => pending'[x] = pending[x]
      BY <1>2, SaysOne
    <2>2. QED BY <1>2, <2>1, GoesOn DEF Says, OthersStay
  <1>3. ASSUME NEW next \in Phase, Goes(t, next), UNCHANGED pending
        PROVE  /\ peer' \in PeerType /\ pending' \in Queues /\ OthersStay(t)
               /\ peer'[t].at = next /\ SameCommit(t) /\ StillSays(t)
    BY <1>3, GoesOn DEF OthersStay, StillSays
  <1>4. CASE kind = "ready" /\ at = "asked"
    <2>1. Goes(t, "started") /\ \E method \in {"start", "odd"} : ToBot(t, method, 0)
      BY <1>4 DEF Tells
    <2>2. PICK method \in {"start", "odd"} : ToBot(t, method, 0)
      BY <2>1
    <2>3. "started" \in Phase
      BY DEF Phase
    <2>4. Says(t, {method}) => Says(t, {"start", "odd"})
      BY <2>2 DEF Says
    <2>5. QED BY <1>2, <1>4, <2>1, <2>2, <2>3, <2>4 DEF Moved
  <1>5. CASE kind = "accept" /\ at = "started"
    <2>1. peer' = [peer EXCEPT ![t].at = "keyed", ![t].commit = obj] /\ ToBot(t, "key", 0)
      BY <1>5 DEF Tells
    <2>2. /\ peer' \in PeerType /\ peer'[t].at = "keyed" /\ peer'[t].commit = obj
          /\ \A x \in Txns : x # t => peer'[x] = peer[x]
      BY <2>1 DEF PeerType, Phase
    <2>3. /\ [kind |-> "key", obj |-> 0] \in Event /\ pending' \in Queues
          /\ In(pending'[t]) = In(pending[t]) \cup {[kind |-> "key", obj |-> 0]}
          /\ \A x \in Txns : x # t => pending'[x] = pending[x]
      BY <2>1, SaysOne
    <2>4. Says(t, {"key"})
      BY <2>3 DEF Says
    <2>5. QED BY <1>5, <2>2, <2>3, <2>4 DEF Moved, OthersStay
  <1>6. CASE kind = "key" /\ at = "keyed" /\ obj = peer[t].commit
    <2>1. Goes(t, "confirming") /\ UNCHANGED pending
      BY <1>6 DEF Tells
    <2>2. "confirming" \in Phase
      BY DEF Phase
    <2>3. QED BY <1>3, <1>6, <2>1, <2>2 DEF Moved
  <1>7. CASE /\ kind \in {"key", "mac"} /\ at \in {"keyed", "confirming", "confirmed"}
             /\ obj # peer[t].commit
    <2>1. Goes(t, "cancelled") /\ ToBot(t, "cancel", 0)
      BY <1>7 DEF Tells
    <2>2. "cancelled" \in Phase /\ ~Over(t)
      BY <1>7 DEF Phase, Over
    <2>3. QED BY <1>2, <2>1, <2>2 DEF Moved
  <1>8. CASE kind = "mac" /\ at \in {"confirming", "confirmed"} /\ obj = peer[t].commit
    <2>1. peer' = [peer EXCEPT ![t].checked = TRUE] /\ UNCHANGED pending
      BY <1>8 DEF Tells
    <2>2. /\ peer' \in PeerType /\ peer'[t].at = peer[t].at /\ SameCommit(t)
          /\ \A x \in Txns : x # t => peer'[x] = peer[x]
      BY <2>1 DEF PeerType, SameCommit
    <2>3. QED BY <2>1, <2>2 DEF Moved, OthersStay, StillSays
  <1>9. CASE kind = "done" /\ at = "confirmed" /\ peer[t].checked
    <2>1. Goes(t, "done") /\ UNCHANGED pending
      BY <1>9 DEF Tells
    <2>2. "done" \in Phase
      BY DEF Phase
    <2>3. QED BY <1>3, <1>9, <2>1, <2>2 DEF Moved
  <1>10. CASE kind = "cancel" /\ ~Over(t)
    <2>1. Goes(t, "cancelled") /\ UNCHANGED pending
      BY <1>10 DEF Tells
    <2>2. "cancelled" \in Phase
      BY DEF Phase
    <2>3. QED BY <1>3, <1>10, <2>1, <2>2 DEF Moved
  <1>11. CASE /\ ~(kind = "ready" /\ at = "asked") /\ ~(kind = "accept" /\ at = "started")
              /\ ~(kind = "key" /\ at = "keyed" /\ obj = peer[t].commit)
              /\ ~(/\ kind \in {"key", "mac"} /\ at \in {"keyed", "confirming", "confirmed"}
                   /\ obj # peer[t].commit)
              /\ ~(kind = "mac" /\ at \in {"confirming", "confirmed"} /\ obj = peer[t].commit)
              /\ ~(kind = "done" /\ at = "confirmed" /\ peer[t].checked)
              /\ ~(kind = "cancel" /\ ~Over(t))
    <2>1. UNCHANGED <<peer, pending>>
      BY <1>11 DEF Tells
    <2>2. QED BY <1>1, <2>1
  <1>12. QED BY <1>4, <1>5, <1>6, <1>7, <1>8, <1>9, <1>10, <1>11, Zenon

LEMMA Abandoned ==
    ASSUME abandoned \subseteq Txns
    PROVE  /\ Cardinality(abandoned) \in Nat
           /\ \A t \in Txns : /\ Cardinality(abandoned \cup {t}) \in Nat
                              /\ Cardinality(abandoned \cup {t}) <= Cardinality(abandoned) + 1
  <1>1. IsFiniteSet(abandoned)
    <2>1. IsFiniteSet(Txns)
      BY SasBounds, FS_Interval DEF Txns
    <2>2. QED BY <2>1, FS_Subset
  <1>2. Cardinality(abandoned) \in Nat
    BY <1>1, FS_CardinalityType
  <1>3. ASSUME NEW t \in Txns
        PROVE  /\ Cardinality(abandoned \cup {t}) \in Nat
               /\ Cardinality(abandoned \cup {t}) <= Cardinality(abandoned) + 1
    <2>1. /\ IsFiniteSet(abandoned \cup {t})
          /\ \/ Cardinality(abandoned \cup {t}) = Cardinality(abandoned)
             \/ Cardinality(abandoned \cup {t}) = Cardinality(abandoned) + 1
      BY <1>1, FS_AddElement
    <2>2. QED BY <1>2, <2>1
  <1>4. QED BY <1>2, <1>3

\* What a request of the bot that may raise does, the failures counted.
Asked(t, kind, obj) ==
    /\ peer' \in PeerType /\ pending' \in Queues
    /\ OthersStay(t) /\ Moved(t, kind, obj)
    /\ fails' \in Nat /\ fails' + restarts + Cardinality(abandoned) <= MaxMishaps

LEMMA Types ==
    ASSUME TypeOK
    PROVE  /\ peer \in PeerType /\ pending \in Queues /\ batch \in Queues /\ ready \in Queues
           /\ fails \in Nat /\ restarts \in Nat /\ Cardinality(abandoned) \in Nat /\ MaxMishaps \in Nat
           /\ fails + restarts + Cardinality(abandoned) <= MaxMishaps
           /\ \A t \in Txns : sessions[t] \in Nat /\ made[t] \in Nat /\ sessions[t] <= made[t]
           /\ \A t \in Txns : /\ peer[t].at \in Phase /\ peer[t].commit \in Nat
                              /\ pending[t] \in Seq(Event) /\ batch[t] \in Seq(Event)
                              /\ ready[t] \in Seq(Event)
           /\ \A k \in tasks : k \in Task /\ k.txn \in Txns /\ k.obj \in Nat /\ DeviceOf(k) \in Devices
  <1>1. \A k \in tasks : k \in Task /\ k.txn \in Txns /\ k.obj \in Nat
    BY DEF TypeOK, Task
  <1>2. \A k \in tasks : DeviceOf(k) \in Devices
    BY <1>1 DEF TypeOK, DeviceOf
  <1>3. Cardinality(abandoned) \in Nat
    BY Abandoned DEF TypeOK
  <1>4. peer \in PeerType
    BY DEF TypeOK, PeerType
  <1>5. /\ pending \in Queues /\ batch \in Queues /\ ready \in Queues
        /\ fails \in Nat /\ restarts \in Nat
        /\ fails + restarts + Cardinality(abandoned) <= MaxMishaps
        /\ \A t \in Txns : sessions[t] \in Nat /\ made[t] \in Nat /\ sessions[t] <= made[t]
    BY DEF TypeOK, Mishaps
  <1>6. \A t \in Txns : peer[t].at \in Phase /\ peer[t].commit \in Nat
    BY <1>4 DEF PeerType
  <1>7. \A t \in Txns : /\ pending[t] \in Seq(Event) /\ batch[t] \in Seq(Event)
                        /\ ready[t] \in Seq(Event)
    BY <1>5 DEF Queues
  <1>8. QED BY <1>1, <1>2, <1>3, <1>4, <1>5, <1>6, <1>7, SasBounds

LEMMA TryAsks ==
    ASSUME TypeOK, NEW t \in Txns, NEW kind \in Kinds, NEW obj \in Nat,
           Sends(t, kind, obj) \/ MayFail(t, kind, obj)
    PROVE  Asked(t, kind, obj)
  <1>1. Tells(t, kind, obj) \/ UNCHANGED <<peer, pending>>
    BY DEF Sends, MayFail
  <1>2. peer' \in PeerType /\ pending' \in Queues /\ OthersStay(t) /\ Moved(t, kind, obj)
    <2>1. CASE Tells(t, kind, obj)
      BY <2>1, Types, TellsMoves
    <2>2. CASE UNCHANGED <<peer, pending>>
      BY <2>2, Types DEF OthersStay, Moved, SameCommit, StillSays
    <2>3. QED BY <1>1, <2>1, <2>2
  <1>3. \/ fails' = fails
        \/ fails' = fails + 1 /\ fails + restarts + Cardinality(abandoned) < MaxMishaps
    BY DEF Sends, MayFail, Raises, MishapLeft, Mishaps
  <1>4. QED BY <1>2, <1>3, Types DEF Asked

LEMMA Made ==
    ASSUME TypeOK, NEW t \in Txns, GetOrCreate(t)
    PROVE  /\ sessions' \in [Txns -> Nat] /\ made' \in [Txns -> Nat]
           /\ \A x \in Txns : sessions'[x] <= made'[x] /\ made[x] <= made'[x]
           /\ \A x \in Txns : x # t => sessions'[x] = sessions[x] /\ made'[x] = made[x]
           /\ sessions'[t] \in Nat /\ sessions'[t] # 0
           /\ \/ sessions[t] # 0 /\ sessions'[t] = sessions[t] /\ made'[t] = made[t]
              \/ sessions[t] = 0 /\ sessions'[t] = made[t] + 1 /\ made'[t] = made[t] + 1
  <1>1. /\ sessions \in [Txns -> Nat] /\ made \in [Txns -> Nat]
        /\ \A x \in Txns : sessions[x] <= made[x] /\ sessions[x] \in Nat /\ made[x] \in Nat
    BY DEF TypeOK
  <1>2. CASE sessions[t] = 0
    <2>1. /\ sessions' = [sessions EXCEPT ![t] = made[t] + 1]
          /\ made' = [made EXCEPT ![t] = @ + 1]
      BY <1>2 DEF GetOrCreate
    <2>2. QED BY <1>1, <1>2, <2>1
  <1>3. CASE sessions[t] # 0
    <2>1. sessions' = sessions /\ made' = made
      BY <1>3 DEF GetOrCreate
    <2>2. QED BY <1>1, <1>3, <2>1
  <1>4. QED BY <1>2, <1>3

(***************************************************************************)
(* The event that is handled, and the stretch that follows an await, keep  *)
(* the types of what they change.                                          *)
(***************************************************************************)
Handled(t) ==
    LET e == Head(ready[t]) IN
       \/ e.kind = "request" /\ OnRequest(t)
       \/ e.kind = "start"   /\ OnStart(t)
       \/ e.kind = "odd"     /\ OnOdd(t)
       \/ e.kind = "key"     /\ OnKey(t)
       \/ e.kind = "mac"     /\ OnMac(t, e.obj)
       \/ e.kind = "cancel"  /\ OnCancel(t)

SessionTypes ==
    /\ sessions \in [Txns -> Nat] /\ made \in [Txns -> Nat]
    /\ \A t \in Txns : sessions[t] <= made[t]
    /\ keyed \subseteq {p \in Txns \X Nat : p[2] \in 1..made[p[1]]}
    /\ tasks \subseteq Task /\ \A k \in tasks : k.obj \in 1..made[k.txn]

LEMMA WaitTypes ==
    ASSUME SessionTypes, NEW t \in Txns, NEW obj \in 1..made[t], NEW at \in Stage, NEW mac \in Nat,
           Wait(t, obj, at, mac), UNCHANGED made
    PROVE  tasks' \subseteq Task /\ \A k \in tasks' : k.obj \in 1..made'[k.txn]
  <1> DEFINE w == [txn |-> t, obj |-> obj, at |-> at, mac |-> mac]
  <1>1. w \in Task /\ w.obj = obj /\ w.txn = t
    BY DEF Task, SessionTypes
  <1>2. tasks' = tasks \cup {w}
    BY DEF Wait
  <1> HIDE DEF w
  <1>3. QED BY <1>1, <1>2 DEF SessionTypes

LEMMA HandledTypes ==
    ASSUME TypeOK, NEW t \in Txns, ready[t] # <<>>, Handled(t)
    PROVE  /\ peer' \in PeerType /\ pending' \in Queues
           /\ SessionTypes' /\ refused' \subseteq Txns
           /\ fails' \in Nat /\ fails' + restarts + Cardinality(abandoned) <= MaxMishaps
  <1> DEFINE e == Head(ready[t])
  <1>0. /\ e \in Event /\ SessionTypes /\ sessions[t] \in Nat /\ refused \subseteq Txns
        /\ sessions[t] <= made[t] /\ made[t] \in Nat
    BY Types, InFacts DEF TypeOK, SessionTypes
  <1>1. ASSUME NEW kind \in Kinds, GetOrCreate(t), Try(t, kind, sessions'[t]),
               UNCHANGED <<keyed, tasks>>
        PROVE  /\ peer' \in PeerType /\ pending' \in Queues /\ SessionTypes'
               /\ fails' \in Nat /\ fails' + restarts + Cardinality(abandoned) <= MaxMishaps
    <2>1. /\ sessions' \in [Txns -> Nat] /\ made' \in [Txns -> Nat]
          /\ \A x \in Txns : sessions'[x] <= made'[x] /\ made[x] <= made'[x]
          /\ sessions'[t] \in Nat
      BY <1>1, Made
    <2>2. Asked(t, kind, sessions'[t])
      BY <1>1, <2>1, TryAsks DEF Try
    <2>3. SessionTypes'
      <3>0. \A x \in Txns : 1..made[x] \subseteq 1..made'[x]
        BY <1>0, <2>1 DEF SessionTypes
      <3>1. ASSUME NEW p \in keyed PROVE p \in Txns \X Nat /\ p[2] \in 1..made'[p[1]]
        <4>1. p \in Txns \X Nat /\ p[1] \in Txns /\ p[2] \in 1..made[p[1]]
          BY <1>0 DEF SessionTypes
        <4>2. QED BY <3>0, <4>1
      <3>2. ASSUME NEW k \in tasks PROVE k \in Task /\ k.obj \in 1..made'[k.txn]
        <4>1. k \in Task /\ k.txn \in Txns /\ k.obj \in 1..made[k.txn]
          BY <1>0 DEF SessionTypes, Task
        <4>2. QED BY <3>0, <4>1
      <3>3. QED BY <1>1, <2>1, <3>1, <3>2 DEF SessionTypes
    <2>4. QED BY <2>2, <2>3 DEF Asked
  <1>2. CASE OnRequest(t) \/ OnStart(t) \/ OnOdd(t)
    <2>1. refused' \subseteq Txns
      BY <1>0, <1>2 DEF OnRequest, OnStart, OnOdd
    <2>2. QED BY <1>1, <1>2, <2>1 DEF OnRequest, OnStart, OnOdd, Kinds
  <1>3. CASE OnKey(t) /\ sessions[t] # 0
    <2>1. /\ keyed' = keyed \cup {<<t, sessions[t]>>}
          /\ \/ Sends(t, "key", sessions[t]) /\ Wait(t, sessions[t], "mac", 0)
             \/ MayFail(t, "key", sessions[t]) /\ UNCHANGED tasks
          /\ UNCHANGED <<sessions, made, refused>>
      BY <1>3 DEF OnKey
    <2>2. Asked(t, "key", sessions[t])
      BY <1>0, <2>1, TryAsks DEF Kinds
    <2>3. sessions[t] \in 1..made[t]
      BY <1>0, <1>3
    <2>4. tasks' \subseteq Task /\ \A k \in tasks' : k.obj \in 1..made'[k.txn]
      <3>1. CASE Wait(t, sessions[t], "mac", 0)
        BY <1>0, <2>1, <2>3, <3>1, WaitTypes DEF Stage
      <3>2. CASE UNCHANGED tasks
        BY <1>0, <2>1, <3>2 DEF SessionTypes
      <3>3. QED BY <2>1, <3>1, <3>2
    <2>5. SessionTypes'
      BY <1>0, <2>1, <2>3, <2>4 DEF SessionTypes
    <2>6. QED BY <1>0, <2>1, <2>2, <2>5 DEF Asked
  <1>4. CASE OnMac(t, e.obj) /\ sessions[t] # 0
    <2>1. /\ Wait(t, sessions[t], "lookup", e.obj)
          /\ UNCHANGED <<peer, pending, sessions, made, keyed, refused, fails>>
      BY <1>4 DEF OnMac
    <2>2. sessions[t] \in 1..made[t] /\ e.obj \in Nat
      BY <1>0, <1>4 DEF Event
    <2>3. tasks' \subseteq Task /\ \A k \in tasks' : k.obj \in 1..made'[k.txn]
      BY <1>0, <2>1, <2>2, WaitTypes DEF Stage
    <2>4. SessionTypes'
      BY <1>0, <2>1, <2>3 DEF SessionTypes
    <2>5. QED BY <1>0, <2>1, <2>4, Types
  <1>5. CASE (OnKey(t) \/ OnMac(t, e.obj)) /\ sessions[t] = 0
    <2>1. UNCHANGED <<peer, pending, sessions, made, keyed, tasks, refused, fails>>
      BY <1>5 DEF OnKey, OnMac
    <2>2. QED BY <1>0, <2>1, Types DEF SessionTypes
  <1>6. CASE OnCancel(t)
    <2>1. /\ sessions' = [sessions EXCEPT ![t] = 0]
          /\ UNCHANGED <<peer, pending, made, keyed, tasks, refused, fails>>
      BY <1>6 DEF OnCancel
    <2>2. QED BY <1>0, <2>1, Types DEF SessionTypes
  <1>7. QED BY <1>2, <1>3, <1>4, <1>5, <1>6 DEF Handled

LEMMA TaskTypes ==
    ASSUME TypeOK, UNCHANGED made, NEW k \in tasks,
           Ends(k) \/ (\E at \in Stage : Becomes(k, at)) \/ Judge(k)
    PROVE  tasks' \subseteq Task /\ \A l \in tasks' : l.obj \in 1..made'[l.txn]
  <1>0. k \in Task /\ tasks \subseteq Task /\ \A l \in tasks : l.obj \in 1..made[l.txn]
    BY DEF TypeOK
  <1>1. CASE Ends(k)
    BY <1>0, <1>1 DEF Ends
  <1>2. ASSUME NEW at \in Stage, Becomes(k, at)
        PROVE  tasks' \subseteq Task /\ \A l \in tasks' : l.obj \in 1..made'[l.txn]
    <2> DEFINE w == [k EXCEPT !.at = at]
    <2>1. w \in Task /\ w.obj = k.obj /\ w.txn = k.txn
      BY <1>0 DEF Task
    <2>2. tasks' = (tasks \ {k}) \cup {w}
      BY <1>2 DEF Becomes
    <2> HIDE DEF w
    <2>3. QED BY <1>0, <2>1, <2>2
  <1>3. Judge(k) => Ends(k) \/ \E at \in Stage : Becomes(k, at)
    BY DEF Judge, Stage
  <1>4. QED BY <1>1, <1>2, <1>3

LEMMA PopTypes ==
    ASSUME TypeOK, NEW t \in Txns, sessions' = sessions \/ Pops(t), UNCHANGED made
    PROVE  sessions' \in [Txns -> Nat] /\ \A x \in Txns : sessions'[x] <= made'[x]
  BY DEF TypeOK, Pops

LEMMA PutTypes ==
    ASSUME TypeOK, NEW d \in Devices, NEW trust \in {"unverified", "verified"}, PutDevice(d, trust)
    PROVE  store' \in [Devices -> Trust] /\ replaced' \subseteq Devices /\ halfway' \subseteq Devices
  <1>1. store \in [Devices -> Trust] /\ replaced \subseteq Devices /\ halfway \subseteq Devices
    BY DEF TypeOK
  <1>2. store' \in [Devices -> Trust]
    BY <1>1 DEF PutDevice, Trust
  <1>3. replaced' \subseteq Devices /\ halfway' \subseteq Devices
    BY <1>1 DEF PutDevice
  <1>4. QED BY <1>2, <1>3

SasStep == Next \/ UNCHANGED vars

(***************************************************************************)
(* Every step keeps the types of the verifications.                        *)
(***************************************************************************)
LEMMA StepSasType == TypeOK /\ SasStep => TypeOK'
  <1> SUFFICES ASSUME TypeOK, SasStep PROVE TypeOK'
    OBVIOUS
  <1> USE DEF PeerType
  <1>0. /\ peer \in PeerType /\ pending \in Queues /\ batch \in Queues /\ ready \in Queues
        /\ fails \in Nat /\ restarts \in Nat /\ Cardinality(abandoned) \in Nat /\ MaxMishaps \in Nat
        /\ fails + restarts + Cardinality(abandoned) <= MaxMishaps
    BY Types
  <1>1. ASSUME NEW t \in Txns, Ask(t) \/ Confirm(t) PROVE TypeOK'
    <2>1. UNCHANGED <<device, batch, made, store, memory, history>>
      BY <1>1 DEF Ask, Confirm, OnlyTheClient
    <2>2. peer' \in PeerType /\ pending' \in Queues
      <3>1. CASE Ask(t)
        <4>1. Goes(t, "asked") /\ ToBot(t, "request", 0) /\ "asked" \in Phase
          BY <3>1 DEF Ask, Phase
        <4>2. QED BY <1>0, <4>1, GoesOn, SaysOne
      <3>2. CASE Confirm(t)
        <4>1. Goes(t, "confirmed") /\ ToBot(t, "mac", peer[t].commit) /\ "confirmed" \in Phase
          BY <3>2 DEF Confirm, Phase
        <4>2. peer[t].commit \in Nat
          BY Types
        <4>3. QED BY <1>0, <4>1, <4>2, GoesOn, SaysOne
      <3>3. QED BY <1>1, <3>1, <3>2
    <2>3. QED BY <2>1, <2>2 DEF TypeOK, memory, history, Mishaps
  <1>2. ASSUME NEW t \in Txns, GiveUp(t) PROVE TypeOK'
    <2>1. Goes(t, "cancelled") /\ ToBot(t, "cancel", 0) /\ "cancelled" \in Phase
      BY <1>2 DEF GiveUp, Phase
    <2>2. peer' \in PeerType /\ pending' \in Queues
      BY <1>0, <2>1, GoesOn, SaysOne
    <2>3. abandoned' \subseteq Txns /\ Mishaps' <= MaxMishaps
      <3>1. /\ abandoned \subseteq Txns /\ abandoned' = abandoned \cup {t}
            /\ fails + restarts + Cardinality(abandoned) < MaxMishaps
            /\ UNCHANGED <<fails, restarts>>
        BY <1>2 DEF GiveUp, MishapLeft, Mishaps, TypeOK
      <3>2. QED BY <1>0, <3>1, Abandoned DEF Mishaps
    <2>4. QED BY <1>2, <2>2, <2>3 DEF GiveUp, TypeOK, memory
  <1>3. CASE Sync
    <2>1. NoEvents \in Queues
      BY EmptySeq DEF NoEvents, Queues
    <2>2. QED BY <1>0, <1>3, <2>1 DEF Sync, TypeOK, clients, history, Mishaps
  <1>4. CASE Restart
    <2>1. NoEvents \in Queues
      BY EmptySeq DEF NoEvents, Queues
    <2>2. pending' \in Queues
      <3>1. \A t \in Txns : batch[t] \o pending[t] \in Seq(Event)
        BY Types, InFacts
      <3>2. QED BY <1>4, <3>1 DEF Restart, Queues
    <2>3. restarts' \in Nat /\ Mishaps' <= MaxMishaps
      BY <1>0, <1>4 DEF Restart, MishapLeft, Mishaps
    <2>4. sessions' \in [Txns -> Nat] /\ \A t \in Txns : sessions'[t] <= made'[t]
      BY <1>4 DEF Restart, TypeOK
    <2>5. halfway' \subseteq Devices
      BY <1>4 DEF Restart, TypeOK
    <2>6. QED BY <1>4, <2>1, <2>2, <2>3, <2>4, <2>5 DEF Restart, TypeOK, clients
  <1>5. ASSUME NEW t \in Txns, Begin(t) PROVE TypeOK'
    <2>1. /\ ready[t] # <<>> /\ Handled(t) /\ ready' = [ready EXCEPT ![t] = Tail(@)]
          /\ UNCHANGED <<device, batch, store, told, replaced, halfway, restarts, abandoned>>
      BY <1>5 DEF Begin, Handled
    <2>2. ready' \in Queues
      <3>1. Tail(ready[t]) \in Seq(Event)
        BY <2>1, Types, InFacts
      <3>2. QED BY <1>0, <2>1, <3>1 DEF Queues
    <2>3. /\ peer' \in PeerType /\ pending' \in Queues /\ SessionTypes' /\ refused' \subseteq Txns
          /\ fails' \in Nat /\ fails' + restarts + Cardinality(abandoned) <= MaxMishaps
      BY <2>1, HandledTypes
    <2>4. QED BY <2>1, <2>2, <2>3 DEF TypeOK, SessionTypes, Mishaps
  <1>6. ASSUME NEW k \in tasks, SendOurMac(k) \/ SendCancel(k) \/ SendDone(k) PROVE TypeOK'
    <2>0. k.txn \in Txns /\ k.obj \in Nat
      BY Types
    <2>1. /\ Ends(k) /\ (sessions' = sessions \/ Pops(k.txn))
          /\ UNCHANGED <<device, batch, made, store, ready, keyed, refused, replaced, halfway,
                         restarts, abandoned>>
          /\ told' \subseteq told \cup {k.txn}
          /\ \E kind \in Kinds : Sends(k.txn, kind, k.obj) \/ MayFail(k.txn, kind, k.obj)
      BY <1>6 DEF SendOurMac, SendCancel, SendDone, Try, Kinds
    <2>2. \E kind \in Kinds : Asked(k.txn, kind, k.obj)
      BY <2>0, <2>1, TryAsks
    <2>3. tasks' \subseteq Task /\ \A l \in tasks' : l.obj \in 1..made'[l.txn]
      BY <2>1, TaskTypes
    <2>4. sessions' \in [Txns -> Nat] /\ \A x \in Txns : sessions'[x] <= made'[x]
      BY <2>0, <2>1, PopTypes
    <2>5. QED BY <2>0, <2>1, <2>2, <2>3, <2>4 DEF TypeOK, Asked, Mishaps
  <1>7. ASSUME NEW k \in tasks, Lookup(k) \/ Query(k) PROVE TypeOK'
    <2>1. /\ Ends(k) \/ (\E at \in Stage : Becomes(k, at)) \/ Judge(k)
          /\ UNCHANGED <<clients, pending, batch, made, ready, sessions, keyed, store, told, refused,
                         replaced, halfway, restarts, abandoned>>
          /\ fails' = fails \/ Raises
      BY <1>7 DEF Lookup, Query, Stage, history
    <2>2. tasks' \subseteq Task /\ \A l \in tasks' : l.obj \in 1..made'[l.txn]
      BY <2>1, TaskTypes
    <2>3. fails' \in Nat /\ Mishaps' <= MaxMishaps
      BY <1>0, <2>1 DEF Raises, MishapLeft, Mishaps
    <2>4. QED BY <2>1, <2>2, <2>3 DEF TypeOK, clients
  <1>8. ASSUME NEW k \in tasks, PutNew(k) \/ PutTrust(k) PROVE TypeOK'
    <2>1. /\ Ends(k) \/ (\E at \in Stage : Becomes(k, at)) \/ Judge(k)
          /\ \E trust \in {"unverified", "verified"} : PutDevice(DeviceOf(k), trust)
          /\ UNCHANGED <<clients, pending, batch, made, ready, sessions, keyed, told, refused, fails,
                         restarts, abandoned>>
      BY <1>8 DEF PutNew, PutTrust, Stage
    <2>2. tasks' \subseteq Task /\ \A l \in tasks' : l.obj \in 1..made'[l.txn]
      BY <2>1, TaskTypes
    <2>3. store' \in [Devices -> Trust] /\ replaced' \subseteq Devices /\ halfway' \subseteq Devices
      BY <2>1, Types, PutTypes
    <2>4. QED BY <2>1, <2>2, <2>3 DEF TypeOK, clients, Mishaps
  <1>9. CASE UNCHANGED vars
    BY <1>9 DEF vars, clients, memory, history, TypeOK, Mishaps
  <1>10. QED BY <1>1, <1>2, <1>3, <1>4, <1>5, <1>6, <1>7, <1>8, <1>9
         DEF SasStep, Next, PeerStep, BeginStep, TaskStep

-----------------------------------------------------------------------------
(***************************************************************************)
(* The order of a client's events, and the session it committed to.        *)
(***************************************************************************)
LEMMA Ranks ==
    \A e \in Event :
        /\ Rank(e) \in 1..5
        /\ Makes(e) <=> Rank(e) <= 2
        /\ e.kind = "request" <=> Rank(e) = 1
        /\ e.kind \in {"start", "odd"} <=> Rank(e) = 2
        /\ e.kind = "key" <=> Rank(e) = 3
        /\ e.kind = "mac" <=> Rank(e) = 4
        /\ e.kind = "cancel" <=> Rank(e) = 5
  BY DEF Rank, Makes, Event

LEMMA HeldEvents ==
    ASSUME TypeOK, NEW t \in Txns
    PROVE  In(batch[t]) \subseteq Event /\ In(pending[t]) \subseteq Event
  BY Types, InFacts

(***************************************************************************)
(* What the bot's messages and their answers leave of it: a message of the *)
(* session that stays, of one made by an event of the batch, an "accept"   *)
(* in answer to a start, a key in answer to a key.                         *)
(***************************************************************************)
LEMMA AnswerKeeps ==
    ASSUME TypeOK, NEW t \in Txns, TxnSound(t), peer'[t].commit \in Nat,
           NEW kind, NEW obj, Moved(t, kind, obj),
           UNCHANGED batch, In(ready'[t]) \subseteq In(ready[t]),
           made'[t] \in Nat, made[t] <= made'[t], keyed \subseteq keyed',
           \/ sessions'[t] \in {0, sessions[t]}
           \/ sessions'[t] = made[t] + 1 /\ \E e \in In(batch[t]) : Makes(e),
           kind = "accept" => /\ obj = sessions'[t] /\ obj <= made'[t]
                              /\ \E e \in In(batch[t]) : Rank(e) = 2,
           kind = "key" => /\ obj = sessions[t] /\ obj # 0 /\ <<t, obj>> \in keyed'
                           /\ \E e \in In(batch[t]) : Rank(e) = 3,
           kind = "key" => sessions'[t] = sessions[t]
    PROVE  TxnSound(t)'
  <1> USE DEF TxnSound
  <1>0. /\ sessions[t] \in Nat /\ made[t] \in Nat /\ sessions[t] <= made[t]
        /\ peer[t].commit \in Nat /\ peer[t].at \in Phase
        /\ In(batch[t]) \subseteq Event /\ In(pending[t]) \subseteq Event
    BY Types, HeldEvents
  <1>a. /\ In(ready[t]) \subseteq In(batch[t])
        /\ \A e \in In(batch[t]) : Rank(e) <= Level(peer[t].at)
        /\ \A e \in In(pending[t]) : Rank(e) <= Level(peer[t].at)
        /\ \A e \in In(batch[t]), f \in In(pending[t]) : Rank(e) < Rank(f)
        /\ \A e \in In(batch[t]) : e.kind = "mac" => e.obj = peer[t].commit
        /\ \A e \in In(pending[t]) : e.kind = "mac" => e.obj = peer[t].commit
    BY DEF Ordered, Held
  <1>b. /\ peer[t].commit <= made[t]
        /\ peer[t].at \in {"idle", "asked", "started"} => peer[t].commit = 0
        /\ sessions[t] # 0 /\ sessions[t] = peer[t].commit =>
              /\ \A f \in In(pending[t]) : Rank(f) > 2
              /\ (\E e \in In(batch[t]) : Rank(e) = 3) => \A e \in In(batch[t]) : Rank(e) > 2
    BY <1>0, Ranks DEF CommitSound
  <1>c. /\ peer[t].at \in {"confirming", "confirmed", "done"} =>
              /\ \A e \in In(batch[t]) : Rank(e) > 2
              /\ \A e \in In(pending[t]) : Rank(e) > 2
              /\ sessions[t] # 0 =>
                    sessions[t] = peer[t].commit /\ <<t, sessions[t]>> \in keyed
        /\ (\E e \in In(batch[t]) \cup In(pending[t]) : Rank(e) = 4) =>
              /\ \A e \in In(batch[t]) : Rank(e) > 2
              /\ \A e \in In(pending[t]) : Rank(e) > 2
              /\ sessions[t] # 0 =>
                    sessions[t] = peer[t].commit /\ <<t, sessions[t]>> \in keyed
    BY <1>0, Ranks DEF CommitSound, Locked, Held
  <1>d. \/ sessions'[t] \in {0, sessions[t]}
        \/ sessions'[t] = made[t] + 1 /\ \E e \in In(batch[t]) : Rank(e) <= 2
    BY <1>0, Ranks
  <1>e. \A e \in Event : Rank(e) \in 1..5
    BY Ranks
  <1> DEFINE B == In(batch[t])
             P == In(pending[t])
             Q == In(pending'[t])
  \* It is enough to have the parts of the invariant with ranks in place of kinds.
  <1>f. ASSUME Q \subseteq Event,
               \A e \in B : Rank(e) <= Level(peer'[t].at),
               \A e \in Q : Rank(e) <= Level(peer'[t].at),
               \A e \in B, f \in Q : Rank(e) < Rank(f),
               \A e \in B \cup Q : Rank(e) = 4 => e.obj = peer'[t].commit,
               peer'[t].commit <= made'[t],
               peer'[t].at \in {"idle", "asked", "started"} => peer'[t].commit = 0,
               sessions'[t] # 0 /\ sessions'[t] = peer'[t].commit =>
                    /\ \A f \in Q : Rank(f) > 2
                    /\ (\E e \in B : Rank(e) = 3) => \A e \in B : Rank(e) > 2,
               (\/ peer'[t].at \in {"confirming", "confirmed", "done"}
                \/ \E e \in B \cup Q : Rank(e) = 4) =>
                    /\ \A e \in B \cup Q : Rank(e) > 2
                    /\ sessions'[t] # 0 =>
                          sessions'[t] = peer'[t].commit /\ <<t, sessions'[t]>> \in keyed'
        PROVE  TxnSound(t)'
    <2>1. \A e \in B \cup Q : /\ Makes(e) <=> Rank(e) <= 2
                              /\ e.kind = "key" <=> Rank(e) = 3
                              /\ e.kind = "mac" <=> Rank(e) = 4
                              /\ Rank(e) \in 1..5
      BY <1>0, <1>f, Ranks
    <2>2. Held(t)' = B \cup Q
      BY DEF Held
    <2>3. Ordered(t)'
      BY <1>a, <1>f, <2>1, <2>2 DEF Ordered
    <2>4. CommitSound(t)'
      BY <1>f, <2>1, <2>2 DEF CommitSound, Locked
    <2>5. QED BY <2>3, <2>4
  <1>1. CASE peer'[t].at = peer[t].at /\ SameCommit(t) /\ StillSays(t)
    <2>1. Q = P /\ peer'[t].commit = peer[t].commit
      BY <1>1 DEF StillSays, SameCommit
    <2>2. QED BY <1>0, <1>1, <1>a, <1>b, <1>c, <1>d, <1>e, <1>f, <2>1, Ranks
  <1>2. CASE /\ kind = "ready" /\ peer[t].at = "asked" /\ peer'[t].at = "started"
             /\ SameCommit(t) /\ Says(t, {"start", "odd"})
    <2>1. PICK e \in Event : e.kind \in {"start", "odd"} /\ Q = P \cup {e}
      BY <1>2 DEF Says
    <2>2. Rank(e) = 2 /\ peer'[t].commit = 0 /\ peer[t].commit = 0
      BY <1>2, <1>b, <2>1, Ranks DEF SameCommit
    <2>3. Level(peer[t].at) = 1 /\ Level(peer'[t].at) = 2
      BY <1>2 DEF Level
    <2>4. \A f \in B \cup Q : Rank(f) <= 2
      BY <1>0, <1>a, <1>e, <2>1, <2>2, <2>3
    <2>5. QED BY <1>0, <1>2, <1>a, <1>e, <1>f, <2>1, <2>2, <2>3, <2>4
  <1>3. CASE /\ kind = "accept" /\ peer[t].at = "started" /\ peer'[t].at = "keyed"
             /\ peer'[t].commit = obj /\ Says(t, {"key"})
    <2>1. PICK e \in Event : e.kind = "key" /\ Q = P \cup {e}
      BY <1>3 DEF Says
    <2>2. Rank(e) = 3
      BY <2>1, Ranks
    <2>3. Level(peer[t].at) = 2 /\ Level(peer'[t].at) = 3
      BY <1>3 DEF Level
    <2>4. \A f \in P : FALSE
      BY <1>0, <1>3, <1>a, <1>e, <2>3
    <2>5. QED BY <1>0, <1>3, <1>a, <1>e, <1>f, <2>1, <2>2, <2>3, <2>4
  <1>4. CASE /\ kind = "key" /\ peer[t].at = "keyed" /\ peer[t].commit = obj
             /\ peer'[t].at = "confirming" /\ SameCommit(t) /\ StillSays(t)
    <2>1. Q = P /\ peer'[t].commit = peer[t].commit
      BY <1>4 DEF StillSays, SameCommit
    <2>2. Level(peer[t].at) = 3 /\ Level(peer'[t].at) = 3
      BY <1>4 DEF Level
    <2>3. QED BY <1>0, <1>4, <1>a, <1>b, <1>e, <1>f, <2>1, <2>2
  <1>5. CASE /\ kind = "done" /\ peer[t].at = "confirmed" /\ peer'[t].at = "done"
             /\ SameCommit(t) /\ StillSays(t)
    <2>1. Q = P /\ peer'[t].commit = peer[t].commit
      BY <1>5 DEF StillSays, SameCommit
    <2>2. Level(peer[t].at) = 4 /\ Level(peer'[t].at) = 4
      BY <1>5 DEF Level
    <2>3. /\ \A e \in B \cup Q : Rank(e) > 2
          /\ sessions'[t] # 0 => /\ sessions'[t] = peer[t].commit
                                 /\ <<t, sessions'[t]>> \in keyed'
      BY <1>0, <1>5, <1>c, <1>d, <1>e, <2>1
    <2>4. \A e \in B \cup Q : Rank(e) = 4 => e.obj = peer'[t].commit
      BY <1>0, <1>a, <2>1, Ranks
    <2>5. QED BY <1>0, <1>5, <1>a, <1>b, <1>f, <2>1, <2>2, <2>3, <2>4
  <1>6. CASE /\ ~Over(t) /\ peer'[t].at = "cancelled"
             /\ SameCommit(t) /\ (StillSays(t) \/ Says(t, {"cancel"}))
    <2>1. Level(peer[t].at) <= 4 /\ Level(peer[t].at) \in Nat /\ Level(peer'[t].at) = 5
      BY <1>0, <1>6 DEF Level, Over, Phase
    <2>2. peer'[t].commit = peer[t].commit
      BY <1>6 DEF SameCommit
    <2>3. P \subseteq Q /\ \A e \in Q : e \in P \/ (e \in Event /\ Rank(e) = 5)
      <3>1. CASE StillSays(t)
        BY <3>1 DEF StillSays
      <3>2. CASE Says(t, {"cancel"})
        BY <3>2, Ranks DEF Says
      <3>3. QED BY <1>6, <3>1, <3>2
    <2>4. /\ Q \subseteq Event
          /\ \A e \in B \cup Q : Rank(e) <= Level(peer'[t].at)
          /\ \A e \in B, f \in Q : Rank(e) < Rank(f)
          /\ \A e \in B \cup Q : Rank(e) = 4 => e.obj = peer'[t].commit
      BY <1>0, <1>a, <1>e, <2>1, <2>2, <2>3, Ranks
    <2>5. sessions'[t] # 0 /\ sessions'[t] = peer'[t].commit =>
             /\ \A f \in Q : Rank(f) > 2
             /\ (\E e \in B : Rank(e) = 3) => \A e \in B : Rank(e) > 2
      BY <1>0, <1>b, <1>d, <2>2, <2>3
    <2>6. (\E e \in B \cup Q : Rank(e) = 4) =>
             /\ \A e \in B \cup Q : Rank(e) > 2
             /\ sessions'[t] # 0 =>
                   sessions'[t] = peer'[t].commit /\ <<t, sessions'[t]>> \in keyed'
      BY <1>0, <1>c, <1>d, <1>e, <2>2, <2>3
    <2>7. QED BY <1>0, <1>6, <1>b, <1>f, <2>2, <2>4, <2>5, <2>6
  <1>7. QED BY <1>1, <1>2, <1>3, <1>4, <1>5, <1>6 DEF Moved

LEMMA Unmoved ==
    ASSUME TypeOK, NEW t \in Txns, TxnSound(t),
           peer'[t] = peer[t], pending'[t] = pending[t], UNCHANGED batch,
           In(ready'[t]) \subseteq In(ready[t]), sessions'[t] \in {0, sessions[t]},
           made'[t] = made[t], keyed \subseteq keyed'
    PROVE  TxnSound(t)'
  <1>1. peer'[t].commit \in Nat /\ made'[t] \in Nat /\ made[t] <= made'[t]
    BY Types
  <1>2. Moved(t, "mac", 0)
    BY DEF Moved, SameCommit, StillSays
  <1>3. QED BY <1>1, <1>2, AnswerKeeps

\* The handler of an event of transaction t.
LEMMA BeginKeeps ==
    ASSUME TypeOK, NEW t \in Txns, TxnSound(t), Begin(t)
    PROVE  TxnSound(t)'
  <1> DEFINE e == Head(ready[t])
  <1>0. /\ ready[t] # <<>> /\ Handled(t) /\ ready' = [ready EXCEPT ![t] = Tail(@)]
        /\ UNCHANGED batch
    BY DEF Begin, Handled
  <1>1. /\ e \in Event /\ e \in In(batch[t]) /\ In(ready'[t]) \subseteq In(ready[t])
    <2>1. /\ ready[t] \in Seq(Event) /\ ready'[t] = Tail(ready[t])
      BY <1>0, Types DEF Queues
    <2>2. QED BY <1>0, <2>1, InFacts DEF TxnSound, Ordered
  <1>2. /\ peer'[t].commit \in Nat /\ sessions[t] \in Nat /\ made[t] \in Nat
        /\ sessions[t] <= made[t]
    <2>1. peer' \in PeerType
      BY <1>0, HandledTypes
    <2>2. QED BY <2>1, Types DEF PeerType
  <1>3. ASSUME NEW kind \in {"ready", "accept", "cancel"}, GetOrCreate(t),
               Try(t, kind, sessions'[t]), UNCHANGED keyed,
               Makes(e), kind = "accept" => Rank(e) = 2
        PROVE  TxnSound(t)'
    <2>1. /\ made'[t] \in Nat /\ made[t] <= made'[t] /\ sessions'[t] \in Nat
          /\ sessions'[t] <= made'[t]
          /\ sessions'[t] = sessions[t] \/ sessions'[t] = made[t] + 1
      BY <1>2, <1>3, Made
    <2>2. Moved(t, kind, sessions'[t])
      BY <1>3, <2>1, TryAsks DEF Try, Asked, Kinds
    <2>3. QED BY <1>0, <1>1, <1>2, <1>3, <2>1, <2>2, AnswerKeeps
  <1>4. CASE e.kind = "request" /\ OnRequest(t)
    BY <1>3, <1>4 DEF OnRequest, Makes
  <1>5. CASE e.kind = "start" /\ OnStart(t)
    BY <1>1, <1>3, <1>5, Ranks DEF OnStart, Makes
  <1>6. CASE e.kind = "odd" /\ OnOdd(t)
    BY <1>3, <1>6 DEF OnOdd, Makes
  <1>7. CASE e.kind = "key" /\ OnKey(t) /\ sessions[t] # 0
    <2>1. /\ keyed' = keyed \cup {<<t, sessions[t]>>}
          /\ Sends(t, "key", sessions[t]) \/ MayFail(t, "key", sessions[t])
          /\ UNCHANGED <<sessions, made>>
      BY <1>7 DEF OnKey
    <2>2. Moved(t, "key", sessions[t])
      BY <1>2, <2>1, TryAsks DEF Asked, Kinds
    <2>3. Rank(e) = 3
      BY <1>1, <1>7, Ranks
    <2>4. /\ In(ready'[t]) \subseteq In(ready[t]) /\ keyed \subseteq keyed'
          /\ <<t, sessions[t]>> \in keyed'
          /\ made'[t] \in Nat /\ made[t] <= made'[t] /\ sessions'[t] = sessions[t]
          /\ \E f \in In(batch[t]) : Rank(f) = 3
      BY <1>1, <1>2, <2>1, <2>3
    <2>5. "key" # "accept"
      OBVIOUS
    <2>6. QED BY <1>0, <1>2, <1>7, <2>2, <2>4, <2>5, AnswerKeeps
  <1>8. CASE (OnKey(t) /\ sessions[t] = 0) \/ OnMac(t, e.obj) \/ OnCancel(t)
    <2>1. /\ UNCHANGED <<peer, pending, made, keyed>>
          /\ sessions' = sessions \/ sessions' = [sessions EXCEPT ![t] = 0]
      BY <1>8 DEF OnKey, OnMac, OnCancel
    <2>2. sessions'[t] \in {0, sessions[t]}
      BY <2>1 DEF TypeOK
    <2>3. QED BY <1>0, <1>1, <2>1, <2>2, Unmoved
  <1>9. QED BY <1>0, <1>4, <1>5, <1>6, <1>7, <1>8 DEF Handled

LEMMA StepTxns ==
    ASSUME TypeOK, SasStep, NEW x \in Txns, TxnSound(x)
    PROVE  TxnSound(x)'
  <1>0. /\ peer \in PeerType /\ pending \in Queues /\ batch \in Queues /\ ready \in Queues
        /\ peer[x].at \in Phase /\ peer[x].commit \in Nat
        /\ sessions[x] \in Nat /\ made[x] \in Nat
        /\ In(batch[x]) \subseteq Event /\ In(pending[x]) \subseteq Event
    BY Types, HeldEvents
  <1>1. ASSUME NEW t \in Txns, Ask(t) PROVE TxnSound(x)'
    <2>1. /\ peer[t].at = "idle" /\ Goes(t, "asked") /\ ToBot(t, "request", 0)
          /\ "asked" \in Phase /\ UNCHANGED <<batch, made, ready, sessions, keyed>>
      BY <1>1 DEF Ask, OnlyTheClient, memory, Phase
    <2>2. CASE x = t
      <3> DEFINE e == [kind |-> "request", obj |-> 0]
      <3>1. /\ e \in Event /\ In(pending'[x]) = In(pending[x]) \cup {e}
            /\ peer'[x].at = "asked" /\ peer'[x].commit = peer[x].commit
        BY <1>0, <2>1, <2>2, SaysOne, GoesOn DEF SameCommit
      <3>2. Rank(e) = 1 /\ e.kind = "request"
        BY <3>1, Ranks
      <3> HIDE DEF e
      <3>3. Level(peer[x].at) = 0 /\ Level(peer'[x].at) = 1
        BY <2>1, <2>2, <3>1 DEF Level
      <3>4. \A f \in In(batch[x]) \cup In(pending[x]) : FALSE
        BY <1>0, <3>3, Ranks DEF TxnSound, Ordered, Held
      <3>5. Ordered(x)'
        BY <2>1, <3>1, <3>2, <3>3, <3>4 DEF TxnSound, Ordered, Held
      <3>6. ~Locked(x)' /\ peer[x].commit = 0
        BY <2>1, <2>2, <3>1, <3>2, <3>4 DEF TxnSound, Locked, Held, CommitSound
      <3>7. CommitSound(x)'
        BY <1>0, <2>1, <3>1, <3>6 DEF CommitSound, Makes
      <3>8. QED BY <3>5, <3>7 DEF TxnSound
    <2>3. CASE x # t
      <3>1. peer'[x] = peer[x] /\ pending'[x] = pending[x]
        BY <1>0, <2>1, <2>3, SaysOne, GoesOn
      <3>2. QED BY <2>1, <3>1, Unmoved
    <2>4. QED BY <2>2, <2>3
  <1>2. ASSUME NEW t \in Txns, Confirm(t) PROVE TxnSound(x)'
    <2>1. /\ peer[t].at = "confirming" /\ Goes(t, "confirmed")
          /\ ToBot(t, "mac", peer[t].commit) /\ peer[t].commit \in Nat
          /\ "confirmed" \in Phase /\ UNCHANGED <<batch, made, ready, sessions, keyed>>
      BY <1>2, Types DEF Confirm, OnlyTheClient, memory, Phase
    <2>2. CASE x = t
      <3> DEFINE e == [kind |-> "mac", obj |-> peer[x].commit]
      <3>1. /\ e \in Event /\ In(pending'[x]) = In(pending[x]) \cup {e}
            /\ peer'[x].at = "confirmed" /\ peer'[x].commit = peer[x].commit
        BY <1>0, <2>1, <2>2, SaysOne, GoesOn DEF SameCommit
      <3>2. Rank(e) = 4 /\ e.kind = "mac" /\ e.obj = peer[x].commit
        BY <3>1, Ranks
      <3> HIDE DEF e
      <3>3. Level(peer[x].at) = 3 /\ Level(peer'[x].at) = 4
        BY <2>1, <2>2, <3>1 DEF Level
      <3>4. Ordered(x)'
        BY <1>0, <2>1, <3>1, <3>2, <3>3, Ranks DEF TxnSound, Ordered, Held
      <3>5. Locked(x)
        BY <2>1, <2>2 DEF Locked
      <3>6. ~Makes(e)
        BY <3>2 DEF Makes
      <3>7. CommitSound(x)'
        BY <1>0, <2>1, <3>1, <3>5, <3>6 DEF TxnSound, CommitSound, Held
      <3>8. QED BY <3>4, <3>7 DEF TxnSound
    <2>3. CASE x # t
      <3>1. peer'[x] = peer[x] /\ pending'[x] = pending[x]
        BY <1>0, <2>1, <2>3, SaysOne, GoesOn
      <3>2. QED BY <2>1, <3>1, Unmoved
    <2>4. QED BY <2>2, <2>3
  <1>3. ASSUME NEW t \in Txns, GiveUp(t) PROVE TxnSound(x)'
    <2>1. /\ ~Over(t) /\ Goes(t, "cancelled") /\ ToBot(t, "cancel", 0)
          /\ "cancelled" \in Phase /\ UNCHANGED <<batch, made, ready, sessions, keyed>>
      BY <1>3 DEF GiveUp, memory, Phase
    <2>2. CASE x = t
      <3>1. Says(x, {"cancel"}) /\ SameCommit(x) /\ peer'[x].at = "cancelled"
        <4>1. /\ [kind |-> "cancel", obj |-> 0] \in Event
              /\ In(pending'[x]) = In(pending[x]) \cup {[kind |-> "cancel", obj |-> 0]}
          BY <1>0, <2>1, <2>2, SaysOne
        <4>2. QED BY <1>0, <2>1, <2>2, <4>1, GoesOn DEF Says
      <3>2. Moved(x, "cancel", 0) /\ peer'[x].commit \in Nat
        BY <1>0, <2>1, <2>2, <3>1 DEF Moved, SameCommit
      <3>3. /\ In(ready'[x]) \subseteq In(ready[x]) /\ keyed \subseteq keyed'
            /\ made'[x] \in Nat /\ made[x] <= made'[x]
            /\ sessions'[x] \in {0, sessions[x]} /\ UNCHANGED batch
        BY <1>0, <2>1
      <3>4. "cancel" # "accept" /\ "cancel" # "key"
        OBVIOUS
      <3>5. QED BY <3>2, <3>3, <3>4, AnswerKeeps
    <2>3. CASE x # t
      <3>1. peer'[x] = peer[x] /\ pending'[x] = pending[x]
        BY <1>0, <2>1, <2>3, SaysOne, GoesOn
      <3>2. QED BY <2>1, <3>1, Unmoved
    <2>4. QED BY <2>2, <2>3
  <1>4. CASE Sync
    <2>1. /\ batch'[x] = pending[x] /\ ready'[x] = pending[x] /\ In(pending'[x]) = {}
          /\ UNCHANGED <<peer, made, sessions, keyed>>
      BY <1>4, InFacts DEF Sync, NoEvents, clients
    <2>2. Held(x)' \subseteq Held(x)
      BY <2>1 DEF Held
    <2>3. Ordered(x)'
      BY <2>1, <2>2 DEF TxnSound, Ordered, Held
    <2>4. CommitSound(x)'
      BY <2>1, <2>2 DEF TxnSound, CommitSound, Locked
    <2>5. QED BY <2>3, <2>4 DEF TxnSound
  <1>5. CASE Restart
    <2>1. /\ In(batch'[x]) = {} /\ In(ready'[x]) = {}
          /\ In(pending'[x]) = In(batch[x]) \cup In(pending[x])
          /\ sessions'[x] = 0 /\ UNCHANGED <<peer, made>>
      <3>1. batch[x] \in Seq(Event) /\ pending[x] \in Seq(Event)
        BY Types
      <3>2. QED BY <1>5, <3>1, InFacts DEF Restart, NoEvents, clients
    <2>2. Held(x)' = Held(x)
      BY <2>1 DEF Held
    <2>3. Ordered(x)'
      BY <2>1, <2>2 DEF TxnSound, Ordered, Held
    <2>4. CommitSound(x)'
      BY <2>1, <2>2 DEF TxnSound, CommitSound, Locked
    <2>5. QED BY <2>3, <2>4 DEF TxnSound
  <1>6. ASSUME NEW t \in Txns, Begin(t) PROVE TxnSound(x)'
    <2>1. CASE x = t
      BY <1>6, <2>1, BeginKeeps
    <2>2. CASE x # t
      <3>1. ready[t] # <<>> /\ Handled(t) /\ ready'[x] = ready[x] /\ UNCHANGED batch
        BY <1>0, <1>6, <2>2 DEF Begin, Handled, Queues
      <3>2. /\ OthersStay(t) /\ keyed \subseteq keyed'
            /\ sessions'[x] = sessions[x] /\ made'[x] = made[x]
        <4>1. ASSUME NEW kind \in Kinds, GetOrCreate(t), Try(t, kind, sessions'[t])
              PROVE  OthersStay(t) /\ sessions'[x] = sessions[x] /\ made'[x] = made[x]
          <5>1. /\ sessions'[x] = sessions[x] /\ made'[x] = made[x] /\ sessions'[t] \in Nat
            BY <2>2, <4>1, Made
          <5>2. QED BY <4>1, <5>1, TryAsks DEF Try, Asked
        <4>2. CASE OnRequest(t) \/ OnStart(t) \/ OnOdd(t)
          BY <4>1, <4>2 DEF OnRequest, OnStart, OnOdd, Kinds
        <4>3. CASE OnKey(t)
          <5>1. /\ keyed \subseteq keyed' /\ UNCHANGED <<sessions, made>>
                /\ \/ UNCHANGED <<peer, pending>>
                   \/ Sends(t, "key", sessions[t]) \/ MayFail(t, "key", sessions[t])
            BY <4>3 DEF OnKey
          <5>2. OthersStay(t)
            BY <5>1, Types, TryAsks DEF OthersStay, Asked, Kinds
          <5>3. QED BY <5>1, <5>2
        <4>4. CASE OnMac(t, Head(ready[t]).obj) \/ OnCancel(t)
          BY <2>2, <4>4 DEF OnMac, OnCancel, OthersStay, TypeOK
        <4>5. QED BY <3>1, <4>2, <4>3, <4>4 DEF Handled
      <3>3. QED BY <2>2, <3>1, <3>2, Unmoved DEF OthersStay
    <2>3. QED BY <2>1, <2>2
  <1>7. ASSUME NEW k \in tasks, SendOurMac(k) \/ SendCancel(k) \/ SendDone(k) PROVE TxnSound(x)'
    <2>0. k.txn \in Txns /\ k.obj \in Nat
      BY Types
    <2>1. /\ sessions' = sessions \/ Pops(k.txn)
          /\ UNCHANGED <<batch, made, ready, keyed>>
          /\ \E kind \in {"mac", "cancel", "done"} :
                Sends(k.txn, kind, k.obj) \/ MayFail(k.txn, kind, k.obj)
      BY <1>7 DEF SendOurMac, SendCancel, SendDone, Try
    <2>2. PICK kind \in {"mac", "cancel", "done"} : Asked(k.txn, kind, k.obj)
      BY <2>0, <2>1, TryAsks DEF Kinds
    <2>3. sessions'[x] \in {0, sessions[x]}
      BY <2>0, <2>1 DEF Pops, TypeOK
    <2>4. CASE x = k.txn
      <3>1. Moved(x, kind, k.obj) /\ peer'[x].commit \in Nat
        BY <2>2, <2>4 DEF Asked, PeerType
      <3>2. /\ In(ready'[x]) \subseteq In(ready[x]) /\ keyed \subseteq keyed'
            /\ made'[x] \in Nat /\ made[x] <= made'[x]
            /\ kind # "accept" /\ kind # "key" /\ UNCHANGED batch
        BY <1>0, <2>1
      <3>3. QED BY <2>3, <3>1, <3>2, AnswerKeeps
    <2>5. CASE x # k.txn
      BY <2>1, <2>2, <2>3, <2>5, Unmoved DEF Asked, OthersStay
    <2>6. QED BY <2>4, <2>5
  <1>8. ASSUME NEW k \in tasks, Lookup(k) \/ Query(k) \/ PutNew(k) \/ PutTrust(k)
        PROVE  TxnSound(x)'
    <2>1. UNCHANGED <<peer, pending, batch, made, ready, sessions, keyed>>
      BY <1>8 DEF Lookup, Query, PutNew, PutTrust, clients
    <2>2. QED BY <2>1, Unmoved
  <1>9. CASE UNCHANGED vars
    BY <1>9, Unmoved DEF vars, clients, memory
  <1>10. QED BY <1>1, <1>2, <1>3, <1>4, <1>5, <1>6, <1>7, <1>8, <1>9
         DEF SasStep, Next, PeerStep, BeginStep, TaskStep

-----------------------------------------------------------------------------
(***************************************************************************)
(* Every step leaves the MACs with the sessions they were computed with.   *)
(***************************************************************************)
Macs == {"lookup", "query", "put", "trust", "done"}

LEMMA MatchKept ==
    ASSUME MacsMatch, keyed \subseteq keyed',
           \A l \in tasks' : \/ l \in tasks
                             \/ l.at \notin Macs
                             \/ <<l.txn, l.obj>> \in keyed' /\ l.mac = l.obj
    PROVE  MacsMatch'
  BY DEF MacsMatch, Macs

LEMMA TaskMoves ==
    ASSUME TypeOK, NEW k \in tasks, NEW at \in Stage, Becomes(k, at)
    PROVE  \E w \in Task : /\ tasks' = (tasks \ {k}) \cup {w}
                           /\ w.txn = k.txn /\ w.obj = k.obj /\ w.mac = k.mac /\ w.at = at
  <1> DEFINE w == [k EXCEPT !.at = at]
  <1>1. w \in Task /\ w.txn = k.txn /\ w.obj = k.obj /\ w.mac = k.mac /\ w.at = at
    BY DEF TypeOK, Task
  <1>2. tasks' = (tasks \ {k}) \cup {w}
    BY DEF Becomes
  <1>3. QED BY <1>1, <1>2

LEMMA StepMacs ==
    ASSUME TypeOK, SasStep, \A t \in Txns : TxnSound(t), MacsMatch
    PROVE  MacsMatch'
  <1>1. CASE UNCHANGED <<keyed, tasks>>
    BY <1>1, MatchKept
  <1>2. CASE Restart
    BY <1>2 DEF Restart, MacsMatch
  <1>3. ASSUME NEW t \in Txns, Begin(t) PROVE MacsMatch'
    <2> DEFINE e == Head(ready[t])
    <2>1. ready[t] # <<>> /\ Handled(t)
      BY <1>3 DEF Begin, Handled
    <2>2. CASE OnKey(t)
      <3>1. keyed \subseteq keyed' /\ (UNCHANGED tasks \/ Wait(t, sessions[t], "mac", 0))
        BY <2>2 DEF OnKey
      <3>2. \A l \in tasks' : l \in tasks \/ l.at \notin Macs
        BY <3>1 DEF Wait, Macs
      <3>3. QED BY <3>1, <3>2, MatchKept
    <2>3. CASE e.kind = "mac" /\ OnMac(t, e.obj) /\ sessions[t] # 0
      <3>1. UNCHANGED keyed /\ Wait(t, sessions[t], "lookup", e.obj)
        BY <2>3 DEF OnMac
      <3>2. e \in In(batch[t])
        BY <2>1, Types, InFacts DEF TxnSound, Ordered
      <3>3. e.obj = sessions[t] /\ <<t, sessions[t]>> \in keyed
        BY <2>3, <3>2 DEF TxnSound, Ordered, CommitSound, Locked, Held
      <3>4. \A l \in tasks' : l \in tasks \/ (<<l.txn, l.obj>> \in keyed' /\ l.mac = l.obj)
        BY <3>1, <3>3 DEF Wait
      <3>5. QED BY <3>1, <3>4, MatchKept
    <2>4. CASE OnRequest(t) \/ OnStart(t) \/ OnOdd(t) \/ OnCancel(t)
               \/ (OnMac(t, e.obj) /\ sessions[t] = 0)
      BY <1>1, <2>4 DEF OnRequest, OnStart, OnOdd, OnCancel, OnMac
    <2>5. QED BY <2>1, <2>2, <2>3, <2>4 DEF Handled
  <1>4. ASSUME NEW k \in tasks, UNCHANGED keyed,
               \/ Ends(k)
               \/ \E at \in {"query", "put"} : k.at \in Macs /\ Becomes(k, at)
               \/ Becomes(k, "reject")
               \/ k.at \in Macs /\ Judge(k)
               \/ k.at = "trust" /\ Becomes(k, "done")
        PROVE  MacsMatch'
    <2>1. CASE Ends(k)
      BY <1>4, <2>1, MatchKept DEF Ends
    <2>2. ASSUME NEW at \in Stage, Becomes(k, at), k.at \in Macs \/ at = "reject"
          PROVE  MacsMatch'
      <3>1. PICK w \in Task : /\ tasks' = (tasks \ {k}) \cup {w}
                              /\ w.txn = k.txn /\ w.obj = k.obj /\ w.mac = k.mac /\ w.at = at
        BY <2>2, TaskMoves
      <3>2. k.at \in Macs => <<w.txn, w.obj>> \in keyed' /\ w.mac = w.obj
        BY <1>4, <3>1 DEF MacsMatch, Macs
      <3>3. at = "reject" => w.at \notin Macs
        BY <3>1 DEF Macs
      <3>4. QED BY <1>4, <2>2, <3>1, <3>2, <3>3, MatchKept
    <2>3. CASE k.at \in Macs /\ Judge(k)
      BY <2>1, <2>2, <2>3 DEF Judge, Stage
    <2>4. QED BY <1>4, <2>1, <2>2, <2>3 DEF Stage, Macs
  <1>5. ASSUME NEW k \in tasks,
               \/ SendOurMac(k) \/ SendCancel(k) \/ SendDone(k) \/ Lookup(k) \/ Query(k)
               \/ PutNew(k) \/ PutTrust(k)
        PROVE  MacsMatch'
    BY <1>4, <1>5 DEF SendOurMac, SendCancel, SendDone, Lookup, Query, PutNew, PutTrust, Macs
  <1>6. QED BY <1>1, <1>2, <1>3, <1>5
        DEF SasStep, Next, PeerStep, BeginStep, TaskStep, vars, memory, Ask, Confirm, GiveUp,
            OnlyTheClient, Sync

-----------------------------------------------------------------------------
(***************************************************************************)
(* Every step keeps the devices of the clients that were told "done", and  *)
(* of those about to be told, secured.                                     *)
(***************************************************************************)
LEMMA SecuredKept ==
    ASSUME NEW d, Secured(d), UNCHANGED <<device, store, replaced, halfway>>,
           \A k \in tasks : k.at = "trust" /\ DeviceOf(k) = d => k \in tasks'
    PROVE  Secured(d)'
  BY DEF Secured, DeviceOf

\* put_devices, by the handler k of a MAC.
LEMMA PutSecures ==
    ASSUME TypeOK, NEW k \in tasks, NEW trust \in {"unverified", "verified"},
           PutDevice(DeviceOf(k), trust), UNCHANGED device,
           NEW w, tasks' = (tasks \ {k}) \cup {w}, w.txn = k.txn,
           trust = "unverified" => w.at = "trust"
    PROVE  /\ Secured(DeviceOf(k))'
           /\ \A d \in Devices : Secured(d) => Secured(d)'
  <1> DEFINE c == DeviceOf(k)
  <1>1. c \in Devices /\ c' = c /\ DeviceOf(w)' = c /\ store \in [Devices -> Trust]
    BY Types DEF DeviceOf, TypeOK
  <1>2. Secured(c)'
    <2>1. CASE trust = "verified"
      BY <1>1, <2>1 DEF PutDevice, Secured
    <2>2. CASE trust = "unverified"
      BY <1>1, <2>2 DEF Secured
    <2>3. QED BY <2>1, <2>2
  <1>3. ASSUME NEW d \in Devices, Secured(d), d # c PROVE Secured(d)'
    <2>1. store[d] = "verified" => store'[d] = "verified" \/ d \in replaced'
      BY <1>1, <1>3 DEF PutDevice
    <2>2. d \in replaced \cup halfway => d \in replaced' \cup halfway'
      BY <1>1, <1>3 DEF PutDevice
    <2>3. \A l \in tasks : l.at = "trust" /\ DeviceOf(l) = d => l \in tasks' /\ DeviceOf(l)' = d
      BY <1>1, <1>3 DEF DeviceOf
    <2>4. QED BY <1>3, <2>1, <2>2, <2>3 DEF Secured
  <1>4. QED BY <1>1, <1>2, <1>3

LEMMA StepDone ==
    ASSUME TypeOK, SasStep, MacsMatch, DoneSecured
    PROVE  DoneSecured'
  <1>0. \A t \in Txns : device[t] \in Devices
    BY DEF TypeOK
  <1>1. CASE /\ UNCHANGED <<device, store, replaced, halfway, told>>
             /\ \A l \in tasks' : l \in tasks \/ l.at # "done"
             /\ \A l \in tasks : l \in tasks' \/ l.at # "trust"
    <2>1. \A d : Secured(d) => Secured(d)'
      BY <1>1, SecuredKept
    <2>2. QED BY <1>1, <2>1 DEF DoneSecured, DeviceOf
  <1>2. CASE Restart
    <2>1. /\ UNCHANGED <<device, store, replaced, told>> /\ tasks' = {}
          /\ halfway' = halfway \cup {d \in Devices : /\ store[d] # "verified"
                                                      /\ \E k \in Unfinished : device[k.txn] = d}
      BY <1>2 DEF Restart, clients
    <2>2. ASSUME NEW d \in Devices, Secured(d) PROVE Secured(d)'
      BY <2>1, <2>2 DEF Secured, Unfinished, DeviceOf
    <2>3. \A t \in told : t \in Txns
      BY DEF TypeOK
    <2>4. QED BY <1>0, <2>1, <2>2, <2>3 DEF DoneSecured
  <1>3. ASSUME NEW t \in Txns, Begin(t) PROVE DoneSecured'
    <2>1. Handled(t) /\ UNCHANGED <<device, store, replaced, halfway, told>>
      BY <1>3 DEF Begin, Handled
    <2>2. \/ UNCHANGED tasks
          \/ Wait(t, sessions[t], "mac", 0)
          \/ Wait(t, sessions[t], "lookup", Head(ready[t]).obj)
      BY <2>1 DEF Handled, OnRequest, OnStart, OnOdd, OnKey, OnMac, OnCancel
    <2>3. /\ \A l \in tasks' : l \in tasks \/ l.at # "done"
          /\ \A l \in tasks : l \in tasks'
      BY <2>2 DEF Wait
    <2>4. QED BY <1>1, <2>1, <2>3
  <1>4. ASSUME NEW k \in tasks, SendOurMac(k) \/ SendCancel(k) PROVE DoneSecured'
    BY <1>1, <1>4 DEF SendOurMac, SendCancel, Ends
  <1>5. ASSUME NEW k \in tasks, SendDone(k) PROVE DoneSecured'
    <2>1. /\ k.at = "done" /\ tasks' = tasks \ {k} /\ told' = told \cup {k.txn}
          /\ UNCHANGED <<device, store, replaced, halfway>>
      BY <1>5 DEF SendDone, Ends
    <2>2. \A d : Secured(d) => Secured(d)'
      BY <2>1, SecuredKept
    <2>3. Secured(device[k.txn])
      BY <2>1 DEF DoneSecured, DeviceOf
    <2>4. QED BY <2>1, <2>2, <2>3 DEF DoneSecured, DeviceOf
  <1>6. ASSUME NEW k \in tasks, NEW at \in Stage, Becomes(k, at), k.at # "trust", at # "done",
               UNCHANGED <<device, store, replaced, halfway, told>>
        PROVE  DoneSecured'
    BY <1>1, <1>6, TaskMoves
  <1>7. ASSUME NEW k \in tasks, Lookup(k) PROVE DoneSecured'
    <2>1. /\ k.at = "lookup" /\ (Becomes(k, "query") \/ Judge(k))
          /\ UNCHANGED <<device, store, replaced, halfway, told>>
      BY <1>7 DEF Lookup, clients, history
    <2>2. CASE Ends(k)
      BY <1>1, <2>1, <2>2 DEF Ends
    <2>3. QED BY <1>6, <2>1, <2>2 DEF Judge, Stage
  <1>8. ASSUME NEW k \in tasks, Query(k) PROVE DoneSecured'
    <2>1. /\ k.at = "query" /\ (Becomes(k, "put") \/ Becomes(k, "reject") \/ Ends(k))
          /\ UNCHANGED <<device, store, replaced, halfway, told>>
      BY <1>8 DEF Query, clients
    <2>2. CASE Ends(k)
      BY <1>1, <2>1, <2>2 DEF Ends
    <2>3. QED BY <1>6, <2>1, <2>2 DEF Stage
  <1>9. ASSUME NEW k \in tasks, NEW trust \in {"unverified", "verified"}, NEW at \in {"trust", "done"},
               PutDevice(DeviceOf(k), trust), Becomes(k, at), UNCHANGED <<device, told>>,
               trust = "unverified" => at = "trust"
        PROVE  DoneSecured'
    <2>1. PICK w \in Task : /\ tasks' = (tasks \ {k}) \cup {w}
                            /\ w.txn = k.txn /\ w.at = at
      BY <1>9, TaskMoves DEF Stage
    <2>2. /\ Secured(DeviceOf(k))'
          /\ \A d \in Devices : Secured(d) => Secured(d)'
      BY <1>9, <2>1, PutSecures
    <2>3. told \subseteq Txns /\ \A l \in tasks : DeviceOf(l) \in Devices
      BY Types DEF TypeOK
    <2>4. \A l : DeviceOf(l)' = DeviceOf(l)
      BY <1>9 DEF DeviceOf
    <2>5. \A t \in told' : Secured(device[t])'
      BY <1>0, <1>9, <2>2, <2>3 DEF DoneSecured
    <2>6. DeviceOf(w) = DeviceOf(k)
      BY <2>1 DEF DeviceOf
    <2>7. \A l \in tasks' : l.at = "done" => Secured(DeviceOf(l))'
      BY <2>1, <2>2, <2>3, <2>4, <2>6 DEF DoneSecured, Secured
    <2>8. QED BY <1>9, <2>4, <2>5, <2>7 DEF DoneSecured, Secured
  <1>10. ASSUME NEW k \in tasks, PutNew(k) PROVE DoneSecured'
    <2>1. <<k.txn, k.obj>> \in keyed /\ k.mac = k.obj
      BY <1>10 DEF PutNew, MacsMatch
    <2>2. /\ PutDevice(DeviceOf(k), "unverified") /\ Becomes(k, "trust")
          /\ UNCHANGED <<device, told>>
      BY <1>10, <2>1 DEF PutNew, Judge, clients
    <2>3. QED BY <1>9, <2>2
  <1>11. ASSUME NEW k \in tasks, PutTrust(k) PROVE DoneSecured'
    BY <1>9, <1>11 DEF PutTrust, clients
  <1>12. QED BY <1>1, <1>2, <1>3, <1>4, <1>5, <1>7, <1>8, <1>10, <1>11
         DEF SasStep, Next, PeerStep, BeginStep, TaskStep, vars, clients, history, memory, Ask,
             Confirm, GiveUp, OnlyTheClient, Sync

LEMMA SasInvAlways == AllSpec => []SasInv
  <1>1. AllInit => SasInv
    <2> SUFFICES ASSUME Init PROVE SasInv
      BY DEF AllInit
    <2> USE SasBounds DEF Init
    <2>1. TypeOK
      <3>1. device \in [Txns -> Devices] /\ store \in [Devices -> Trust]
        BY DEF Trust
      <3>2. peer \in [Txns -> [at : Phase, commit : Nat, checked : BOOLEAN]]
        BY DEF Phase
      <3>3. NoEvents \in Queues
        BY EmptySeq DEF NoEvents, Queues
      <3>4. /\ sessions \in [Txns -> Nat] /\ made \in [Txns -> Nat]
            /\ \A t \in Txns : sessions[t] <= made[t]
        OBVIOUS
      <3>5. fails \in Nat /\ restarts \in Nat /\ Mishaps <= MaxMishaps
        BY FS_EmptySet DEF Mishaps
      <3>6. QED BY <3>1, <3>2, <3>3, <3>4, <3>5 DEF TypeOK
    <2>2. ASSUME NEW t \in Txns PROVE TxnSound(t)
      <3>1. /\ In(batch[t]) = {} /\ In(pending[t]) = {} /\ In(ready[t]) = {}
            /\ peer[t].at = "idle" /\ peer[t].commit = 0 /\ made[t] = 0 /\ sessions[t] = 0
        BY InFacts DEF NoEvents
      <3>2. Ordered(t)
        BY <3>1 DEF Ordered, Held
      <3>3. CommitSound(t)
        BY <3>1 DEF CommitSound, Locked, Held
      <3>4. QED BY <3>2, <3>3 DEF TxnSound
    <2>3. MacsMatch /\ DoneSecured
      BY DEF MacsMatch, DoneSecured
    <2>4. QED BY <2>1, <2>2, <2>3 DEF SasInv
  <1>2. SasInv /\ [AllNext]_allVars => SasInv'
    <2> SUFFICES ASSUME SasInv, [AllNext]_allVars PROVE SasInv'
      OBVIOUS
    <2>1. SasStep
      BY DEF SasStep, AllNext, AskOne, PeerGoesOn, InviterStep, SyncOnce, Verifies, Starts,
             TakesInvites, KilledAndStarted, Handlers, Next, PeerStep, allVars
    <2>2. TypeOK' /\ MacsMatch' /\ DoneSecured'
      BY <2>1, StepSasType, StepMacs, StepDone DEF SasInv
    <2>3. \A t \in Txns : TxnSound(t)'
      BY <2>1, StepTxns DEF SasInv
    <2>4. QED BY <2>2, <2>3 DEF SasInv
  <1>3. QED BY <1>1, <1>2, PTL DEF AllSpec

(***************************************************************************)
(* A client that was told "done" has its device verified, or it is about   *)
(* to be, or it lost its trust to another device's entry or to a kill.     *)
(***************************************************************************)
THEOREM DoneIsVerified == AllSpec => []DoneMeansVerified
  <1>1. SasInv => DoneMeansVerified
    BY DEF SasInv, DoneSecured, Secured, DoneMeansVerified
  <1>2. QED BY <1>1, SasInvAlways, PTL

-----------------------------------------------------------------------------
(***************************************************************************)
(* The invitations, and the bundles of room keys.                          *)
(***************************************************************************)
InvitesMove ==
    \/ \E p \in People : Invite(p) \/ SendBundle(p)
    \/ SyncInvites \/ InviteStep \/ RestartInvites \/ UNCHANGED inviteVars

LEMMA LastInviter ==
    ASSUME InvitesInv, Shown
    PROVE  invites[Len(invites)] \in Arrived /\ invites[Len(invites)] \in People
  <1>1. invites \in Seq(People) /\ Len(invites) > 0
    BY DEF InvitesInv, InvitesTypeOK, ImportsSound, Shown
  <1>2. Len(invites) \in DOMAIN invites /\ invites[Len(invites)] \in People
    BY <1>1
  <1>3. QED BY <1>2 DEF Arrived

LEMMA OneMoreArrived ==
    ASSUME InvitesTypeOK, NEW p \in People, invites' = Append(invites, p)
    PROVE  invites' \in Seq(People) /\ Len(invites') > 0 /\ Arrived \subseteq Arrived'
  <1>1. /\ invites' \in Seq(People) /\ Len(invites') = Len(invites) + 1 /\ Len(invites) \in Nat
        /\ DOMAIN invites \subseteq DOMAIN invites'
        /\ \A i \in DOMAIN invites : invites'[i] = invites[i]
    BY AppendProperties DEF InvitesTypeOK
  <1>2. QED BY <1>1 DEF Arrived

LEMMA FailsDoes ==
    ASSUME InvitesInv, NEW p \in People, Fails(p)
    PROVE  /\ work' = [work EXCEPT ![p] = "none"] /\ failed' = failed \cup {p}
           /\ troubles' \in 0..MaxTroubles
           /\ UNCHANGED <<olm, kept, gaveUp, early, cut, forgot>>
  BY InviteBounds DEF InvitesInv, InvitesTypeOK, Fails, Trouble, Moves

LEMMA StepInvites == InvitesInv /\ InvitesMove => InvitesInv'
  <1> SUFFICES ASSUME InvitesInv, InvitesMove PROVE InvitesTypeOK' /\ ImportsSound'
    BY DEF InvitesInv
  <1> USE InviteBounds DEF InvitesInv
  <1>0. People \subseteq Nat /\ Nobody \notin People
    BY DEF People, Nobody
  <1>1. ASSUME NEW p \in People, Invite(p) PROVE InvitesTypeOK' /\ ImportsSound'
    <2>1. invites' \in Seq(People) /\ Len(invites') > 0 /\ Arrived \subseteq Arrived'
      BY <1>1, OneMoreArrived DEF Invite
    <2>2. InvitesTypeOK'
      BY <1>1, <2>1 DEF Invite, InvitesTypeOK, cycle, loading
    <2>3. ImportsSound'
      BY <1>1, <2>1 DEF Invite, ImportsSound, loading
    <2>4. QED BY <2>2, <2>3
  <1>2. ASSUME NEW p \in People, SendBundle(p) PROVE InvitesTypeOK' /\ ImportsSound'
    BY <1>2 DEF SendBundle, InvitesTypeOK, ImportsSound, cycle, loading, inviteNotes, Arrived
  <1>3. CASE SyncInvites
    <2>1. /\ UNCHANGED <<membership, invites, olm, kept, gaveUp, failed, cut, forgot, troubles>>
          /\ work = Idle /\ work' \in [People -> {"none", "waiting"}]
          /\ hand' = box /\ box' = {} /\ first' = FALSE /\ fresh' = FALSE
          /\ early' = early \cup (box \ Arrived)
          /\ \A p \in People : work'[p] # "none" => p \in box
      BY <1>3 DEF SyncInvites, Settled
    <2>2. tojoin' \in BOOLEAN
      BY <1>3 DEF SyncInvites, Shown
    <2>3. inviter' \in People \cup {Nobody} /\ inviter' \in Arrived \cup {Nobody}
      BY <1>3, LastInviter DEF SyncInvites, RememberInviters, InvitesTypeOK
    <2>4. InvitesTypeOK'
      BY <2>1, <2>2, <2>3 DEF InvitesTypeOK, Arrived
    <2>5. ImportsSound'
      BY <2>1 DEF ImportsSound, Arrived, Idle
    <2>6. QED BY <2>4, <2>5
  <1>4. CASE Join
    <2>1. /\ membership' \in {membership, "joined"} /\ troubles' \in 0..MaxTroubles
          /\ tojoin' = FALSE /\ gaveUp' \in BOOLEAN
          /\ UNCHANGED <<invites, fresh, box, hand, first, inviter, loading, early, failed, cut, forgot>>
      <3>1. UNCHANGED troubles \/ Trouble
        BY <1>4 DEF Join
      <3>2. troubles' \in 0..MaxTroubles
        BY <3>1 DEF Trouble, InvitesTypeOK
      <3>3. gaveUp' = gaveUp \/ gaveUp' = TRUE
        BY <1>4 DEF Join
      <3>4. QED BY <1>4, <3>2, <3>3 DEF Join, InvitesTypeOK
    <2>2. QED BY <2>1 DEF InvitesTypeOK, ImportsSound, loading, Arrived
  <1>5. ASSUME NEW p \in People, Decrypt(p) PROVE InvitesTypeOK' /\ ImportsSound'
    <2>1. /\ work[p] = "waiting" /\ olm' = olm \cup {p}
          /\ work' = [work EXCEPT ![p] = IF p \notin olm /\ inviter = p THEN "download" ELSE "none"]
          /\ UNCHANGED <<server, cycle, kept, inviteNotes>>
      BY <1>5 DEF Decrypt, Moves
    <2>2. p \notin olm => kept[p] = 0
      BY DEF ImportsSound, InvitesTypeOK
    <2>3. inviter = p => p \in Arrived
      BY <1>0 DEF InvitesTypeOK
    <2>4. InvitesTypeOK'
      BY <2>1 DEF InvitesTypeOK, Arrived, server, cycle, inviteNotes
    <2>5. ImportsSound'
      BY <2>1, <2>2, <2>3 DEF ImportsSound, InvitesTypeOK, Arrived, server, cycle, inviteNotes
    <2>6. QED BY <2>4, <2>5
  <1>6. ASSUME NEW p \in People, work[p] \in {"download", "import"}, Fails(p),
               UNCHANGED <<server, cycle>>
        PROVE  InvitesTypeOK' /\ ImportsSound'
    <2>1. /\ work' = [work EXCEPT ![p] = "none"] /\ failed' = failed \cup {p}
          /\ troubles' \in 0..MaxTroubles
          /\ UNCHANGED <<olm, kept, gaveUp, early, cut, forgot>>
      BY <1>6, FailsDoes
    <2>2. InvitesTypeOK'
      BY <1>6, <2>1 DEF InvitesTypeOK, Arrived, server, cycle
    <2>3. ImportsSound'
      BY <1>6, <2>1 DEF ImportsSound, InvitesTypeOK, Arrived, server
    <2>4. QED BY <2>2, <2>3
  <1>7. ASSUME NEW p \in People, Download(p) PROVE InvitesTypeOK' /\ ImportsSound'
    <2>1. CASE Fails(p)
      BY <1>6, <1>7, <2>1 DEF Download
    <2>2. CASE ~Fails(p)
      <3>1. /\ work[p] = "download" /\ work' = [work EXCEPT ![p] = "import"]
            /\ UNCHANGED <<server, cycle, olm, kept, inviteNotes>>
        BY <1>7, <2>2 DEF Download, Moves
      <3>2. InvitesTypeOK'
        BY <3>1 DEF InvitesTypeOK, Arrived, server, cycle, inviteNotes
      <3>3. ImportsSound'
        BY <3>1 DEF ImportsSound, InvitesTypeOK, Arrived, server, inviteNotes
      <3>4. QED BY <3>2, <3>3
    <2>3. QED BY <2>1, <2>2
  <1>8. ASSUME NEW p \in People, Import(p) PROVE InvitesTypeOK' /\ ImportsSound'
    <2>1. CASE Fails(p)
      BY <1>6, <1>8, <2>1 DEF Import
    <2>2. CASE ~Fails(p)
      <3>1. /\ work[p] = "import" /\ kept' = [kept EXCEPT ![p] = @ + 1]
            /\ work' = [work EXCEPT ![p] = IF kept'[p] = Keys THEN "none" ELSE "import"]
            /\ UNCHANGED <<server, cycle, olm, inviteNotes>>
        BY <1>8, <2>2 DEF Import, Moves
      <3>2. kept[p] \in Nat /\ kept[p] < Keys /\ kept'[p] = kept[p] + 1
            /\ p \in olm /\ p \in Arrived
        BY <3>1 DEF InvitesTypeOK, ImportsSound
      <3>3. InvitesTypeOK'
        BY <3>1, <3>2 DEF InvitesTypeOK, Arrived, server, cycle, inviteNotes
      <3>4. ASSUME NEW q \in People
            PROVE  /\ work'[q] \in {"download", "import"} \/ kept'[q] > 0 => q \in Arrived
                   /\ kept'[q] > 0 => q \in olm
                   /\ work'[q] = "download" => kept'[q] = 0
                   /\ work'[q] = "import" => kept'[q] < Keys
                   /\ kept'[q] \in 1..(Keys - 1) => work'[q] = "import" \/ q \in failed \cup cut
        <4>1. CASE q = p
          <5>1. work'[q] = (IF kept'[q] = Keys THEN "none" ELSE "import")
            BY <3>1, <4>1 DEF InvitesTypeOK
          <5>2. QED BY <3>2, <4>1, <5>1
        <4>2. CASE q # p
          BY <3>1, <4>2 DEF InvitesTypeOK, ImportsSound
        <4>3. QED BY <4>1, <4>2
      <3>5. ImportsSound'
        BY <3>1, <3>4 DEF ImportsSound, Arrived, server, inviteNotes
      <3>6. QED BY <3>3, <3>5
    <2>3. QED BY <2>1, <2>2
  <1>9. CASE RestartInvites
    <2>1. /\ box' = box \cup hand /\ hand' = {} /\ first' = TRUE
          /\ inviter' = Nobody /\ tojoin' = FALSE /\ work' = Idle
          /\ cut' = cut \cup {p \in People : work[p] \in {"download", "import"}}
          /\ gaveUp' = FALSE /\ forgot' \in BOOLEAN
          /\ UNCHANGED <<membership, invites, fresh, olm, kept, early, failed, troubles>>
      BY <1>9 DEF RestartInvites, InvitesTypeOK
    <2>2. InvitesTypeOK'
      BY <2>1 DEF InvitesTypeOK, Idle
    <2>3. ImportsSound'
      BY <2>1 DEF ImportsSound, Idle, Arrived
    <2>4. QED BY <2>2, <2>3
  <1>10. CASE UNCHANGED inviteVars
    BY <1>10 DEF inviteVars, server, cycle, loading, inviteNotes, InvitesTypeOK, ImportsSound, Arrived
  <1>11. QED BY <1>1, <1>2, <1>3, <1>4, <1>5, <1>7, <1>8, <1>9, <1>10 DEF InvitesMove, InviteStep

LEMMA InvitesInvAlways == AllSpec => []InvitesInv
  <1>1. AllInit => InvitesInv
    <2> SUFFICES ASSUME InvitesInit PROVE InvitesInv
      BY DEF AllInit
    <2> USE InviteBounds DEF InvitesInit
    <2>1. invites \in Seq(People) /\ Arrived = {}
      BY EmptySeq DEF Arrived
    <2>2. kept \in [People -> 0..Keys] /\ troubles \in 0..MaxTroubles
      OBVIOUS
    <2>3. work \in [People -> {"none", "waiting", "download", "import"}]
          /\ \A p \in People : work[p] = "none"
      BY DEF Idle
    <2>4. InvitesTypeOK
      BY <2>1, <2>2, <2>3 DEF InvitesTypeOK, Nobody
    <2>5. ImportsSound
      BY <2>3 DEF ImportsSound
    <2>6. QED BY <2>4, <2>5 DEF InvitesInv
  <1>2. InvitesInv /\ [AllNext]_allVars => InvitesInv'
    <2>1. [AllNext]_allVars => InvitesMove
      BY DEF InvitesMove, AllNext, AskOne, PeerGoesOn, InviterStep, SyncOnce, Verifies, Starts,
             TakesInvites, KilledAndStarted, Handlers, allVars
    <2>2. QED BY <2>1, StepInvites
  <1>3. QED BY <1>1, <1>2, PTL DEF AllSpec

(***************************************************************************)
(* History is imported from those only who had invited the bot, and in     *)
(* part only while it is imported, if it failed or if the bot was killed.  *)
(***************************************************************************)
THEOREM HistoryIsFromInviters == AllSpec => []HistoryOnlyFromInviters
  <1>1. InvitesInv => HistoryOnlyFromInviters
    BY DEF InvitesInv, ImportsSound, HistoryOnlyFromInviters
  <1>2. QED BY <1>1, InvitesInvAlways, PTL

(***************************************************************************)
(* The variables of the responder keep their types.                        *)
(***************************************************************************)
THEOREM ResponderTypeCorrect == AllSpec => []AllTypeOK
  <1>1. SasInv /\ InvitesInv => AllTypeOK
    BY DEF SasInv, InvitesInv, AllTypeOK
  <1>2. QED BY <1>1, SasInvAlways, InvitesInvAlways, PTL
=============================================================================
