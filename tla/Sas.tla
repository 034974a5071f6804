-------------------------------- MODULE Sas ---------------------------------
(***************************************************************************)
(* The bot's side of SAS device verification (sas_verification.py), beside *)
(* the clients that start one.                                             *)
(*                                                                         *)
(* Every to-device event of a /sync batch becomes a task of its own that   *)
(* nobody waits for: the first stretch of each runs in the order of        *)
(* arrival, what follows its first await in any order, also beside the     *)
(* tasks of later batches.  Sessions are kept in memory, the trust in a    *)
(* device on disk.  A restarted bot starts /sync afresh and is given the   *)
(* last batch again.                                                       *)
(*                                                                         *)
(* A stretch and the one request it awaits at its end are one step: until  *)
(* the request is out nobody can tell.  The order between transactions is  *)
(* left open.  One user with several devices; keys and MACs are the number *)
(* of the session object (with its own olm.Sas) they were computed with.   *)
(***************************************************************************)
EXTENDS Naturals, Sequences, FiniteSets

CONSTANTS
    NTxns,        \* transactions
    Devices,      \* the devices of the user
    Origins,      \* which device may start which transaction
    PutReplaces,  \* put_devices replaces all of a user's devices (else it adds)
    MaxMishaps    \* bound: requests that raise, restarts, verifications given up

\* Numbered as they are begun.
Txns == 1..NTxns

ASSUME SasBounds ==
    /\ NTxns \in Nat /\ Origins \subseteq [Txns -> Devices]
    /\ PutReplaces \in BOOLEAN /\ MaxMishaps \in Nat

VARIABLES
    device,     \* the device a transaction is started from
    peer,       \* the client's side of each transaction
    pending,    \* to-device events the server holds for the bot, per transaction
    batch,      \* those of the last /sync, not yet acknowledged by a next one
    ready,      \* those of them whose task has not begun
    sessions,   \* the manager's dict: the session object of a transaction, 0 if none
    made,       \* how many session objects a transaction has had
    keyed,      \* the session objects that were given their client's key
    tasks,      \* handlers waiting at an await
    store,      \* the crypto store: the trust in each device
    told,       \* history: the transactions whose client was sent "done"
    refused,    \* history: those whose method the bot refused
    replaced,   \* history: verified devices another device's entry has erased
    halfway,    \* history: devices not verified when their handler was killed on the way
    fails,      \* history: requests that raised
    restarts,   \* history: restarts
    abandoned      \* history: the transactions given up by their client

clients == <<device, peer>>
memory  == <<ready, sessions, keyed, tasks>>
history == <<told, refused, replaced, halfway, fails, restarts, abandoned>>
vars    == <<clients, pending, batch, made, store, memory, history>>

\* A task: the stretch it waits to enter (the one of a MAC handler knows the MAC).
Stage  == {"mac", "lookup", "query", "put", "trust", "done", "reject"}
Event  == [kind : {"request", "start", "odd", "key", "mac", "cancel"}, obj : Nat]
Queues == [Txns -> Seq(Event)]
Task   == [txn : Txns, obj : Nat, at : Stage, mac : Nat]
Phase  == {"idle", "asked", "started", "keyed", "confirming", "confirmed", "done", "cancelled"}
Trust  == {"absent", "unverified", "verified"}

Mishaps == fails + restarts + Cardinality(abandoned)

TypeOK ==
    /\ device \in [Txns -> Devices]
    /\ peer \in [Txns -> [at : Phase, commit : Nat, checked : BOOLEAN]]
    /\ pending \in Queues /\ batch \in Queues /\ ready \in Queues
    /\ sessions \in [Txns -> Nat] /\ made \in [Txns -> Nat]
    /\ \A t \in Txns : sessions[t] <= made[t]
    /\ keyed \subseteq {p \in Txns \X Nat : p[2] \in 1..made[p[1]]}
    /\ tasks \subseteq Task /\ \A k \in tasks : k.obj \in 1..made[k.txn]
    /\ store \in [Devices -> Trust]
    /\ told \subseteq Txns /\ refused \subseteq Txns
    /\ replaced \subseteq Devices /\ halfway \subseteq Devices
    /\ fails \in Nat /\ restarts \in Nat /\ abandoned \subseteq Txns
    /\ Mishaps <= MaxMishaps

NoEvents == [t \in Txns |-> <<>>]

Init ==
    /\ device \in Origins
    /\ peer = [t \in Txns |-> [at |-> "idle", commit |-> 0, checked |-> FALSE]]
    /\ pending = NoEvents /\ batch = NoEvents /\ ready = NoEvents
    /\ sessions = [t \in Txns |-> 0] /\ made = [t \in Txns |-> 0]
    /\ keyed = {} /\ tasks = {}
    /\ store = [d \in Devices |-> "absent"]
    /\ told = {} /\ refused = {} /\ replaced = {} /\ halfway = {}
    /\ fails = 0 /\ restarts = 0 /\ abandoned = {}

-----------------------------------------------------------------------------
(***************************************************************************)
(* The client asks; its user confirms when the bot's key is there, and may *)
(* give up at any time, as the client does after ten minutes.              *)
(***************************************************************************)
MishapLeft == Mishaps < MaxMishaps

Over(t) == peer[t].at \in {"done", "cancelled"}

Goes(t, next)        == peer' = [peer EXCEPT ![t].at = next]
ToBot(t, kind, obj)  == pending' = [pending EXCEPT ![t] = Append(@, [kind |-> kind, obj |-> obj])]
OnlyTheClient        == UNCHANGED <<device, batch, made, store, memory, history>>

Ask(t) ==
    /\ peer[t].at = "idle" /\ \A x \in 1..(t - 1) : peer[x].at # "idle"
    /\ Goes(t, "asked") /\ ToBot(t, "request", 0)
    /\ OnlyTheClient

Confirm(t) ==
    /\ peer[t].at = "confirming"
    /\ Goes(t, "confirmed") /\ ToBot(t, "mac", peer[t].commit)
    /\ OnlyTheClient

GiveUp(t) ==
    /\ peer[t].at # "idle" /\ ~Over(t)
    /\ MishapLeft /\ abandoned' = abandoned \cup {t}
    /\ Goes(t, "cancelled") /\ ToBot(t, "cancel", 0)
    /\ UNCHANGED <<device, batch, made, store, memory, told, refused, replaced, halfway, fails,
                   restarts>>

(***************************************************************************)
(* What the bot sends reaches the client and is answered at once: with a   *)
(* start (of m.sas.v1 or of a method the bot does not know), the client's  *)
(* key, or a cancel if the bot's key is not the one it committed to.       *)
(* Answers the client does not expect are dropped.                         *)
(***************************************************************************)
Tells(t, kind, obj) ==
    LET at == peer[t].at IN
    CASE kind = "ready" /\ at = "asked" ->
            Goes(t, "started") /\ \E method \in {"start", "odd"} : ToBot(t, method, 0)
      [] kind = "accept" /\ at = "started" ->
            peer' = [peer EXCEPT ![t].at = "keyed", ![t].commit = obj] /\ ToBot(t, "key", 0)
      [] kind = "key" /\ at = "keyed" /\ obj = peer[t].commit ->
            Goes(t, "confirming") /\ UNCHANGED pending
      [] kind \in {"key", "mac"} /\ at \in {"keyed", "confirming", "confirmed"}
         /\ obj # peer[t].commit ->
            Goes(t, "cancelled") /\ ToBot(t, "cancel", 0)
      [] kind = "mac" /\ at \in {"confirming", "confirmed"} /\ obj = peer[t].commit ->
            peer' = [peer EXCEPT ![t].checked = TRUE] /\ UNCHANGED pending
      [] kind = "done" /\ at = "confirmed" /\ peer[t].checked ->
            Goes(t, "done") /\ UNCHANGED pending
      [] kind = "cancel" /\ ~Over(t) ->
            Goes(t, "cancelled") /\ UNCHANGED pending
      [] OTHER -> UNCHANGED <<peer, pending>>

-----------------------------------------------------------------------------
(***************************************************************************)
(* /sync: all the server holds; the batch before it is acknowledged.       *)
(***************************************************************************)
Sync ==
    /\ ready = NoEvents
    /\ batch' = pending /\ ready' = pending /\ pending' = NoEvents
    /\ UNCHANGED <<clients, made, sessions, keyed, tasks, store, history>>

\* A killed bot remembers no session; the last batch was not acknowledged.
Unfinished == {k \in tasks : k.at = "trust"}

Restart ==
    /\ MishapLeft
    /\ restarts' = restarts + 1
    /\ pending' = [t \in Txns |-> batch[t] \o pending[t]]
    /\ batch' = NoEvents /\ ready' = NoEvents
    /\ sessions' = [t \in Txns |-> 0] /\ keyed' = {} /\ tasks' = {}
    /\ halfway' = halfway \cup {d \in Devices : /\ store[d] # "verified"
                                                /\ \E k \in Unfinished : device[k.txn] = d}
    /\ UNCHANGED <<clients, made, store, told, refused, replaced, fails, abandoned>>

-----------------------------------------------------------------------------
(***************************************************************************)
(* The first stretch of a handler.  _get_or_create makes the session when  *)
(* there is none; a key or a MAC without a session is dropped.             *)
(***************************************************************************)
GetOrCreate(t) ==
    IF sessions[t] = 0
    THEN /\ sessions' = [sessions EXCEPT ![t] = made[t] + 1]
         /\ made' = [made EXCEPT ![t] = @ + 1]
    ELSE UNCHANGED <<sessions, made>>

\* A request of the bot raises; the message may have gone out.
Sends(t, kind, obj) == Tells(t, kind, obj) /\ UNCHANGED fails

Raises == MishapLeft /\ fails' = fails + 1

MayFail(t, kind, obj) ==
    Raises /\ (Tells(t, kind, obj) \/ UNCHANGED <<peer, pending>>)

Try(t, kind, obj) == Sends(t, kind, obj) \/ MayFail(t, kind, obj)

Wait(t, obj, at, mac) ==
    tasks' = tasks \cup {[txn |-> t, obj |-> obj, at |-> at, mac |-> mac]}

OnRequest(t) ==
    /\ GetOrCreate(t)
    /\ Try(t, "ready", sessions'[t])
    /\ UNCHANGED <<keyed, tasks, refused>>

OnStart(t) ==
    /\ GetOrCreate(t)
    /\ Try(t, "accept", sessions'[t])
    /\ UNCHANGED <<keyed, tasks, refused>>

\* Not m.sas.v1: the session stays in the dict.
OnOdd(t) ==
    /\ GetOrCreate(t)
    /\ Try(t, "cancel", sessions'[t])
    /\ refused' = refused \cup {t}
    /\ UNCHANGED <<keyed, tasks>>

\* The bot's key, and after it, at once, the bot's MAC.
OnKey(t) ==
    /\ IF sessions[t] = 0 THEN UNCHANGED <<peer, pending, keyed, tasks, fails>>
       ELSE /\ keyed' = keyed \cup {<<t, sessions[t]>>}
            /\ \/ Sends(t, "key", sessions[t]) /\ Wait(t, sessions[t], "mac", 0)
               \/ MayFail(t, "key", sessions[t]) /\ UNCHANGED tasks
    /\ UNCHANGED <<sessions, made, refused>>

\* Mistaken: not checking that there is a session.
AnyMac(t, mac) ==
    /\ Wait(t, sessions[t], "lookup", mac)
    /\ UNCHANGED <<peer, pending, sessions, made, keyed, refused, fails>>

OnMac(t, mac) ==
    /\ IF sessions[t] = 0 THEN UNCHANGED tasks ELSE Wait(t, sessions[t], "lookup", mac)
    /\ UNCHANGED <<peer, pending, sessions, made, keyed, refused, fails>>

\* Mistaken: a cancel leaves the session where it is.
IgnoreCancel(t) ==
    UNCHANGED <<peer, pending, sessions, made, keyed, tasks, refused, fails>>

OnCancel(t) ==
    /\ sessions' = [sessions EXCEPT ![t] = 0]
    /\ UNCHANGED <<peer, pending, made, keyed, tasks, refused, fails>>

Begin(t) ==
    /\ ready[t] # <<>>
    /\ LET e == Head(ready[t]) IN
       \/ e.kind = "request" /\ OnRequest(t)
       \/ e.kind = "start"   /\ OnStart(t)
       \/ e.kind = "odd"     /\ OnOdd(t)
       \/ e.kind = "key"     /\ OnKey(t)
       \/ e.kind = "mac"     /\ OnMac(t, e.obj)
       \/ e.kind = "cancel"  /\ OnCancel(t)
    /\ ready' = [ready EXCEPT ![t] = Tail(@)]
    /\ UNCHANGED <<device, batch, store, told, replaced, halfway, restarts, abandoned>>

-----------------------------------------------------------------------------
(***************************************************************************)
(* What follows an await.  A MAC handler that ends takes its transaction   *)
(* out of the dict; one that raises does not.                              *)
(***************************************************************************)
Becomes(k, at) == tasks' = (tasks \ {k}) \cup {[k EXCEPT !.at = at]}
Ends(k)        == tasks' = tasks \ {k}

\* Mistaken: the end of one verification empties the dict.
PopsAll(t)     == sessions' = [x \in Txns |-> 0]
Pops(t)        == sessions' = [sessions EXCEPT ![t] = 0]

SendOurMac(k) ==
    /\ k.at = "mac" /\ Ends(k)
    /\ Try(k.txn, "mac", k.obj)
    /\ UNCHANGED <<device, batch, made, store, ready, sessions, keyed, told, refused, replaced,
                   halfway, restarts, abandoned>>

SendCancel(k) ==
    /\ k.at = "reject" /\ Ends(k)
    /\ \/ Sends(k.txn, "cancel", k.obj) /\ Pops(k.txn)
       \/ MayFail(k.txn, "cancel", k.obj) /\ UNCHANGED sessions
    /\ UNCHANGED <<device, batch, made, store, ready, keyed, told, refused, replaced, halfway,
                   restarts, abandoned>>

SendDone(k) ==
    /\ k.at = "done" /\ Ends(k)
    /\ told' = told \cup {k.txn}
    /\ \/ Sends(k.txn, "done", k.obj) /\ Pops(k.txn)
       \/ MayFail(k.txn, "done", k.obj) /\ UNCHANGED sessions
    /\ UNCHANGED <<device, batch, made, store, ready, keyed, refused, replaced, halfway, restarts,
                   abandoned>>

DeviceOf(k) == device[k.txn]

\* Mistaken: "done" without the trust in the store.
OnlyJudge(k) ==
    IF <<k.txn, k.obj>> \notin keyed THEN Ends(k)
    ELSE Becomes(k, IF k.mac = k.obj THEN "done" ELSE "reject")

\* Without the client's key calculate_mac raises.
Judge(k) ==
    IF <<k.txn, k.obj>> \notin keyed THEN Ends(k)
    ELSE Becomes(k, IF k.mac = k.obj THEN "trust" ELSE "reject")

Lookup(k) ==
    /\ k.at = "lookup"
    /\ IF store[DeviceOf(k)] = "absent" THEN Becomes(k, "query") ELSE Judge(k)
    /\ UNCHANGED <<clients, pending, batch, made, ready, sessions, keyed, store, history>>

\* /keys/query knows the device, no longer does, or raises.
Query(k) ==
    /\ k.at = "query"
    /\ \/ Becomes(k, "put") /\ UNCHANGED fails
       \/ Raises /\ (Becomes(k, "reject") \/ Ends(k))
    /\ UNCHANGED <<clients, pending, batch, made, ready, sessions, keyed, store, told, refused,
                   replaced, halfway, restarts, abandoned>>

\* put_devices with one device.
PutDevice(d, trust) ==
    LET erased == IF PutReplaces THEN Devices \ {d} ELSE {} IN
    /\ store' = [x \in Devices |-> IF x = d THEN trust
                                   ELSE IF x \in erased THEN "absent" ELSE store[x]]
    /\ replaced' = (replaced \cup {x \in erased : store[x] = "verified"})
                   \ (IF trust = "verified" THEN {d} ELSE {})
    /\ halfway' = IF trust = "verified" THEN halfway \ {d} ELSE halfway

PutNew(k) ==
    /\ k.at = "put" /\ PutDevice(DeviceOf(k), "unverified") /\ Judge(k)
    /\ UNCHANGED <<clients, pending, batch, made, ready, sessions, keyed, told, refused, fails,
                   restarts, abandoned>>

PutTrust(k) ==
    /\ k.at = "trust" /\ PutDevice(DeviceOf(k), "verified") /\ Becomes(k, "done")
    /\ UNCHANGED <<clients, pending, batch, made, ready, sessions, keyed, told, refused, fails,
                   restarts, abandoned>>

TaskStep ==
    \E k \in tasks :
        \/ SendOurMac(k) \/ SendCancel(k) \/ SendDone(k)
        \/ Lookup(k) \/ Query(k) \/ PutNew(k) \/ PutTrust(k)

BeginStep == \E t \in Txns : Begin(t)

PeerStep == \E t \in Txns : Ask(t) \/ Confirm(t) \/ GiveUp(t)

Next == PeerStep \/ Sync \/ Restart \/ BeginStep \/ TaskStep

Spec == Init /\ [][Next]_vars

-----------------------------------------------------------------------------
(***************************************************************************)
(* A client that was told "done" has its device verified in the bot's      *)
(* store, and still has it so when every handler that touches the device   *)
(* has ended: no other verification, of this device or beside it, takes    *)
(* the trust away -- but for an entry erased by another device's, and for  *)
(* one left halfway by a kill.                                             *)
(***************************************************************************)
DoneMeansVerified ==
    \A t \in told :
        LET d == device[t] IN
        \/ store[d] = "verified"
        \/ d \in replaced \cup halfway
        \/ \E k \in tasks : k.at = "trust" /\ DeviceOf(k) = d

(***************************************************************************)
(* The dict does not fill up: when a transaction is over for its client,   *)
(* the session goes, unless the bot itself refused the method (it then     *)
(* keeps a session nobody will end) or one of its requests raised.         *)
(***************************************************************************)
SessionsEnd ==
    \A t \in Txns : Over(t) ~> sessions[t] = 0 \/ t \in refused \/ fails > 0

(***************************************************************************)
(* A client's MAC is answered with "done", whatever other verifications    *)
(* are under way, unless a request raises or the bot has forgotten the     *)
(* session.                                                                *)
(***************************************************************************)
MacsAreAnswered ==
    \A t \in Txns : peer[t].at = "confirmed" ~> t \in told \/ fails > 0 \/ restarts > 0
=============================================================================
