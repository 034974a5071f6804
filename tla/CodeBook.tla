------------------------------ MODULE CodeBook ------------------------------
(***************************************************************************)
(* A file of invite codes of the knock approver: codes.json, whose knock   *)
(* codes are spent by knocks and by POST /join/api, or signup_codes.json,  *)
(* spent by POST /signup/api.  The two files never meet in one handler but *)
(* for the lookup of !revoke, so a behavior follows one of them, picked by *)
(* Init.                                                                   *)
(*                                                                         *)
(* The approver is one asyncio process: a handler runs undisturbed between *)
(* two awaits and anything may run at an await.  Every handler that spends *)
(* a code loads the WHOLE file, awaits the network, and writes its copy of *)
(* the whole file back.  One action is one stretch of a handler between    *)
(* two awaits that reads or writes the file.                               *)
(***************************************************************************)
EXTENDS Integers, FiniteSets

CONSTANTS
    Codes,        \* the code strings that can come up
    Requests,     \* slots for HTTP requests served at the same time
    MainLoop,     \* the sync loop: one knock or one admin command at a time
    MaxUses,      \* largest uses_remaining a code is issued with (1000 in !mint)
    MaxBatch,     \* largest n of !mint -n (50 in the code)
    WelcomeUses,  \* LOBBY_WELCOME_CODE_USES; 0 turns welcome codes off
    Seeds,        \* what INITIAL_CODES (or INITIAL_SIGNUP_CODES) may hold at a boot
    Absent        \* "the code is not in the file"

Workers == Requests \cup {MainLoop}
Issue   == 1..MaxUses
Entry   == 0..MaxUses \cup {Absent}
File    == [Codes -> Entry]

ASSUME BoundsAssumption ==
    /\ MaxUses \in Nat \ {0}
    /\ MaxBatch \in Nat \ {0}
    /\ WelcomeUses \in 0..MaxUses
ASSUME NamesAssumption ==
    /\ IsFiniteSet(Requests)
    /\ MainLoop \notin Requests
    /\ Absent \notin Int
ASSUME SeedAssumption == Seeds \subseteq [Codes -> Issue \cup {Absent}]

VARIABLES
    kind,       \* which of the two files this is; never changes
    file,       \* the file: uses_remaining of each code
    flight,     \* who is suspended at an await, with which code and which copy
    issued,     \* history: uses ever given out by mint, welcome code or seed
    granted,    \* history: rooms created or accounts registered on a code
    unpaid,     \* history: those of them whose handler never took a use: the
                \*   request took effect, but no answer it could use came back
    voided,     \* history: uses taken away by !revoke
    clobbered   \* history: a copy that was not the file any more was written back

vars == <<kind, file, flight, issued, granted, unpaid, voided, clobbered>>

Handler == [code : Codes, snap : File]
Suspended == DOMAIN flight
Nobody == [w \in {} |-> w]

TypeOK ==
    /\ kind \in {"knock", "signup"}
    /\ file \in File
    /\ Suspended \subseteq Workers
    /\ flight \in [Suspended -> Handler]
    /\ issued \in [Codes -> Nat]
    /\ granted \in [Codes -> Nat]
    /\ unpaid \in [Codes -> Nat]
    /\ voided \in [Codes -> Nat]
    /\ clobbered \in BOOLEAN

\* A mistaken refusal: `not entry` alone.
LiveIfPresent(f, c) == f[c] # Absent

\* Not refused by `not entry or entry.get("uses_remaining", 0) <= 0`.
Live(f, c) == f[c] # Absent /\ f[c] > 0

\* What a copy of the file still promises on a code.
Left(f, c) == IF f[c] = Absent THEN 0 ELSE f[c]

-----------------------------------------------------------------------------
(***************************************************************************)
(* main() before the loops start: merge_seed adds the seed's missing keys. *)
(***************************************************************************)
\* A mistaken merge: the seed wins over what the file holds.
SeedWins(f, seed) == [c \in Codes |-> IF seed[c] = Absent THEN f[c] ELSE seed[c]]

Merged(f, seed) == [c \in Codes |-> IF f[c] = Absent THEN seed[c] ELSE f[c]]

Init ==
    /\ kind \in {"knock", "signup"}
    /\ file \in Seeds
    /\ flight = Nobody
    /\ issued = [c \in Codes |-> Left(file, c)]
    /\ granted = [c \in Codes |-> 0]
    /\ unpaid = [c \in Codes |-> 0]
    /\ voided = [c \in Codes |-> 0]
    /\ clobbered = FALSE

-----------------------------------------------------------------------------
(***************************************************************************)
(* Spending a code: load and validate, await, write back.  A refusal       *)
(* changes no file, so it is not an action.                                *)
(***************************************************************************)
Resume(w) == flight' = [v \in Suspended \ {w} |-> flight[v]]

Validate(w, c) ==
    /\ w \notin Suspended
    /\ Live(file, c)
    /\ flight' = [v \in Suspended \cup {w} |->
                    IF v = w THEN [code |-> c, snap |-> file] ELSE flight[v]]
    /\ UNCHANGED <<kind, file, issued, granted, unpaid, voided, clobbered>>

\* A mistaken remedy: load the file again after the await, without the check.
SpentOnReload(h) == [file EXCEPT ![h.code] = @ - 1]

\* entry["uses_remaining"] -= 1 on the copy loaded before the await
Spent(h) == [h.snap EXCEPT ![h.code] = @ - 1]

\* The remote call succeeded: the room or the account exists.
Spend(w) ==
    /\ w \in Suspended
    /\ file' = Spent(flight[w])
    /\ granted' = [granted EXCEPT ![flight[w].code] = @ + 1]
    /\ clobbered' = (clobbered \/ flight[w].snap # file)
    /\ Resume(w)
    /\ UNCHANGED <<kind, issued, unpaid, voided>>

\* createRoom or register refused, or never got there: nothing is written.
Refused(w) ==
    /\ w \in Suspended
    /\ Resume(w)
    /\ UNCHANGED <<kind, file, issued, granted, unpaid, voided, clobbered>>

\* createRoom or register took effect, but the handler cannot tell: the answer
\* was lost or unreadable, or the /join posted after createRoom raised.  The
\* room or the account exists, and the handler leaves without writing a thing.
Unanswered(w) ==
    /\ w \in Suspended
    /\ granted' = [granted EXCEPT ![flight[w].code] = @ + 1]
    /\ unpaid' = [unpaid EXCEPT ![flight[w].code] = @ + 1]
    /\ Resume(w)
    /\ UNCHANGED <<kind, file, issued, voided, clobbered>>

Fail(w) == Refused(w) \/ Unanswered(w)

JoinValidate(r, c)   == kind = "knock" /\ Validate(r, c)
JoinSpend(r)         == kind = "knock" /\ Spend(r)
JoinFail(r)          == kind = "knock" /\ Fail(r)

KnockValidate(c)     == kind = "knock" /\ Validate(MainLoop, c)
KnockSpend           == kind = "knock" /\ Spend(MainLoop)
KnockFail            == kind = "knock" /\ Fail(MainLoop)

SignupValidate(r, c) == kind = "signup" /\ Validate(r, c)
SignupSpend(r)       == kind = "signup" /\ Spend(r)
SignupFail(r)        == kind = "signup" /\ Fail(r)

-----------------------------------------------------------------------------
(***************************************************************************)
(* Writers that load and save without an await in between.                 *)
(***************************************************************************)
\* A mint that skips the collision check of `while code in codes`.
Anything(c) == TRUE

\* A random code: not in the file, and never drawn before.
Fresh(c) == file[c] = Absent /\ issued[c] = 0

Give(S, u) ==
    /\ file' = [c \in Codes |-> IF c \in S THEN u ELSE file[c]]
    /\ issued' = [c \in Codes |-> IF c \in S THEN issued[c] + u ELSE issued[c]]
    /\ UNCHANGED <<kind, flight, granted, unpaid, voided, clobbered>>

\* !mint [knock|signup] -n N --uses U, from the sync loop's admin queue
Mint(S, u) ==
    /\ MainLoop \notin Suspended
    /\ Cardinality(S) \in 1..MaxBatch
    /\ \A c \in S : Fresh(c)
    /\ Give(S, u)

\* the welcome code of a promotion, from either loop
MintWelcome(c) ==
    /\ kind = "signup"
    /\ WelcomeUses > 0
    /\ Fresh(c)
    /\ Give({c}, WelcomeUses)

\* !revoke when this is the file its lookup stops at
Revoke(c) ==
    /\ MainLoop \notin Suspended
    /\ file[c] # Absent
    /\ file' = [file EXCEPT ![c] = 0]
    /\ voided' = [voided EXCEPT ![c] = @ + file[c]]
    /\ UNCHANGED <<kind, flight, issued, granted, unpaid, clobbered>>

\* The process dies (an uncaught exception of either loop, a redeploy) and is
\* started again, perhaps with another seed.  The suspended handlers are gone;
\* the requests of some of them, took, have taken effect all the same.
Restart(seed, took) ==
    LET Took(c) == Cardinality({w \in took : flight[w].code = c}) IN
    /\ flight' = Nobody
    /\ file' = Merged(file, seed)
    /\ issued' = [c \in Codes |-> issued[c] + Left(file', c) - Left(file, c)]
    /\ granted' = [c \in Codes |-> granted[c] + Took(c)]
    /\ unpaid' = [c \in Codes |-> unpaid[c] + Took(c)]
    /\ UNCHANGED <<kind, voided, clobbered>>

Next ==
    \/ \E r \in Requests, c \in Codes : JoinValidate(r, c)
    \/ \E r \in Requests : JoinSpend(r)
    \/ \E r \in Requests : JoinFail(r)
    \/ \E c \in Codes : KnockValidate(c)
    \/ KnockSpend
    \/ KnockFail
    \/ \E r \in Requests, c \in Codes : SignupValidate(r, c)
    \/ \E r \in Requests : SignupSpend(r)
    \/ \E r \in Requests : SignupFail(r)
    \/ \E S \in SUBSET Codes, u \in Issue : Mint(S, u)
    \/ \E c \in Codes : MintWelcome(c)
    \/ \E c \in Codes : Revoke(c)
    \/ \E seed \in Seeds, took \in SUBSET Suspended : Restart(seed, took)

Spec == Init /\ [][Next]_vars

-----------------------------------------------------------------------------
\* Every copy of the file: on disk and in the suspended handlers.
Copies == {file} \cup {flight[w].snap : w \in Suspended}

(***************************************************************************)
(* A suspended handler's own copy still has the use it is about to take,   *)
(* so no interleaving of the handlers writes a negative uses_remaining,    *)
(* and no copy of the file ever promises more than was issued.             *)
(***************************************************************************)
CopiesWithinIssue ==
    /\ \A f \in Copies, c \in Codes : f[c] # Absent => 0 <= f[c] /\ f[c] <= issued[c]
    /\ \A w \in Suspended : Live(flight[w].snap, flight[w].code)

(***************************************************************************)
(* As long as no handler has written back a copy that had gone stale, each *)
(* use issued is granted, revoked or still in the file, and the only rooms *)
(* and accounts beyond that are the unpaid ones, whose handler heard no    *)
(* answer it could use or died waiting for it.  So a code promises more or *)
(* less than it should only after a stale write-back, and a room or an     *)
(* account costs nothing only by a lost answer or a kill.                  *)
(***************************************************************************)
UsesConserved ==
    ~clobbered =>
        \A c \in Codes :
            issued[c] + unpaid[c] = granted[c] + voided[c] + Left(file, c)

(***************************************************************************)
(* A code that is in the file with no uses left, and of which no suspended *)
(* handler holds a copy with uses left, is dead: no later mint, seed,      *)
(* revoke, restart or write-back of another code lets it be spent again.   *)
(***************************************************************************)
Dead(c) == \A f \in Copies : f[c] = 0

DeadStaysDead ==
    [][\A c \in Codes : Dead(c) => Dead(c)' /\ granted'[c] = granted[c]]_vars

(***************************************************************************)
(* A code grants at most what was issued on it: `ten knock codes, single   *)
(* use each (one per person)` in the docstring of !mint.  The unpaid rooms *)
(* and accounts are left aside: handlers that all hear their answers must  *)
(* not overspend a code either.                                            *)
(***************************************************************************)
GrantedWithinIssued == \A c \in Codes : granted[c] - unpaid[c] <= issued[c]
=============================================================================
