------------------------------ MODULE Announce ------------------------------
(***************************************************************************)
(* announce_lobby_events: once per cycle the main loop compares lobby.json *)
(* with a file of its own (operator_announces.json) and tells the          *)
(* operators who has started a lobby and which lobbies have failed.        *)
(*                                                                         *)
(* The scan works on what it loaded of both files; lobby.json goes on      *)
(* changing beside it, in the way LobbyBook says.  What was told is saved  *)
(* at the end of the scan only, and a send that raises gives the scan up.  *)
(***************************************************************************)
EXTENDS Naturals

CONSTANTS
    Rooms,      \* the rooms that can be minted
    Users,      \* the people who follow a link
    Nothing,    \* the room is not in the file
    NoFile,     \* operator_announces.json does not exist
    MaxBreaks,  \* bound: sends that raise, and crashes in a scan
    MaxWipes    \* bound: how often operator_announces.json is deleted

ASSUME AnnounceBounds == MaxBreaks \in Nat /\ MaxWipes \in Nat

VARIABLES
    book,       \* lobby.json
    minted,     \* the rooms that were ever recorded in it
    file,       \* operator_announces.json
    scanning,   \* a scan is under way
    snap,       \* the scan's copy of lobby.json
    seen,       \* the scan's copy of the file
    startTold,  \* history: "started" messages sent
    failTold,   \* history: "failed" messages sent
    breaks,     \* history: scans given up
    wipes       \* history: how often the file was deleted

scan  == <<scanning, snap, seen>>
tally == <<startTold, failTold, breaks, wipes>>
vars  == <<book, minted, file, scan, tally>>

Lobbies == INSTANCE LobbyBook

\* What the file says of a room.
Note == [started : SUBSET Users, failed : BOOLEAN]
Notes == [Rooms -> Note \cup {Nothing}]

ASSUME NothingAssumption == Nothing \notin Lobbies!Record \cup Note
ASSUME NoFileAssumption == NoFile \notin Notes

TypeOK ==
    /\ book \in [Rooms -> Lobbies!Record \cup {Nothing}]
    /\ minted \subseteq Rooms
    /\ file \in Notes \cup {NoFile}
    /\ scanning \in BOOLEAN
    /\ snap \in [Rooms -> Lobbies!Record \cup {Nothing}]
    /\ seen \in Notes
    /\ startTold \in [Rooms \X Users -> Nat] /\ failTold \in [Rooms -> Nat]
    /\ breaks \in 0..MaxBreaks /\ wipes \in 0..MaxWipes

Blank == [r \in Rooms |-> Nothing]

Init ==
    /\ Lobbies!Init
    /\ file = NoFile
    /\ scanning = FALSE /\ snap = Blank /\ seen = Blank
    /\ startTold = [p \in Rooms \X Users |-> 0]
    /\ failTold = [r \in Rooms |-> 0]
    /\ breaks = 0 /\ wipes = 0

-----------------------------------------------------------------------------
\* lobby.json changes, also in the middle of a scan.
LobbyMoves == Lobbies!Next /\ UNCHANGED <<file, scan, tally>>

\* A mistaken test for failure: any closed room.
FailedIfClosed(rec) == rec.reason # "open"

\* closed, and closed_reason not in (None, "promoted", "already_member")
Failed(rec) == rec.reason \notin {"open", "promoted"}

\* A mistaken note: the record itself.
ToldWhole(rec) == rec

\* The note that says of a room that all there is to tell was told.
Told(rec) == [started |-> rec.challenged, failed |-> Failed(rec)]

\* With no lobby there is nothing to do; without the file the first run notes
\* everything as told.
Seed ==
    /\ ~scanning /\ book # Blank /\ file = NoFile
    /\ file' = [r \in Rooms |-> IF book[r] = Nothing THEN Nothing ELSE Told(book[r])]
    /\ UNCHANGED <<book, minted, scan, tally>>

Begin ==
    /\ ~scanning /\ book # Blank /\ file # NoFile
    /\ scanning' = TRUE /\ snap' = book /\ seen' = file
    /\ UNCHANGED <<book, minted, file, tally>>

\* Closed before the file had it: noted as told.
TooLate(r) == seen[r] = Nothing /\ snap[r].reason # "open"

NoteOf(r) ==
    IF snap[r] # Nothing /\ TooLate(r) THEN Told(snap[r])
    ELSE IF seen[r] = Nothing THEN [started |-> {}, failed |-> FALSE]
    ELSE seen[r]

StartDue(r) == IF snap[r] = Nothing THEN {} ELSE snap[r].challenged \ NoteOf(r).started

\* A mistaken ghost test: every room that timed out.
NoTimeoutDue(r) ==
    /\ snap[r] # Nothing
    /\ Failed(snap[r]) /\ ~NoteOf(r).failed
    /\ snap[r].reason # "timeout"

FailureDue(r) ==
    /\ snap[r] # Nothing
    /\ Failed(snap[r]) /\ ~NoteOf(r).failed
    /\ snap[r].challenged # {}

TellStart(r, u) ==
    /\ scanning /\ u \in StartDue(r)
    /\ startTold' = [startTold EXCEPT ![<<r, u>>] = @ + 1]
    /\ seen' = [seen EXCEPT ![r] = [NoteOf(r) EXCEPT !.started = @ \cup {u}]]
    /\ UNCHANGED <<book, minted, file, scanning, snap, failTold, breaks, wipes>>

TellFailure(r) ==
    /\ scanning /\ StartDue(r) = {} /\ FailureDue(r)
    /\ failTold' = [failTold EXCEPT ![r] = @ + 1]
    /\ seen' = [seen EXCEPT ![r] = [NoteOf(r) EXCEPT !.failed = TRUE]]
    /\ UNCHANGED <<book, minted, file, scanning, snap, startTold, breaks, wipes>>

\* The note at the end of the scan: none for a room that has disappeared, and
\* "failed", untold, for a ghost room that timed out with nobody challenged.
Settled(r) ==
    IF snap[r] = Nothing THEN Nothing
    ELSE [NoteOf(r) EXCEPT !.failed = @ \/ (Failed(snap[r]) /\ snap[r].challenged = {})]

\* A note with nothing in it is no reason to save.
Dirty ==
    \E r \in Rooms :
        /\ Settled(r) # file[r]
        /\ ~(file[r] = Nothing /\ Settled(r) = [started |-> {}, failed |-> FALSE])

\* A mistaken save: only a failure is a reason to save.
FinishIfFailed ==
    /\ scanning
    /\ \A r \in Rooms : StartDue(r) = {} /\ ~FailureDue(r)
    /\ file' = IF \E r \in Rooms : Settled(r) # Nothing /\ Settled(r).failed
               THEN [r \in Rooms |-> Settled(r)] ELSE file
    /\ scanning' = FALSE /\ snap' = Blank /\ seen' = Blank
    /\ UNCHANGED <<book, minted, tally>>

\* Another mistaken save: only a start is a reason to save.
FinishIfStarted ==
    /\ scanning
    /\ \A r \in Rooms : StartDue(r) = {} /\ ~FailureDue(r)
    /\ file' = IF \E r \in Rooms : Settled(r) # Nothing
                                   /\ (file[r] = Nothing \/ Settled(r).started # file[r].started)
               THEN [r \in Rooms |-> Settled(r)] ELSE file
    /\ scanning' = FALSE /\ snap' = Blank /\ seen' = Blank
    /\ UNCHANGED <<book, minted, tally>>

Finish ==
    /\ scanning
    /\ \A r \in Rooms : StartDue(r) = {} /\ ~FailureDue(r)
    /\ file' = IF Dirty THEN [r \in Rooms |-> Settled(r)] ELSE file
    /\ scanning' = FALSE /\ snap' = Blank /\ seen' = Blank
    /\ UNCHANGED <<book, minted, tally>>

\* All a scan has noted is gone.
Abandon ==
    /\ breaks < MaxBreaks
    /\ breaks' = breaks + 1
    /\ scanning' = FALSE /\ snap' = Blank /\ seen' = Blank
    /\ UNCHANGED <<book, minted, file, startTold, failTold, wipes>>

\* A send raises, whether or not the message arrived.
GiveUp == scanning /\ Abandon

Wipe ==
    /\ ~scanning /\ file # NoFile /\ wipes < MaxWipes
    /\ wipes' = wipes + 1
    /\ file' = NoFile
    /\ UNCHANGED <<book, minted, scan, startTold, failTold, breaks>>

ScanStep ==
    \/ Seed
    \/ Begin
    \/ \E r \in Rooms, u \in Users : TellStart(r, u)
    \/ \E r \in Rooms : TellFailure(r)
    \/ Finish

Next == LobbyMoves \/ ScanStep \/ GiveUp \/ Wipe

Spec == Init /\ [][Next]_vars

-----------------------------------------------------------------------------
\* "Idempotent": a start is told once, and once more only for a scan that was
\* given up or a file that was deleted; a failure once, and once more only for
\* a scan given up after it.
ToldOnce ==
    /\ \A p \in Rooms \X Users : startTold[p] <= 1 + breaks + wipes
    /\ \A r \in Rooms : failTold[r] <= 1 + breaks

\* A failure is told only of a room that did fail.
NoFalseAlarm ==
    \A r \in Rooms : failTold[r] > 0 => book[r] # Nothing /\ book[r].reason = "timeout"

(***************************************************************************)
(* What the operators are told is true and new to them: no room that       *)
(* disappears, no one who is challenged again, and no closed room brings   *)
(* an announcement back (the flood of 2026-05-09).                         *)
(***************************************************************************)
ToldRight == ToldOnce /\ NoFalseAlarm

\* Whoever stays challenged is, in the end, noted in the file as started: told,
\* or there already when the file was first written or the room was closed
\* before it could be told.
Challenged(r, u) == book[r] # Nothing /\ u \in book[r].challenged

StartsAreTold ==
    \A r \in Rooms, u \in Users :
        Challenged(r, u) ~>
            \/ ~Challenged(r, u)
            \/ file # NoFile /\ file[r] # Nothing /\ u \in file[r].started

\* Of a room the file has, a timeout with somebody challenged is told, unless
\* the file is deleted.
Overdue(r) ==
    /\ file # NoFile /\ file[r] # Nothing /\ ~file[r].failed
    /\ book[r] # Nothing /\ book[r].reason = "timeout" /\ book[r].challenged # {}

FailuresAreTold == \A r \in Rooms : Overdue(r) ~> failTold[r] > 0 \/ wipes > 0

(***************************************************************************)
(* In the end the operators are told, although a scan may be given up and  *)
(* lobby.json goes on changing: of everybody who stays challenged, and of  *)
(* every room that ran out of time with somebody challenged in it.         *)
(***************************************************************************)
AreTold == StartsAreTold /\ FailuresAreTold
=============================================================================
