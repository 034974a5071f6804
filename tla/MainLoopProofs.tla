--------------------------- MODULE MainLoopProofs ---------------------------
(***************************************************************************)
(* Proofs about MainLoop for any number of rooms, people, commands, scans  *)
(* given up and deaths: the variables of the announcements and of the      *)
(* admin room keep their types, what the operators are told is true and    *)
(* new to them (ToldRight), and commands are carried out for admins only,  *)
(* once each, and are not forgotten (CommandsAreSafe).                     *)
(***************************************************************************)
EXTENDS MainLoop, SequenceTheorems, FiniteSetTheorems, TLAPS

-----------------------------------------------------------------------------
\* A room that was recorded and erased; it does not come back.
Gone(r) == r \in minted /\ book[r] = Nothing

\* What is in any copy of a file is about rooms that were recorded.
OnlyMinted ==
    \A r \in Rooms :
        /\ book[r] # Nothing \/ snap[r] # Nothing \/ seen[r] # Nothing => r \in minted
        /\ file # NoFile /\ file[r] # Nothing => r \in minted

\* The scan's copies are of its scan, and as far as they are out of date it
\* does not matter.
ScanSound ==
    /\ scanning => file # NoFile
    /\ ~scanning => snap = Blank /\ seen = Blank
    /\ \A r \in Rooms :
          /\ snap[r] # Nothing /\ snap[r].reason # "open" => book[r] = snap[r]
          /\ snap[r] = Nothing /\ seen[r] # Nothing => Gone(r)

\* A start is noted, where the next scan or the rest of this one will look.
StartNoted(r, u) ==
    IF scanning THEN seen[r] # Nothing /\ u \in seen[r].started
    ELSE file # NoFile /\ file[r] # Nothing /\ u \in file[r].started

FailureNoted(r) ==
    IF scanning THEN seen[r] # Nothing /\ seen[r].failed
    ELSE file = NoFile \/ (file[r] # Nothing /\ file[r].failed)

\* A start that is due to be told again would be paid for by a break or a
\* wipe; a failure by a break.
StartsCounted ==
    \A r \in Rooms, u \in Users :
        /\ startTold[<<r, u>>] <= 1 + breaks + wipes
        /\ \/ startTold[<<r, u>>] <= breaks + wipes
           \/ StartNoted(r, u)
           \/ Gone(r) /\ snap[r] = Nothing

FailuresCounted ==
    \A r \in Rooms :
        /\ failTold[r] <= 1 + breaks
        /\ failTold[r] <= breaks \/ FailureNoted(r)
        /\ failTold[r] > 0 =>
              /\ book[r] # Nothing /\ book[r].reason = "timeout"
              /\ scanning => snap[r] = book[r]

AnnounceInv == TypeOK /\ OnlyMinted /\ ScanSound /\ StartsCounted /\ FailuresCounted

-----------------------------------------------------------------------------
\* Every command at hand was fetched, is at hand once, and is not the bot's own
\* unless the bot does not know its name.
QueueSound ==
    /\ \A n \in queue : n <= since /\ n # hand.cmd /\ (~nameless => chat[n] # Bot)
    /\ hand.cmd <= since

\* A command that may yet be carried out has been so for lost cursors only.
ObeyedCounted ==
    \A n \in Numbers :
        /\ obeyed[n] <= 1 + lapses
        /\ n > since \/ n \in queue \/ (hand.cmd = n /\ hand.at = "admin")
              => obeyed[n] <= lapses
        /\ obeyed[n] > 0 => n \in rightful

\* An admin's commands are rightful, and so is one that has passed the check.
RightsSound ==
    /\ \A n \in Sent : chat[n] \in leaders \cup Allowlist => n \in rightful
    /\ hand.at = "admin" => hand.cmd \in rightful

CommandsInv ==
    CommandsTypeOK /\ QueueSound /\ ObeyedCounted /\ RightsSound /\ NoneForgotten

-----------------------------------------------------------------------------
(***************************************************************************)
(* What a loop step does to the announcements, and to the admin room.      *)
(***************************************************************************)
AnnounceStep == Next \/ Abandon \/ UNCHANGED announceVars

CommandStep ==
    \/ \E p \in People : Command(p) \/ Raise(p) \/ Lower(p)
    \/ Fetch \/ (\E n \in queue : Take(n)) \/ Obey \/ Reply \/ Dead
    \/ UNCHANGED cmdVars

LEMMA LoopSteps == [LoopNext]_loopVars => AnnounceStep /\ CommandStep
  BY DEF LoopNext, LoopStep, OthersMove, Fetches, Scans, ScanRaises, Drains, Drain, Dies,
         AnnounceStep, CommandStep, Next, ScanStep, GiveUp, loopVars

-----------------------------------------------------------------------------
(***************************************************************************)
(* Notes and records.                                                      *)
(***************************************************************************)
LEMMA NoteEdits ==
    ASSUME NEW n \in Note, NEW u \in Users
    PROVE  /\ [n EXCEPT !.started = @ \cup {u}] \in Note
           /\ [n EXCEPT !.failed = TRUE] \in Note
           /\ [n EXCEPT !.started = @ \cup {u}].failed = n.failed
           /\ [n EXCEPT !.started = @ \cup {u}].started = n.started \cup {u}
           /\ [n EXCEPT !.failed = TRUE].failed = TRUE
           /\ [n EXCEPT !.failed = TRUE].started = n.started
           /\ n # Nothing
  BY NothingAssumption DEF Note

LEMMA ToldIsNote ==
    ASSUME NEW rec \in Lobbies!Record
    PROVE  Told(rec) \in Note /\ (Failed(rec) => Told(rec).failed) /\ Told(rec) # Nothing
  <1>1. PICK f \in BOOLEAN : f = Failed(rec)
    <2>1. Failed(rec) \in BOOLEAN
      BY DEF Failed
    <2>2. QED BY <2>1, Zenon
  <1>2. Told(rec) = [started |-> rec.challenged, failed |-> f]
    BY <1>1, Zenon DEF Told
  <1>3. rec.challenged \subseteq Users /\ (Failed(rec) => f)
    BY <1>1 DEF Lobbies!Record
  <1>4. QED BY <1>2, <1>3, NothingAssumption DEF Note

LEMMA NoteOfIsNote ==
    ASSUME TypeOK, NEW r \in Rooms, snap[r] # Nothing
    PROVE  /\ NoteOf(r) \in Note /\ NoteOf(r) # Nothing
           /\ seen[r] # Nothing => NoteOf(r) = seen[r]
  <1>1. snap[r] \in Lobbies!Record
    BY DEF TypeOK
  <1>2. [started |-> {}, failed |-> FALSE] \in Note
    BY DEF Note
  <1>3. seen[r] # Nothing => seen[r] \in Note
    BY DEF TypeOK, Notes
  <1>4. QED BY <1>1, <1>2, <1>3, ToldIsNote, NothingAssumption DEF NoteOf, TooLate

(***************************************************************************)
(* The note a scan leaves behind has what it noted before.                 *)
(***************************************************************************)
LEMMA SettledKeeps ==
    ASSUME TypeOK, NEW r \in Rooms, snap[r] # Nothing
    PROVE  /\ Settled(r) \in Note /\ Settled(r) # Nothing
           /\ seen[r] # Nothing => /\ Settled(r).started = seen[r].started
                                   /\ seen[r].failed => Settled(r).failed
  <1> DEFINE ghost == Failed(snap[r]) /\ snap[r].challenged = {}
  <1>1. NoteOf(r) \in Note /\ (seen[r] # Nothing => NoteOf(r) = seen[r])
    BY NoteOfIsNote
  <1>2. PICK f \in BOOLEAN : f = (NoteOf(r).failed \/ ghost)
    <2>1. (NoteOf(r).failed \/ ghost) \in BOOLEAN
      OBVIOUS
    <2>2. QED BY <2>1, Zenon
  <1>3. Settled(r) = [NoteOf(r) EXCEPT !.failed = f]
    BY <1>2, Zenon DEF Settled
  <1>4. NoteOf(r).failed => f = TRUE
    BY <1>2
  <1>5. /\ [NoteOf(r) EXCEPT !.failed = f] \in Note
        /\ [NoteOf(r) EXCEPT !.failed = f].started = NoteOf(r).started
        /\ [NoteOf(r) EXCEPT !.failed = f].failed = f
    BY <1>1 DEF Note
  <1>6. QED BY <1>1, <1>3, <1>4, <1>5, NothingAssumption

LEMMA SettledNotes ==
    ASSUME TypeOK
    PROVE  [r \in Rooms |-> Settled(r)] \in Notes
  <1>1. ASSUME NEW r \in Rooms PROVE Settled(r) \in Note \cup {Nothing}
    <2>1. CASE snap[r] = Nothing
      BY <2>1 DEF Settled
    <2>2. CASE snap[r] # Nothing
      BY <2>2, SettledKeeps
    <2>3. QED BY <2>1, <2>2
  <1>2. QED BY <1>1 DEF Notes

(***************************************************************************)
(* If the file is not saved it has all the scan would have put into it.    *)
(***************************************************************************)
LEMMA CleanFileHas ==
    ASSUME TypeOK, ~Dirty, NEW r \in Rooms, snap[r] # Nothing, Settled(r) # Nothing
    PROVE  /\ Settled(r).started # {} => file[r] = Settled(r)
           /\ Settled(r).failed => file[r] = Settled(r)
  <1>1. \/ Settled(r) = file[r]
        \/ Settled(r) = [started |-> {}, failed |-> FALSE]
    BY DEF Dirty
  <1>2. QED BY <1>1

-----------------------------------------------------------------------------
(***************************************************************************)
(* Every step keeps the types of the announcements.                        *)
(***************************************************************************)
LEMMA BlankIs == Blank \in Notes /\ Blank \in [Rooms -> Lobbies!Record \cup {Nothing}]
  BY DEF Blank, Notes

LEMMA BookStep ==
    ASSUME AnnounceInv, LobbyMoves
    PROVE  /\ book' \in [Rooms -> Lobbies!Record \cup {Nothing}]
           /\ minted' \subseteq Rooms /\ minted \subseteq minted'
           /\ \A r \in Rooms :
                /\ book'[r] # Nothing => r \in minted'
                /\ Gone(r) => Gone(r)'
                /\ book[r] # Nothing /\ book[r].reason # "open" => book'[r] = book[r]
  <1> USE DEF AnnounceInv, OnlyMinted
  <1>1. CASE Lobbies!Save
    <2>1. ASSUME NEW r \in Rooms
          PROVE  /\ book[r] = Nothing => book'[r] = Nothing
                 /\ book[r] # Nothing /\ book[r].reason # "open" => book'[r] = book[r]
      BY <1>1 DEF Lobbies!Save, Lobbies!MayBecome
    <2>2. minted' = minted /\ book' \in [Rooms -> Lobbies!Record \cup {Nothing}]
      BY <1>1 DEF Lobbies!Save
    <2>3. QED BY <2>1, <2>2 DEF Gone, TypeOK
  <1>2. ASSUME NEW q \in Rooms, Lobbies!Mint(q)
        PROVE  /\ book' \in [Rooms -> Lobbies!Record \cup {Nothing}]
               /\ minted' \subseteq Rooms /\ minted \subseteq minted'
               /\ \A r \in Rooms :
                    /\ book'[r] # Nothing => r \in minted'
                    /\ Gone(r) => Gone(r)'
                    /\ book[r] # Nothing /\ book[r].reason # "open" => book'[r] = book[r]
    <2>1. /\ minted' = minted \cup {q} /\ book' = [book EXCEPT ![q] = Lobbies!Fresh]
          /\ q \notin minted
      BY <1>2 DEF Lobbies!Mint
    <2>2. Lobbies!Fresh \in Lobbies!Record
      BY DEF Lobbies!Fresh, Lobbies!Record
    <2>3. QED BY <2>1, <2>2 DEF Gone, TypeOK
  <1>3. QED BY <1>1, <1>2 DEF LobbyMoves, Lobbies!Next

LEMMA StepAnnounceType == AnnounceInv /\ AnnounceStep => TypeOK'
  <1> SUFFICES ASSUME AnnounceInv, AnnounceStep PROVE TypeOK'
    OBVIOUS
  <1> USE AnnounceBounds DEF AnnounceInv
  <1>0. Blank \in Notes /\ Blank \in [Rooms -> Lobbies!Record \cup {Nothing}]
    BY BlankIs
  <1>1. CASE LobbyMoves
    BY <1>1, BookStep DEF LobbyMoves, TypeOK, scan, tally
  <1>2. CASE Seed
    <2>1. ASSUME NEW r \in Rooms, book[r] # Nothing PROVE Told(book[r]) \in Note
      BY <2>1, ToldIsNote DEF TypeOK
    <2>2. file' \in Notes
      BY <1>2, <2>1 DEF Seed, Notes
    <2>3. QED BY <1>2, <2>2 DEF Seed, TypeOK, scan, tally
  <1>3. CASE Begin
    BY <1>3 DEF Begin, TypeOK, tally
  <1>4. ASSUME NEW r \in Rooms, NEW u \in Users, TellStart(r, u) PROVE TypeOK'
    <2>1. snap[r] # Nothing
      BY <1>4 DEF TellStart, StartDue
    <2>2. [NoteOf(r) EXCEPT !.started = @ \cup {u}] \in Note
      BY <2>1, NoteOfIsNote, NoteEdits
    <2>3. seen' \in Notes
      BY <1>4, <2>2 DEF TellStart, TypeOK, Notes
    <2>4. startTold' \in [Rooms \X Users -> Nat]
      BY <1>4 DEF TellStart, TypeOK
    <2>5. QED BY <1>4, <2>3, <2>4 DEF TellStart, TypeOK
  <1>5. ASSUME NEW r \in Rooms, TellFailure(r) PROVE TypeOK'
    <2>1. snap[r] # Nothing
      BY <1>5 DEF TellFailure, FailureDue
    <2>2. [NoteOf(r) EXCEPT !.failed = TRUE] \in Note
      <3>1. NoteOf(r) \in Note
        BY <2>1, NoteOfIsNote
      <3>2. QED BY <3>1 DEF Note
    <2>3. seen' \in Notes
      BY <1>5, <2>2 DEF TellFailure, TypeOK, Notes
    <2>4. QED BY <1>5, <2>3 DEF TellFailure, TypeOK
  <1>6. CASE Finish
    BY <1>6, <1>0, SettledNotes DEF Finish, TypeOK, tally
  <1>7. CASE Abandon
    <2>1. breaks' \in 0..MaxBreaks
      BY <1>7 DEF Abandon, TypeOK
    <2>2. QED BY <1>7, <1>0, <2>1 DEF Abandon, TypeOK
  <1>8. CASE Wipe
    BY <1>8 DEF Wipe, TypeOK, scan
  <1>9. CASE UNCHANGED announceVars
    BY <1>9 DEF announceVars, vars, scan, tally, TypeOK
  <1>10. QED BY <1>1, <1>2, <1>3, <1>4, <1>5, <1>6, <1>7, <1>8, <1>9
         DEF AnnounceStep, Next, ScanStep, GiveUp

(***************************************************************************)
(* Every step keeps the copies sound.                                      *)
(***************************************************************************)
LEMMA StepCopies == AnnounceInv /\ AnnounceStep => OnlyMinted' /\ ScanSound'
  <1> SUFFICES ASSUME AnnounceInv, AnnounceStep PROVE OnlyMinted' /\ ScanSound'
    OBVIOUS
  <1> USE DEF AnnounceInv
  <1>1. CASE LobbyMoves
    <2>1. UNCHANGED <<file, scanning, snap, seen>>
      BY <1>1 DEF LobbyMoves, scan
    <2>2. minted \subseteq minted' /\ \A r \in Rooms :
                /\ book'[r] # Nothing => r \in minted'
                /\ Gone(r) => Gone(r)'
                /\ book[r] # Nothing /\ book[r].reason # "open" => book'[r] = book[r]
      BY <1>1, BookStep
    <2>3. OnlyMinted'
      BY <2>1, <2>2 DEF OnlyMinted
    <2>4. ASSUME NEW r \in Rooms
          PROVE  /\ snap[r] # Nothing /\ snap[r].reason # "open" => book'[r] = snap[r]
                 /\ snap[r] = Nothing /\ seen[r] # Nothing => Gone(r)'
      BY <2>2 DEF ScanSound
    <2>5. (scanning => file # NoFile) /\ (~scanning => snap = Blank /\ seen = Blank)
      BY DEF ScanSound
    <2>6. QED BY <2>1, <2>3, <2>4, <2>5 DEF ScanSound
  <1>2. CASE Seed
    BY <1>2 DEF Seed, scan, OnlyMinted, ScanSound, Gone
  <1>3. CASE Begin
    BY <1>3 DEF Begin, OnlyMinted, ScanSound, Gone
  <1>4. ASSUME NEW r \in Rooms, NEW n, snap[r] # Nothing, scanning,
               seen' = [seen EXCEPT ![r] = n],
               UNCHANGED <<book, minted, file, scanning, snap>>
        PROVE  OnlyMinted' /\ ScanSound'
    BY <1>4 DEF OnlyMinted, ScanSound, Gone, TypeOK, Notes
  <1>5. ASSUME NEW r \in Rooms, NEW u \in Users, TellStart(r, u)
        PROVE  OnlyMinted' /\ ScanSound'
    <2>1. snap[r] # Nothing
      BY <1>5 DEF TellStart, StartDue
    <2>2. QED BY <1>5, <2>1, <1>4 DEF TellStart
  <1>6. ASSUME NEW r \in Rooms, TellFailure(r) PROVE OnlyMinted' /\ ScanSound'
    <2>1. snap[r] # Nothing
      BY <1>6 DEF TellFailure, FailureDue
    <2>2. QED BY <1>6, <2>1, <1>4 DEF TellFailure
  <1>7. CASE Finish
    <2>1. \A r \in Rooms : Settled(r) # Nothing => r \in minted
      BY DEF Settled, OnlyMinted
    <2>2. \A r \in Rooms : file'[r] # Nothing => r \in minted
      BY <1>7, <2>1 DEF Finish, ScanSound, OnlyMinted
    <2>3. UNCHANGED <<book, minted>> /\ ~scanning' /\ snap' = Blank /\ seen' = Blank
      BY <1>7 DEF Finish
    <2>4. QED BY <2>2, <2>3 DEF OnlyMinted, ScanSound, Blank
  <1>8. CASE Abandon
    BY <1>8 DEF Abandon, OnlyMinted, ScanSound, Blank
  <1>9. CASE Wipe
    BY <1>9 DEF Wipe, scan, OnlyMinted, ScanSound, Gone
  <1>10. CASE UNCHANGED announceVars
    BY <1>10 DEF announceVars, vars, scan, tally, OnlyMinted, ScanSound, Gone
  <1>11. QED BY <1>1, <1>2, <1>3, <1>5, <1>6, <1>7, <1>8, <1>9, <1>10
         DEF AnnounceStep, Next, ScanStep, GiveUp

(***************************************************************************)
(* Every step keeps the count of the starts told.                          *)
(***************************************************************************)
LEMMA StepStarts == AnnounceInv /\ AnnounceStep => StartsCounted'
  <1> SUFFICES ASSUME AnnounceInv, AnnounceStep,
                      NEW r \in Rooms, NEW u \in Users
               PROVE  /\ startTold'[<<r, u>>] <= 1 + breaks' + wipes'
                      /\ \/ startTold'[<<r, u>>] <= breaks' + wipes'
                         \/ StartNoted(r, u)'
                         \/ Gone(r)' /\ snap'[r] = Nothing
    BY DEF StartsCounted
  <1> USE AnnounceBounds DEF AnnounceInv
  <1>0. /\ startTold[<<r, u>>] \in Nat /\ breaks \in Nat /\ wipes \in Nat
        /\ startTold[<<r, u>>] <= 1 + breaks + wipes
        /\ \/ startTold[<<r, u>>] <= breaks + wipes
           \/ StartNoted(r, u)
           \/ Gone(r) /\ snap[r] = Nothing
    BY DEF TypeOK, StartsCounted
  <1>1. CASE LobbyMoves
    <2>1. UNCHANGED <<file, scanning, snap, seen, startTold, breaks, wipes>>
      BY <1>1 DEF LobbyMoves, scan, tally
    <2>2. Gone(r) => Gone(r)'
      BY <1>1, BookStep
    <2>3. StartNoted(r, u) => StartNoted(r, u)'
      BY <2>1 DEF StartNoted
    <2>4. QED BY <1>0, <2>1, <2>2, <2>3
  <1>2. CASE Seed
    <2>1. /\ ~scanning /\ file = NoFile
          /\ UNCHANGED <<book, minted, snap, startTold, breaks, wipes>>
      BY <1>2 DEF Seed, scan, tally
    <2>2. QED BY <1>0, <2>1 DEF StartNoted, Gone
  <1>3. CASE Begin
    <2>1. /\ ~scanning /\ file # NoFile /\ scanning' /\ snap' = book /\ seen' = file
          /\ UNCHANGED <<book, minted, startTold, breaks, wipes>>
      BY <1>3 DEF Begin, tally
    <2>2. QED BY <1>0, <2>1 DEF StartNoted, Gone
  <1>4. ASSUME NEW q \in Rooms, NEW v \in Users, TellStart(q, v)
        PROVE  /\ startTold'[<<r, u>>] <= 1 + breaks' + wipes'
               /\ \/ startTold'[<<r, u>>] <= breaks' + wipes'
                  \/ StartNoted(r, u)'
                  \/ Gone(r)' /\ snap'[r] = Nothing
    <2> DEFINE m == [NoteOf(q) EXCEPT !.started = @ \cup {v}]
    <2>1. /\ scanning /\ snap[q] # Nothing /\ v \notin NoteOf(q).started
          /\ startTold' = [startTold EXCEPT ![<<q, v>>] = @ + 1]
          /\ seen' = [seen EXCEPT ![q] = m]
          /\ UNCHANGED <<book, minted, scanning, snap, breaks, wipes>>
      BY <1>4 DEF TellStart, StartDue
    <2>2. /\ m.started = NoteOf(q).started \cup {v} /\ m # Nothing
          /\ seen[q] # Nothing => NoteOf(q) = seen[q]
      <3>1. NoteOf(q) \in Note /\ (seen[q] # Nothing => NoteOf(q) = seen[q])
        BY <2>1, NoteOfIsNote
      <3>2. QED BY <3>1, NoteEdits
    <2> HIDE DEF m
    <2>3. CASE q = r /\ v = u
      <3>1. startTold'[<<r, u>>] = startTold[<<r, u>>] + 1
        BY <2>1, <2>3 DEF TypeOK
      <3>2. ~StartNoted(r, u)
        BY <2>1, <2>2, <2>3 DEF StartNoted
      <3>3. StartNoted(r, u)'
        BY <2>1, <2>2, <2>3 DEF StartNoted, TypeOK, Notes
      <3>4. startTold[<<r, u>>] <= breaks + wipes
        BY <1>0, <2>1, <2>3, <3>2
      <3>5. QED BY <1>0, <2>1, <3>1, <3>3, <3>4
    <2>4. CASE ~(q = r /\ v = u)
      <3>1. startTold'[<<r, u>>] = startTold[<<r, u>>]
        BY <2>1, <2>4 DEF TypeOK
      <3>2. StartNoted(r, u) => StartNoted(r, u)'
        BY <2>1, <2>2 DEF StartNoted, TypeOK, Notes
      <3>3. QED BY <1>0, <2>1, <3>1, <3>2 DEF Gone
    <2>5. QED BY <2>3, <2>4
  <1>5. ASSUME NEW q \in Rooms, TellFailure(q)
        PROVE  /\ startTold'[<<r, u>>] <= 1 + breaks' + wipes'
               /\ \/ startTold'[<<r, u>>] <= breaks' + wipes'
                  \/ StartNoted(r, u)'
                  \/ Gone(r)' /\ snap'[r] = Nothing
    <2> DEFINE m == [NoteOf(q) EXCEPT !.failed = TRUE]
    <2>1. /\ scanning /\ snap[q] # Nothing /\ seen' = [seen EXCEPT ![q] = m]
          /\ UNCHANGED <<book, minted, scanning, snap, startTold, breaks, wipes>>
      BY <1>5 DEF TellFailure, FailureDue
    <2>2. /\ m # Nothing /\ m.started = NoteOf(q).started
          /\ seen[q] # Nothing => NoteOf(q) = seen[q]
      <3>1. NoteOf(q) \in Note /\ (seen[q] # Nothing => NoteOf(q) = seen[q])
        BY <2>1, NoteOfIsNote
      <3>2. QED BY <3>1, NoteEdits
    <2> HIDE DEF m
    <2>3. StartNoted(r, u) => StartNoted(r, u)'
      BY <2>1, <2>2 DEF StartNoted, TypeOK, Notes
    <2>4. QED BY <1>0, <2>1, <2>3 DEF Gone
  <1>6. CASE Finish
    <2>1. /\ scanning /\ ~scanning' /\ snap' = Blank /\ file # NoFile
          /\ file' = IF Dirty THEN [q \in Rooms |-> Settled(q)] ELSE file
          /\ UNCHANGED <<book, minted, startTold, breaks, wipes>>
      BY <1>6 DEF Finish, tally, ScanSound
    <2>2. CASE StartNoted(r, u) /\ snap[r] # Nothing
      <3>1. /\ seen[r] # Nothing /\ u \in Settled(r).started /\ Settled(r) # Nothing
        BY <2>1, <2>2, SettledKeeps DEF StartNoted
      <3>2. file'[r] = Settled(r)
        BY <2>1, <2>2, <3>1, CleanFileHas
      <3>3. file' # NoFile
        BY <2>1, SettledNotes, NoFileAssumption
      <3>4. StartNoted(r, u)'
        BY <2>1, <3>1, <3>2, <3>3 DEF StartNoted
      <3>5. QED BY <1>0, <2>1, <3>4
    <2>3. CASE StartNoted(r, u) /\ snap[r] = Nothing
      <3>1. Gone(r)
        BY <2>1, <2>3 DEF StartNoted, ScanSound
      <3>2. Gone(r)' /\ snap'[r] = Nothing
        BY <2>1, <3>1 DEF Gone, Blank
      <3>3. QED BY <1>0, <2>1, <3>2
    <2>4. CASE ~StartNoted(r, u)
      BY <1>0, <2>1, <2>4 DEF Gone, Blank
    <2>5. QED BY <2>2, <2>3, <2>4
  <1>7. CASE Abandon
    BY <1>0, <1>7 DEF Abandon
  <1>8. CASE Wipe
    BY <1>0, <1>8 DEF Wipe, scan
  <1>9. CASE UNCHANGED announceVars
    BY <1>0, <1>9 DEF announceVars, vars, scan, tally, StartNoted, Gone
  <1>10. QED BY <1>1, <1>2, <1>3, <1>4, <1>5, <1>6, <1>7, <1>8, <1>9
         DEF AnnounceStep, Next, ScanStep, GiveUp

(***************************************************************************)
(* Every step keeps the count of the failures told: a room that failed     *)
(* stays in lobby.json as it is, so its note stays where it is needed.     *)
(***************************************************************************)
LEMMA StepFailures == AnnounceInv /\ AnnounceStep => FailuresCounted'
  <1> DEFINE Kept(r) ==
               /\ failTold[r] <= 1 + breaks
               /\ failTold[r] <= breaks \/ FailureNoted(r)
               /\ failTold[r] > 0 =>
                     /\ book[r] # Nothing /\ book[r].reason = "timeout"
                     /\ scanning => snap[r] = book[r]
  <1> SUFFICES ASSUME AnnounceInv, AnnounceStep, NEW r \in Rooms
               PROVE  Kept(r)'
    BY DEF FailuresCounted
  <1> USE AnnounceBounds DEF AnnounceInv
  <1>0. failTold[r] \in Nat /\ breaks \in Nat /\ Kept(r)
    BY DEF TypeOK, FailuresCounted
  <1>1. CASE LobbyMoves
    <2>1. UNCHANGED <<file, scanning, snap, seen, failTold, breaks>>
      BY <1>1 DEF LobbyMoves, scan, tally
    <2>2. book[r] # Nothing /\ book[r].reason # "open" => book'[r] = book[r]
      BY <1>1, BookStep
    <2>3. FailureNoted(r) => FailureNoted(r)'
      BY <2>1 DEF FailureNoted
    <2>4. QED BY <1>0, <2>1, <2>2, <2>3
  <1>2. CASE Seed
    <2>1. /\ ~scanning /\ file = NoFile
          /\ file' = [q \in Rooms |-> IF book[q] = Nothing THEN Nothing ELSE Told(book[q])]
          /\ UNCHANGED <<book, scanning, snap, failTold, breaks>>
      BY <1>2 DEF Seed, scan, tally
    <2>2. CASE failTold[r] > 0
      <3>1. book[r] \in Lobbies!Record /\ Failed(book[r])
        BY <1>0, <2>2 DEF TypeOK, Failed
      <3>2. file'[r] # Nothing /\ file'[r].failed
        BY <2>1, <3>1, ToldIsNote, NothingAssumption
      <3>3. QED BY <1>0, <2>1, <3>2 DEF FailureNoted
    <2>3. CASE failTold[r] = 0
      BY <1>0, <2>1, <2>3
    <2>4. QED BY <1>0, <2>2, <2>3
  <1>3. CASE Begin
    <2>1. /\ ~scanning /\ file # NoFile /\ scanning' /\ snap' = book /\ seen' = file
          /\ UNCHANGED <<book, failTold, breaks>>
      BY <1>3 DEF Begin, tally
    <2>2. QED BY <1>0, <2>1 DEF FailureNoted
  <1>4. ASSUME NEW q \in Rooms, NEW u \in Users, TellStart(q, u) PROVE Kept(r)'
    <2> DEFINE m == [NoteOf(q) EXCEPT !.started = @ \cup {u}]
    <2>1. /\ scanning /\ snap[q] # Nothing
          /\ seen' = [seen EXCEPT ![q] = m]
          /\ UNCHANGED <<book, scanning, snap, failTold, breaks>>
      BY <1>4 DEF TellStart, StartDue
    <2>2. /\ m.failed = NoteOf(q).failed /\ m # Nothing
          /\ seen[q] # Nothing => NoteOf(q) = seen[q]
      <3>1. NoteOf(q) \in Note /\ (seen[q] # Nothing => NoteOf(q) = seen[q])
        BY <2>1, NoteOfIsNote
      <3>2. QED BY <3>1, NoteEdits
    <2> HIDE DEF m
    <2>3. FailureNoted(r) => FailureNoted(r)'
      BY <2>1, <2>2 DEF FailureNoted, TypeOK, Notes
    <2>4. QED BY <1>0, <2>1, <2>3
  <1>5. ASSUME NEW q \in Rooms, TellFailure(q) PROVE Kept(r)'
    <2> DEFINE m == [NoteOf(q) EXCEPT !.failed = TRUE]
    <2>1. /\ scanning /\ snap[q] # Nothing /\ seen' = [seen EXCEPT ![q] = m]
          /\ ~NoteOf(q).failed /\ Failed(snap[q])
          /\ failTold' = [failTold EXCEPT ![q] = @ + 1]
          /\ UNCHANGED <<book, scanning, snap, breaks>>
      BY <1>5 DEF TellFailure, FailureDue
    <2>2. /\ m # Nothing /\ m.failed
          /\ seen[q] # Nothing => NoteOf(q) = seen[q]
      <3>1. NoteOf(q) \in Note /\ (seen[q] # Nothing => NoteOf(q) = seen[q])
        BY <2>1, NoteOfIsNote
      <3>2. QED BY <3>1, NothingAssumption DEF Note
    <2> HIDE DEF m
    <2>3. CASE q = r
      <3>1. failTold'[r] = failTold[r] + 1
        BY <2>1, <2>3 DEF TypeOK
      <3>2. ~FailureNoted(r)
        BY <2>1, <2>2, <2>3 DEF FailureNoted
      <3>3. FailureNoted(r)'
        BY <2>1, <2>2, <2>3 DEF FailureNoted, TypeOK, Notes
      <3>4. snap[r].reason = "timeout" /\ book[r] = snap[r]
        BY <2>1, <2>3 DEF Failed, ScanSound, TypeOK, Lobbies!Record
      <3>5. QED BY <1>0, <2>1, <2>3, <3>1, <3>2, <3>3, <3>4
    <2>4. CASE q # r
      <3>1. failTold'[r] = failTold[r]
        BY <2>1, <2>4 DEF TypeOK
      <3>2. FailureNoted(r) => FailureNoted(r)'
        BY <2>1, <2>4 DEF FailureNoted
      <3>3. QED BY <1>0, <2>1, <3>1, <3>2
    <2>5. QED BY <2>3, <2>4
  <1>6. CASE Finish
    <2>1. /\ scanning /\ ~scanning' /\ file # NoFile
          /\ file' = IF Dirty THEN [q \in Rooms |-> Settled(q)] ELSE file
          /\ UNCHANGED <<book, failTold, breaks>>
      BY <1>6 DEF Finish, tally, ScanSound
    <2>2. CASE FailureNoted(r) /\ failTold[r] > 0
      <3>1. snap[r] # Nothing
        BY <1>0, <2>1, <2>2
      <3>2. Settled(r).failed /\ Settled(r) # Nothing
        BY <2>1, <2>2, <3>1, SettledKeeps DEF FailureNoted
      <3>3. file'[r] = Settled(r)
        BY <2>1, <3>1, <3>2, CleanFileHas
      <3>4. FailureNoted(r)'
        BY <2>1, <3>2, <3>3 DEF FailureNoted
      <3>5. QED BY <1>0, <2>1, <3>4
    <2>3. CASE ~(FailureNoted(r) /\ failTold[r] > 0)
      BY <1>0, <2>1, <2>3
    <2>4. QED BY <2>2, <2>3
  <1>7. CASE Abandon
    <2>1. /\ breaks' = breaks + 1 /\ ~scanning' /\ UNCHANGED <<book, failTold>>
      BY <1>7 DEF Abandon
    <2>2. QED BY <1>0, <2>1
  <1>8. CASE Wipe
    <2>1. /\ ~scanning /\ ~scanning' /\ file' = NoFile /\ UNCHANGED <<book, failTold, breaks>>
      BY <1>8 DEF Wipe, scan
    <2>2. QED BY <1>0, <2>1 DEF FailureNoted
  <1>9. CASE UNCHANGED announceVars
    BY <1>0, <1>9 DEF announceVars, vars, scan, tally, FailureNoted
  <1>10. QED BY <1>1, <1>2, <1>3, <1>4, <1>5, <1>6, <1>7, <1>8, <1>9
         DEF AnnounceStep, Next, ScanStep, GiveUp

LEMMA AnnounceInvAlways == LoopSpec => []AnnounceInv
  <1>1. LoopInit => AnnounceInv
    <2> SUFFICES ASSUME LoopInit PROVE AnnounceInv
      OBVIOUS
    <2>1. Init
      BY DEF LoopInit
    <2>2. TypeOK
      <3>1. book = Blank /\ minted = {} /\ file = NoFile /\ snap = Blank /\ seen = Blank
        BY <2>1 DEF Init, Lobbies!Init, Blank
      <3>2. /\ startTold \in [Rooms \X Users -> Nat] /\ failTold \in [Rooms -> Nat]
            /\ breaks \in 0..MaxBreaks /\ wipes \in 0..MaxWipes /\ scanning \in BOOLEAN
        <4>1. startTold \in [Rooms \X Users -> Nat] /\ failTold \in [Rooms -> Nat]
          BY <2>1 DEF Init
        <4>2. breaks \in 0..MaxBreaks /\ wipes \in 0..MaxWipes
          BY <2>1, AnnounceBounds DEF Init
        <4>3. scanning \in BOOLEAN
          BY <2>1 DEF Init
        <4>4. QED BY <4>1, <4>2, <4>3
      <3>3. QED BY <3>1, <3>2, BlankIs DEF TypeOK
    <2>3. OnlyMinted /\ ScanSound
      BY <2>1 DEF Init, Lobbies!Init, OnlyMinted, ScanSound, Blank
    <2>4. StartsCounted
      BY <2>1 DEF Init, StartsCounted
    <2>5. FailuresCounted
      <3>1. ASSUME NEW r \in Rooms
            PROVE  failTold[r] = 0 /\ breaks = 0
        BY <2>1 DEF Init
      <3>2. ASSUME NEW r \in Rooms
            PROVE  failTold[r] <= 1 + breaks /\ failTold[r] <= breaks /\ ~(failTold[r] > 0)
        BY <3>1
      <3>3. QED BY <3>2, Zenon DEF FailuresCounted
    <2>6. QED BY <2>2, <2>3, <2>4, <2>5 DEF AnnounceInv
  <1>2. AnnounceInv /\ [LoopNext]_loopVars => AnnounceInv'
    BY LoopSteps, StepAnnounceType, StepCopies, StepStarts, StepFailures DEF AnnounceInv
  <1>3. QED BY <1>1, <1>2, PTL DEF LoopSpec

(***************************************************************************)
(* What the operators are told is true and new to them: a start is told    *)
(* once, and again only for a scan given up or a file deleted, a failure   *)
(* once, and again only for a scan given up, and of failed rooms only.     *)
(***************************************************************************)
THEOREM ToldRightAlways == LoopSpec => []ToldRight
  <1>1. AnnounceInv => ToldRight
    <2> SUFFICES ASSUME AnnounceInv PROVE ToldRight
      OBVIOUS
    <2>1. \A p \in Rooms \X Users : startTold[p] <= 1 + breaks + wipes
      BY DEF AnnounceInv, StartsCounted
    <2>2. QED BY <2>1 DEF AnnounceInv, FailuresCounted, ToldRight, ToldOnce, NoFalseAlarm
  <1>2. QED BY <1>1, AnnounceInvAlways, PTL

-----------------------------------------------------------------------------
(***************************************************************************)
(* The admin room: what its steps have in common.                          *)
(***************************************************************************)
LEMMA ChatGrows ==
    ASSUME CommandsTypeOK, NEW p \in People \cup {Bot}, Len(chat) < MaxSent
    PROVE  /\ Append(chat, p) \in Seq(People \cup {Bot})
           /\ Len(Append(chat, p)) = Len(chat) + 1
           /\ DOMAIN Append(chat, p) = Sent \cup {Len(chat) + 1}
           /\ \A n \in Sent : Append(chat, p)[n] = chat[n]
           /\ Append(chat, p)[Len(chat) + 1] = p
           /\ Sent \subseteq Numbers /\ Len(chat) + 1 \in Numbers
           /\ Len(chat) + 1 \notin Sent
  BY CommandsAssumption, AppendProperties DEF CommandsTypeOK, Sent, Numbers

LEMMA Atoms ==
    ASSUME CommandsTypeOK
    PROVE  /\ Sent = 1..Len(chat) /\ Len(chat) \in Nat /\ Sent \subseteq Numbers
           /\ since \in Nat /\ since <= Len(chat) /\ lapses \in Nat
           /\ queue \subseteq Sent
           /\ \A n \in Numbers : obeyed[n] \in Nat
           /\ \A n \in Sent : chat[n] \in People \cup {Bot}
           /\ hand # Free => hand.cmd \in Sent /\ InHand = {hand.cmd}
           /\ hand.at \in {"admin", "refused", "done", "raised"} => hand # Free
           /\ hand.cmd \in Nat
           /\ Free.cmd = 0 /\ Free.at = "free"
           /\ hand = Free => InHand = {}
  <1>1. /\ Sent = 1..Len(chat) /\ Len(chat) \in Nat /\ Sent \subseteq Numbers
        /\ \A n \in Sent : chat[n] \in People \cup {Bot}
    BY CommandsAssumption DEF CommandsTypeOK, Sent, Numbers
  <1>2. Free.cmd = 0 /\ Free.at = "free"
    BY DEF Free
  <1>3. hand # Free => hand \in [cmd : Sent, at : {"admin", "refused", "done", "raised"}]
    BY DEF CommandsTypeOK
  <1>4. hand # Free => hand.cmd \in Sent /\ InHand = {hand.cmd}
    BY <1>1, <1>3 DEF InHand
  <1>5. hand = Free => InHand = {}
    BY <1>2 DEF InHand, Numbers
  <1>6. QED BY <1>1, <1>2, <1>4, <1>5 DEF CommandsTypeOK

(***************************************************************************)
(* Every step keeps the types of the admin room.                           *)
(***************************************************************************)
LEMMA StepCommandsType == CommandsTypeOK /\ CommandStep => CommandsTypeOK'
  <1> SUFFICES ASSUME CommandsTypeOK, CommandStep PROVE CommandsTypeOK'
    OBVIOUS
  <1> USE CommandsAssumption
  <1>0. /\ Sent = 1..Len(chat) /\ Len(chat) \in Nat /\ Sent \subseteq Numbers
        /\ \A n \in Numbers : obeyed[n] \in Nat
        /\ hand # Free => hand.cmd \in Sent
        /\ hand.at \in {"admin", "refused", "done", "raised"} => hand # Free
        /\ Free.cmd = 0 /\ Free.at = "free"
    BY Atoms
  <1>1. ASSUME NEW p \in People, Command(p) PROVE CommandsTypeOK'
    <2>1. /\ chat' = Append(chat, p)
          /\ chat' \in Seq(People \cup {Bot}) /\ Len(chat') = Len(chat) + 1
          /\ Sent' = Sent \cup {Len(chat) + 1} /\ Len(chat') <= MaxSent
      BY <1>1, ChatGrows DEF Command, CommandsTypeOK, Sent
    <2>2. rightful' \subseteq Sent'
      BY <1>1, <2>1 DEF Command, CommandsTypeOK
    <2>3. hand' \in [cmd : Sent', at : {"admin", "refused", "done", "raised"}] \cup {Free}
      BY <1>1, <2>1 DEF Command, CommandsTypeOK, taken
    <2>4. since' \in 0..Len(chat')
      BY <1>1, <2>1 DEF Command, CommandsTypeOK
    <2>5. QED BY <1>1, <2>1, <2>2, <2>3, <2>4 DEF Command, CommandsTypeOK, taken, Free
  <1>2. ASSUME NEW p \in People, Raise(p) PROVE CommandsTypeOK'
    BY <1>2 DEF Raise, CommandsTypeOK, taken, Sent, Free
  <1>3. ASSUME NEW p \in People, Lower(p) PROVE CommandsTypeOK'
    BY <1>3 DEF Lower, CommandsTypeOK, taken, cmdTally, Sent, Free
  <1>4. CASE Fetch
    <2>1. PICK gap \in SUBSET {n \in Sent : n > since} :
              /\ Miss(Cardinality(gap))
              /\ queue' = {n \in Sent : n > since /\ n \notin gap /\ Heard(n)}
              /\ missed' = missed \cup gap
      BY <1>4 DEF Fetch
    <2>2. Cardinality(gap) \in Nat
      <3>1. IsFiniteSet(1..Len(chat))
        BY <1>0, FS_Interval
      <3>2. gap \subseteq 1..Len(chat)
        BY <1>0, <2>1
      <3>3. QED BY <3>1, <3>2, FS_Subset, FS_CardinalityType
    <2>3. misses' \in 0..MaxMisses
      BY <2>1, <2>2 DEF Miss, CommandsTypeOK
    <2>4. Sent' = Sent /\ since' \in 0..Len(chat') /\ queue' \subseteq Sent'
      BY <1>4, <1>0, <2>1 DEF Fetch, Sent, CommandsTypeOK
    <2>5. missed' \subseteq Sent'
      BY <2>1, <2>4 DEF CommandsTypeOK
    <2>6. QED BY <1>4, <2>3, <2>4, <2>5 DEF Fetch, CommandsTypeOK
  <1>5. ASSUME NEW n \in queue, Take(n) PROVE CommandsTypeOK'
    <2>1. n \in Sent /\ Sent' = Sent /\ queue' \subseteq Sent /\ UNCHANGED chat
      BY <1>5 DEF Take, CommandsTypeOK, Sent
    <2>2. hand' \in [cmd : Sent', at : {"admin", "refused", "done", "raised"}] \cup {Free}
      BY <1>5, <2>1 DEF Take, CommandsTypeOK, Holds
    <2>3. misses' \in 0..MaxMisses
      BY <1>5 DEF Take, Miss, CommandsTypeOK
    <2>4. unread' \subseteq Sent'
      BY <1>5, <2>1 DEF Take, CommandsTypeOK
    <2>5. QED BY <1>5, <2>1, <2>2, <2>3, <2>4 DEF Take, CommandsTypeOK
  <1>6. CASE Obey
    <2>1. hand.cmd \in Sent /\ Sent' = Sent
      BY <1>6, <1>0 DEF Obey, Sent
    <2>2. hand' \in [cmd : Sent', at : {"admin", "refused", "done", "raised"}] \cup {Free}
      BY <1>6, <2>1 DEF Obey, Holds
    <2>3. misses' \in 0..MaxMisses
      BY <1>6 DEF Obey, Miss, CommandsTypeOK
    <2>4. obeyed' \in [Numbers -> Nat]
      BY <1>0, <1>6, <2>1 DEF Obey, CommandsTypeOK
    <2>5. QED BY <1>6, <2>1, <2>2, <2>3, <2>4 DEF Obey, CommandsTypeOK
  <1>7. CASE Reply
    <2>1. hand.cmd \in Sent
      BY <1>7, <1>0 DEF Reply
    <2>2. /\ chat' \in Seq(People \cup {Bot}) /\ Len(chat') <= MaxSent
          /\ Sent \subseteq Sent' /\ Len(chat) <= Len(chat')
      <3>1. CASE hand.at = "raised" /\ Len(chat) < MaxSent
        BY <1>0, <1>7, <3>1, ChatGrows DEF Reply, Sent
      <3>2. CASE ~(hand.at = "raised" /\ Len(chat) < MaxSent)
        BY <1>0, <1>7, <3>2 DEF Reply, Sent, CommandsTypeOK
      <3>3. QED BY <3>1, <3>2
    <2>3. since' \in 0..Len(chat')
      BY <1>0, <1>7, <2>2 DEF Reply, CommandsTypeOK
    <2>4. answered' \subseteq Sent'
      BY <1>7, <2>1, <2>2 DEF Reply, CommandsTypeOK
    <2>5. QED BY <1>7, <2>2, <2>3, <2>4 DEF Reply, CommandsTypeOK
  <1>8. CASE Dead
    <2>1. Sent' = Sent /\ InHand \subseteq Sent
      BY <1>8, Atoms DEF Dead, Sent
    <2>2. killed' \subseteq Sent'
      BY <1>8, <2>1 DEF Dead, CommandsTypeOK
    <2>3. since' \in 0..Len(chat') /\ lapses' \in Nat
      BY <1>0, <1>8 DEF Dead, CommandsTypeOK
    <2>4. misses' \in 0..MaxMisses /\ nameless' \in BOOLEAN
      <3>1. misses' = misses \/ Miss(1)
        BY <1>8 DEF Dead
      <3>2. nameless' \in BOOLEAN
        BY <1>8 DEF Dead
      <3>3. QED BY <3>1, <3>2 DEF Miss, CommandsTypeOK
    <2>5. QED BY <1>8, <2>1, <2>2, <2>3, <2>4 DEF Dead, CommandsTypeOK
  <1>9. CASE UNCHANGED cmdVars
    BY <1>9 DEF cmdVars, cmdTally, taken, CommandsTypeOK, Sent, Free
  <1>10. QED BY <1>1, <1>2, <1>3, <1>4, <1>5, <1>6, <1>7, <1>8, <1>9 DEF CommandStep

(***************************************************************************)
(* Every step keeps the queue sound.                                       *)
(***************************************************************************)
LEMMA StepQueue == CommandsInv /\ CommandStep => QueueSound'
  <1> SUFFICES ASSUME CommandsInv, CommandStep PROVE QueueSound'
    OBVIOUS
  <1> USE DEF CommandsInv
  <1>0. /\ Sent = 1..Len(chat) /\ Len(chat) \in Nat /\ Sent \subseteq Numbers
        /\ since \in Nat /\ since <= Len(chat) /\ queue \subseteq Sent
        /\ Free.cmd = 0 /\ hand.cmd \in Nat
        /\ \A n \in queue : n <= since /\ n # hand.cmd /\ (~nameless => chat[n] # Bot)
        /\ hand.cmd <= since
    BY Atoms DEF QueueSound
  <1>1. ASSUME NEW p \in People, Command(p) PROVE QueueSound'
    <2>1. UNCHANGED <<since, queue, hand, nameless>> /\ \A n \in Sent : chat'[n] = chat[n]
      BY <1>1, ChatGrows DEF Command, taken
    <2>2. QED BY <1>0, <2>1 DEF QueueSound
  <1>2. ASSUME NEW p \in People, Raise(p) \/ Lower(p) PROVE QueueSound'
    BY <1>2 DEF Raise, Lower, taken, QueueSound
  <1>3. CASE Fetch
    <2>1. \A n \in queue' : n \in Sent /\ n # 0 /\ Heard(n)
      BY <1>0, <1>3 DEF Fetch
    <2>2. since' = Len(chat) /\ hand' = Free /\ UNCHANGED <<chat, nameless>>
      BY <1>3 DEF Fetch
    <2>3. QED BY <1>0, <2>1, <2>2 DEF QueueSound, Heard
  <1>4. ASSUME NEW n \in queue, Take(n) PROVE QueueSound'
    <2>1. /\ queue' = queue \ {n} /\ UNCHANGED <<chat, since, nameless>>
          /\ hand' = hand \/ hand'.cmd = n
      BY <1>4 DEF Take, Holds
    <2>2. QED BY <1>0, <2>1 DEF QueueSound
  <1>5. CASE Obey
    <2>1. hand'.cmd = hand.cmd /\ UNCHANGED <<chat, since, queue, nameless>>
      BY <1>5 DEF Obey, Holds
    <2>2. QED BY <1>0, <2>1 DEF QueueSound
  <1>6. CASE Reply
    <2>1. /\ hand' = Free /\ UNCHANGED <<since, queue, nameless>>
          /\ \A n \in Sent : chat'[n] = chat[n]
      BY <1>6, ChatGrows DEF Reply
    <2>2. QED BY <1>0, <2>1 DEF QueueSound
  <1>7. CASE Dead
    <2>1. queue' = {} /\ hand' = Free /\ (since' = since \/ since' = 0)
      BY <1>7 DEF Dead
    <2>2. QED BY <1>0, <2>1 DEF QueueSound
  <1>8. CASE UNCHANGED cmdVars
    BY <1>8 DEF cmdVars, taken, QueueSound
  <1>9. QED BY <1>1, <1>2, <1>3, <1>4, <1>5, <1>6, <1>7, <1>8 DEF CommandStep

(***************************************************************************)
(* Every step keeps the rights sound: a command gets its right when it is  *)
(* sent or when its sender is raised, and the check that passes it is of   *)
(* that moment.                                                            *)
(***************************************************************************)
LEMMA StepRights == CommandsInv /\ CommandStep => RightsSound' /\ rightful \subseteq rightful'
  <1> SUFFICES ASSUME CommandsInv, CommandStep
               PROVE  RightsSound' /\ rightful \subseteq rightful'
    OBVIOUS
  <1> USE DEF CommandsInv
  <1>0. /\ \A n \in Sent : chat[n] \in leaders \cup Allowlist => n \in rightful
        /\ hand.at = "admin" => hand.cmd \in rightful
        /\ Free.at = "free" /\ queue \subseteq Sent
    BY Atoms DEF RightsSound
  <1>1. ASSUME NEW p \in People, Command(p)
        PROVE  RightsSound' /\ rightful \subseteq rightful'
    <2>1. /\ Sent' = Sent \cup {Len(chat) + 1} /\ Len(chat') = Len(chat) + 1
          /\ \A n \in Sent : chat'[n] = chat[n]
          /\ chat'[Len(chat) + 1] = p
          /\ UNCHANGED <<leaders, hand>>
      BY <1>1, ChatGrows DEF Command, taken, Sent
    <2>2. /\ rightful \subseteq rightful'
          /\ p \in leaders \cup Allowlist => Len(chat) + 1 \in rightful'
      BY <1>1, <2>1 DEF Command
    <2>3. QED BY <1>0, <2>1, <2>2 DEF RightsSound
  <1>2. ASSUME NEW p \in People, Raise(p)
        PROVE  RightsSound' /\ rightful \subseteq rightful'
    BY <1>0, <1>2 DEF Raise, taken, RightsSound, Sent
  <1>3. ASSUME NEW p \in People, Lower(p)
        PROVE  RightsSound' /\ rightful \subseteq rightful'
    BY <1>0, <1>3 DEF Lower, taken, cmdTally, RightsSound, Sent
  <1>4. CASE Fetch
    BY <1>0, <1>4 DEF Fetch, RightsSound, Sent
  <1>5. ASSUME NEW n \in queue, Take(n)
        PROVE  RightsSound' /\ rightful \subseteq rightful'
    <2>1. UNCHANGED <<chat, leaders, rightful>> /\ n \in Sent
      BY <1>0, <1>5 DEF Take
    <2>2. hand'.at = "admin" => hand'.cmd \in rightful
      <3>1. CASE nameless
        BY <1>0, <1>5, <3>1 DEF Take
      <3>2. CASE ~nameless
        <4>1. chat[n] # Bot
          BY <3>2 DEF QueueSound
        <4>2. hand'.cmd = n /\ (hand'.at = "admin" => chat[n] \in leaders \cup Allowlist)
          BY <1>5, <3>2, <4>1 DEF Take, Holds
        <4>3. QED BY <1>0, <2>1, <4>2
      <3>3. QED BY <3>1, <3>2
    <2>3. QED BY <1>0, <2>1, <2>2 DEF RightsSound, Sent
  <1>6. CASE Obey
    BY <1>0, <1>6 DEF Obey, Holds, RightsSound, Sent
  <1>7. CASE Reply
    <2>1. UNCHANGED <<leaders, rightful>> /\ hand' = Free
      BY <1>7 DEF Reply
    <2>2. ASSUME NEW n \in Sent', chat'[n] \in leaders \cup Allowlist
          PROVE  n \in Sent /\ chat[n] = chat'[n]
      <3>1. CASE hand.at = "raised" /\ Len(chat) < MaxSent
        <4>1. chat' = Append(chat, Bot)
          BY <1>7, <3>1 DEF Reply
        <4>2. Bot \notin leaders \cup Allowlist
          BY CommandsAssumption DEF CommandsTypeOK
        <4>3. QED BY <2>2, <3>1, <4>1, <4>2, ChatGrows DEF Sent
      <3>2. CASE ~(hand.at = "raised" /\ Len(chat) < MaxSent)
        BY <1>7, <2>2, <3>2 DEF Reply, Sent
      <3>3. QED BY <3>1, <3>2
    <2>3. QED BY <1>0, <2>1, <2>2 DEF RightsSound
  <1>8. CASE Dead
    BY <1>0, <1>8 DEF Dead, RightsSound, Sent
  <1>9. CASE UNCHANGED cmdVars
    BY <1>0, <1>9 DEF cmdVars, taken, cmdTally, RightsSound, Sent
  <1>10. QED BY <1>1, <1>2, <1>3, <1>4, <1>5, <1>6, <1>7, <1>8, <1>9 DEF CommandStep

(***************************************************************************)
(* Every step keeps the counts of what was carried out.                    *)
(***************************************************************************)
LEMMA StepObeyed == CommandsInv /\ CommandStep => ObeyedCounted'
  <1> DEFINE Counted(n) ==
               /\ obeyed[n] <= 1 + lapses
               /\ n > since \/ n \in queue \/ (hand.cmd = n /\ hand.at = "admin")
                     => obeyed[n] <= lapses
               /\ obeyed[n] > 0 => n \in rightful
  <1> SUFFICES ASSUME CommandsInv, CommandStep, NEW n \in Numbers PROVE Counted(n)'
    BY DEF ObeyedCounted
  <1> USE DEF CommandsInv
  <1>0. /\ obeyed[n] \in Nat /\ lapses \in Nat /\ since \in Nat /\ n \in Nat
        /\ Counted(n) /\ rightful \subseteq rightful'
    <2>1. obeyed[n] \in Nat /\ lapses \in Nat /\ since \in Nat
      BY Atoms
    <2>2. n \in Nat
      BY CommandsAssumption DEF Numbers
    <2>3. Counted(n)
      BY DEF ObeyedCounted
    <2>4. rightful \subseteq rightful'
      BY StepRights
    <2>5. QED BY <2>1, <2>2, <2>3, <2>4
  <1>1. ASSUME NEW p \in People, Command(p) \/ Raise(p) \/ Lower(p) PROVE Counted(n)'
    <2>1. UNCHANGED <<obeyed, lapses, since, queue, hand>>
      BY <1>1 DEF Command, Raise, Lower, taken, cmdTally
    <2>2. QED BY <1>0, <2>1
  <1>2. CASE Fetch
    <2>1. /\ UNCHANGED <<obeyed, lapses, hand>> /\ \A k \in queue' : k > since
          /\ since' = Len(chat) /\ since <= Len(chat) /\ Len(chat) \in Nat
      BY <1>2, Atoms DEF Fetch
    <2>2. QED BY <1>0, <2>1
  <1>3. ASSUME NEW k \in queue, Take(k) PROVE Counted(n)'
    <2>1. /\ queue' = queue \ {k} /\ (hand' = hand \/ hand'.cmd = k)
          /\ UNCHANGED <<obeyed, lapses, since>>
      BY <1>3 DEF Take, Holds
    <2>2. QED BY <1>0, <2>1
  <1>4. CASE Obey
    <2>1. /\ obeyed' = [obeyed EXCEPT ![hand.cmd] = @ + 1] /\ hand.at = "admin"
          /\ hand'.at # "admin" /\ UNCHANGED <<lapses, since, queue>>
      BY <1>4 DEF Obey, Holds
    <2>2. CASE n = hand.cmd
      <3>1. obeyed'[n] = obeyed[n] + 1 /\ obeyed[n] <= lapses /\ n \in rightful
        BY <1>0, <2>1, <2>2 DEF CommandsTypeOK, RightsSound
      <3>2. n <= since /\ n \notin queue
        BY <2>2 DEF QueueSound
      <3>3. QED BY <1>0, <2>1, <3>1, <3>2
    <2>3. CASE n # hand.cmd
      BY <1>0, <2>1, <2>3 DEF CommandsTypeOK
    <2>4. QED BY <2>2, <2>3
  <1>5. CASE Reply
    <2>1. UNCHANGED <<obeyed, lapses, since, queue>> /\ hand' = Free
      BY <1>5 DEF Reply
    <2>2. QED BY <1>0, <2>1, Atoms
  <1>6. CASE Dead
    <2>1. /\ queue' = {} /\ hand' = Free /\ UNCHANGED obeyed
          /\ UNCHANGED <<since, lapses>> \/ lapses' = lapses + 1
      BY <1>6 DEF Dead
    <2>2. QED BY <1>0, <2>1, Atoms
  <1>7. CASE UNCHANGED cmdVars
    BY <1>0, <1>7 DEF cmdVars, taken, cmdTally
  <1>8. QED BY <1>1, <1>2, <1>3, <1>4, <1>5, <1>6, <1>7 DEF CommandStep

(***************************************************************************)
(* No step lets the cursor pass a command that is not accounted for.       *)
(***************************************************************************)
LEMMA StepForgets == CommandsInv /\ CommandStep => NoneForgotten'
  <1> DEFINE Found(n) ==
               n \in queue \cup InHand \cup answered \cup missed \cup unread \cup killed
  <1> SUFFICES ASSUME CommandsInv, CommandStep, NEW n \in 1..since', chat'[n] # Bot
               PROVE  Found(n)'
    BY DEF NoneForgotten
  <1> USE DEF CommandsInv
  <1>0. /\ Sent = 1..Len(chat) /\ Len(chat) \in Nat /\ since \in Nat /\ since <= Len(chat)
        /\ n \in 1..since /\ chat[n] # Bot => Found(n)
    BY Atoms DEF NoneForgotten
  <1>1. ASSUME NEW p \in People, Command(p) PROVE Found(n)'
    <2>1. UNCHANGED <<since, queue, hand, answered, missed, unread, killed>>
      BY <1>1 DEF Command, taken
    <2>2. n \in Sent
      BY <1>0, <2>1
    <2>3. chat'[n] = chat[n]
      BY <1>1, <2>2, ChatGrows DEF Command
    <2>4. QED BY <1>0, <2>1, <2>3 DEF InHand
  <1>2. ASSUME NEW p \in People, Raise(p) \/ Lower(p) PROVE Found(n)'
    BY <1>0, <1>2 DEF Raise, Lower, taken, cmdTally, InHand
  <1>3. CASE Fetch
    <2>1. PICK gap \in SUBSET {k \in Sent : k > since} :
              /\ queue' = {k \in Sent : k > since /\ k \notin gap /\ Heard(k)}
              /\ missed' = missed \cup gap
      BY <1>3 DEF Fetch
    <2>2. /\ since' = Len(chat) /\ hand = Free /\ queue = {}
          /\ UNCHANGED <<chat, hand, answered, unread, killed>>
      BY <1>3 DEF Fetch
    <2>3. CASE n > since
      BY <1>0, <2>1, <2>2, <2>3 DEF Heard
    <2>4. CASE n <= since
      BY <1>0, <2>1, <2>2, <2>4, Atoms
    <2>5. QED
      <3>1. n \in Nat
        BY <1>0, <2>2
      <3>2. QED BY <1>0, <2>3, <2>4, <3>1
  <1>4. ASSUME NEW k \in queue, Take(k) PROVE Found(n)'
    <2>1. /\ queue' = queue \ {k} /\ hand = Free
          /\ UNCHANGED <<chat, since, answered, missed, killed>>
          /\ unread \subseteq unread'
          /\ k \in unread' \/ hand'.cmd = k
      BY <1>4 DEF Take, Holds
    <2>2. k \in Numbers /\ InHand = {}
      BY <2>1, Atoms
    <2>3. k \in unread' \cup InHand'
      BY <2>1, <2>2 DEF InHand
    <2>4. QED BY <1>0, <2>1, <2>2, <2>3
  <1>5. CASE Obey
    BY <1>0, <1>5 DEF Obey, Holds, InHand
  <1>6. CASE Reply
    <2>1. /\ UNCHANGED <<since, queue, missed, unread, killed>>
          /\ answered' = answered \cup {hand.cmd} /\ hand # Free
      BY <1>6, Atoms DEF Reply
    <2>2. n \in Sent /\ InHand = {hand.cmd}
      BY <1>0, <2>1, Atoms
    <2>3. chat'[n] = chat[n]
      BY <1>6, <2>2, ChatGrows DEF Reply
    <2>4. QED BY <1>0, <2>1, <2>2, <2>3
  <1>7. CASE Dead
    <2>1. /\ UNCHANGED <<chat, answered, missed, unread>>
          /\ killed' = killed \cup queue \cup InHand
          /\ since' = since \/ since' = 0
      BY <1>7 DEF Dead
    <2>2. QED BY <1>0, <2>1
  <1>8. CASE UNCHANGED cmdVars
    BY <1>0, <1>8 DEF cmdVars, taken, cmdTally, InHand
  <1>9. QED BY <1>1, <1>2, <1>3, <1>4, <1>5, <1>6, <1>7, <1>8 DEF CommandStep

LEMMA CommandsInvAlways == LoopSpec => []CommandsInv
  <1>1. LoopInit => CommandsInv
    <2> SUFFICES ASSUME CommandsInit PROVE CommandsInv
      BY DEF LoopInit
    <2> USE CommandsAssumption DEF CommandsInit
    <2>1. /\ Sent = {} /\ chat \in Seq(People \cup {Bot}) /\ Len(chat) = 0
          /\ Free.cmd = 0 /\ Free.at = "free"
      BY DEF Sent, Free
    <2>2. CommandsTypeOK
      <3>1. /\ Len(chat) <= MaxSent /\ since \in 0..Len(chat)
            /\ lapses \in Nat /\ misses \in 0..MaxMisses
        BY <2>1
      <3>2. obeyed \in [Numbers -> Nat]
        OBVIOUS
      <3>3. /\ leaders \subseteq People \ Allowlist /\ queue \subseteq Sent /\ hand \in {Free}
            /\ nameless \in BOOLEAN
            /\ \A S \in {answered, missed, unread, killed, rightful} : S \subseteq Sent
        BY <2>1
      <3>4. QED BY <2>1, <3>1, <3>2, <3>3 DEF CommandsTypeOK
    <2>3. QueueSound /\ RightsSound /\ NoneForgotten
      BY <2>1 DEF QueueSound, RightsSound, NoneForgotten
    <2>4. ObeyedCounted
      BY <2>1 DEF ObeyedCounted
    <2>5. QED BY <2>2, <2>3, <2>4 DEF CommandsInv
  <1>2. CommandsInv /\ [LoopNext]_loopVars => CommandsInv'
    BY LoopSteps, StepCommandsType, StepQueue, StepRights, StepObeyed, StepForgets
    DEF CommandsInv
  <1>3. QED BY <1>1, <1>2, PTL DEF LoopSpec

(***************************************************************************)
(* Commands are carried out for admins, once each unless the cursor is     *)
(* lost, and none is passed over but in one of the known ways.             *)
(***************************************************************************)
THEOREM CommandsAreSafeAlways == LoopSpec => []CommandsAreSafe
  <1>1. CommandsInv => CommandsAreSafe
    <2> SUFFICES ASSUME CommandsInv PROVE CommandsAreSafe
      OBVIOUS
    <2>1. Sent \subseteq Numbers
      BY Atoms DEF CommandsInv
    <2>2. QED BY <2>1 DEF CommandsInv, ObeyedCounted, CommandsAreSafe, ObeyedOnce, OnlyAdmins
  <1>2. QED BY <1>1, CommandsInvAlways, PTL

(***************************************************************************)
(* The variables of the cycle, of its scan and of the admin room keep      *)
(* their types.                                                            *)
(***************************************************************************)
THEOREM LoopTypeCorrect == LoopSpec => []LoopTypeOK
  <1>1. LoopInit => stage \in {"sync", "scan", "drain"}
    BY DEF LoopInit
  <1>2. stage \in {"sync", "scan", "drain"} /\ [LoopNext]_loopVars
            => (stage \in {"sync", "scan", "drain"})'
    BY DEF LoopNext, LoopStep, OthersMove, Fetches, Scans, ScanRaises, Drains, Dies, loopVars
  <1>3. AnnounceInv /\ CommandsInv /\ stage \in {"sync", "scan", "drain"} => LoopTypeOK
    BY DEF AnnounceInv, CommandsInv, LoopTypeOK
  <1>4. QED BY <1>1, <1>2, <1>3, AnnounceInvAlways, CommandsInvAlways, PTL DEF LoopSpec
=============================================================================
