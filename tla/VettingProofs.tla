--------------------------- MODULE VettingProofs ---------------------------
(***************************************************************************)
(* Proofs about Vetting for any number of rooms, people, tries, events and *)
(* crashes: its variables keep their types, vetting.json refines the books *)
(* of an airlock, the counts of replies and of welcome codes keep within   *)
(* their bounds, only a haiku opens the space, and the advice given to     *)
(* those without a displayname works.                                      *)
(***************************************************************************)
EXTENDS Vetting, SequenceTheorems, TLAPS

\* The loop works on its copy of the file.
Working == pc \in {"rooms", "invited", "acking", "clean"}

\* The copy is one writing of the books ahead of the file, and the batch has
\* news of open rooms only.
Ahead(r) ==
    /\ (mem[r] = Nothing) <=> (disk[r] = Nothing)
    /\ disk[r] # Nothing => mem[r].left <= disk[r].left
    /\ ~Open(disk, r) => mem[r] = disk[r]
    /\ Open(mem, r) => mem[r].left > 0
    /\ todo[r] # NoNews => Open(mem, r)

\* An open room has tries left, and a room in the file has an owner.
FileSound ==
    \A r \in Rooms :
        /\ Open(disk, r) => disk[r].left > 0
        /\ disk[r] # Nothing => owner[r] # Nothing

CopySound == Working => (~dirty => mem = disk) /\ \A r \in Rooms : Ahead(r)

CurSound ==
    /\ pc \in {"greet", "invited"} => cur \in Rooms
    /\ pc = "clean" => todo = NoBatch

VInv == TypeOK /\ FileSound /\ CopySound /\ CurSound

-----------------------------------------------------------------------------
(***************************************************************************)
(* What the loop and the people do to the news of a room keeps its type.   *)
(***************************************************************************)
LEMMA NewsEdits ==
    ASSUME NEW n \in News
    PROVE  /\ [n EXCEPT !.joins = << >>] \in News
           /\ n.msgs # << >> => [n EXCEPT !.msgs = Tail(@)] \in News
           /\ n.msgs # << >> => Head(n.msgs) \in Message
           /\ \A name \in BOOLEAN : [n EXCEPT !.joins = Append(@, name)] \in News
           /\ \A m \in Message : [n EXCEPT !.msgs = Append(@, m)] \in News
           /\ n.joins # << >> => n.joins[Len(n.joins)] \in BOOLEAN
           /\ n # NoNews /\ n.joins = << >> => n.msgs # << >>
  <1>1. n.joins \in Seq(BOOLEAN) /\ n.msgs \in Seq(Message)
    BY DEF News
  <1>2. << >> \in Seq(BOOLEAN)
    OBVIOUS
  <1>3. n.msgs # << >> => Tail(n.msgs) \in Seq(Message) /\ Head(n.msgs) \in Message
    BY <1>1
  <1>4. \A name \in BOOLEAN : Append(n.joins, name) \in Seq(BOOLEAN)
    BY <1>1
  <1>5. \A m \in Message : Append(n.msgs, m) \in Seq(Message)
    BY <1>1
  <1>6. n.joins # << >> => n.joins[Len(n.joins)] \in BOOLEAN
    BY <1>1
  <1>7. n # NoNews /\ n.joins = << >> => n.msgs # << >>
    BY DEF News, NoNews
  <1>8. QED BY <1>2, <1>3, <1>4, <1>5, <1>6, <1>7 DEF News

-----------------------------------------------------------------------------
(***************************************************************************)
(* The invariant holds at the start.                                       *)
(***************************************************************************)
LEMMA InitVInv == Init => VInv
  <1> SUFFICES ASSUME Init PROVE VInv
    OBVIOUS
  <1> USE VettingBounds, NothingAssumption
  <1>1. TypeOK
    <2>1. NoNews \in News /\ << >> \in Seq(Users)
      BY DEF NoNews, News
    <2>2. /\ NoBook \in [Rooms -> Meta \cup {Nothing}]
          /\ NoBook \in [Rooms -> Users \cup {Nothing}]
          /\ NoBatch \in [Rooms -> News]
      BY <2>1 DEF NoBook, NoBatch
    <2>3. /\ member \in [Users -> {"no", "invited", "joined"}]
          /\ notYets \in [Rooms -> Nat] /\ welcomes \in [Rooms -> Nat]
      BY DEF Init
    <2>4. events \in 0..MaxEvents /\ crashes \in 0..MaxCrashes
      BY DEF Init
    <2>5. named \subseteq Users
      BY DEF Init
    <2>6. QED BY <2>1, <2>2, <2>3, <2>4, <2>5 DEF Init, TypeOK
  <1>2. FileSound /\ CopySound /\ CurSound
    BY DEF Init, FileSound, CopySound, CurSound, Working, Open, NoBook
  <1>3. QED BY <1>1, <1>2 DEF VInv

(***************************************************************************)
(* A room whose message is judged is open in the copy, with tries left.    *)
(***************************************************************************)
LEMMA JudgedOpen ==
    ASSUME VInv, NEW r \in Rooms, Judging(r)
    PROVE  /\ mem[r] \in Meta /\ Open(mem, r) /\ mem[r].left > 0
           /\ Working
           /\ todo[r].msgs # << >>
  <1>1. Working /\ Ahead(r) /\ todo[r] # NoNews
    BY DEF VInv, Judging, Turn, Working, CopySound
  <1>2. mem[r] \in Meta /\ Open(mem, r) /\ mem[r].left > 0
    BY <1>1 DEF VInv, Ahead, Open, TypeOK
  <1>3. todo[r].msgs # << >>
    BY <1>1, NewsEdits DEF VInv, Judging, TypeOK
  <1>4. QED BY <1>1, <1>2, <1>3

(***************************************************************************)
(* Every step keeps the types.                                             *)
(***************************************************************************)
LEMMA StepType == VInv /\ [Next]_vars => TypeOK'
  <1> SUFFICES ASSUME VInv, [Next]_vars PROVE TypeOK'
    OBVIOUS
  <1> USE VettingBounds, NothingAssumption DEF VInv
  <1>news. NoNews \in News
    BY DEF NoNews, News
  <1>empty. << >> \in Seq(Users) /\ << >> \in Seq(BOOLEAN)
    OBVIOUS
  <1>1. CASE UNCHANGED vars
    BY <1>1 DEF TypeOK, vars, store, loop, world, tally
  <1>2. CASE Sync
    BY <1>2, <1>news, <1>empty DEF Sync, TypeOK, store, tally, NoBatch
  <1>3. ASSUME NEW r \in Rooms, OpenRoom(r) PROVE TypeOK'
    <2>1. FreshMeta \in Meta
      BY DEF FreshMeta, Meta
    <2>2. Head(knocks) \in Users /\ Tail(knocks) \in Seq(Users)
      BY <1>3 DEF OpenRoom, TypeOK
    <2>3. QED BY <1>3, <2>1, <2>2 DEF OpenRoom, TypeOK, tally
  <1>4. CASE Greet
    BY <1>4 DEF Greet, TypeOK, CurSound, store, world
  <1>5. CASE TurnAway
    BY <1>5 DEF TurnAway, TypeOK, store, world, tally
  <1>6. CASE Load
    BY <1>6, <1>news DEF Load, TypeOK, world, tally
  <1>7. ASSUME NEW r \in Rooms, NoteName(r) PROVE TypeOK'
    <2>1. mem[r] \in Meta
      BY <1>7 DEF NoteName, Turn, CopySound, Working, Ahead, Open, TypeOK
    <2>2. PICK name \in BOOLEAN : name = todo[r].joins[Len(todo[r].joins)]
      <3>1. todo[r].joins \in Seq(BOOLEAN) /\ todo[r].joins # << >>
        BY <1>7 DEF NoteName, TypeOK, News
      <3>2. QED BY <3>1
    <2>3. [mem[r] EXCEPT !.display = name] \in Meta
      BY <2>1, <2>2 DEF Meta
    <2>4. mem' \in [Rooms -> Meta \cup {Nothing}]
      <3>1. mem' = [mem EXCEPT ![r] = [mem[r] EXCEPT !.display = name]]
        BY <1>7, <2>2 DEF NoteName
      <3>2. QED BY <3>1, <2>3 DEF TypeOK
    <2>6. [todo[r] EXCEPT !.joins = << >>] \in News
      BY NewsEdits DEF TypeOK
    <2>7. todo' \in [Rooms -> News]
      BY <1>7, <2>6 DEF NoteName, TypeOK
    <2>8. QED BY <1>7, <2>4, <2>7 DEF NoteName, TypeOK, world, tally
  <1>8. ASSUME NEW r \in Rooms, Refuse(r) PROVE TypeOK'
    <2>1. mem[r] \in Meta /\ mem[r].left - 1 \in 0..MaxTries
      <3>1. mem[r] \in Meta /\ mem[r].left > 0
        BY <1>8, JudgedOpen DEF Refuse
      <3>2. mem[r].left \in 0..MaxTries
        BY <3>1 DEF Meta
      <3>3. QED BY <3>1, <3>2
    <2>2. [mem[r] EXCEPT !.left = @ - 1] \in Meta
      BY <2>1 DEF Meta
    <2>3. [todo[r] EXCEPT !.msgs = Tail(@)] \in News
      BY <1>8, JudgedOpen, NewsEdits DEF Refuse, TypeOK
    <2>4. QED BY <1>8, <2>2, <2>3 DEF Refuse, TypeOK, world
  <1>9. ASSUME NEW r \in Rooms, Exhaust(r) PROVE TypeOK'
    <2>0. mem[r] \in Meta /\ mem[r].left > 0
      BY <1>9, JudgedOpen DEF Exhaust
    <2>1. mem[r].left - 1 \in 0..MaxTries
      BY <2>0 DEF Meta
    <2>2. [mem[r] EXCEPT !.left = @ - 1, !.reason = "tries_exhausted"] \in Meta
      BY <2>0, <2>1 DEF Meta
    <2>3. QED BY <1>9, <1>news, <2>2 DEF Exhaust, Leave, TypeOK, tally
  <1>10. ASSUME NEW r \in Rooms, Promote(r) PROVE TypeOK'
    <2>1. mem[r] \in Meta
      BY <1>10, JudgedOpen DEF Promote
    <2>2. [mem[r] EXCEPT !.promoted = TRUE] \in Meta
      BY <2>1 DEF Meta
    <2>3. QED BY <1>10, <1>news, <2>2 DEF Promote, TypeOK, tally
  <1>11. ASSUME NEW r \in Rooms, PromoteFails(r) PROVE TypeOK'
    BY <1>11, <1>news DEF PromoteFails, TypeOK, world, tally
  <1>12. CASE GiveWelcome
    BY <1>12 DEF GiveWelcome, TypeOK, CurSound, store, world
  <1>13. CASE Acknowledge
    BY <1>13 DEF Acknowledge, TypeOK, store, world, tally
  <1>14. CASE BatchDone
    BY <1>14 DEF BatchDone, TypeOK, store, world, tally
  <1>15. ASSUME NEW r \in Rooms, Clean(r) PROVE TypeOK'
    <2>1. mem[r] \in Meta
      BY <1>15 DEF Clean, Open, TypeOK
    <2>2. [mem[r] EXCEPT !.reason = "timeout"] \in Meta
      BY <2>1 DEF Meta
    <2>3. QED BY <1>15, <2>2 DEF Clean, Leave, TypeOK, loop, tally
  <1>16. CASE Save
    BY <1>16 DEF Save, TypeOK, NoBook, world, tally
  <1>17. CASE Crash
    <2>1. crashes' \in 0..MaxCrashes
      BY <1>17 DEF Crash, TypeOK
    <2>2. QED BY <1>17, <1>news, <1>empty, <2>1 DEF Crash, TypeOK, NoBook, NoBatch, world
  <1>18. ASSUME NEW u \in Users, Knock(u) PROVE TypeOK'
    BY <1>18 DEF Knock, Happens, TypeOK, store, loop
  <1>19. ASSUME NEW u \in Users, SetsName(u) PROVE TypeOK'
    <2>1. \A r \in Rooms : [feed[r] EXCEPT !.joins = Append(@, TRUE)] \in News
      BY NewsEdits DEF TypeOK
    <2>2. feed' \in [Rooms -> News]
      BY <1>19, <2>1 DEF SetsName, TypeOK
    <2>3. named' \subseteq Users /\ events' \in 0..MaxEvents
      BY <1>19 DEF SetsName, Happens, TypeOK
    <2>4. QED BY <1>19, <2>2, <2>3 DEF SetsName, Happens, TypeOK, store, loop
  <1>20. ASSUME NEW u \in Users, EntersSpace(u) PROVE TypeOK'
    BY <1>20 DEF EntersSpace, TypeOK, store, loop, tally
  <1>21. ASSUME NEW r \in Rooms, OwnerJoins(r) PROVE TypeOK'
    <2>1. \A name \in BOOLEAN : [feed[r] EXCEPT !.joins = Append(@, name)] \in News
      BY NewsEdits DEF TypeOK
    <2>2. (owner[r] \in named) \in BOOLEAN
      OBVIOUS
    <2>3. [feed[r] EXCEPT !.joins = Append(@, owner[r] \in named)] \in News
      BY <2>1, <2>2, Zenon
    <2>4. feed' \in [Rooms -> News]
      BY <1>21, <2>3, Zenon DEF OwnerJoins, TypeOK
    <2>5. inside' \subseteq Rooms /\ events' \in 0..MaxEvents
      BY <1>21 DEF OwnerJoins, Happens, TypeOK
    <2>6. QED BY <1>21, <2>4, <2>5 DEF OwnerJoins, Happens, TypeOK, store, loop
  <1>22. ASSUME NEW r \in Rooms, GrowsStale(r) PROVE TypeOK'
    BY <1>22 DEF GrowsStale, TypeOK, store, loop, tally
  <1>23. ASSUME NEW r \in Rooms, NEW good \in BOOLEAN, OwnerSays(r, good) PROVE TypeOK'
    <2>1. [good |-> good, named |-> owner[r] \in named] \in Message
      BY DEF Message
    <2>2. [feed[r] EXCEPT !.msgs = Append(@,
             [good |-> good, named |-> owner[r] \in named])] \in News
      BY <2>1, NewsEdits, Zenon DEF TypeOK
    <2>3. feed' \in [Rooms -> News]
      BY <1>23, <2>2, Zenon DEF OwnerSays, TypeOK
    <2>4. QED BY <1>23, <2>3 DEF OwnerSays, Happens, TypeOK, store, loop
  <1>24. QED BY <1>1, <1>2, <1>3, <1>4, <1>5, <1>6, <1>7, <1>8, <1>9, <1>10, <1>11,
                <1>12, <1>13, <1>14, <1>15, <1>16, <1>17, <1>18, <1>19, <1>20,
                <1>21, <1>22, <1>23
             DEF Next, LoopStep

(***************************************************************************)
(* Every step keeps the file sound: it is written by a knock, and by the   *)
(* end of a cycle from a copy that is one writing ahead.                   *)
(***************************************************************************)
LEMMA StepFileSound == VInv /\ [Next]_vars => FileSound'
  <1> SUFFICES ASSUME VInv, [Next]_vars PROVE FileSound'
    OBVIOUS
  <1> USE VettingBounds, NothingAssumption DEF VInv
  <1>1. CASE UNCHANGED <<disk, owner>>
    BY <1>1 DEF FileSound, Open
  <1>2. ASSUME NEW r \in Rooms, OpenRoom(r) PROVE FileSound'
    <2>1. disk' = [disk EXCEPT ![r] = FreshMeta]
          /\ owner' = [owner EXCEPT ![r] = Head(knocks)]
      BY <1>2 DEF OpenRoom
    <2>2. Head(knocks) \in Users
      BY <1>2 DEF OpenRoom, TypeOK
    <2>3. FreshMeta.left > 0
      BY DEF FreshMeta
    <2>4. QED BY <2>1, <2>2, <2>3 DEF FileSound, Open, TypeOK
  <1>3. CASE Save
    <2>1. \A r \in Rooms : Ahead(r)
      BY <1>3 DEF Save, CopySound, Working
    <2>2. disk' = mem \/ disk' = disk
      BY <1>3 DEF Save
    <2>3. owner' = owner
      BY <1>3 DEF Save, world
    <2>4. QED BY <2>1, <2>2, <2>3 DEF FileSound, Open, Ahead
  <1>4. QED BY <1>1, <1>2, <1>3
        DEF Next, LoopStep, vars, store, loop, world, tally, Sync, Greet, TurnAway, Load,
            NoteName, Refuse, Exhaust, Promote, PromoteFails, GiveWelcome, Acknowledge,
            BatchDone, Clean, Crash, Knock, Happens, SetsName, EntersSpace, OwnerJoins,
            GrowsStale, OwnerSays

(***************************************************************************)
(* A step that edits one open room of the copy, and drops or works off     *)
(* news of that room only, keeps the copy one writing ahead.               *)
(***************************************************************************)
LEMMA EditKeepsAhead ==
    ASSUME VInv, Working, NEW r \in Rooms, Open(mem, r), NEW m \in Meta,
           mem' = [mem EXCEPT ![r] = m], disk' = disk, dirty',
           m.left <= mem[r].left,
           ~m.promoted /\ m.reason = "open" => m.left > 0,
           \A q \in Rooms \ {r} : todo'[q] = todo[q],
           todo'[r] # NoNews => ~m.promoted /\ m.reason = "open"
    PROVE  CopySound'
  <1> USE DEF VInv
  <1>1. \A q \in Rooms : Ahead(q)
    BY DEF CopySound
  <1>2. \A q \in Rooms \ {r} : Ahead(q)'
    BY <1>1 DEF Ahead, Open, TypeOK
  <1>3. mem'[r] = m /\ m # Nothing /\ mem[r] \in Meta /\ disk[r] \in Meta
    <2>1. disk[r] # Nothing /\ mem[r] # Nothing
      BY <1>1 DEF Ahead, Open
    <2>2. QED BY <2>1, NothingAssumption DEF TypeOK
  <1>4. Open(disk, r)
    BY <1>1 DEF Ahead, Open
  <1>5. m.left <= disk[r].left
    BY <1>1, <1>3 DEF Ahead, Meta
  <1>6. Ahead(r)'
    BY <1>1, <1>3, <1>4, <1>5 DEF Ahead, Open
  <1>7. QED BY <1>2, <1>6 DEF CopySound

(***************************************************************************)
(* Every step keeps the copy sound.                                        *)
(***************************************************************************)
LEMMA StepCopySound == VInv /\ [Next]_vars => CopySound'
  <1> SUFFICES ASSUME VInv, [Next]_vars PROVE CopySound'
    OBVIOUS
  <1> USE VettingBounds DEF VInv
  <1>1. CASE ~Working'
    BY <1>1 DEF CopySound
  <1>2. CASE UNCHANGED <<disk, mem, dirty, todo>> /\ Working
    BY <1>2 DEF CopySound, Ahead, Open
  <1>3. CASE Load
    <2>1. \A r \in Rooms : todo'[r] # NoNews => Open(disk, r)
      BY <1>3 DEF Load
    <2>2. \A r \in Rooms : disk[r] # Nothing => disk[r].left <= disk[r].left
      BY DEF TypeOK, Meta
    <2>3. mem' = disk /\ disk' = disk
      BY <1>3 DEF Load
    <2>4. QED BY <2>1, <2>2, <2>3 DEF CopySound, Ahead, Open, FileSound
  <1>4. ASSUME NEW r \in Rooms, NoteName(r) PROVE CopySound'
    <2>1. Working /\ Open(mem, r) /\ mem[r] \in Meta /\ mem[r].left > 0
      BY <1>4 DEF NoteName, Turn, Working, CopySound, Ahead, Open, TypeOK
    <2>2. PICK name \in BOOLEAN : name = todo[r].joins[Len(todo[r].joins)]
      BY <1>4, NewsEdits DEF NoteName, TypeOK
    <2> DEFINE m == [mem[r] EXCEPT !.display = name]
    <2>3. m \in Meta /\ m.left = mem[r].left /\ m.promoted = mem[r].promoted
          /\ m.reason = mem[r].reason
      BY <2>1 DEF Meta
    <2>4. m.left <= mem[r].left
      BY <2>1, <2>3 DEF Meta
    <2>5. /\ mem' = [mem EXCEPT ![r] = m] /\ disk' = disk /\ dirty'
          /\ \A q \in Rooms \ {r} : todo'[q] = todo[q]
      BY <1>4, <2>2 DEF NoteName, TypeOK
    <2> HIDE DEF m
    <2>6. QED BY <2>1, <2>3, <2>4, <2>5, EditKeepsAhead DEF Open
  <1>5. ASSUME NEW r \in Rooms, Refuse(r) PROVE CopySound'
    <2>1. Working /\ Open(mem, r) /\ mem[r] \in Meta /\ mem[r].left > 1
      BY <1>5, JudgedOpen DEF Refuse, TryLeft
    <2> DEFINE m == [mem[r] EXCEPT !.left = @ - 1]
    <2>2. m \in Meta /\ m.left <= mem[r].left /\ m.left > 0
          /\ m.promoted = mem[r].promoted /\ m.reason = mem[r].reason
      BY <2>1 DEF Meta
    <2>3. /\ mem' = [mem EXCEPT ![r] = m] /\ disk' = disk /\ dirty'
          /\ \A q \in Rooms \ {r} : todo'[q] = todo[q]
      BY <1>5 DEF Refuse, TypeOK, world
    <2> HIDE DEF m
    <2>4. QED BY <2>1, <2>2, <2>3, EditKeepsAhead DEF Open
  <1>6. ASSUME NEW r \in Rooms, Exhaust(r) PROVE CopySound'
    <2>1. Working /\ Open(mem, r) /\ mem[r] \in Meta /\ mem[r].left > 0
      BY <1>6, JudgedOpen DEF Exhaust
    <2> DEFINE m == [mem[r] EXCEPT !.left = @ - 1, !.reason = "tries_exhausted"]
    <2>a. mem[r].left - 1 \in 0..MaxTries /\ mem[r].left \in Int
      BY <2>1 DEF Meta
    <2>b. m \in Meta /\ m.left = mem[r].left - 1
      BY <2>1, <2>a DEF Meta
    <2>c. m.reason = "tries_exhausted"
      BY <2>1 DEF Meta
    <2>2. m \in Meta /\ m.left <= mem[r].left /\ m.reason # "open"
      BY <2>a, <2>b, <2>c
    <2>3. /\ mem' = [mem EXCEPT ![r] = m] /\ disk' = disk /\ dirty'
          /\ \A q \in Rooms : todo'[q] = IF q = r THEN NoNews ELSE todo[q]
      BY <1>6 DEF Exhaust, TypeOK
    <2> HIDE DEF m
    <2>4. QED BY <2>1, <2>2, <2>3, EditKeepsAhead
  <1>7. ASSUME NEW r \in Rooms, Promote(r) PROVE CopySound'
    <2>1. Working /\ Open(mem, r) /\ mem[r] \in Meta
      BY <1>7, JudgedOpen DEF Promote
    <2> DEFINE m == [mem[r] EXCEPT !.promoted = TRUE]
    <2>a. mem[r].left \in Int
      BY <2>1 DEF Meta
    <2>b. m \in Meta /\ m.left = mem[r].left
      BY <2>1 DEF Meta
    <2>c. m.promoted = TRUE
      BY <2>1 DEF Meta
    <2>2. m \in Meta /\ m.left <= mem[r].left /\ m.promoted
      BY <2>a, <2>b, <2>c
    <2>3. /\ mem' = [mem EXCEPT ![r] = m] /\ disk' = disk /\ dirty'
          /\ \A q \in Rooms : todo'[q] = IF q = r THEN NoNews ELSE todo[q]
      BY <1>7 DEF Promote, TypeOK
    <2> HIDE DEF m
    <2>4. QED BY <2>1, <2>2, <2>3, EditKeepsAhead
  <1>8. ASSUME NEW r \in Rooms, PromoteFails(r) PROVE CopySound'
    <2>1. Working
      BY <1>8 DEF PromoteFails, Judging, Turn, Working
    <2>2. /\ UNCHANGED <<disk, mem>> /\ dirty'
          /\ \A q \in Rooms : todo'[q] = IF q = r THEN NoNews ELSE todo[q]
      BY <1>8 DEF PromoteFails, TypeOK
    <2>3. QED BY <2>1, <2>2 DEF CopySound, Ahead, Open
  <1>9. ASSUME NEW r \in Rooms, Clean(r) PROVE CopySound'
    <2>1. Working /\ Open(mem, r) /\ mem[r] \in Meta /\ todo[r] = todo'[r]
      BY <1>9 DEF Clean, Working, Open, TypeOK, loop
    <2>2. todo = NoBatch
      BY <1>9 DEF Clean, CurSound
    <2> DEFINE m == [mem[r] EXCEPT !.reason = "timeout"]
    <2>a. mem[r].left \in Int
      BY <2>1 DEF Meta
    <2>b. m \in Meta /\ m.left = mem[r].left
      BY <2>1 DEF Meta
    <2>c. m.reason = "timeout"
      BY <2>1 DEF Meta
    <2>3. m \in Meta /\ m.left <= mem[r].left /\ m.reason # "open"
      BY <2>a, <2>b, <2>c
    <2>4. /\ mem' = [mem EXCEPT ![r] = m] /\ disk' = disk /\ dirty' /\ todo' = todo
      BY <1>9 DEF Clean, loop
    <2>5. todo'[r] = NoNews
      BY <2>2, <2>4 DEF NoBatch
    <2> HIDE DEF m
    <2>6. QED BY <2>1, <2>3, <2>4, <2>5, EditKeepsAhead
  <1>10. QED BY <1>1, <1>2, <1>3, <1>4, <1>5, <1>6, <1>7, <1>8, <1>9
         DEF Next, LoopStep, vars, store, loop, world, tally, Working, Sync, OpenRoom,
             Greet, TurnAway, GiveWelcome, Acknowledge, BatchDone, Save, Crash, Knock,
             Happens, SetsName, EntersSpace, OwnerJoins, GrowsStale, OwnerSays

(***************************************************************************)
(* The loop has a room in hand when it greets or has just promoted, and no *)
(* news left when it cleans up.                                            *)
(***************************************************************************)
LEMMA StepCurSound == VInv /\ [Next]_vars => CurSound'
  <1> SUFFICES ASSUME VInv, [Next]_vars PROVE CurSound'
    OBVIOUS
  <1> USE DEF VInv, CurSound
  <1>1. CASE UNCHANGED <<pc, cur, todo>>
    BY <1>1
  <1>2. CASE pc' \in {"sync", "knocks", "acking"}
    BY <1>2
  <1>3. ASSUME NEW r \in Rooms, OpenRoom(r) PROVE CurSound'
    BY <1>3 DEF OpenRoom
  <1>4. ASSUME NEW r \in Rooms, Promote(r) PROVE CurSound'
    BY <1>4 DEF Promote
  <1>5. CASE BatchDone
    BY <1>5 DEF BatchDone
  <1>6. CASE pc' = "rooms"
    BY <1>6
  <1>7. QED BY <1>1, <1>2, <1>3, <1>4, <1>5, <1>6
        DEF Next, LoopStep, vars, store, loop, world, Sync, Greet, TurnAway, Load,
            NoteName, Turn, Judging, Refuse, Exhaust, PromoteFails, GiveWelcome,
            Acknowledge, Clean, Save, Crash, Knock, Happens, SetsName, EntersSpace,
            OwnerJoins, GrowsStale, OwnerSays

LEMMA VInvAlways == Spec => []VInv
  <1>1. VInv /\ [Next]_vars => VInv'
    BY StepType, StepFileSound, StepCopySound, StepCurSound DEF VInv
  <1>2. QED BY InitVInv, <1>1, PTL DEF Spec

(***************************************************************************)
(* The variables keep their types: among others no room ever has a         *)
(* negative number of tries.                                               *)
(***************************************************************************)
THEOREM TypeCorrect == Spec => []TypeOK
  <1>1. VInv => TypeOK
    BY DEF VInv
  <1>2. QED BY <1>1, VInvAlways, PTL

-----------------------------------------------------------------------------
(***************************************************************************)
(* The books an airlock would see are the records of the file.             *)
(***************************************************************************)
LEMMA RecordOf ==
    ASSUME VInv, NEW m \in Meta
    PROVE  /\ AsRecord(m) \in Books!Record
           /\ AsRecord(m).left = m.left
           /\ AsRecord(m).state = "open" <=> ~m.promoted /\ m.reason = "open"
  <1>1. m # Nothing
    BY NothingAssumption
  <1>2. QED BY <1>1 DEF AsRecord, Meta, Books!Record

(***************************************************************************)
(* A knock is an admission.                                                *)
(***************************************************************************)
LEMMA OpenRoomAdmits ==
    ASSUME VInv, NEW r \in Rooms, OpenRoom(r)
    PROVE  Books!Admit(r)
  <1>1. disk[r] = Nothing
    BY DEF VInv, FileSound, OpenRoom
  <1>2. disk' = [disk EXCEPT ![r] = FreshMeta] /\ disk \in [Rooms -> Meta \cup {Nothing}]
    BY DEF VInv, TypeOK, OpenRoom
  <1>3. FreshMeta # Nothing
    <2>1. FreshMeta \in Meta
      BY VettingBounds DEF FreshMeta, Meta
    <2>2. QED BY <2>1, NothingAssumption
  <1>4. AsRecord(FreshMeta) = Books!Admitted
    BY <1>3 DEF AsRecord, FreshMeta, Books!Admitted
  <1>5. AsRecord(Nothing) = Nothing
    BY DEF AsRecord
  <1>6. QED BY <1>1, <1>2, <1>4, <1>5 DEF Books!Admit

(***************************************************************************)
(* The save at the end of a cycle settles rooms that were open.            *)
(***************************************************************************)
LEMMA SaveSettles ==
    ASSUME VInv, Save, disk' = mem
    PROVE  Books!Settle
  <1> USE DEF VInv
  <1> DEFINE moved == {r \in Rooms : Open(disk, r)}
             out == [r \in moved |-> AsRecord(mem[r])]
  <1>1. \A r \in Rooms : Ahead(r)
    BY DEF Save, CopySound, Working
  <1>2. moved \in SUBSET Books!OpenRooms
    <2>1. ASSUME NEW r \in moved PROVE r \in Books!OpenRooms
      <3>1. disk[r] \in Meta /\ ~disk[r].promoted /\ disk[r].reason = "open"
        BY DEF Open, TypeOK
      <3>2. QED BY <3>1, RecordOf DEF Books!OpenRooms
    <2>2. QED BY <2>1
  <1>3. ASSUME NEW r \in moved
        PROVE  out[r] \in Books!Outcomes(AsRecord(disk[r])) /\ out[r] \in Books!Record
    <2>1. disk[r] \in Meta /\ mem[r] \in Meta
      BY <1>1 DEF Open, Ahead, TypeOK
    <2>2. mem[r].left <= disk[r].left
      BY <1>1 DEF Open, Ahead
    <2>3. AsRecord(mem[r]).state = "open" => AsRecord(mem[r]).left > 0
      BY <2>1, <1>1, RecordOf, NothingAssumption DEF Open, Ahead
    <2>4. QED BY <2>1, <2>2, <2>3, RecordOf DEF Books!Outcomes
  <1>4. out \in [moved -> Books!Record]
    BY <1>3
  <1>5. [r \in Rooms |-> AsRecord(disk[r])]' =
           [r \in Rooms |-> IF r \in moved THEN out[r] ELSE
                              [q \in Rooms |-> AsRecord(disk[q])][r]]
    <2>1. \A r \in Rooms \ moved : mem[r] = disk[r]
      BY <1>1 DEF Ahead
    <2>2. [r \in Rooms |-> AsRecord(disk[r])]' = [r \in Rooms |-> AsRecord(mem[r])]
      BY DEF AsRecord
    <2>3. QED BY <2>1, <2>2
  <1>6. \A r \in moved : [q \in Rooms |-> AsRecord(disk[q])][r] = AsRecord(disk[r])
    OBVIOUS
  <1> HIDE DEF moved, out
  <1>7. QED BY <1>2, <1>3, <1>4, <1>5, <1>6 DEF Books!Settle

(***************************************************************************)
(* vetting.json keeps the promise of an airlock's books, through crashes   *)
(* at any point: Vetting implements Airlock.                               *)
(***************************************************************************)
THEOREM VettingIsAirlock == Spec => KeepsItsBooks
  <1>1. Init => Books!Init
    BY DEF Init, NoBook, Books!Init, AsRecord
  <1>2. VInv /\ [Next]_vars => [Books!Next]_([r \in Rooms |-> AsRecord(disk[r])])
    <2> SUFFICES ASSUME VInv, [Next]_vars
                 PROVE  [Books!Next]_([r \in Rooms |-> AsRecord(disk[r])])
      OBVIOUS
    <2>1. CASE disk' = disk
      BY <2>1 DEF AsRecord
    <2>2. ASSUME NEW r \in Rooms, OpenRoom(r)
          PROVE  Books!Next
      BY <2>2, OpenRoomAdmits DEF Books!Next
    <2>3. CASE Save /\ disk' = mem
      BY <2>3, SaveSettles DEF Books!Next
    <2>4. QED BY <2>1, <2>2, <2>3
          DEF Next, LoopStep, vars, store, loop, world, tally, Sync, Greet, TurnAway, Load,
              NoteName, Refuse, Exhaust, Promote, PromoteFails, GiveWelcome, Acknowledge,
              BatchDone, Clean, Save, Crash, Knock, Happens, SetsName, EntersSpace,
              OwnerJoins, GrowsStale, OwnerSays
  <1>3. QED BY <1>1, <1>2, VInvAlways, PTL DEF Spec, KeepsItsBooks, Books!Spec

-----------------------------------------------------------------------------
(***************************************************************************)
(* The steps that touch neither the records nor the process's life: those  *)
(* of the people, and of the loop those between two edits.                 *)
(***************************************************************************)
LEMMA QuietSteps ==
    ASSUME VInv, [Next]_vars
    PROVE  \/ \E r \in Rooms : \/ OpenRoom(r) \/ NoteName(r) \/ Refuse(r)
                             \/ Exhaust(r) \/ Promote(r) \/ Clean(r)
           \/ Load \/ Save \/ Crash \/ GiveWelcome
           \/ /\ UNCHANGED <<disk, mem, notYets, welcomes, crashes>>
              /\ Working' <=> Working
              /\ pc' # "invited" \/ UNCHANGED <<pc, cur>>
  <1> DEFINE Quiet == /\ UNCHANGED <<disk, mem, notYets, welcomes, crashes>>
                      /\ Working' <=> Working
                      /\ pc' # "invited" \/ UNCHANGED <<pc, cur>>
  <1>1. UNCHANGED vars => Quiet
    BY DEF vars, store, loop, world, tally, Working
  <1>2. Sync \/ Greet \/ TurnAway => Quiet
    BY DEF Sync, Greet, TurnAway, store, world, tally, Working
  <1>3. ASSUME NEW r \in Rooms, PromoteFails(r) PROVE Quiet
    BY <1>3 DEF PromoteFails, Judging, Turn, world, tally, Working
  <1>4. Acknowledge \/ BatchDone => Quiet
    BY DEF Acknowledge, BatchDone, store, world, tally, Working
  <1>5. ASSUME NEW u \in Users, Knock(u) \/ SetsName(u) \/ EntersSpace(u) PROVE Quiet
    BY <1>5 DEF Knock, SetsName, EntersSpace, Happens, store, loop, tally, Working
  <1>6. ASSUME NEW r \in Rooms, OwnerJoins(r) \/ GrowsStale(r) PROVE Quiet
    BY <1>6 DEF OwnerJoins, GrowsStale, Happens, store, loop, tally, Working
  <1>7. ASSUME NEW r \in Rooms, NEW good \in BOOLEAN, OwnerSays(r, good) PROVE Quiet
    BY <1>7 DEF OwnerSays, Happens, store, loop, Working
  <1> HIDE DEF Quiet
  <1>8. \/ \E r \in Rooms : \/ OpenRoom(r) \/ NoteName(r) \/ Refuse(r)
                           \/ Exhaust(r) \/ Promote(r) \/ Clean(r)
        \/ Load \/ Save \/ Crash \/ GiveWelcome
        \/ Quiet
    BY <1>1, <1>2, <1>3, <1>4, <1>5, <1>6, <1>7 DEF Next, LoopStep
  <1>9. QED BY <1>8 DEF Quiet

-----------------------------------------------------------------------------
\* The records the process goes by: its copy while it works on one.
Current(r) == IF Working THEN mem[r] ELSE disk[r]

\* Replies and tries left add up to at most MaxTries while a room is open.
TriesCounted ==
    \A r \in Rooms :
        /\ notYets[r] < MaxTries
        /\ Current(r) = Nothing => notYets[r] = 0
        /\ Open(IF Working THEN mem ELSE disk, r) =>
              notYets[r] + Current(r).left <= MaxTries

(***************************************************************************)
(* Every step keeps the count.                                             *)
(***************************************************************************)
LEMMA StepTries == VInv /\ TriesCounted /\ [Next]_vars => TriesCounted'
  <1> SUFFICES ASSUME VInv, TriesCounted, [Next]_vars PROVE TriesCounted'
    OBVIOUS
  <1> USE VettingBounds, NothingAssumption DEF VInv
  <1>1. CASE UNCHANGED <<disk, mem, notYets>> /\ (Working' <=> Working)
    BY <1>1 DEF TriesCounted, Current, Open
  <1>2. ASSUME NEW r \in Rooms, OpenRoom(r) PROVE TriesCounted'
    <2>1. ~Working /\ ~Working' /\ disk[r] = Nothing
      BY <1>2 DEF OpenRoom, Working, FileSound
    <2>2. disk' = [disk EXCEPT ![r] = FreshMeta] /\ notYets' = notYets
      BY <1>2 DEF OpenRoom, tally
    <2>3. FreshMeta \in Meta /\ FreshMeta.left = MaxTries
      BY DEF FreshMeta, Meta
    <2>4. QED BY <2>1, <2>2, <2>3 DEF TriesCounted, Current, Open, TypeOK
  <1>3. CASE Load
    <2>1. ~Working /\ Working' /\ mem' = disk /\ UNCHANGED <<disk, notYets>>
      BY <1>3 DEF Load, Working, tally
    <2>2. QED BY <2>1 DEF TriesCounted, Current, Open
  <1>4. CASE Save
    <2>1. Working /\ ~Working' /\ disk' = mem /\ notYets' = notYets
      BY <1>4 DEF Save, Working, CopySound, tally
    <2>2. QED BY <2>1 DEF TriesCounted, Current, Open
  <1>5. CASE Crash
    <2>1. ~Working' /\ disk' = disk /\ notYets' = [r \in Rooms |-> 0]
      BY <1>5 DEF Crash, Working
    <2>2. \A r \in Rooms : Open(disk, r) => disk[r].left <= MaxTries
      BY DEF Open, TypeOK, Meta
    <2>3. QED BY <2>1, <2>2 DEF TriesCounted, Current, Open, Meta, TypeOK
  <1>6. ASSUME NEW r \in Rooms, NEW m \in Meta, mem[r] \in Meta, Open(mem, r),
               mem' = [mem EXCEPT ![r] = m], Working, Working',
               m.left <= mem[r].left, notYets' = notYets
        PROVE  TriesCounted'
    <2>1. notYets[r] + mem[r].left <= MaxTries
      BY <1>6 DEF TriesCounted, Current
    <2>2. notYets[r] + m.left <= MaxTries
      BY <1>6, <2>1 DEF Meta, TypeOK
    <2>3. m # Nothing
      OBVIOUS
    <2>4. QED BY <1>6, <2>2, <2>3 DEF TriesCounted, Current, Open, TypeOK
  <1>7. ASSUME NEW r \in Rooms, NoteName(r) PROVE TriesCounted'
    <2>1. Working /\ Working' /\ Open(mem, r) /\ mem[r] \in Meta
      BY <1>7 DEF NoteName, Turn, Working, CopySound, Ahead, Open, TypeOK
    <2>2. PICK name \in BOOLEAN : name = todo[r].joins[Len(todo[r].joins)]
      BY <1>7, NewsEdits DEF NoteName, TypeOK
    <2> DEFINE m == [mem[r] EXCEPT !.display = name]
    <2>3. m \in Meta /\ m.left = mem[r].left /\ mem[r].left \in Int
      BY <2>1 DEF Meta
    <2>4. mem' = [mem EXCEPT ![r] = m] /\ notYets' = notYets
      BY <1>7, <2>2 DEF NoteName, tally
    <2> HIDE DEF m
    <2>5. m.left <= mem[r].left
      BY <2>3
    <2>6. QED BY <2>1, <2>3, <2>4, <2>5, <1>6
  <1>8. ASSUME NEW r \in Rooms, Refuse(r) PROVE TriesCounted'
    <2>1. Working /\ Working' /\ Open(mem, r) /\ mem[r] \in Meta /\ mem[r].left > 1
      BY <1>8, JudgedOpen DEF Refuse, TryLeft, Working
    <2> DEFINE m == [mem[r] EXCEPT !.left = @ - 1]
    <2>2. m \in Meta /\ m.left = mem[r].left - 1 /\ mem[r].left \in Int
      BY <2>1 DEF Meta
    <2>3. mem' = [mem EXCEPT ![r] = m] /\ notYets' = [notYets EXCEPT ![r] = @ + 1]
      BY <1>8 DEF Refuse
    <2> HIDE DEF m
    <2>4. notYets[r] + mem[r].left <= MaxTries /\ notYets[r] \in Nat
      BY <2>1 DEF TriesCounted, Current, TypeOK
    <2>5. m # Nothing
      BY <2>2
    <2>6. notYets'[r] + m.left <= MaxTries /\ notYets'[r] < MaxTries
      BY <2>1, <2>2, <2>3, <2>4 DEF TypeOK
    <2>7. QED BY <2>1, <2>3, <2>5, <2>6 DEF TriesCounted, Current, Open, TypeOK
  <1>9. ASSUME NEW r \in Rooms, Exhaust(r) PROVE TriesCounted'
    <2>1. Working /\ Working' /\ Open(mem, r) /\ mem[r] \in Meta /\ mem[r].left > 0
      BY <1>9, JudgedOpen DEF Exhaust, Working
    <2> DEFINE m == [mem[r] EXCEPT !.left = @ - 1, !.reason = "tries_exhausted"]
    <2>2. mem[r].left - 1 \in 0..MaxTries /\ mem[r].left \in Int
      BY <2>1 DEF Meta
    <2>3. m \in Meta /\ m.left = mem[r].left - 1
      BY <2>1, <2>2 DEF Meta
    <2>4. mem' = [mem EXCEPT ![r] = m] /\ notYets' = notYets
      BY <1>9 DEF Exhaust, tally
    <2> HIDE DEF m
    <2>5. m.left <= mem[r].left
      BY <2>2, <2>3
    <2>6. QED BY <2>1, <2>3, <2>4, <2>5, <1>6
  <1>10. ASSUME NEW r \in Rooms, Promote(r) PROVE TriesCounted'
    <2>1. Working /\ Working' /\ Open(mem, r) /\ mem[r] \in Meta
      BY <1>10, JudgedOpen DEF Promote, Working
    <2> DEFINE m == [mem[r] EXCEPT !.promoted = TRUE]
    <2>a. mem[r].left \in Int
      BY <2>1 DEF Meta
    <2>b. m \in Meta
      BY <2>1 DEF Meta
    <2>2. m \in Meta /\ m.left = mem[r].left /\ mem[r].left \in Int
      BY <2>1, <2>a, <2>b DEF Meta
    <2>3. mem' = [mem EXCEPT ![r] = m] /\ notYets' = notYets
      BY <1>10 DEF Promote, tally
    <2> HIDE DEF m
    <2>4. m.left <= mem[r].left
      BY <2>2
    <2>5. QED BY <2>1, <2>2, <2>3, <2>4, <1>6
  <1>11. ASSUME NEW r \in Rooms, Clean(r) PROVE TriesCounted'
    <2>1. Working /\ Working' /\ Open(mem, r) /\ mem[r] \in Meta
      BY <1>11 DEF Clean, Working, Open, TypeOK, loop
    <2> DEFINE m == [mem[r] EXCEPT !.reason = "timeout"]
    <2>2. m \in Meta /\ m.left = mem[r].left /\ mem[r].left \in Int
      BY <2>1 DEF Meta
    <2>3. mem' = [mem EXCEPT ![r] = m] /\ notYets' = notYets
      BY <1>11 DEF Clean, tally
    <2> HIDE DEF m
    <2>4. m.left <= mem[r].left
      BY <2>2
    <2>5. QED BY <2>1, <2>2, <2>3, <2>4, <1>6
  <1>12. CASE GiveWelcome
    BY <1>12, <1>1 DEF GiveWelcome, store, Working
  <1>13. QED BY QuietSteps, <1>1, <1>2, <1>3, <1>4, <1>5, <1>7, <1>8, <1>9, <1>10, <1>11,
                <1>12

(***************************************************************************)
(* While the process lives, a vetting room sees fewer "not yet" replies    *)
(* than it has tries, whatever the loop lost or repeated before.           *)
(***************************************************************************)
THEOREM RepliesBounded == Spec => []FewerRepliesThanTries
  <1>1. Init => TriesCounted
    <2> SUFFICES ASSUME Init PROVE TriesCounted
      OBVIOUS
    <2>1. ~Working /\ \A r \in Rooms : Current(r) = Nothing /\ notYets[r] = 0
      BY DEF Init, Working, Current, NoBook
    <2>2. 0 < MaxTries
      BY VettingBounds
    <2>3. \A r \in Rooms : ~Open(disk, r)
      BY DEF Init, Open, NoBook
    <2>4. QED BY <2>1, <2>2, <2>3 DEF TriesCounted
  <1>2. TriesCounted => FewerRepliesThanTries
    BY DEF TriesCounted, FewerRepliesThanTries
  <1>3. QED BY <1>1, <1>2, StepTries, VInvAlways, PTL DEF Spec

-----------------------------------------------------------------------------
\* A room's welcome codes are one for its promotion, if the current records
\* know of it, and one for each crash; a promotion on its way still lacks one.
WelcomesCounted ==
    /\ \A r \in Rooms :
          /\ Current(r) # Nothing /\ Current(r).promoted => welcomes[r] <= 1 + crashes
          /\ ~(Current(r) # Nothing /\ Current(r).promoted) => welcomes[r] <= crashes
    /\ pc = "invited" => mem[cur] # Nothing /\ mem[cur].promoted
                           /\ welcomes[cur] <= crashes

LEMMA WelcomesWithin ==
    ASSUME VInv, WelcomesCounted, NEW r \in Rooms
    PROVE  welcomes[r] <= 1 + crashes
  <1>1. welcomes[r] \in Nat /\ crashes \in Nat
    BY VettingBounds DEF VInv, TypeOK
  <1>2. welcomes[r] <= 1 + crashes \/ welcomes[r] <= crashes
    BY Zenon DEF WelcomesCounted
  <1>3. QED BY <1>1, <1>2

(***************************************************************************)
(* Every step keeps the count.                                             *)
(***************************************************************************)
LEMMA StepWelcomes == VInv /\ WelcomesCounted /\ [Next]_vars => WelcomesCounted'
  <1> SUFFICES ASSUME VInv, WelcomesCounted, [Next]_vars PROVE WelcomesCounted'
    OBVIOUS
  <1> USE VettingBounds, NothingAssumption DEF VInv
  <1>1. CASE /\ UNCHANGED <<disk, mem, welcomes, crashes>> /\ (Working' <=> Working)
             /\ pc' # "invited" \/ UNCHANGED <<pc, cur>>
    BY <1>1 DEF WelcomesCounted, Current
  <1>3. ASSUME NEW r \in Rooms, OpenRoom(r) PROVE WelcomesCounted'
    <2>1. ~Working /\ ~Working' /\ disk[r] = Nothing /\ pc' = "greet"
      BY <1>3 DEF OpenRoom, Working, FileSound
    <2>2. disk' = [disk EXCEPT ![r] = FreshMeta] /\ UNCHANGED <<welcomes, crashes>>
      BY <1>3 DEF OpenRoom, tally
    <2>3. FreshMeta.promoted = FALSE
      BY DEF FreshMeta
    <2>4. QED BY <2>1, <2>2, <2>3 DEF WelcomesCounted, Current, TypeOK
  <1>4. CASE Load
    <2>1. /\ ~Working /\ Working' /\ pc' = "rooms" /\ mem' = disk
          /\ UNCHANGED <<disk, welcomes, crashes>>
      BY <1>4 DEF Load, Working, tally
    <2>2. QED BY <2>1 DEF WelcomesCounted, Current
  <1>5. CASE Save
    <2>1. /\ Working /\ ~Working' /\ pc' = "sync" /\ disk' = mem
          /\ UNCHANGED <<welcomes, crashes>>
      BY <1>5 DEF Save, Working, CopySound, tally
    <2>2. QED BY <2>1 DEF WelcomesCounted, Current
  <1>6. CASE Crash
    <2>1. /\ ~Working' /\ pc' = "sync" /\ disk' = disk /\ welcomes' = welcomes
          /\ crashes' = crashes + 1
      BY <1>6 DEF Crash, Working
    <2>2. \A r \in Rooms : welcomes[r] <= 1 + crashes
      BY WelcomesWithin
    <2>3. ASSUME NEW r \in Rooms PROVE welcomes'[r] <= crashes'
      BY <2>1, <2>2 DEF TypeOK
    <2>4. QED BY <2>1, <2>3 DEF WelcomesCounted, Current, TypeOK
  <1>7. ASSUME NEW r \in Rooms, NEW m, m # Nothing, mem[r] \in Meta,
               mem' = [mem EXCEPT ![r] = m], Working, Working', pc' # "invited",
               m.promoted = mem[r].promoted, UNCHANGED <<welcomes, crashes>>
        PROVE  WelcomesCounted'
    BY <1>7 DEF WelcomesCounted, Current, TypeOK
  <1>8. ASSUME NEW r \in Rooms, NoteName(r) PROVE WelcomesCounted'
    <2>1. Working /\ Working' /\ mem[r] \in Meta /\ pc' = "rooms"
      BY <1>8 DEF NoteName, Turn, Working, CopySound, Ahead, Open, TypeOK
    <2>2. PICK name \in BOOLEAN : name = todo[r].joins[Len(todo[r].joins)]
      BY <1>8, NewsEdits DEF NoteName, TypeOK
    <2> DEFINE m == [mem[r] EXCEPT !.display = name]
    <2>3. m \in Meta /\ m.promoted = mem[r].promoted
      BY <2>1 DEF Meta
    <2>4. mem' = [mem EXCEPT ![r] = m] /\ UNCHANGED <<welcomes, crashes>>
      BY <1>8, <2>2 DEF NoteName, tally
    <2> HIDE DEF m
    <2>5. QED BY <2>1, <2>3, <2>4, <1>7
  <1>9. ASSUME NEW r \in Rooms, Refuse(r) PROVE WelcomesCounted'
    <2>1. Working /\ Working' /\ mem[r] \in Meta /\ pc' = "rooms" /\ mem[r].left > 0
      BY <1>9, JudgedOpen DEF Refuse, Judging, Turn, Working
    <2> DEFINE m == [mem[r] EXCEPT !.left = @ - 1]
    <2>2. m \in Meta /\ m.promoted = mem[r].promoted
      BY <2>1 DEF Meta
    <2>3. mem' = [mem EXCEPT ![r] = m] /\ UNCHANGED <<welcomes, crashes>>
      BY <1>9 DEF Refuse
    <2> HIDE DEF m
    <2>4. QED BY <2>1, <2>2, <2>3, <1>7
  <1>10. ASSUME NEW r \in Rooms, Exhaust(r) PROVE WelcomesCounted'
    <2>1. Working /\ Working' /\ mem[r] \in Meta /\ pc' = "rooms" /\ mem[r].left > 0
      BY <1>10, JudgedOpen DEF Exhaust, Judging, Turn, Working
    <2> DEFINE m == [mem[r] EXCEPT !.left = @ - 1, !.reason = "tries_exhausted"]
    <2>2. mem[r].left - 1 \in 0..MaxTries
      BY <2>1 DEF Meta
    <2>3. m \in Meta /\ m.promoted = mem[r].promoted
      BY <2>1, <2>2 DEF Meta
    <2>4. mem' = [mem EXCEPT ![r] = m] /\ UNCHANGED <<welcomes, crashes>>
      BY <1>10 DEF Exhaust, tally
    <2> HIDE DEF m
    <2>5. QED BY <2>1, <2>3, <2>4, <1>7
  <1>11. ASSUME NEW r \in Rooms, Clean(r) PROVE WelcomesCounted'
    <2>1. Working /\ Working' /\ mem[r] \in Meta /\ pc' = "clean"
      BY <1>11 DEF Clean, Working, Open, TypeOK, loop
    <2> DEFINE m == [mem[r] EXCEPT !.reason = "timeout"]
    <2>2. m \in Meta /\ m.promoted = mem[r].promoted
      BY <2>1 DEF Meta
    <2>3. mem' = [mem EXCEPT ![r] = m] /\ UNCHANGED <<welcomes, crashes>>
      BY <1>11 DEF Clean, tally
    <2> HIDE DEF m
    <2>4. QED BY <2>1, <2>2, <2>3, <1>7
  <1>12. ASSUME NEW r \in Rooms, Promote(r) PROVE WelcomesCounted'
    <2>1. Working /\ Working' /\ mem[r] \in Meta /\ Open(mem, r)
      BY <1>12, JudgedOpen DEF Promote, Working
    <2> DEFINE m == [mem[r] EXCEPT !.promoted = TRUE]
    <2>2. m \in Meta
      BY <2>1 DEF Meta
    <2>3. m.promoted = TRUE
      BY <2>1 DEF Meta
    <2>4. /\ mem' = [mem EXCEPT ![r] = m] /\ UNCHANGED <<welcomes, crashes>>
          /\ cur' = r
      BY <1>12 DEF Promote, tally
    <2> HIDE DEF m
    <2>5. welcomes[r] <= crashes
      BY <2>1 DEF WelcomesCounted, Current, Open
    <2>6. m # Nothing
      BY <2>2
    <2>7. welcomes[r] <= 1 + crashes
      BY <2>5 DEF TypeOK
    <2>8. QED BY <2>1, <2>3, <2>4, <2>5, <2>6, <2>7 DEF WelcomesCounted, Current, TypeOK
  <1>13. CASE GiveWelcome
    <2>1. Working /\ Working' /\ pc = "invited" /\ pc' = "acking" /\ cur \in Rooms
      BY <1>13 DEF GiveWelcome, Working, CurSound
    <2>2. welcomes' = [welcomes EXCEPT ![cur] = @ + 1] /\ UNCHANGED <<mem, crashes>>
      BY <1>13 DEF GiveWelcome, store
    <2>3. mem[cur] # Nothing /\ mem[cur].promoted /\ welcomes[cur] <= crashes
      BY <2>1 DEF WelcomesCounted
    <2>4. welcomes'[cur] <= 1 + crashes
      BY <2>1, <2>2, <2>3 DEF TypeOK
    <2>5. QED BY <2>1, <2>2, <2>3, <2>4 DEF WelcomesCounted, Current, TypeOK
  <1>14. QED BY QuietSteps, <1>1, <1>3, <1>4, <1>5, <1>6, <1>8, <1>9, <1>10, <1>11,
                <1>12, <1>13

(***************************************************************************)
(* A vetting room gives out at most one welcome code and one more for each *)
(* crash of the process.                                                   *)
(***************************************************************************)
THEOREM WelcomesBoundedAlways == Spec => []WelcomesBounded
  <1>1. Init => WelcomesCounted
    BY VettingBounds DEF Init, WelcomesCounted, Working, Current, NoBook
  <1>2. VInv /\ WelcomesCounted => WelcomesBounded
    BY WelcomesWithin DEF WelcomesBounded
  <1>3. QED BY <1>1, <1>2, StepWelcomes, VInvAlways, PTL DEF Spec

-----------------------------------------------------------------------------
(***************************************************************************)
(* What the news of a room say: that its owner had a displayname, that a   *)
(* proper haiku was sent, that a message came from someone named.          *)
(***************************************************************************)
TellsName(n)  == \E i \in DOMAIN n.joins : n.joins[i] = TRUE
TellsHaiku(n) == \E i \in DOMAIN n.msgs : n.msgs[i].good
TellsNamed(n) == \E i \in DOMAIN n.msgs : n.msgs[i].named

LEMMA NoNewsSay ==
    NoNews \in News /\ ~TellsName(NoNews) /\ ~TellsHaiku(NoNews) /\ ~TellsNamed(NoNews)
  BY DEF News, NoNews, TellsName, TellsHaiku, TellsNamed

LEMMA NamesTaken ==
    ASSUME NEW n \in News, NEW m, m = [n EXCEPT !.joins = << >>]
    PROVE  ~TellsName(m) /\ m.joins = << >> /\ m.msgs = n.msgs
  BY DEF News, TellsName

LEMMA LastNameTold ==
    ASSUME NEW n \in News, n.joins # << >>, n.joins[Len(n.joins)] = TRUE
    PROVE  TellsName(n)
  <1>1. n.joins \in Seq(BOOLEAN)
    BY DEF News
  <1>2. Len(n.joins) \in DOMAIN n.joins
    <2>1. Len(n.joins) \in Nat /\ Len(n.joins) # 0 /\ DOMAIN n.joins = 1..Len(n.joins)
      BY <1>1, EmptySeq, LenProperties
    <2>2. QED BY <2>1
  <1>3. QED BY <1>2 DEF TellsName

LEMMA MessageTaken ==
    ASSUME NEW n \in News, n.msgs # << >>, NEW m, m = [n EXCEPT !.msgs = Tail(@)]
    PROVE  /\ m.joins = n.joins
           /\ TellsHaiku(m) => TellsHaiku(n)
           /\ TellsNamed(m) => TellsNamed(n)
           /\ Head(n.msgs).good => TellsHaiku(n)
           /\ Head(n.msgs).named => TellsNamed(n)
  <1>1. n.msgs \in Seq(Message) /\ m.joins = n.joins /\ m.msgs = Tail(n.msgs)
    BY DEF News
  <1>2. ASSUME NEW i \in DOMAIN m.msgs
        PROVE  i + 1 \in DOMAIN n.msgs /\ m.msgs[i] = n.msgs[i + 1]
    BY <1>1
  <1>3. 1 \in DOMAIN n.msgs /\ Head(n.msgs) = n.msgs[1]
    BY <1>1
  <1>4. QED BY <1>1, <1>2, <1>3 DEF TellsHaiku, TellsNamed

\* The news n with one more join.
WithName(n, name) == [n EXCEPT !.joins = Append(@, name)]

LEMMA NameTold ==
    ASSUME NEW n \in News, NEW name \in BOOLEAN, NEW m, m = WithName(n, name)
    PROVE  /\ m.msgs = n.msgs /\ m.joins # << >> /\ m.joins[Len(m.joins)] = name
           /\ TellsName(m) => TellsName(n) \/ name = TRUE
  <1>1. n.joins \in Seq(BOOLEAN) /\ m.msgs = n.msgs /\ m.joins = Append(n.joins, name)
    BY DEF News, WithName
  <1>2. m.joins # << >> /\ m.joins[Len(m.joins)] = name
    <2>1. Append(n.joins, name) # << >>
      BY <1>1, AppendProperties, Zenon
    <2>2. Append(n.joins, name)[Len(Append(n.joins, name))] = name
      <3>1. Len(Append(n.joins, name)) = Len(n.joins) + 1
        BY <1>1
      <3>2. Append(n.joins, name)[Len(n.joins) + 1] = name
        <4>1. n.joins \in Seq(BOOLEAN)
          BY <1>1
        <4>2. QED BY <4>1, AppendProperties, Zenon
      <3>3. QED BY <3>1, <3>2, Zenon
    <2>3. QED BY <1>1, <2>1, <2>2, Zenon
  <1>3. ASSUME NEW i \in DOMAIN m.joins
        PROVE  \/ i \in DOMAIN n.joins /\ m.joins[i] = n.joins[i]
               \/ m.joins[i] = name
    BY <1>1
  <1>4. QED BY <1>1, <1>2, <1>3 DEF TellsName

LEMMA MessageTold ==
    ASSUME NEW n \in News, NEW e \in Message, NEW m,
           m = [n EXCEPT !.msgs = Append(@, e)]
    PROVE  /\ m.joins = n.joins
           /\ TellsHaiku(m) => TellsHaiku(n) \/ e.good
           /\ TellsNamed(m) => TellsNamed(n) \/ e.named
  <1>1. n.msgs \in Seq(Message) /\ m.joins = n.joins /\ m.msgs = Append(n.msgs, e)
    BY DEF News
  <1>2. ASSUME NEW i \in DOMAIN m.msgs
        PROVE  \/ i \in DOMAIN n.msgs /\ m.msgs[i] = n.msgs[i]
               \/ m.msgs[i] = e
    BY <1>1
  <1>3. QED BY <1>1, <1>2 DEF TellsHaiku, TellsNamed

\* A record that has the owner's displayname.
Signed(b, r) == b[r] # Nothing /\ b[r].display

\* Where a name or a haiku is told of, it was given or sent.
TruthTold ==
    \A r \in Rooms :
        /\ \/ TellsName(feed[r]) \/ TellsName(todo[r])
           \/ Signed(disk, r) \/ Signed(mem, r)
           => owner[r] \in named
        /\ TellsHaiku(feed[r]) \/ TellsHaiku(todo[r]) => r \in spoke

HaikuInv == TruthTold /\ spoke \subseteq inside /\ SpaceOnlyByHaiku

(***************************************************************************)
(* What was given or sent stays so: rooms keep their owners, owners their  *)
(* names, haikus are not unsaid, and who was inside has been inside.       *)
(***************************************************************************)
LEMMA StepGrows ==
    VInv /\ [Next]_vars =>
        /\ named \subseteq named' /\ spoke \subseteq spoke' /\ inside \subseteq inside'
        /\ \A r \in Rooms : owner[r] # Nothing => owner'[r] = owner[r]
  <1> SUFFICES ASSUME VInv, [Next]_vars
               PROVE  /\ named \subseteq named' /\ spoke \subseteq spoke'
                      /\ inside \subseteq inside'
                      /\ \A r \in Rooms : owner[r] # Nothing => owner'[r] = owner[r]
    OBVIOUS
  <1>1. ASSUME NEW r \in Rooms, OpenRoom(r)
        PROVE  \A q \in Rooms : owner[q] # Nothing => owner'[q] = owner[q]
    BY <1>1 DEF OpenRoom, VInv, TypeOK
  <1>2. QED BY <1>1
        DEF Next, LoopStep, vars, store, loop, world, tally, Sync, OpenRoom, Greet, TurnAway,
            Load, NoteName, Refuse, Exhaust, Promote, PromoteFails, GiveWelcome,
            Acknowledge, BatchDone, Clean, Save, Crash, Knock, Happens, SetsName,
            EntersSpace, OwnerJoins, GrowsStale, OwnerSays

(***************************************************************************)
(* Every step tells the truth.                                             *)
(***************************************************************************)
LEMMA StepTruth == VInv /\ HaikuInv /\ [Next]_vars => TruthTold'
  <1> SUFFICES ASSUME VInv, HaikuInv, [Next]_vars PROVE TruthTold'
    OBVIOUS
  <1> USE VettingBounds, NothingAssumption DEF VInv, HaikuInv
  <1> DEFINE Told(f, t, d, m, r) == \/ TellsName(f[r]) \/ TellsName(t[r])
                                    \/ Signed(d, r) \/ Signed(m, r)
             Spoken(f, t, r) == TellsHaiku(f[r]) \/ TellsHaiku(t[r])
  <1>0. NoNews \in News /\ ~TellsName(NoNews) /\ ~TellsHaiku(NoNews)
    BY NoNewsSay
  <1>a. \A r \in Rooms : owner[r] \in named => owner'[r] \in named'
    <2>1. \A r \in Rooms : owner[r] \in named => owner[r] # Nothing
      BY DEF TypeOK
    <2>2. QED BY <2>1, StepGrows
  <1>b. spoke \subseteq spoke'
    BY StepGrows
  <1>c. ASSUME NEW r \in Rooms,
               Told(feed, todo, disk, mem, r)' => Told(feed, todo, disk, mem, r) \/ owner'[r] \in named',
               Spoken(feed, todo, r)' => Spoken(feed, todo, r) \/ r \in spoke'
        PROVE  /\ Told(feed, todo, disk, mem, r)' => owner'[r] \in named'
               /\ Spoken(feed, todo, r)' => r \in spoke'
    <2>1. Told(feed, todo, disk, mem, r) => owner[r] \in named
      BY DEF TruthTold
    <2>2. Spoken(feed, todo, r) => r \in spoke
      BY DEF TruthTold
    <2>3. QED BY <1>a, <1>b, <1>c, <2>1, <2>2
  <1>d. ASSUME \A r \in Rooms :
                 /\ Told(feed, todo, disk, mem, r)' =>
                       Told(feed, todo, disk, mem, r) \/ owner'[r] \in named'
                 /\ Spoken(feed, todo, r)' => Spoken(feed, todo, r) \/ r \in spoke'
        PROVE  TruthTold'
    <2>1. \A r \in Rooms : /\ Told(feed, todo, disk, mem, r)' => owner'[r] \in named'
                           /\ Spoken(feed, todo, r)' => r \in spoke'
      BY <1>c, <1>d
    <2>2. QED BY <2>1 DEF TruthTold
  <1>1. CASE UNCHANGED <<feed, todo, disk, mem>>
    BY <1>1, <1>d DEF Signed
  <1>2. CASE Sync
    BY <1>2, <1>0, <1>d DEF Sync, store, NoBatch, Signed, TypeOK
  <1>3. ASSUME NEW r \in Rooms, OpenRoom(r) PROVE TruthTold'
    <2>1. ~FreshMeta.display
      BY DEF FreshMeta
    <2>2. disk' = [disk EXCEPT ![r] = FreshMeta] /\ UNCHANGED <<feed, todo, mem>>
      BY <1>3 DEF OpenRoom
    <2>3. \A q \in Rooms : Signed(disk, q)' => Signed(disk, q)
      BY <2>1, <2>2 DEF Signed, TypeOK
    <2>4. \A q \in Rooms : Signed(mem, q)' => Signed(mem, q)
      BY <2>2 DEF Signed
    <2>5. QED BY <2>2, <2>3, <2>4, <1>d
  <1>4. CASE Load
    BY <1>4, <1>0, <1>d DEF Load, world, Signed, TypeOK
  <1>5. ASSUME NEW r \in Rooms, NoteName(r) PROVE TruthTold'
    <2>1. Open(mem, r) /\ mem[r] \in Meta
      BY <1>5 DEF NoteName, Turn, Working, CopySound, Ahead, Open, TypeOK
    <2>2. PICK name \in BOOLEAN : name = todo[r].joins[Len(todo[r].joins)]
      BY <1>5, NewsEdits DEF NoteName, TypeOK
    <2>3. name = TRUE => TellsName(todo[r])
      <3>1. todo[r] \in News /\ todo[r].joins # << >>
        BY <1>5 DEF NoteName, TypeOK
      <3>2. QED BY <2>2, <3>1, LastNameTold
    <2>4. /\ mem' = [mem EXCEPT ![r] = [mem[r] EXCEPT !.display = name]]
          /\ todo' = [todo EXCEPT ![r] = [todo[r] EXCEPT !.joins = << >>]]
          /\ UNCHANGED <<feed, disk>>
      BY <1>5, <2>2 DEF NoteName, world
    <2>5. \A q \in Rooms : Signed(mem, q)' => Signed(mem, q) \/ (q = r /\ name = TRUE)
      BY <2>1, <2>4 DEF Signed, Meta, TypeOK
    <2>6. \A q \in Rooms : /\ TellsName(todo'[q]) => TellsName(todo[q])
                           /\ TellsHaiku(todo'[q]) => TellsHaiku(todo[q])
      <3>1. \A q \in Rooms \ {r} : todo'[q] = todo[q]
        BY <2>4 DEF TypeOK
      <3>2. todo'[r] = [todo[r] EXCEPT !.joins = << >>] /\ todo[r] \in News
        BY <2>4 DEF TypeOK
      <3>3. ~TellsName(todo'[r]) /\ todo'[r].msgs = todo[r].msgs
        BY <3>2, NamesTaken
      <3>4. QED BY <3>1, <3>3 DEF TellsHaiku
    <2>7. \A q \in Rooms : Signed(disk, q)' => Signed(disk, q)
      BY <2>4 DEF Signed
    <2>8. QED BY <2>3, <2>4, <2>5, <2>6, <2>7, <1>d
  <1>6. ASSUME NEW r \in Rooms, Refuse(r) PROVE TruthTold'
    <2>1. mem[r] \in Meta /\ todo[r].msgs # << >> /\ todo[r] \in News
      BY <1>6, JudgedOpen DEF Refuse, TypeOK
    <2>2. /\ mem' = [mem EXCEPT ![r] = [mem[r] EXCEPT !.left = @ - 1]]
          /\ todo' = [todo EXCEPT ![r] = [todo[r] EXCEPT !.msgs = Tail(@)]]
          /\ UNCHANGED <<feed, disk>>
      BY <1>6 DEF Refuse, world
    <2>3. \A q \in Rooms : Signed(mem, q)' => Signed(mem, q)
      BY <2>1, <2>2 DEF Signed, Meta, TypeOK
    <2>4. \A q \in Rooms : /\ TellsName(todo'[q]) => TellsName(todo[q])
                           /\ TellsHaiku(todo'[q]) => TellsHaiku(todo[q])
      <3>1. \A q \in Rooms \ {r} : todo'[q] = todo[q]
        BY <2>2 DEF TypeOK
      <3>2. todo'[r] = [todo[r] EXCEPT !.msgs = Tail(@)]
        BY <2>2 DEF TypeOK
      <3>3. todo'[r].joins = todo[r].joins /\ (TellsHaiku(todo'[r]) => TellsHaiku(todo[r]))
        BY <3>2, <2>1, MessageTaken
      <3>4. QED BY <3>1, <3>3 DEF TellsName
    <2>5. \A q \in Rooms : Signed(disk, q)' => Signed(disk, q)
      BY <2>2 DEF Signed
    <2>6. QED BY <2>2, <2>3, <2>4, <2>5, <1>d
  <1>7. ASSUME NEW r \in Rooms, Exhaust(r) \/ Promote(r) \/ PromoteFails(r) PROVE TruthTold'
    <2>1. mem[r] \in Meta
      BY <1>7, JudgedOpen DEF Exhaust, Promote, PromoteFails
    <2>2. todo' = [todo EXCEPT ![r] = NoNews] /\ UNCHANGED <<feed, disk>>
      BY <1>7 DEF Exhaust, Promote, PromoteFails, world
    <2>3. \A q \in Rooms : Signed(mem, q)' => Signed(mem, q)
      <3>1. CASE Exhaust(r)
        BY <3>1, <2>1 DEF Exhaust, Signed, Meta, TypeOK
      <3>2. CASE Promote(r)
        BY <3>2, <2>1 DEF Promote, Signed, Meta, TypeOK
      <3>3. CASE PromoteFails(r)
        BY <3>3 DEF PromoteFails, Signed
      <3>4. QED BY <1>7, <3>1, <3>2, <3>3
    <2>4. \A q \in Rooms : Signed(disk, q)' => Signed(disk, q)
      BY <2>2 DEF Signed
    <2>5. QED BY <2>2, <2>3, <2>4, <1>0, <1>d DEF TypeOK
  <1>8. ASSUME NEW r \in Rooms, Clean(r) PROVE TruthTold'
    <2>1. mem[r] \in Meta
      BY <1>8 DEF Clean, Open, TypeOK
    <2>2. mem' = [mem EXCEPT ![r] = [mem[r] EXCEPT !.reason = "timeout"]]
          /\ UNCHANGED <<feed, todo, disk>>
      BY <1>8 DEF Clean, loop
    <2>3. \A q \in Rooms : Signed(mem, q)' => Signed(mem, q)
      BY <2>1, <2>2 DEF Signed, Meta, TypeOK
    <2>4. \A q \in Rooms : Signed(disk, q)' => Signed(disk, q)
      BY <2>2 DEF Signed
    <2>5. QED BY <2>2, <2>3, <2>4, <1>d
  <1>9. CASE Save
    BY <1>9, <1>d DEF Save, world, NoBook, Signed
  <1>10. CASE Crash
    BY <1>10, <1>0, <1>d DEF Crash, world, NoBook, NoBatch, Signed
  <1>11. ASSUME NEW u \in Users, SetsName(u) PROVE TruthTold'
    <2>1. /\ u \in named' /\ UNCHANGED <<owner, todo, disk, mem>>
          /\ feed' = [r \in Rooms |-> IF r \in inside \cap botIn /\ owner[r] = u
                        THEN [feed[r] EXCEPT !.joins = Append(@, TRUE)] ELSE feed[r]]
      BY <1>11 DEF SetsName, Happens, store, loop
    <2>2. ASSUME NEW r \in Rooms
          PROVE  /\ TellsName(feed'[r]) => TellsName(feed[r]) \/ owner'[r] \in named'
                 /\ TellsHaiku(feed'[r]) => TellsHaiku(feed[r])
      <3>1. CASE feed'[r] = feed[r]
        BY <3>1
      <3>2. CASE owner[r] = u /\ feed'[r] = WithName(feed[r], TRUE)
        <4>1. feed'[r].msgs = feed[r].msgs
          BY <3>2, NameTold DEF TypeOK
        <4>2. QED BY <3>2, <2>1, <4>1 DEF TellsHaiku
      <3>3. QED BY <2>1, <3>1, <3>2 DEF WithName
    <2>3. \A q \in Rooms : (Signed(disk, q)' => Signed(disk, q)) /\ (Signed(mem, q)' => Signed(mem, q))
      BY <2>1 DEF Signed
    <2>4. QED BY <2>1, <2>2, <2>3, <1>d
  <1>12. ASSUME NEW r \in Rooms, OwnerJoins(r) PROVE TruthTold'
    <2>1. PICK name \in BOOLEAN : name = (owner[r] \in named)
      <3>1. (owner[r] \in named) \in BOOLEAN
        OBVIOUS
      <3>2. QED BY <3>1, Zenon
    <2>2. /\ feed' = [feed EXCEPT ![r] = WithName(feed[r], name)]
          /\ UNCHANGED <<owner, named, todo, disk, mem>>
      BY <1>12, <2>1, Zenon DEF WithName, OwnerJoins, Happens, store, loop
    <2>3. feed[r] \in News /\ feed'[r] = WithName(feed[r], name)
      BY <2>2 DEF TypeOK
    <2>4. /\ TellsName(feed'[r]) => TellsName(feed[r]) \/ name = TRUE
          /\ feed'[r].msgs = feed[r].msgs
      <3>1. CASE name = TRUE
        BY <3>1, <2>3, NameTold
      <3>2. CASE name = FALSE
        BY <3>2, <2>3, NameTold
      <3>3. QED BY <3>1, <3>2
    <2>5. TellsHaiku(feed'[r]) => TellsHaiku(feed[r])
      BY <2>4 DEF TellsHaiku
    <2>6. name = TRUE => owner'[r] \in named'
      BY <2>1, <2>2, Zenon
    <2>7. \A q \in Rooms \ {r} : feed'[q] = feed[q]
      BY <2>2 DEF TypeOK
    <2>8. \A q \in Rooms : (Signed(disk, q)' => Signed(disk, q)) /\ (Signed(mem, q)' => Signed(mem, q))
      BY <2>2 DEF Signed
    <2>9. QED BY <2>2, <2>4, <2>5, <2>6, <2>7, <2>8, <1>d
  <1>13. ASSUME NEW r \in Rooms, NEW good \in BOOLEAN, OwnerSays(r, good) PROVE TruthTold'
    <2>1. PICK e \in Message : e = [good |-> good, named |-> owner[r] \in named]
      <3>1. [good |-> good, named |-> owner[r] \in named] \in Message
        BY DEF Message
      <3>2. QED BY <3>1, Zenon
    <2>2. /\ feed' = [feed EXCEPT ![r] = [feed[r] EXCEPT !.msgs = Append(@, e)]]
          /\ UNCHANGED <<todo, disk, mem>> /\ e.good = good
      BY <1>13, <2>1, Zenon DEF OwnerSays, Happens, store, loop
    <2>3. good => r \in spoke'
      BY <1>13 DEF OwnerSays
    <2>4. feed[r] \in News /\ feed'[r] = [feed[r] EXCEPT !.msgs = Append(@, e)]
      BY <2>2 DEF TypeOK
    <2>5. /\ TellsHaiku(feed'[r]) => TellsHaiku(feed[r]) \/ e.good
          /\ feed'[r].joins = feed[r].joins
      BY <2>4, MessageTold
    <2>6. TellsName(feed'[r]) => TellsName(feed[r])
      BY <2>5 DEF TellsName
    <2>7. \A q \in Rooms \ {r} : feed'[q] = feed[q]
      BY <2>2 DEF TypeOK
    <2>8. \A q \in Rooms : (Signed(disk, q)' => Signed(disk, q)) /\ (Signed(mem, q)' => Signed(mem, q))
      BY <2>2 DEF Signed
    <2>9. TellsHaiku(feed'[r]) => TellsHaiku(feed[r]) \/ r \in spoke'
      BY <2>2, <2>3, <2>5
    <2>10. QED BY <2>2, <2>6, <2>7, <2>8, <2>9, <1>d
  <1>14. QED BY <1>1, <1>2, <1>3, <1>4, <1>5, <1>6, <1>7, <1>8, <1>9, <1>10, <1>11, <1>12,
                <1>13
        DEF Next, LoopStep, vars, store, loop, world, Greet, TurnAway, GiveWelcome,
            Acknowledge, BatchDone, Knock, Happens, EntersSpace, GrowsStale

(***************************************************************************)
(* Every step keeps the door: an invitation is made in Promote, where the  *)
(* message is a haiku somebody told and the record is signed.              *)
(***************************************************************************)
LEMMA StepHaiku == VInv /\ HaikuInv /\ [Next]_vars => HaikuInv'
  <1> SUFFICES ASSUME VInv, HaikuInv, [Next]_vars PROVE HaikuInv'
    OBVIOUS
  <1> USE VettingBounds, NothingAssumption DEF VInv
  <1>1. TruthTold'
    BY StepTruth
  <1>2. (spoke \subseteq inside)'
    <2>1. spoke' = spoke \/ \E r \in inside : spoke' = spoke \cup {r}
      BY DEF Next, LoopStep, vars, store, loop, world, tally, Sync, OpenRoom, Greet, TurnAway,
             Load, NoteName, Refuse, Exhaust, Promote, PromoteFails, GiveWelcome,
             Acknowledge, BatchDone, Clean, Save, Crash, Knock, Happens, SetsName,
             EntersSpace, OwnerJoins, GrowsStale, OwnerSays
    <2>2. QED BY <2>1, StepGrows DEF HaikuInv
  <1> DEFINE Earned(u) == u \in named /\ \E r \in spoke : owner[r] = u /\ r \in inside
  <1>3. ASSUME NEW u \in Users, Earned(u) PROVE Earned(u)'
    <2>1. PICK r \in spoke : owner[r] = u /\ r \in inside
      BY <1>3
    <2>2. r \in Rooms /\ u # Nothing
      BY DEF TypeOK
    <2>3. r \in spoke' /\ r \in inside' /\ owner'[r] = u /\ u \in named'
      BY <1>3, <2>1, <2>2, StepGrows
    <2>4. QED BY <2>3
  <1>4. ASSUME NEW r \in Rooms, Promote(r) PROVE Earned(owner[r]) /\ owner[r] \in Users
    <2>1. Open(mem, r) /\ todo[r].msgs # << >> /\ todo[r] \in News
      BY <1>4, JudgedOpen DEF Promote, TypeOK
    <2>2. Head(todo[r].msgs).good /\ mem[r].display
      BY <1>4 DEF Promote, Passes, TheHaiku
    <2>3. TellsHaiku(todo[r])
      BY <2>1, <2>2, MessageTaken
    <2>4. r \in spoke /\ owner[r] \in named
      BY <2>1, <2>2, <2>3 DEF HaikuInv, TruthTold, Signed, Open
    <2>5. QED BY <2>4 DEF HaikuInv, TypeOK
  <1>5. ASSUME NEW u \in Users, member'[u] # "no" PROVE Earned(u)
    <2>1. CASE member[u] # "no"
      BY <2>1 DEF HaikuInv, SpaceOnlyByHaiku
    <2>2. CASE \E r \in Rooms : Promote(r) /\ owner[r] = u
      BY <2>2, <1>4
    <2>3. \/ member[u] # "no"
          \/ \E r \in Rooms : Promote(r) /\ owner[r] = u
      <3>1. ASSUME NEW r \in Rooms, Promote(r), owner[r] # u PROVE member'[u] = member[u]
        BY <3>1 DEF Promote, TypeOK
      <3>2. ASSUME NEW v \in Users, EntersSpace(v) PROVE member[u] # "no"
        BY <3>2, <1>5 DEF EntersSpace, TypeOK
      <3>3. QED BY <1>5, <3>1, <3>2
          DEF Next, LoopStep, vars, store, loop, world, tally, Sync, OpenRoom, Greet,
              TurnAway, Load, NoteName, Refuse, Exhaust, PromoteFails, GiveWelcome,
              Acknowledge, BatchDone, Clean, Save, Crash, Knock, Happens, SetsName,
              OwnerJoins, GrowsStale, OwnerSays
    <2>4. QED BY <2>1, <2>2, <2>3
  <1>6. SpaceOnlyByHaiku'
    <2>1. \A u \in Users : member'[u] # "no" => Earned(u)'
      BY <1>3, <1>5
    <2>2. QED BY <2>1 DEF SpaceOnlyByHaiku
  <1>7. QED BY <1>1, <1>2, <1>6 DEF HaikuInv

(***************************************************************************)
(* Nobody is invited to the space but the owner of a room who sent a       *)
(* proper haiku there and has a displayname.                               *)
(***************************************************************************)
THEOREM SpaceOnlyByHaikuAlways == Spec => []SpaceOnlyByHaiku
  <1>1. Init => HaikuInv
    <2> SUFFICES ASSUME Init PROVE HaikuInv
      OBVIOUS
    <2>1. ~TellsName(NoNews) /\ ~TellsHaiku(NoNews)
      BY NoNewsSay
    <2>2. QED BY <2>1
          DEF Init, HaikuInv, TruthTold, SpaceOnlyByHaiku, Signed, NoBook, NoBatch
  <1>2. HaikuInv => SpaceOnlyByHaiku
    BY DEF HaikuInv
  <1>3. QED BY <1>1, <1>2, StepHaiku, VInvAlways, PTL DEF Spec

-----------------------------------------------------------------------------
\* The records the process goes by, all of them.
Now == IF Working THEN mem ELSE disk

\* The last join of the news has a displayname.
LastName(n) == n.joins # << >> /\ n.joins[Len(n.joins)] = TRUE

\* The record has the displayname once the batch is worked off, and once the
\* next one is, too.
Known(r)    == LastName(todo[r]) \/ (todo[r].joins = << >> /\ Signed(Now, r))
Foreseen(r) == LastName(feed[r]) \/ (feed[r].joins = << >> /\ Known(r))

\* News come from rooms whose owner is inside.
NewsSound ==
    /\ pc = "sync" => todo = NoBatch
    /\ \A r \in Rooms :
          /\ todo[r] # NoNews \/ feed[r] # NoNews => r \in inside
          /\ r \in inside => owner[r] # Nothing
          /\ TellsNamed(feed[r]) => owner[r] \in named

\* A named owner's name is on record, or on its way ahead of the messages.
NamesAhead ==
    crashes = 0 => \A r \in Rooms : Open(Now, r) =>
        /\ r \in botIn
        /\ TellsNamed(todo[r]) => Known(r)
        /\ r \in inside /\ owner[r] \in named => Foreseen(r)

AdviceInv == NewsSound /\ NamesAhead

(***************************************************************************)
(* Every step keeps the news sound.                                        *)
(***************************************************************************)
LEMMA StepNewsSound == VInv /\ NewsSound /\ [Next]_vars => NewsSound'
  <1> SUFFICES ASSUME VInv, NewsSound, [Next]_vars PROVE NewsSound'
    OBVIOUS
  <1> USE VettingBounds, NothingAssumption DEF VInv
  <1>0. ~TellsNamed(NoNews)
    BY NoNewsSay
  <1>1. (pc = "sync" => todo = NoBatch)'
    <2>1. CASE UNCHANGED <<pc, todo>>
      BY <2>1 DEF NewsSound
    <2>2. CASE pc' # "sync"
      BY <2>2
    <2>3. CASE Save
      BY <2>3 DEF Save, CurSound
    <2>4. CASE Crash
      BY <2>4 DEF Crash
    <2>5. QED BY <2>1, <2>2, <2>3, <2>4
          DEF Next, LoopStep, vars, store, loop, world, Sync, OpenRoom, Greet, TurnAway,
              Load, NoteName, Turn, Judging, Refuse, Exhaust, Promote, PromoteFails,
              GiveWelcome, Acknowledge, BatchDone, Clean, Knock, Happens, SetsName,
              EntersSpace, OwnerJoins, GrowsStale, OwnerSays
  <1> DEFINE Heard(r) == todo[r] # NoNews \/ feed[r] # NoNews
  <1>2. ASSUME NEW r \in Rooms, r \in inside' PROVE owner'[r] # Nothing
    <2>1. CASE r \in inside
      BY <2>1, StepGrows DEF NewsSound
    <2>2. CASE r \notin inside
      <3>1. \E q \in Rooms : OwnerJoins(q) /\ inside' = inside \cup {q}
        BY <2>2, <1>2
        DEF Next, LoopStep, vars, store, loop, world, tally, Sync, OpenRoom, Greet, TurnAway,
            Load, NoteName, Refuse, Exhaust, Promote, PromoteFails, GiveWelcome,
            Acknowledge, BatchDone, Clean, Save, Crash, Knock, Happens, SetsName,
            EntersSpace, OwnerJoins, GrowsStale, OwnerSays
      <3>2. OwnerJoins(r)
        BY <3>1, <2>2, <1>2
      <3>3. QED BY <3>2 DEF OwnerJoins, Happens
    <2>3. QED BY <2>1, <2>2
  <1>3. ASSUME NEW r \in Rooms
        PROVE  /\ Heard(r)' => Heard(r) \/ r \in inside'
               /\ TellsNamed(feed'[r]) => TellsNamed(feed[r]) \/ owner[r] \in named
    <2>1. CASE UNCHANGED <<feed, todo>>
      BY <2>1
    <2>2. CASE Sync
      BY <2>2, <1>0 DEF Sync, NoBatch
    <2>3. CASE Load
      BY <2>3 DEF Load, world
    <2>4. CASE Crash
      BY <2>4 DEF Crash, world, NoBatch
    <2>5. ASSUME NEW q \in Rooms,
                 NoteName(q) \/ Refuse(q) \/ Exhaust(q) \/ Promote(q) \/ PromoteFails(q)
          PROVE  /\ Heard(r)' => Heard(r)
                 /\ feed' = feed
      <3>1. feed' = feed /\ \A p \in Rooms \ {q} : todo'[p] = todo[p]
        BY <2>5 DEF NoteName, Refuse, Exhaust, Promote, PromoteFails, world, TypeOK
      <3>2. todo[q] # NoNews
        BY <2>5 DEF NoteName, Refuse, Exhaust, Promote, PromoteFails, Judging, Turn
      <3>3. QED BY <3>1, <3>2
    <2>6. ASSUME NEW u \in Users, SetsName(u)
          PROVE  /\ Heard(r)' => Heard(r) \/ r \in inside'
                 /\ TellsNamed(feed'[r]) => TellsNamed(feed[r])
      <3>1. /\ UNCHANGED <<todo, inside>>
            /\ feed'[r] = IF r \in inside \cap botIn /\ owner[r] = u
                            THEN WithName(feed[r], TRUE) ELSE feed[r]
        BY <2>6 DEF SetsName, Happens, loop, WithName
      <3>2. CASE feed'[r] = feed[r]
        BY <3>1, <3>2
      <3>3. CASE r \in inside /\ feed'[r] = WithName(feed[r], TRUE)
        <4>1. feed'[r].msgs = feed[r].msgs
          BY <3>3, NameTold DEF TypeOK
        <4>2. QED BY <3>1, <3>3, <4>1 DEF TellsNamed
      <3>4. QED BY <3>1, <3>2, <3>3
    <2>7. ASSUME NEW q \in Rooms, OwnerJoins(q)
          PROVE  /\ Heard(r)' => Heard(r) \/ r \in inside'
                 /\ TellsNamed(feed'[r]) => TellsNamed(feed[r])
      <3>1. /\ todo' = todo /\ q \in inside'
            /\ \A p \in Rooms \ {q} : feed'[p] = feed[p]
        BY <2>7 DEF OwnerJoins, Happens, loop, TypeOK
      <3>2. feed'[q].msgs = feed[q].msgs
        <4>1. feed[q] \in News
          BY DEF TypeOK
        <4>2. PICK name \in BOOLEAN : name = (owner[q] \in named)
          <5>1. (owner[q] \in named) \in BOOLEAN
            OBVIOUS
          <5>2. QED BY <5>1, Zenon
        <4>3. feed' = [feed EXCEPT ![q] = WithName(feed[q], name)]
          BY <2>7, <4>2, Zenon DEF OwnerJoins, WithName
        <4>4. feed'[q] = WithName(feed[q], name)
          BY <4>3 DEF TypeOK
        <4>5. CASE name = TRUE
          BY <4>1, <4>4, <4>5, NameTold
        <4>6. CASE name = FALSE
          BY <4>1, <4>4, <4>6, NameTold
        <4>7. QED BY <4>5, <4>6
      <3>3. QED BY <3>1, <3>2 DEF TellsNamed
    <2>8. ASSUME NEW q \in Rooms, NEW good \in BOOLEAN, OwnerSays(q, good)
          PROVE  /\ Heard(r)' => Heard(r) \/ r \in inside'
                 /\ TellsNamed(feed'[r]) => TellsNamed(feed[r]) \/ owner[r] \in named
      <3>1. PICK e \in Message : e = [good |-> good, named |-> owner[q] \in named]
        <4>1. [good |-> good, named |-> owner[q] \in named] \in Message
          BY DEF Message
        <4>2. QED BY <4>1, Zenon
      <3>2. /\ feed' = [feed EXCEPT ![q] = [feed[q] EXCEPT !.msgs = Append(@, e)]]
            /\ UNCHANGED <<todo, inside>> /\ (e.named <=> owner[q] \in named)
        BY <2>8, <3>1, Zenon DEF OwnerSays, Happens, loop
      <3>3. q \in inside /\ \A p \in Rooms \ {q} : feed'[p] = feed[p]
        BY <2>8, <3>2 DEF OwnerSays, TypeOK
      <3>4. feed[q] \in News /\ feed'[q] = [feed[q] EXCEPT !.msgs = Append(@, e)]
        BY <3>2 DEF TypeOK
      <3>5. TellsNamed(feed'[q]) => TellsNamed(feed[q]) \/ e.named
        BY <3>4, MessageTold
      <3>6. QED BY <3>2, <3>3, <3>5
    <2>9. QED BY <2>1, <2>2, <2>3, <2>4, <2>5, <2>6, <2>7, <2>8
          DEF Next, LoopStep, vars, store, loop, world, OpenRoom, Greet, TurnAway,
              GiveWelcome, Acknowledge, BatchDone, Clean, Save, Knock, Happens,
              EntersSpace, GrowsStale
  <1>4. ASSUME NEW r \in Rooms
        PROVE  /\ Heard(r)' => r \in inside'
               /\ TellsNamed(feed'[r]) => owner'[r] \in named'
    <2>1. Heard(r) => r \in inside'
      BY StepGrows DEF NewsSound
    <2>2. TellsNamed(feed[r]) => owner[r] \in named
      BY DEF NewsSound
    <2>3. owner[r] \in named => owner[r] # Nothing
      BY DEF TypeOK
    <2>4. owner[r] \in named => owner'[r] \in named'
      BY <2>3, StepGrows
    <2>5. QED BY <1>3, <2>1, <2>2, <2>4
  <1>5. QED BY <1>1, <1>2, <1>4 DEF NewsSound

\* NamesAhead for one room.
NameAhead(r) ==
    Open(Now, r) =>
        /\ r \in botIn
        /\ TellsNamed(todo[r]) => Known(r)
        /\ r \in inside /\ owner[r] \in named => Foreseen(r)

(***************************************************************************)
(* A step that leaves the news and the record of a room alone leaves its   *)
(* names ahead.                                                            *)
(***************************************************************************)
LEMMA SameRoom ==
    ASSUME NEW r \in Rooms, NameAhead(r),
           feed'[r] = feed[r], todo'[r] = todo[r], Now'[r] = Now[r],
           r \in botIn => r \in botIn',
           r \in inside' /\ owner'[r] \in named' => r \in inside /\ owner[r] \in named
    PROVE  NameAhead(r)'
  <1>1. Open(Now, r)' => Open(Now, r)
    BY DEF Open
  <1>2. /\ Known(r) <=> Known(r)'
        /\ Foreseen(r) <=> Foreseen(r)'
    BY DEF Known, Foreseen, Signed
  <1>3. QED BY <1>1, <1>2 DEF NameAhead

(***************************************************************************)
(* While nothing crashes every step keeps the names ahead of the messages. *)
(***************************************************************************)
LEMMA StepNamesAhead ==
    ASSUME VInv, NewsSound, [Next]_vars, crashes' = 0, \A r \in Rooms : NameAhead(r)
    PROVE  \A r \in Rooms : NameAhead(r)'
  <1> USE VettingBounds, NothingAssumption DEF VInv
  <1>0. NoNews \in News /\ ~TellsNamed(NoNews) /\ NoNews.joins = << >> /\ NoNews.msgs = << >>
    BY NoNewsSay DEF NoNews
  <1>1. CASE /\ UNCHANGED <<feed, todo, disk, mem, botIn, inside, named, owner>>
             /\ Working' <=> Working
    <2>1. Now' = Now
      BY <1>1 DEF Now
    <2>2. QED BY <1>1, <2>1, SameRoom
  <1>2. CASE Sync
    <2>1. todo = NoBatch /\ feed' = NoBatch /\ UNCHANGED <<botIn, inside, named, owner>>
      BY <1>2 DEF Sync, NewsSound
    <2>2. Now' = disk /\ Now = disk
      BY <1>2 DEF Sync, Now, Working, store
    <2>3. ASSUME NEW r \in Rooms, Open(Now, r) PROVE NameAhead(r)'
      <3>1. r \in botIn /\ (r \in inside /\ owner[r] \in named => Foreseen(r))
        BY <2>3 DEF NameAhead
      <3>2. todo'[r] = feed[r] /\ todo[r] = NoNews /\ feed'[r] = NoNews
        BY <1>2, <2>1, <3>1 DEF Sync, NoBatch
      <3>3. Foreseen(r) => Known(r)' /\ Foreseen(r)'
        BY <1>0, <2>2, <3>2 DEF Foreseen, Known, LastName, Signed
      <3>4. TellsNamed(todo'[r]) => r \in inside /\ owner[r] \in named
        BY <1>0, <3>2 DEF NewsSound
      <3>5. QED BY <2>1, <3>1, <3>3, <3>4 DEF NameAhead
    <2>4. ASSUME NEW r \in Rooms, ~Open(Now, r) PROVE NameAhead(r)'
      BY <2>2, <2>4 DEF NameAhead, Open
    <2>5. QED BY <2>3, <2>4
  <1>3. ASSUME NEW q \in Rooms, OpenRoom(q) PROVE \A r \in Rooms : NameAhead(r)'
    <2>1. /\ UNCHANGED <<feed, todo, inside, named>> /\ botIn' = botIn \cup {q}
          /\ owner' = [owner EXCEPT ![q] = Head(knocks)]
          /\ disk' = [disk EXCEPT ![q] = FreshMeta] /\ owner[q] = Nothing
          /\ Now = disk /\ Now' = disk'
      BY <1>3 DEF OpenRoom, Now, Working
    <2>2. NameAhead(q)'
      <3>1. q \notin inside
        BY <2>1 DEF NewsSound
      <3>2. todo[q] = NoNews
        BY <3>1 DEF NewsSound
      <3>3. QED BY <1>0, <2>1, <3>1, <3>2 DEF NameAhead
    <2>3. ASSUME NEW r \in Rooms \ {q} PROVE NameAhead(r)'
      <3>1. Now'[r] = Now[r] /\ owner'[r] = owner[r]
        BY <2>1 DEF TypeOK
      <3>2. QED BY <2>1, <3>1, SameRoom
    <2>4. QED BY <2>2, <2>3
  <1>4. CASE Load
    <2>1. /\ UNCHANGED <<feed, botIn, inside, named, owner>> /\ Now = disk /\ Now' = disk
          /\ \A r \in Rooms : Open(disk, r) => todo'[r] = todo[r]
      BY <1>4 DEF Load, Now, Working, world
    <2>2. ASSUME NEW r \in Rooms PROVE NameAhead(r)'
      <3>1. CASE Open(disk, r)
        BY <2>1, <3>1, SameRoom
      <3>2. CASE ~Open(disk, r)
        BY <2>1, <3>2 DEF NameAhead, Open
      <3>3. QED BY <3>1, <3>2
    <2>3. QED BY <2>2
  <1>5. ASSUME NEW q \in Rooms, NoteName(q) PROVE \A r \in Rooms : NameAhead(r)'
    <2>1. /\ Working /\ Working' /\ Open(mem, q) /\ mem[q] \in Meta
          /\ todo[q] \in News /\ todo[q].joins # << >>
      BY <1>5 DEF NoteName, Turn, Working, CopySound, Ahead, Open, TypeOK
    <2>2. PICK name \in BOOLEAN : name = todo[q].joins[Len(todo[q].joins)]
      BY <1>5, NewsEdits DEF NoteName, TypeOK
    <2>3. /\ mem' = [mem EXCEPT ![q] = [mem[q] EXCEPT !.display = name]]
          /\ todo' = [todo EXCEPT ![q] = [todo[q] EXCEPT !.joins = << >>]]
          /\ UNCHANGED <<feed, disk, botIn, inside, named, owner>>
      BY <1>5, <2>2 DEF NoteName, world
    <2>4. Now = mem /\ Now' = mem'
      BY <2>1 DEF Now
    <2>5. ASSUME NEW r \in Rooms \ {q} PROVE NameAhead(r)'
      <3>1. Now'[r] = Now[r] /\ todo'[r] = todo[r]
        BY <2>3, <2>4 DEF TypeOK
      <3>2. QED BY <2>3, <3>1, SameRoom
    <2>6. NameAhead(q)'
      <3>1. mem'[q].display = name /\ mem'[q] # Nothing /\ mem'[q] \in Meta
        BY <2>1, <2>3 DEF Meta, TypeOK
      <3>2. todo'[q] = [todo[q] EXCEPT !.joins = << >>]
        BY <2>3 DEF TypeOK
      <3>3. todo'[q].joins = << >> /\ todo'[q].msgs = todo[q].msgs
        BY <2>1, <3>2, NamesTaken
      <3>4. Known(q) <=> name = TRUE
        BY <2>1, <2>2 DEF Known, LastName
      <3>5. Known(q)' <=> name = TRUE
        BY <2>4, <3>1, <3>3 DEF Known, LastName, Signed
      <3>6. Foreseen(q)' <=> Foreseen(q)
        BY <2>3, <3>4, <3>5 DEF Foreseen
      <3>7. TellsNamed(todo'[q]) <=> TellsNamed(todo[q])
        BY <3>3 DEF TellsNamed
      <3>8. Open(Now, q)
        BY <2>1, <2>4
      <3>9. QED BY <2>3, <3>4, <3>5, <3>6, <3>7, <3>8 DEF NameAhead
    <2>7. QED BY <2>5, <2>6
  <1>6. ASSUME NEW q \in Rooms, Refuse(q) PROVE \A r \in Rooms : NameAhead(r)'
    <2>1. /\ Working /\ Working' /\ Open(mem, q) /\ mem[q] \in Meta
          /\ todo[q] \in News /\ todo[q].joins = << >> /\ todo[q].msgs # << >>
      BY <1>6, JudgedOpen DEF Refuse, Judging, Turn, Working, TypeOK
    <2>2. /\ mem' = [mem EXCEPT ![q] = [mem[q] EXCEPT !.left = @ - 1]]
          /\ todo' = [todo EXCEPT ![q] = [todo[q] EXCEPT !.msgs = Tail(@)]]
          /\ UNCHANGED <<feed, disk, botIn, inside, named, owner>>
      BY <1>6 DEF Refuse, world
    <2>3. Now = mem /\ Now' = mem'
      BY <2>1 DEF Now
    <2>4. ASSUME NEW r \in Rooms \ {q} PROVE NameAhead(r)'
      <3>1. Now'[r] = Now[r] /\ todo'[r] = todo[r]
        BY <2>2, <2>3 DEF TypeOK
      <3>2. QED BY <2>2, <3>1, SameRoom
    <2>5. NameAhead(q)'
      <3>1. Signed(mem, q)' <=> Signed(mem, q)
        <4>1. mem[q] # Nothing /\ mem'[q] = [mem[q] EXCEPT !.left = @ - 1]
          BY <2>1, <2>2 DEF TypeOK
        <4>2. mem'[q].display = mem[q].display
          BY <2>1, <4>1 DEF Meta
        <4>3. mem[q].left - 1 \in 0..MaxTries
          BY <1>6, JudgedOpen DEF Refuse, Meta
        <4>4. mem'[q] \in Meta
          BY <2>1, <4>1, <4>3 DEF Meta
        <4>5. QED BY <4>1, <4>2, <4>4 DEF Signed
      <3>2. todo'[q] = [todo[q] EXCEPT !.msgs = Tail(@)]
        BY <2>2 DEF TypeOK
      <3>3. /\ todo'[q].joins = todo[q].joins
            /\ TellsNamed(todo'[q]) => TellsNamed(todo[q])
        BY <2>1, <3>2, MessageTaken
      <3>4. Known(q)' <=> Known(q)
        BY <2>3, <3>1, <3>3 DEF Known, LastName, Signed
      <3>5. Foreseen(q)' <=> Foreseen(q)
        BY <2>2, <3>4 DEF Foreseen
      <3>6. Open(Now, q)
        BY <2>1, <2>3
      <3>7. QED BY <2>2, <3>3, <3>4, <3>5, <3>6 DEF NameAhead
    <2>6. QED BY <2>4, <2>5
  <1>7. ASSUME NEW q \in Rooms, Exhaust(q) \/ Promote(q) \/ Clean(q)
        PROVE \A r \in Rooms : NameAhead(r)'
    <2>1. Working /\ Working' /\ mem[q] \in Meta
      <3>1. CASE Exhaust(q)
        BY <3>1, JudgedOpen DEF Exhaust, Working
      <3>2. CASE Promote(q)
        BY <3>2, JudgedOpen DEF Promote, Working
      <3>3. CASE Clean(q)
        BY <3>3 DEF Clean, Open, TypeOK, Working, loop
      <3>4. QED BY <1>7, <3>1, <3>2, <3>3
    <2>2. Now = mem /\ Now' = mem'
      BY <2>1 DEF Now
    <2>3. ~Open(mem, q)'
      <3>1. CASE Exhaust(q)
        BY <2>1, <3>1 DEF Exhaust, Open, TypeOK, Meta
      <3>2. CASE Promote(q)
        BY <2>1, <3>2 DEF Promote, Open, TypeOK, Meta
      <3>3. CASE Clean(q)
        BY <2>1, <3>3 DEF Clean, Open, TypeOK, Meta
      <3>4. QED BY <1>7, <3>1, <3>2, <3>3
    <2>4. ASSUME NEW r \in Rooms \ {q}
          PROVE  /\ feed'[r] = feed[r] /\ todo'[r] = todo[r] /\ mem'[r] = mem[r]
                 /\ (r \in botIn => r \in botIn') /\ UNCHANGED <<inside, named, owner>>
      BY <1>7 DEF Exhaust, Promote, Clean, Leave, TypeOK, loop
    <2>5. ASSUME NEW r \in Rooms \ {q} PROVE NameAhead(r)'
      BY <2>2, <2>4, SameRoom
    <2>6. NameAhead(q)'
      BY <2>2, <2>3 DEF NameAhead, Open
    <2>7. QED BY <2>5, <2>6
  <1>8. ASSUME NEW q \in Rooms, PromoteFails(q) PROVE \A r \in Rooms : NameAhead(r)'
    <2>1. /\ Working /\ Working' /\ todo[q].joins = << >>
          /\ todo' = [todo EXCEPT ![q] = NoNews]
          /\ UNCHANGED <<feed, disk, mem, botIn, inside, named, owner>>
      BY <1>8 DEF PromoteFails, Judging, Turn, Working, world
    <2>2. Now' = Now
      BY <2>1 DEF Now
    <2>3. ASSUME NEW r \in Rooms \ {q} PROVE NameAhead(r)'
      <3>1. todo'[r] = todo[r]
        BY <2>1 DEF TypeOK
      <3>2. QED BY <2>1, <2>2, <3>1, SameRoom
    <2>4. NameAhead(q)'
      <3>1. todo'[q] = NoNews
        BY <2>1 DEF TypeOK
      <3>2. (Foreseen(q)' <=> Foreseen(q)) /\ ~TellsNamed(todo'[q])
        BY <1>0, <2>1, <2>2, <3>1 DEF Foreseen, Known, LastName, Signed
      <3>3. QED BY <2>1, <2>2, <3>2 DEF NameAhead, Open
    <2>5. QED BY <2>3, <2>4
  <1>9. CASE Save
    <2>1. /\ Working /\ ~Working' /\ disk' = mem
          /\ UNCHANGED <<feed, todo, botIn, inside, named, owner>>
      BY <1>9 DEF Save, Working, CopySound, world
    <2>2. Now' = Now
      BY <2>1 DEF Now
    <2>3. QED BY <2>1, <2>2, SameRoom
  <1>10. ASSUME Crash PROVE FALSE
    BY <1>10 DEF Crash, TypeOK
  <1>11. ASSUME NEW u \in Users, SetsName(u) PROVE \A r \in Rooms : NameAhead(r)'
    <2>1. /\ UNCHANGED <<todo, disk, mem, pc, botIn, inside, owner>>
          /\ named' = named \cup {u}
          /\ \A r \in Rooms : feed'[r] = IF r \in inside \cap botIn /\ owner[r] = u
                                           THEN WithName(feed[r], TRUE) ELSE feed[r]
      BY <1>11 DEF SetsName, Happens, store, loop, WithName
    <2>2. Now' = Now
      BY <2>1 DEF Now, Working
    <2>3. ASSUME NEW r \in Rooms, r \notin inside \/ owner[r] # u PROVE NameAhead(r)'
      BY <2>1, <2>2, <2>3, SameRoom
    <2>4. ASSUME NEW r \in Rooms, r \in inside, owner[r] = u PROVE NameAhead(r)'
      <3>1. CASE r \in botIn
        <4>1. feed'[r] = WithName(feed[r], TRUE) /\ feed[r] \in News
          BY <2>1, <2>4, <3>1 DEF TypeOK
        <4>2. feed'[r].joins # << >> /\ feed'[r].joins[Len(feed'[r].joins)] = TRUE
          BY <4>1, NameTold
        <4>3. Foreseen(r)'
          BY <4>2 DEF Foreseen, LastName
        <4>4. Known(r)' <=> Known(r)
          BY <2>1, <2>2 DEF Known, Signed
        <4>5. QED BY <2>1, <2>2, <4>3, <4>4 DEF NameAhead, Open
      <3>2. CASE r \notin botIn
        BY <2>2, <3>2 DEF NameAhead, Open
      <3>3. QED BY <3>1, <3>2
    <2>5. QED BY <2>3, <2>4
  <1>12. ASSUME NEW q \in Rooms, OwnerJoins(q) PROVE \A r \in Rooms : NameAhead(r)'
    <2>1. PICK name \in BOOLEAN : name = (owner[q] \in named)
      <3>1. (owner[q] \in named) \in BOOLEAN
        OBVIOUS
      <3>2. QED BY <3>1, Zenon
    <2>2. /\ feed' = [feed EXCEPT ![q] = WithName(feed[q], name)]
          /\ UNCHANGED <<todo, disk, mem, pc, botIn, named, owner>>
          /\ inside' = inside \cup {q}
      BY <1>12, <2>1, Zenon DEF OwnerJoins, Happens, store, loop, WithName
    <2>3. Now' = Now
      BY <2>2 DEF Now, Working
    <2>4. ASSUME NEW r \in Rooms \ {q} PROVE NameAhead(r)'
      <3>1. feed'[r] = feed[r]
        BY <2>2 DEF TypeOK
      <3>2. QED BY <2>2, <2>3, <3>1, SameRoom
    <2>5. NameAhead(q)'
      <3>1. feed'[q] = WithName(feed[q], name) /\ feed[q] \in News
        BY <2>2 DEF TypeOK
      <3>2. CASE name = TRUE
        <4>1. feed'[q].joins # << >> /\ feed'[q].joins[Len(feed'[q].joins)] = TRUE
          BY <3>1, <3>2, NameTold
        <4>2. Foreseen(q)'
          BY <4>1 DEF Foreseen, LastName
        <4>3. Known(q)' <=> Known(q)
          BY <2>2, <2>3 DEF Known, Signed
        <4>4. QED BY <2>2, <2>3, <4>2, <4>3 DEF NameAhead, Open
      <3>3. CASE name = FALSE
        <4>1. owner'[q] \notin named'
          BY <2>1, <2>2, <3>3
        <4>2. Known(q)' <=> Known(q)
          BY <2>2, <2>3 DEF Known, Signed
        <4>3. QED BY <2>2, <2>3, <4>1, <4>2 DEF NameAhead, Open
      <3>4. QED BY <3>2, <3>3
    <2>6. QED BY <2>4, <2>5
  <1>13. ASSUME NEW q \in Rooms, NEW good \in BOOLEAN, OwnerSays(q, good)
         PROVE \A r \in Rooms : NameAhead(r)'
    <2>1. PICK e \in Message : e = [good |-> good, named |-> owner[q] \in named]
      <3>1. [good |-> good, named |-> owner[q] \in named] \in Message
        BY DEF Message
      <3>2. QED BY <3>1, Zenon
    <2>2. /\ feed' = [feed EXCEPT ![q] = [feed[q] EXCEPT !.msgs = Append(@, e)]]
          /\ UNCHANGED <<todo, disk, mem, pc, botIn, inside, named, owner>>
      BY <1>13, <2>1, Zenon DEF OwnerSays, Happens, store, loop
    <2>3. Now' = Now
      BY <2>2 DEF Now, Working
    <2>4. ASSUME NEW r \in Rooms PROVE feed'[r].joins = feed[r].joins
      <3>1. CASE r # q
        BY <2>2, <3>1 DEF TypeOK
      <3>2. CASE r = q
        <4>1. feed[q] \in News /\ feed'[q] = [feed[q] EXCEPT !.msgs = Append(@, e)]
          BY <2>2 DEF TypeOK
        <4>2. QED BY <3>2, <4>1, MessageTold
      <3>3. QED BY <3>1, <3>2
    <2>5. ASSUME NEW r \in Rooms PROVE NameAhead(r)'
      <3>1. Known(r)' <=> Known(r)
        BY <2>2, <2>3 DEF Known, Signed
      <3>2. Foreseen(r)' <=> Foreseen(r)
        BY <2>4, <3>1 DEF Foreseen, LastName
      <3>3. QED BY <2>2, <2>3, <3>1, <3>2 DEF NameAhead, Open
    <2>6. QED BY <2>5
  <1>14. QED BY <1>1, <1>2, <1>3, <1>4, <1>5, <1>6, <1>7, <1>8, <1>9, <1>10, <1>11, <1>12,
                <1>13
        DEF Next, LoopStep, vars, store, loop, world, Working, Greet, TurnAway, GiveWelcome,
            Acknowledge, BatchDone, Knock, Happens, EntersSpace, GrowsStale

LEMMA StepAdvice == VInv /\ AdviceInv /\ [Next]_vars => AdviceInv'
  <1> SUFFICES ASSUME VInv, AdviceInv, [Next]_vars PROVE AdviceInv'
    OBVIOUS
  <1>1. crashes' = 0 => crashes = 0
    <2>1. crashes \in Nat
      BY VettingBounds DEF VInv, TypeOK
    <2>2. crashes' = crashes \/ crashes' = crashes + 1
      BY DEF Next, LoopStep, vars, store, loop, world, tally, Sync, OpenRoom, Greet, TurnAway,
             Load, NoteName, Refuse, Exhaust, Promote, PromoteFails, GiveWelcome,
             Acknowledge, BatchDone, Clean, Save, Crash, Knock, Happens, SetsName,
             EntersSpace, OwnerJoins, GrowsStale, OwnerSays
    <2>3. QED BY <2>1, <2>2
  <1>2. NamesAhead <=> (crashes = 0 => \A r \in Rooms : NameAhead(r))
    BY DEF NamesAhead, NameAhead
  <1>3. NamesAhead' <=> (crashes' = 0 => \A r \in Rooms : NameAhead(r)')
    BY DEF NamesAhead, NameAhead
  <1>4. NamesAhead'
    BY <1>1, <1>2, <1>3, StepNamesAhead DEF AdviceInv
  <1>5. QED BY <1>4, StepNewsSound DEF AdviceInv

(***************************************************************************)
(* The advice to set a displayname and send the haiku again works in a     *)
(* vetting room as long as nothing crashes, whatever batch the name and    *)
(* the haiku arrive in.                                                    *)
(***************************************************************************)
THEOREM AdviceWorks == Spec => []AdviceWorksUnlessCrashed
  <1>1. Init => AdviceInv
    <2> SUFFICES ASSUME Init PROVE AdviceInv
      OBVIOUS
    <2>1. NewsSound
      BY NoNewsSay DEF Init, NewsSound, NoBatch
    <2>2. \A r \in Rooms : ~Open(Now, r)
      BY DEF Init, Now, Open, NoBook
    <2>3. QED BY <2>1, <2>2 DEF AdviceInv, NamesAhead
  <1>2. VInv /\ AdviceInv => AdviceWorksUnlessCrashed
    <2> SUFFICES ASSUME VInv, AdviceInv, crashes = 0, NEW r \in Rooms, Judging(r),
                        TheHaiku(r).good, TheHaiku(r).named
                 PROVE  Passes(mem[r], TheHaiku(r))
      BY DEF AdviceWorksUnlessCrashed
    <2>1. /\ Open(mem, r) /\ Working /\ todo[r].msgs # << >>
          /\ todo[r] \in News /\ todo[r].joins = << >>
      BY JudgedOpen DEF VInv, TypeOK, Judging
    <2>2. TellsNamed(todo[r])
      BY <2>1, MessageTaken DEF TheHaiku
    <2>3. Signed(mem, r)
      BY <2>1, <2>2 DEF AdviceInv, NamesAhead, Known, LastName, Now
    <2>4. QED BY <2>3 DEF Signed, Passes
  <1>3. QED BY <1>1, <1>2, StepAdvice, VInvAlways, PTL DEF Spec
=============================================================================
