------------------------------ MODULE Airlock -------------------------------
(***************************************************************************)
(* What the books of an airlock promise of its rooms.  A room is entered   *)
(* once, open, with all its tries; while it is open the tries only go      *)
(* down, and the last one takes it out of the open state; promoted and     *)
(* closed are final; no room is ever struck from the books.                *)
(***************************************************************************)
EXTENDS Naturals

CONSTANTS
    Rooms,     \* the rooms that can be created
    MaxTries,  \* haikus a person may send
    Nothing    \* the room is not in the books

VARIABLE book  \* the record of each room

Record == [state : {"open", "promoted", "closed"}, left : 0..MaxTries]

Admitted == [state |-> "open", left |-> MaxTries]

Init == book = [r \in Rooms |-> Nothing]

\* A person with a code is let into a room of their own.
Admit(r) ==
    /\ book[r] = Nothing
    /\ book' = [book EXCEPT ![r] = Admitted]

\* What may become of an open record in one writing of the books.
Outcomes(rec) ==
    {new \in Record :
        /\ new.left <= rec.left
        /\ new.state = "open" => new.left > 0}

OpenRooms == {r \in Rooms : book[r] \in Record /\ book[r].state = "open"}

\* The books are written: some of the open rooms have moved on.
Settle ==
    \E moved \in SUBSET OpenRooms :
        \E out \in [moved -> Record] :
            /\ \A r \in moved : out[r] \in Outcomes(book[r])
            /\ book' = [r \in Rooms |-> IF r \in moved THEN out[r] ELSE book[r]]

Next == Settle \/ \E r \in Rooms : Admit(r)

Spec == Init /\ [][Next]_book
=============================================================================
