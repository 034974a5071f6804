----------------------------- MODULE LobbyBook ------------------------------
(***************************************************************************)
(* How lobby.json looks to someone who only reads it, as                   *)
(* announce_lobby_events does.  A room appears once, empty and open.  One  *)
(* save of the lobby's loop may move any of the open rooms on, and may     *)
(* erase a room in which nobody has been challenged.  What is closed does  *)
(* not change, and what is erased does not come back.                      *)
(***************************************************************************)
CONSTANTS
    Rooms,    \* the rooms that can be minted
    Users,    \* the people who follow a link
    Nothing   \* the room is not in the file

VARIABLES
    book,     \* the record of each room
    minted    \* the rooms that were ever recorded

\* reason "open" stands for a missing closed_reason, "promoted" for
\* "already_member" too: readers tell the two apart in wording only.
Record == [challenged : SUBSET Users, reason : {"open", "promoted", "timeout"}]

Fresh == [challenged |-> {}, reason |-> "open"]

Init ==
    /\ book = [r \in Rooms |-> Nothing]
    /\ minted = {}

\* join_handler
Mint(r) ==
    /\ r \notin minted
    /\ minted' = minted \cup {r}
    /\ book' = [book EXCEPT ![r] = Fresh]

\* What one save may make of a record.
MayBecome(rec) ==
    IF rec = Nothing \/ rec.reason # "open" THEN {rec}
    ELSE Record \cup {x \in {Nothing} : rec = Fresh}

\* lobby_sync_loop replaces the file.
Save ==
    /\ book' \in [Rooms -> Record \cup {Nothing}]
    /\ \A r \in Rooms : book'[r] \in MayBecome(book[r])
    /\ UNCHANGED minted

Next == Save \/ \E r \in Rooms : Mint(r)

Spec == Init /\ [][Next]_<<book, minted>>
=============================================================================
