----------------------------- MODULE Bootstrap ------------------------------
(***************************************************************************)
(* dev/bootstrap.py: an admin account, the space and its rooms on a local  *)
(* homeserver, run and re-run by hand.                                     *)
(*                                                                         *)
(* What a run has made is written to the state file when all of it is      *)
(* there.  A run that ends before forgets it, and the aliases it has taken *)
(* on the server stay taken.  A step is one request; `epoch' numbers the   *)
(* lives of the server, whose volume may be wiped under the state file.    *)
(***************************************************************************)
EXTENDS Naturals, FiniteSets

CONSTANTS
    NChildren,    \* rooms of the space
    MaxWipes,     \* bound: wiped server volumes
    MaxMishaps    \* bound: requests that fail, kills and lost answers

ASSUME BootstrapBounds == NChildren \in Nat \ {0} /\ MaxWipes \in Nat /\ MaxMishaps \in Nat

Space    == 0
Children == 1..NChildren
Rooms    == {Space} \cup Children

VARIABLES
    epoch,       \* the server's life
    admin,       \* the admin is registered
    taken,       \* rooms whose alias is taken
    rule,        \* join rule of each room
    linked,      \* children the space lists
    saved,       \* the state file: the lives its token and its rooms are of, 0 for none
    mem,         \* a run's copy
    at,          \* where the run is
    child,       \* the child it works on
    halfBuilt,   \* history: a run ended between the first room and the save
    unlinked,    \* history: children whose link failed unnoticed
    mishaps      \* history: how often something went wrong

built    == <<admin, taken, rule, linked>>
script   == <<saved, mem, at, child>>
bootVars == <<epoch, built, script, halfBuilt, unlinked, mishaps>>

Place == {"off", "admin", "find", "space", "knock", "room", "link", "restrict", "save", "done"}
File  == [token : Nat, rooms : Nat]

BootTypeOK ==
    /\ epoch \in 1..(MaxWipes + 1) /\ admin \in BOOLEAN
    /\ taken \subseteq Rooms /\ linked \subseteq Children /\ linked \subseteq taken
    /\ rule \in [Rooms -> {"public", "knock", "restricted"}]
    /\ saved \in File /\ saved.rooms <= epoch /\ saved.token <= epoch
    /\ mem \in File /\ mem.rooms <= epoch /\ mem.token <= epoch
    /\ at \in Place /\ child \in 1..NChildren
    /\ halfBuilt \in BOOLEAN /\ unlinked \subseteq Children
    /\ mishaps \in 0..MaxMishaps

NoFile == [token |-> 0, rooms |-> 0]

BootInit ==
    /\ epoch = 1 /\ admin = FALSE /\ taken = {} /\ linked = {}
    /\ rule = [r \in Rooms |-> "public"]
    /\ saved = NoFile /\ mem = NoFile /\ at = "off" /\ child = 1
    /\ halfBuilt = FALSE /\ unlinked = {} /\ mishaps = 0

Mishap == mishaps < MaxMishaps /\ mishaps' = mishaps + 1

-----------------------------------------------------------------------------
Run ==
    /\ at \in {"off", "done"}
    /\ at' = "admin" /\ mem' = saved
    /\ UNCHANGED <<epoch, built, saved, child, halfBuilt, unlinked, mishaps>>

\* Any end of a run before the save: nothing of it is written.
Ends == at' = "off" /\ UNCHANGED <<saved, mem, child>>

Breaks ==
    /\ at \notin {"off", "done"} /\ Mishap /\ Ends
    /\ halfBuilt' = (halfBuilt \/ (Space \in taken /\ saved.rooms # epoch))
    /\ UNCHANGED <<epoch, built, unlinked>>

\* The saved token, a login, or the registration.
EnsureAdmin ==
    /\ at = "admin"
    /\ admin' = TRUE /\ mem' = [mem EXCEPT !.token = epoch] /\ at' = "find"
    /\ UNCHANGED <<epoch, taken, rule, linked, saved, child, halfBuilt, unlinked, mishaps>>

\* Mistaken: new rooms in every run.
NeverFindSpace ==
    /\ at = "find" /\ at' = "space"
    /\ UNCHANGED <<epoch, built, saved, mem, child, halfBuilt, unlinked, mishaps>>

FindSpace ==
    /\ at = "find"
    /\ at' = IF mem.rooms = epoch THEN "save" ELSE "space"
    /\ UNCHANGED <<epoch, built, saved, mem, child, halfBuilt, unlinked, mishaps>>

\* create_room: the server refuses an alias that is taken, and the run ends.
CreateRoom(room, next) ==
    /\ IF room \in taken THEN Ends /\ UNCHANGED taken
       ELSE taken' = taken \cup {room} /\ at' = next /\ UNCHANGED <<saved, mem, child>>
    /\ UNCHANGED <<epoch, admin, rule, linked, halfBuilt, unlinked, mishaps>>

CreateSpace == at = "space" /\ CreateRoom(Space, "knock")

SetRule(room, to) == rule' = [rule EXCEPT ![room] = to]

Knock ==
    /\ at = "knock" /\ SetRule(Space, "knock")
    /\ at' = "room" /\ child' = 1
    /\ UNCHANGED <<epoch, admin, taken, linked, saved, mem, halfBuilt, unlinked, mishaps>>

CreateChild == at = "room" /\ CreateRoom(child, "link")

\* The answer to this request is not looked at.
Link ==
    /\ at = "link" /\ at' = "restrict"
    /\ \/ linked' = linked \cup {child} /\ UNCHANGED <<unlinked, mishaps>>
       \/ Mishap /\ unlinked' = unlinked \cup {child} /\ UNCHANGED linked
    /\ UNCHANGED <<epoch, admin, taken, rule, saved, mem, child, halfBuilt>>

\* Mistaken: the last room is forgotten.
RestrictAllButLast ==
    /\ at = "restrict"
    /\ IF child < NChildren
       THEN SetRule(child, "restricted") /\ at' = "room" /\ child' = child + 1 /\ UNCHANGED mem
       ELSE at' = "save" /\ mem' = [mem EXCEPT !.rooms = epoch] /\ UNCHANGED <<child, rule>>
    /\ UNCHANGED <<epoch, admin, taken, linked, saved, halfBuilt, unlinked, mishaps>>

Restrict ==
    /\ at = "restrict" /\ SetRule(child, "restricted")
    /\ IF child < NChildren THEN at' = "room" /\ child' = child + 1 /\ UNCHANGED mem
       ELSE at' = "save" /\ mem' = [mem EXCEPT !.rooms = epoch] /\ UNCHANGED child
    /\ UNCHANGED <<epoch, admin, taken, linked, saved, halfBuilt, unlinked, mishaps>>

Save ==
    /\ at = "save" /\ at' = "done" /\ saved' = mem
    /\ UNCHANGED <<epoch, built, mem, child, halfBuilt, unlinked, mishaps>>

Script ==
    \/ Run \/ EnsureAdmin \/ FindSpace \/ CreateSpace \/ Knock
    \/ CreateChild \/ Link \/ Restrict \/ Save

\* docker compose down -v, between two runs: the next server is empty.
WipeServer ==
    /\ at \in {"off", "done"} /\ epoch <= MaxWipes
    /\ epoch' = epoch + 1 /\ admin' = FALSE /\ taken' = {} /\ linked' = {}
    /\ rule' = [r \in Rooms |-> "public"]
    /\ halfBuilt' = FALSE /\ unlinked' = {} /\ at' = "off"
    /\ UNCHANGED <<saved, mem, child, mishaps>>

-----------------------------------------------------------------------------
(***************************************************************************)
(* "Re-running this reuses the admin + space + codes": run again and       *)
(* again, on a server that may have been wiped in between, the script gets *)
(* to its end -- unless a run broke after it had made its first room.      *)
(* Nothing then leads out but a wipe: the file does not know the rooms,    *)
(* and their aliases are taken.                                            *)
(***************************************************************************)
SetupEnds == at # "done" ~> at = "done" \/ halfBuilt

(***************************************************************************)
(* What a finished run has printed is there: the rooms of this life of     *)
(* the server, each listed in the space but for a link that failed         *)
(* unnoticed, and none of them open to the public.                         *)
(***************************************************************************)
ExportsAreTrue ==
    at = "done" =>
        /\ saved.rooms = epoch /\ taken = Rooms
        /\ Children = linked \cup unlinked
        /\ \A r \in Rooms : rule[r] # "public"
=============================================================================
