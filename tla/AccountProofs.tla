---------------------------- MODULE AccountProofs ----------------------------
(***************************************************************************)
(* Proofs about Account, and the Bootstrap under it, for any number of     *)
(* rooms, wipes, calls, looks and mishaps: the variables keep their types, *)
(* what a finished run of the script printed is there (ExportsAreTrue),    *)
(* and an account is inside, its keys are held and its device is signed as *)
(* the answers say (AccountIsWhole).                                       *)
(***************************************************************************)
EXTENDS Account, TLAPS

-----------------------------------------------------------------------------
Linked(c)     == c \in linked \cup unlinked
Done(c)       == c \in taken /\ Linked(c) /\ rule[c] = "restricted"
SpaceDone     == Space \in taken /\ rule[Space] = "knock"
Complete      == SpaceDone /\ \A c \in Children : Done(c)

\* The rooms a run has behind it.
RunSound ==
    /\ rule[Space] # "restricted" /\ \A c \in Children : rule[c] # "knock"
    /\ at = "knock" => Space \in taken
    /\ at \in {"room", "link", "restrict"} => SpaceDone /\ \A c \in 1..(child - 1) : Done(c)
    /\ at \in {"link", "restrict"} => child \in taken
    /\ at = "restrict" => Linked(child)

\* Whoever knows of rooms of this life knows of all of them.
FileSound ==
    /\ saved.rooms = epoch \/ mem.rooms = epoch => Complete
    /\ at \in {"save", "done"} => mem.rooms = epoch
    /\ at = "done" => saved.rooms = epoch

BootInv == BootTypeOK /\ RunSound /\ FileSound

-----------------------------------------------------------------------------
Got(r) == Space \in slips \/ r \in inside \cup slips

\* The rooms signup has behind it.
SignupSound ==
    /\ signup # "none" => at = "done"
    /\ signup = "none" => ~agent
    /\ signup = "join" => invited \/ Space \in slips
    /\ signup = "children" =>
          /\ room <= NChildren /\ Got(Space)
          /\ \A c \in 1..(room - 1) : Got(c)
    /\ signup = "answer" \/ agent => \A r \in Rooms : Got(r)

\* Where the keys of a call are, and what it knows of the signature.
CallSound(c) ==
    /\ call[c] \in {"none", "whoami", "publish", "uia"} => looks[c] = 0
    /\ call[c] = "look" => looks[c] < Attempts
    /\ call[c] # "over" => answer[c] = "nothing" /\ c \notin lost
    /\ master = c => \/ call[c] \in Published
                     \/ c \in lost
                     \/ answer[c] \in {"signed", "unsigned"}
    /\ call[c] = "signed" \/ answer[c] = "signed" => c \in sigs
    /\ c \in early => botUp
    /\ c \in early /\ (call[c] = "unsigned" \/ answer[c] = "unsigned") => c \in spoilt

AccountInv ==
    AccountTypeOK /\ RunSound /\ FileSound /\ SignupSound /\ \A c \in Calls : CallSound(c)

-----------------------------------------------------------------------------
(***************************************************************************)
(* The script.                                                             *)
(***************************************************************************)
Beside == UNCHANGED <<epoch, built, script, halfBuilt, unlinked>> /\ (UNCHANGED mishaps \/ Mishap)

BootStep == Script \/ Breaks \/ WipeServer \/ Beside

LEMMA RoomFacts ==
    /\ Space = 0 /\ Children = 1..NChildren /\ Space \notin Children
    /\ Rooms = {Space} \cup Children /\ NChildren \in Nat \ {0}
  BY BootstrapBounds DEF Space, Children, Rooms

LEMMA MishapCounts ==
    ASSUME BootTypeOK, UNCHANGED mishaps \/ Mishap
    PROVE  mishaps' \in 0..MaxMishaps
  BY BootstrapBounds DEF BootTypeOK, Mishap

LEMMA Grows ==
    ASSUME NEW c \in Children, Done(c), taken \subseteq taken', linked \subseteq linked',
           unlinked \subseteq unlinked', rule'[c] = rule[c]
    PROVE  Done(c)'
  BY DEF Done, Linked

LEMMA StepBootType == BootInv /\ BootStep => BootTypeOK'
  <1> SUFFICES ASSUME BootInv, BootStep PROVE BootTypeOK'
    OBVIOUS
  <1> USE BootstrapBounds, RoomFacts DEF BootInv
  <1>0. \A f, g \in Nat : [token |-> f, rooms |-> g] \in File
    BY DEF File
  <1>1. CASE Run
    BY <1>1 DEF Run, BootTypeOK, built, Place
  <1>2. CASE EnsureAdmin
    <2>1. /\ mem' = [mem EXCEPT !.token = epoch] /\ epoch \in Nat /\ mem \in File
          /\ mem.rooms <= epoch
      BY <1>2 DEF EnsureAdmin, BootTypeOK
    <2>2. mem' \in File /\ mem'.rooms = mem.rooms /\ mem'.token = epoch
      BY <2>1 DEF File
    <2>3. admin' \in BOOLEAN /\ at' \in Place
      BY <1>2 DEF EnsureAdmin, Place
    <2>4. QED BY <1>2, <2>1, <2>2, <2>3 DEF EnsureAdmin, BootTypeOK
  <1>3. CASE FindSpace
    <2>1. at' \in Place
      BY <1>3 DEF FindSpace, Place
    <2>2. QED BY <1>3, <2>1 DEF FindSpace, BootTypeOK, built
  <1>4. ASSUME NEW r \in Rooms, NEW next \in Place, CreateRoom(r, next) PROVE BootTypeOK'
    <2>1. /\ taken' \subseteq Rooms /\ taken \subseteq taken' /\ at' \in Place
          /\ UNCHANGED <<epoch, admin, rule, linked, saved, mem, child, halfBuilt, unlinked, mishaps>>
      BY <1>4 DEF CreateRoom, Ends, BootTypeOK, Place
    <2>2. QED BY <2>1 DEF BootTypeOK
  <1>5. CASE CreateSpace \/ CreateChild
    <2>1. child \in Rooms /\ {"knock", "link"} \subseteq Place
      BY DEF BootTypeOK, Place
    <2>2. QED BY <1>4, <1>5, <2>1 DEF CreateSpace, CreateChild
  <1>6. CASE Knock
    <2>1. rule' \in [Rooms -> {"public", "knock", "restricted"}] /\ at' \in Place
      BY <1>6 DEF Knock, SetRule, BootTypeOK, Place
    <2>2. QED BY <1>6, <2>1 DEF Knock, BootTypeOK
  <1>7. CASE Link
    <2>1. child \in taken /\ child \in Children
      BY <1>7 DEF Link, RunSound, BootTypeOK
    <2>2. /\ linked' \subseteq Children /\ linked' \subseteq taken /\ unlinked' \subseteq Children
          /\ at' \in Place
      BY <1>7, <2>1 DEF Link, BootTypeOK, Place
    <2>3. mishaps' \in 0..MaxMishaps
      BY <1>7, MishapCounts DEF Link
    <2>4. QED BY <1>7, <2>2, <2>3 DEF Link, BootTypeOK
  <1>8. CASE Restrict
    <2>1. rule' \in [Rooms -> {"public", "knock", "restricted"}] /\ at' \in Place
      BY <1>8 DEF Restrict, SetRule, BootTypeOK, Place
    <2>2. child' \in 1..NChildren
      BY <1>8 DEF Restrict, BootTypeOK
    <2>3. mem' \in File /\ mem'.rooms <= epoch /\ mem'.token <= epoch
      <3>1. mem' = mem \/ mem' = [mem EXCEPT !.rooms = epoch]
        BY <1>8 DEF Restrict
      <3>2. epoch \in Nat /\ mem \in File /\ mem.rooms <= epoch /\ mem.token <= epoch
        BY DEF BootTypeOK
      <3>3. QED BY <3>1, <3>2 DEF File
    <2>4. QED BY <1>8, <2>1, <2>2, <2>3 DEF Restrict, BootTypeOK
  <1>9. CASE Save
    <2>1. at' \in Place
      BY <1>9 DEF Save, Place
    <2>2. QED BY <1>9, <2>1 DEF Save, BootTypeOK, built
  <1>10. CASE Breaks
    <2>1. mishaps' \in 0..MaxMishaps
      BY <1>10, MishapCounts DEF Breaks
    <2>2. halfBuilt' \in BOOLEAN /\ at' \in Place
      BY <1>10 DEF Breaks, Ends, Place, BootTypeOK
    <2>3. QED BY <1>10, <2>1, <2>2 DEF Breaks, Ends, BootTypeOK, built
  <1>11. CASE WipeServer
    <2>1. /\ epoch' = epoch + 1 /\ epoch' \in 1..(MaxWipes + 1) /\ epoch \in Nat
      BY <1>11 DEF WipeServer, BootTypeOK
    <2>2. /\ saved' \in File /\ saved'.rooms <= epoch' /\ saved'.token <= epoch'
          /\ mem' \in File /\ mem'.rooms <= epoch' /\ mem'.token <= epoch'
      BY <1>11, <2>1 DEF WipeServer, BootTypeOK, File
    <2>3. rule' \in [Rooms -> {"public", "knock", "restricted"}] /\ at' \in Place
      BY <1>11 DEF WipeServer, Place
    <2>4. QED BY <1>11, <2>1, <2>2, <2>3 DEF WipeServer, BootTypeOK
  <1>12. CASE Beside
    BY <1>12, MishapCounts DEF Beside, BootTypeOK, built, script
  <1>13. QED BY <1>1, <1>2, <1>3, <1>5, <1>6, <1>7, <1>8, <1>9, <1>10, <1>11, <1>12
         DEF BootStep, Script

(***************************************************************************)
(* A step that makes rooms, or none, but keeps the rules, takes nothing    *)
(* from the rooms that are done.                                           *)
(***************************************************************************)
LEMMA StepBoot == BootInv /\ BootStep => BootInv'
  <1> SUFFICES ASSUME BootInv, BootStep PROVE RunSound' /\ FileSound'
    BY StepBootType DEF BootInv
  <1> USE BootstrapBounds, RoomFacts DEF BootInv
  <1>0. /\ epoch \in Nat /\ saved.rooms \in Nat /\ mem.rooms \in Nat
        /\ saved.rooms <= epoch /\ mem.rooms <= epoch
        /\ child \in 1..NChildren /\ child \in Children /\ child \in Nat
        /\ \A c \in 1..(child - 1) : c \in Children
    BY DEF BootTypeOK, File
  <1>a. ASSUME taken \subseteq taken', linked \subseteq linked', unlinked \subseteq unlinked',
               UNCHANGED rule
        PROVE  /\ SpaceDone => SpaceDone'
               /\ \A c \in Children : /\ Done(c) => Done(c)'
                                      /\ Linked(c) => Linked(c)'
               /\ Complete => Complete'
    BY <1>a DEF SpaceDone, Done, Linked, Complete
  <1>1. CASE Run \/ Beside \/ Save
    <2>1. /\ UNCHANGED <<epoch, admin, taken, rule, linked, unlinked, child>>
          /\ Run => at' = "admin" /\ UNCHANGED saved /\ mem' = saved
          /\ Beside => UNCHANGED <<saved, mem, at>>
          /\ Save => at = "save" /\ at' = "done" /\ UNCHANGED mem /\ saved' = mem
      BY <1>1 DEF Run, Beside, Save, built, script
    <2>2. Complete' = Complete
      BY <2>1 DEF Complete, SpaceDone, Done, Linked
    <2>3. RunSound'
      BY <1>1, <2>1 DEF RunSound, SpaceDone, Done, Linked
    <2>4. FileSound'
      BY <1>1, <2>1, <2>2 DEF FileSound
    <2>5. QED BY <2>3, <2>4
  <1>2. CASE EnsureAdmin
    <2>1. /\ UNCHANGED <<epoch, taken, rule, linked, unlinked, child, saved>>
          /\ at' = "find" /\ mem'.rooms = mem.rooms
      BY <1>2 DEF EnsureAdmin, BootTypeOK, File
    <2>2. QED BY <2>1 DEF RunSound, FileSound, SpaceDone, Done, Linked, Complete
  <1>3. CASE FindSpace
    <2>1. /\ UNCHANGED <<epoch, taken, rule, linked, unlinked, child, saved, mem>>
          /\ at' = IF mem.rooms = epoch THEN "save" ELSE "space"
      BY <1>3 DEF FindSpace, built
    <2>2. QED BY <2>1 DEF RunSound, FileSound, SpaceDone, Done, Linked, Complete
  <1>4. CASE CreateSpace
    <2>1. /\ taken \subseteq taken' /\ at' \in {"off", "knock"}
          /\ at' = "knock" => Space \in taken'
          /\ UNCHANGED <<epoch, rule, linked, unlinked, saved, mem, child>>
      BY <1>4 DEF CreateSpace, CreateRoom, Ends
    <2>2. QED BY <1>a, <2>1 DEF RunSound, FileSound
  <1>5. CASE CreateChild
    <2>1. /\ taken \subseteq taken' /\ at = "room" /\ at' \in {"off", "link"}
          /\ at' = "link" => child \in taken'
          /\ UNCHANGED <<epoch, rule, linked, unlinked, saved, mem, child>>
      BY <1>5 DEF CreateChild, CreateRoom, Ends
    <2>2. QED BY <1>0, <1>a, <2>1 DEF RunSound, FileSound
  <1>6. CASE Knock
    <2>1. /\ at = "knock" /\ at' = "room" /\ child' = 1
          /\ rule' = [rule EXCEPT ![Space] = "knock"]
          /\ UNCHANGED <<epoch, taken, linked, unlinked, saved, mem>>
      BY <1>6 DEF Knock, SetRule
    <2>2. rule'[Space] = "knock" /\ \A c \in Children : rule'[c] = rule[c]
      BY <2>1 DEF BootTypeOK
    <2>3. SpaceDone' /\ \A c \in Children : Done(c) => Done(c)'
      BY <2>1, <2>2 DEF SpaceDone, Done, Linked, RunSound
    <2>4. QED BY <2>1, <2>2, <2>3 DEF RunSound, FileSound, Complete
  <1>7. CASE Link
    <2>1. /\ at = "link" /\ at' = "restrict" /\ linked \subseteq linked' /\ unlinked \subseteq unlinked'
          /\ child \in linked' \cup unlinked'
          /\ UNCHANGED <<epoch, taken, rule, saved, mem, child>>
      BY <1>7 DEF Link
    <2>2. Linked(child)'
      BY <2>1 DEF Linked
    <2>3. QED BY <1>0, <1>a, <2>1, <2>2 DEF RunSound, FileSound
  <1>8. CASE Restrict
    <2>0. PICK k \in Children : k = child
      BY <1>0
    <2>1. /\ at = "restrict" /\ rule' = [rule EXCEPT ![child] = "restricted"]
          /\ UNCHANGED <<epoch, taken, linked, unlinked, saved>>
          /\ IF child < NChildren THEN at' = "room" /\ child' = child + 1 /\ UNCHANGED mem
             ELSE at' = "save" /\ mem' = [mem EXCEPT !.rooms = epoch] /\ UNCHANGED child
      BY <1>8 DEF Restrict, SetRule
    <2>2. /\ rule'[child] = "restricted"
          /\ \A r \in Rooms : r # child => rule'[r] = rule[r]
          /\ rule'[Space] = rule[Space]
      BY <1>0, <2>1 DEF BootTypeOK
    <2>3. /\ SpaceDone => SpaceDone'
          /\ \A c \in Children : Done(c) => Done(c)'
          /\ Done(k)'
      <3>1. k \in taken /\ Linked(k)
        BY <2>0, <2>1 DEF RunSound
      <3>2. Done(k)'
        BY <2>0, <2>1, <2>2, <3>1 DEF Done, Linked
      <3>3. ASSUME NEW c \in Children, Done(c), c # k PROVE Done(c)'
        BY <2>0, <2>1, <2>2, <3>3 DEF Done, Linked
      <3>4. SpaceDone => SpaceDone'
        BY <2>1, <2>2 DEF SpaceDone
      <3>5. QED BY <3>2, <3>3, <3>4
    <2>4. SpaceDone' /\ \A c \in 1..k : Done(c)'
      <3>1. SpaceDone /\ \A c \in 1..(child - 1) : Done(c)
        BY <2>0, <2>1 DEF RunSound
      <3>2. ASSUME NEW c \in 1..k PROVE c = k \/ c \in 1..(child - 1)
        BY <1>0, <2>0
      <3>3. QED BY <1>0, <2>0, <2>3, <3>1, <3>2
    <2>5. \A c \in Children : rule'[c] # "knock"
      BY <2>2 DEF RunSound
    <2>6. Complete => Complete'
      BY <2>3 DEF Complete
    <2>7. CASE child < NChildren
      BY <1>0, <2>0, <2>1, <2>2, <2>4, <2>5, <2>6, <2>7 DEF RunSound, FileSound
    <2>8. CASE ~(child < NChildren)
      <3>1. child = NChildren
        BY <1>0, <2>8
      <3>2. Complete'
        BY <2>0, <2>4, <3>1 DEF Complete
      <3>3. mem'.rooms = epoch
        BY <2>1, <2>8 DEF BootTypeOK, File
      <3>4. QED BY <2>1, <2>2, <2>5, <2>8, <3>2, <3>3 DEF RunSound, FileSound
    <2>9. QED BY <2>7, <2>8
  <1>9. CASE Breaks
    <2>1. at' = "off" /\ UNCHANGED <<epoch, taken, rule, linked, unlinked, saved, mem, child>>
      BY <1>9 DEF Breaks, Ends, built
    <2>2. QED BY <1>a, <2>1 DEF RunSound, FileSound
  <1>10. CASE WipeServer
    <2>1. /\ epoch' = epoch + 1 /\ at' = "off" /\ UNCHANGED <<saved, mem>>
          /\ \A r \in Rooms : rule'[r] = "public"
      BY <1>10 DEF WipeServer
    <2>2. saved'.rooms # epoch' /\ mem'.rooms # epoch'
      BY <1>0, <2>1
    <2>3. QED BY <2>1, <2>2 DEF RunSound, FileSound
  <1>11. QED BY <1>1, <1>2, <1>3, <1>4, <1>5, <1>6, <1>7, <1>8, <1>9, <1>10 DEF BootStep, Script

-----------------------------------------------------------------------------
(***************************************************************************)
(* What a step of the account does to the script's variables, to signup    *)
(* and to the calls.                                                       *)
(***************************************************************************)
SetUp    == signup = "none" /\ (Script \/ Breaks \/ WipeServer) /\ UNCHANGED <<signingUp, botUp, signing>>
SigningUp == Signup /\ UNCHANGED <<botUp, signing>>
Calling  == Elsewhere /\ (CallStep \/ CrossSigning)
NoCalls  == Beside /\ UNCHANGED <<signingUp, signing>> /\ (UNCHANGED botUp \/ ShareKeys)

LEMMA AccountSteps ==
    ASSUME [AccountNext]_accountVars
    PROVE  /\ BootStep
           /\ SetUp \/ (Beside /\ (SigningUp \/ Calling \/ Killed)) \/ NoCalls
  <1>1. CASE Setup
    BY <1>1 DEF Setup, SetUp, BootStep
  <1>2. CASE Signup
    <2>1. Beside /\ UNCHANGED <<botUp, signing>>
      BY <1>2 DEF Signup, Register, InviteToSpace, JoinSpace, JoinChild, AnswerSignup, JoinRoom,
                  Slip, Beside, bootVars
    <2>2. QED BY <1>2, <2>1 DEF BootStep, SigningUp
  <1>3. CASE ShareKeys
    <2>1. Beside /\ UNCHANGED <<signingUp, signing>>
      BY <1>3 DEF ShareKeys, Beside, bootVars
    <2>2. QED BY <1>3, <2>1 DEF BootStep, NoCalls
  <1>4. ASSUME NEW c \in Calls,
               \/ Call(c) \/ WhoAmI(c) \/ Publish(c) \/ PublishWithPassword(c)
               \/ Look(c) \/ Sign(c) \/ Answer(c) \/ CallBreaks(c)
        PROVE  Elsewhere /\ (UNCHANGED mishaps \/ Mishap)
    BY <1>4 DEF Call, WhoAmI, Publish, PublishWithPassword, Look, Sign, Answer, CallBreaks
  <1>5. CASE CallStep \/ CrossSigning
    <2>1. Elsewhere /\ (UNCHANGED mishaps \/ Mishap)
      BY <1>4, <1>5 DEF CallStep, CrossSigning
    <2>2. QED BY <1>5, <2>1 DEF BootStep, Beside, Calling, Elsewhere
  <1>6. CASE Killed
    <2>1. Beside
      BY <1>6 DEF Killed, Beside, built, script
    <2>2. QED BY <1>6, <2>1 DEF BootStep
  <1>7. CASE UNCHANGED accountVars
    <2>1. Beside /\ UNCHANGED <<signingUp, signing, botUp>>
      BY <1>7 DEF accountVars, bootVars, Beside
    <2>2. QED BY <2>1 DEF BootStep, NoCalls
  <1>8. QED BY <1>1, <1>2, <1>3, <1>5, <1>6, <1>7 DEF AccountNext

-----------------------------------------------------------------------------
(***************************************************************************)
(* Signup goes through the rooms: a join the rules allow, or a slip.       *)
(***************************************************************************)
SignupTypeOK ==
    /\ signup \in AtSignup /\ room \in 1..(NChildren + 1)
    /\ invited \in BOOLEAN /\ inside \subseteq Rooms
    /\ slips \subseteq Rooms /\ agent \in BOOLEAN

LEMMA Joins ==
    ASSUME AccountInv, signup # "none", NEW r \in Rooms, JoinRoom(r),
           r = Space => invited \/ Space \in slips,
           r # Space => Got(Space)
    PROVE  /\ inside' \subseteq Rooms /\ slips' \subseteq Rooms
           /\ inside \subseteq inside' /\ slips \subseteq slips'
           /\ Space \in slips' \/ r \in inside' \cup slips'
  <1>1. inside' \subseteq Rooms /\ slips' \subseteq Rooms /\ inside \subseteq inside' /\ slips \subseteq slips'
    BY DEF JoinRoom, Slip, AccountInv, AccountTypeOK
  <1>2. Complete
    BY DEF AccountInv, SignupSound, FileSound
  <1>3. CASE Slip(r)
    BY <1>1, <1>3 DEF Slip
  <1>4. CASE ~Slip(r)
    <2>1. inside' = IF MayJoin(r) THEN inside \cup {r} ELSE inside
      BY <1>4 DEF JoinRoom
    <2>2. CASE r = Space
      <3>1. rule[r] = "knock"
        BY <1>2, <2>2 DEF Complete, SpaceDone
      <3>2. QED BY <1>1, <2>1, <2>2, <3>1 DEF MayJoin
    <2>3. CASE r # Space
      <3>1. rule[r] = "restricted"
        BY <1>2, <2>3, RoomFacts DEF Complete, Done
      <3>2. QED BY <1>1, <2>1, <2>3, <3>1 DEF MayJoin, Got
    <2>4. QED BY <2>2, <2>3
  <1>5. QED BY <1>1, <1>3, <1>4

LEMMA StepSignup ==
    ASSUME AccountInv, [AccountNext]_accountVars
    PROVE  SignupTypeOK' /\ SignupSound'
  <1> USE BootstrapBounds, RoomFacts
  <1>0. SignupTypeOK /\ SignupSound
    BY DEF AccountInv, AccountTypeOK, SignupTypeOK
  <1>1. CASE SetUp
    BY <1>0, <1>1 DEF SetUp, signingUp, SignupTypeOK, SignupSound, Got
  <1>2. ASSUME Beside, UNCHANGED signingUp PROVE SignupTypeOK' /\ SignupSound'
    BY <1>0, <1>2 DEF Beside, script, signingUp, SignupTypeOK, SignupSound, Got
  <1>3. CASE Beside /\ Killed
    <2>1. /\ UNCHANGED <<at, room, invited, inside, slips, agent>>
          /\ signup' = IF signup = "none" THEN "none" ELSE "over"
      BY <1>3 DEF Killed, script
    <2>2. QED BY <1>0, <2>1 DEF SignupTypeOK, SignupSound, Got, AtSignup
  <1>4. CASE Register
    <2>1. /\ signup = "none" /\ at = "done" /\ signup' = "invite"
          /\ UNCHANGED <<at, room, invited, inside, slips, agent>>
      BY <1>4 DEF Register, bootVars, script
    <2>2. QED BY <1>0, <2>1 DEF SignupTypeOK, SignupSound, Got, AtSignup
  <1>5. CASE InviteToSpace
    <2>1. /\ signup = "invite" /\ signup' = "join" /\ slips \subseteq slips' /\ slips' \subseteq Rooms
          /\ invited' = TRUE \/ (Space \in slips' /\ UNCHANGED invited)
          /\ UNCHANGED <<at, room, inside, agent>>
      BY <1>0, <1>5 DEF InviteToSpace, Slip, SignupTypeOK, script
    <2>2. SignupTypeOK'
      BY <1>0, <2>1 DEF SignupTypeOK, AtSignup
    <2>3. SignupSound'
      BY <1>0, <2>1 DEF SignupSound, Got
    <2>4. QED BY <2>2, <2>3
  <1>6. CASE JoinSpace
    <2>1. /\ signup = "join" /\ JoinRoom(Space) /\ signup' = "children" /\ room' = 1
          /\ UNCHANGED <<at, invited, agent>>
      BY <1>6 DEF JoinSpace, script
    <2>2. /\ inside' \subseteq Rooms /\ slips' \subseteq Rooms
          /\ inside \subseteq inside' /\ slips \subseteq slips'
          /\ Space \in slips' \/ Space \in inside' \cup slips'
      BY <1>0, <2>1, Joins DEF SignupSound
    <2>3. SignupTypeOK'
      BY <1>0, <2>1, <2>2 DEF SignupTypeOK, AtSignup
    <2>4. SignupSound'
      BY <1>0, <2>1, <2>2 DEF SignupSound, Got
    <2>5. QED BY <2>3, <2>4
  <1>7. CASE JoinChild
    <2>1. /\ signup = "children" /\ JoinRoom(room) /\ UNCHANGED <<at, invited, agent>>
          /\ IF room < NChildren THEN room' = room + 1 /\ UNCHANGED signup
             ELSE signup' = "answer" /\ UNCHANGED room
      BY <1>7 DEF JoinChild, script
    <2>2. PICK c \in Children : c = room
      BY <1>0, <2>1 DEF SignupSound, SignupTypeOK
    <2>3. /\ inside' \subseteq Rooms /\ slips' \subseteq Rooms
          /\ inside \subseteq inside' /\ slips \subseteq slips'
          /\ Space \in slips' \/ c \in inside' \cup slips'
      BY <1>0, <2>1, <2>2, Joins DEF SignupSound
    <2>4. SignupTypeOK'
      BY <1>0, <2>1, <2>2, <2>3 DEF SignupTypeOK, AtSignup
    <2>5. Got(Space)' /\ \A x \in 1..c : Got(x)'
      <3>1. ASSUME NEW x \in 1..c PROVE x = c \/ x \in 1..(c - 1)
        BY <2>2
      <3>2. \A r \in Rooms : Got(r) => Got(r)'
        BY <2>3 DEF Got
      <3>3. Got(Space) /\ \A x \in 1..(c - 1) : Got(x) /\ x \in Rooms
        BY <1>0, <2>1, <2>2 DEF SignupSound
      <3>4. Got(c)'
        BY <2>3 DEF Got
      <3>5. QED BY <3>1, <3>2, <3>3, <3>4
    <2>6. agent => \A r \in Rooms : Got(r)'
      BY <1>0, <2>3 DEF SignupSound, Got
    <2>7. ASSUME room < NChildren PROVE SignupSound'
      <3>1. /\ signup' = "children" /\ room' = c + 1 /\ c < NChildren /\ c \in Nat
            /\ at' = "done" /\ agent' = agent
        BY <1>0, <2>1, <2>2, <2>7 DEF SignupSound
      <3>2. room' <= NChildren /\ 1..(room' - 1) = 1..c
        BY <3>1
      <3>3. QED BY <2>5, <2>6, <3>1, <3>2 DEF SignupSound
    <2>8. ASSUME ~(room < NChildren) PROVE SignupSound'
      <3>1. c = NChildren /\ \A r \in Rooms : Got(r)'
        BY <2>2, <2>5, <2>8
      <3>2. QED BY <1>0, <2>1, <2>4, <2>8, <3>1 DEF SignupSound
    <2>9. SignupSound'
      BY <2>7, <2>8
    <2>10. QED BY <2>4, <2>9
  <1>8. CASE AnswerSignup
    <2>1. /\ signup = "answer" /\ signup' = "over" /\ (agent' = TRUE \/ UNCHANGED agent)
          /\ UNCHANGED <<at, room, invited, inside, slips>>
      BY <1>8 DEF AnswerSignup, script
    <2>2. SignupTypeOK'
      BY <1>0, <2>1 DEF SignupTypeOK, AtSignup
    <2>3. SignupSound'
      BY <1>0, <2>1 DEF SignupSound, Got
    <2>4. QED BY <2>2, <2>3
  <1>9. CASE Beside /\ Calling
    BY <1>2, <1>9 DEF Calling, Elsewhere
  <1>10. CASE NoCalls
    BY <1>2, <1>10 DEF NoCalls
  <1>11. QED BY <1>1, <1>3, <1>4, <1>5, <1>6, <1>7, <1>8, <1>9, <1>10, AccountSteps
         DEF SigningUp, Signup

-----------------------------------------------------------------------------
(***************************************************************************)
(* The calls: a step of one of them leaves the others as they are, but for *)
(* the keys it replaces.                                                   *)
(***************************************************************************)
CallTypeOK ==
    /\ call \in [Calls -> AtCall] /\ looks \in [Calls -> 0..Attempts]
    /\ password \subseteq Calls
    /\ master \in Calls \cup {0} /\ sigs \subseteq Calls
    /\ answer \in [Calls -> {"nothing", "signed", "unsigned", "failed"}]
    /\ lost \subseteq Calls /\ spoilt \subseteq Calls /\ early \subseteq Calls

CallStepOf(c) ==
    \/ Call(c) \/ WhoAmI(c) \/ Publish(c) \/ PublishWithPassword(c)
    \/ Look(c) \/ Sign(c) \/ Answer(c) \/ CallBreaks(c)

\* What a step of call c may change.
OnlyCall(c) ==
    /\ \E p \in AtCall : call' = [call EXCEPT ![c] = p]
    /\ looks' = looks \/ (call[c] = "look" /\ looks' = [looks EXCEPT ![c] = @ + 1])
    /\ \/ answer' = answer
       \/ \E w \in {"nothing", "signed", "unsigned", "failed"} : answer' = [answer EXCEPT ![c] = w]
    /\ master' \in {master, c} /\ sigs' \in {sigs, sigs \cup {c}}
    /\ password' \in {password, password \cup {c}} /\ lost' \in {lost, lost \cup {c}}
    /\ spoilt' \in {spoilt, spoilt \cup {c}} /\ early' \in {early, early \cup {c}}
    /\ botUp' = botUp

LEMMA OnlyOneCall ==
    ASSUME NEW c \in Calls, AccountInv, CallStepOf(c)
    PROVE  OnlyCall(c)
  <1> USE DEF OnlyCall, To, Tell, Elsewhere
  <1>0. {"whoami", "publish", "uia", "look", "sign", "unsigned", "signed", "over"} \subseteq AtCall
    BY DEF AtCall
  <1>1. CASE Call(c)
    BY <1>0, <1>1 DEF Call
  <1>2. CASE WhoAmI(c)
    BY <1>0, <1>2 DEF WhoAmI
  <1>3. CASE Publish(c)
    BY <1>0, <1>3 DEF Publish, Publishes
  <1>4. CASE PublishWithPassword(c)
    BY <1>0, <1>4 DEF PublishWithPassword, Publishes
  <1>5. CASE Look(c)
    BY <1>0, <1>5 DEF Look
  <1>6. CASE Sign(c)
    BY <1>0, <1>6 DEF Sign
  <1>7. CASE Answer(c)
    BY <1>0, <1>7 DEF Answer
  <1>8. CASE CallBreaks(c)
    BY <1>0, <1>8 DEF CallBreaks
  <1>9. QED BY <1>1, <1>2, <1>3, <1>4, <1>5, <1>6, <1>7, <1>8 DEF CallStepOf

LEMMA OtherCalls ==
    ASSUME NEW c \in Calls, AccountInv, OnlyCall(c)
    PROVE  CallTypeOK' /\ \A x \in Calls \ {c} : CallSound(x)'
  <1> USE AccountBounds
  <1>0. CallTypeOK /\ CallSound(c) /\ c \in Nat \ {0}
    BY DEF AccountInv, AccountTypeOK, CallTypeOK, Calls
  <1>1. call' \in [Calls -> AtCall]
    BY <1>0 DEF OnlyCall, CallTypeOK
  <1>2. looks' \in [Calls -> 0..Attempts]
    <2>1. CASE looks' = looks
      BY <1>0, <2>1 DEF CallTypeOK
    <2>2. CASE call[c] = "look" /\ looks' = [looks EXCEPT ![c] = @ + 1]
      <3>1. looks[c] < Attempts /\ looks[c] \in 0..Attempts
        BY <1>0, <2>2 DEF CallSound, CallTypeOK
      <3>2. looks[c] + 1 \in 0..Attempts
        BY <3>1
      <3>3. QED BY <1>0, <2>2, <3>2 DEF CallTypeOK
    <2>3. QED BY <2>1, <2>2 DEF OnlyCall
  <1>3. answer' \in [Calls -> {"nothing", "signed", "unsigned", "failed"}]
    BY <1>0 DEF OnlyCall, CallTypeOK
  <1>4. CallTypeOK'
    BY <1>0, <1>1, <1>2, <1>3 DEF OnlyCall, CallTypeOK
  <1>5. ASSUME NEW x \in Calls, x # c PROVE CallSound(x)'
    <2>1. /\ call'[x] = call[x] /\ looks'[x] = looks[x] /\ answer'[x] = answer[x]
          /\ master' = x => master = x
          /\ x \in sigs' <=> x \in sigs
          /\ x \in lost' <=> x \in lost
          /\ x \in spoilt' <=> x \in spoilt
          /\ x \in early' <=> x \in early
          /\ botUp' = botUp
      BY <1>0, <1>5 DEF OnlyCall, CallTypeOK
    <2>2. CallSound(x)
      BY DEF AccountInv
    <2>3. QED BY <2>1, <2>2 DEF CallSound
  <1>6. QED BY <1>4, <1>5

LEMMA ThisCall ==
    ASSUME NEW c \in Calls, AccountInv, CallStepOf(c)
    PROVE  CallSound(c)'
  <1> USE AccountBounds DEF To, Tell, Elsewhere
  <1>0. CallTypeOK /\ CallSound(c)
    BY DEF AccountInv, AccountTypeOK, CallTypeOK
  <1>a. /\ c \in DOMAIN call /\ c \in DOMAIN answer /\ c \in DOMAIN looks /\ looks[c] \in Nat
        /\ c # 0
    BY <1>0 DEF CallTypeOK, Calls
  <1>1. CASE Call(c)
    <2>1. /\ call[c] = "none" /\ call'[c] = "whoami" /\ early' = IF botUp THEN early \cup {c} ELSE early
          /\ UNCHANGED <<looks, master, sigs, answer, lost, spoilt, botUp>>
      BY <1>a, <1>1 DEF Call
    <2>2. QED BY <1>0, <2>1 DEF CallSound, Published
  <1>2. CASE WhoAmI(c)
    <2>1. /\ call[c] = "whoami" /\ call'[c] = "publish"
          /\ UNCHANGED <<looks, master, sigs, answer, lost, spoilt, early, botUp>>
      BY <1>a, <1>2 DEF WhoAmI
    <2>2. QED BY <1>0, <2>1 DEF CallSound, Published
  <1>3. CASE Publish(c) \/ PublishWithPassword(c)
    <2>1. /\ call[c] \in {"publish", "uia"}
          /\ \/ master' = c /\ call'[c] = "look" /\ answer' = answer
             \/ master' = master /\ call'[c] = "uia" /\ answer' = answer
             \/ master' = master /\ call'[c] = "over" /\ answer'[c] = "failed"
          /\ UNCHANGED <<looks, sigs, lost, spoilt, early, botUp>>
      BY <1>a, <1>3 DEF Publish, PublishWithPassword, Publishes
    <2>2. QED BY <1>0, <2>1 DEF CallSound, Published
  <1>4. CASE Look(c)
    <2>1. /\ call[c] = "look" /\ looks'[c] = looks[c] + 1
          /\ \/ call'[c] = "sign" /\ spoilt' = spoilt
             \/ /\ call'[c] = IF looks'[c] < Attempts THEN "look" ELSE "unsigned"
                /\ (~botUp /\ spoilt' = spoilt) \/ spoilt' = spoilt \cup {c}
          /\ UNCHANGED <<answer, master, sigs, lost, early, botUp>>
      BY <1>a, <1>4 DEF Look
    <2>2. QED BY <1>0, <2>1 DEF CallSound, Published
  <1>5. CASE Sign(c)
    <2>1. /\ call[c] = "sign"
          /\ \/ sigs' = sigs \cup {c} /\ call'[c] = "signed" /\ spoilt' = spoilt
             \/ sigs' = sigs /\ call'[c] = "unsigned" /\ spoilt' = spoilt \cup {c}
          /\ UNCHANGED <<answer, master, looks, lost, early, botUp>>
      BY <1>a, <1>5 DEF Sign
    <2>2. QED BY <1>0, <2>1 DEF CallSound, Published
  <1>6. CASE Answer(c)
    <2>1. /\ call[c] \in {"signed", "unsigned"} /\ call'[c] = "over" /\ answer'[c] = call[c]
          /\ UNCHANGED <<sigs, spoilt, master, looks, lost, early, botUp>>
      BY <1>a, <1>6 DEF Answer
    <2>2. QED BY <1>0, <2>1 DEF CallSound, Published
  <1>7. CASE CallBreaks(c)
    <2>1. /\ call[c] \notin {"none", "over"} /\ call'[c] = "over" /\ answer'[c] \in {"nothing", "failed"}
          /\ sigs \subseteq sigs'
          /\ \/ master' = master /\ (call[c] \in Published => c \in lost')
             \/ master' = c /\ c \in lost'
          /\ lost \subseteq lost'
          /\ UNCHANGED <<looks, spoilt, early, botUp>>
      BY <1>a, <1>7 DEF CallBreaks, Published
    <2>2. QED BY <1>0, <2>1 DEF CallSound, Published
  <1>8. QED BY <1>1, <1>2, <1>3, <1>4, <1>5, <1>6, <1>7 DEF CallStepOf

LEMMA StepCalls ==
    ASSUME AccountInv, [AccountNext]_accountVars
    PROVE  CallTypeOK' /\ botUp' \in BOOLEAN /\ \A c \in Calls : CallSound(c)'
  <1>0. CallTypeOK /\ botUp \in BOOLEAN /\ \A c \in Calls : CallSound(c)
    BY DEF AccountInv, AccountTypeOK, CallTypeOK
  <1>1. ASSUME UNCHANGED signing, UNCHANGED botUp \/ ShareKeys
        PROVE  CallTypeOK' /\ botUp' \in BOOLEAN /\ \A c \in Calls : CallSound(c)'
    <2>1. CallTypeOK'
      BY <1>0, <1>1 DEF signing, CallTypeOK
    <2>2. botUp' \in BOOLEAN /\ (botUp => botUp')
      BY <1>0, <1>1 DEF ShareKeys
    <2>3. ASSUME NEW c \in Calls PROVE CallSound(c)'
      BY <1>0, <1>1, <2>2 DEF signing, CallSound
    <2>4. QED BY <2>1, <2>2, <2>3
  <1>2. CASE SetUp \/ SigningUp \/ NoCalls
    BY <1>1, <1>2 DEF SetUp, SigningUp, NoCalls
  <1>3. CASE Calling
    <2>1. PICK c \in Calls : CallStepOf(c)
      BY <1>3 DEF Calling, CallStep, CrossSigning, CallStepOf
    <2>2. botUp' \in BOOLEAN
      BY <1>0, <1>3 DEF Calling, Elsewhere
    <2>3. QED BY <2>1, <2>2, OnlyOneCall, OtherCalls, ThisCall
  <1>4. CASE Killed
    <2>1. /\ call' = [c \in Calls |-> IF c \in InFlight THEN "over" ELSE call[c]]
          /\ lost' = lost \cup {c \in InFlight : call[c] \in Published}
          /\ UNCHANGED <<botUp, looks, password, master, sigs, answer, spoilt, early>>
      BY <1>4 DEF Killed
    <2>2. CallTypeOK'
      BY <1>0, <2>1 DEF CallTypeOK, AtCall, InFlight
    <2>3. ASSUME NEW c \in Calls PROVE CallSound(c)'
      <3>1. CASE c \in InFlight
        <4>1. call'[c] = "over" /\ call[c] \notin {"none", "over"} /\ answer[c] = "nothing"
              /\ (call[c] \in Published => c \in lost') /\ lost \subseteq lost'
          BY <1>0, <2>1, <3>1 DEF InFlight, CallSound
        <4>2. QED BY <1>0, <2>1, <4>1 DEF CallSound, Published
      <3>2. CASE c \notin InFlight
        <4>1. call'[c] = call[c] /\ call[c] \in {"none", "over"} /\ (c \in lost' <=> c \in lost)
          BY <2>1, <3>2 DEF InFlight
        <4>2. QED BY <1>0, <2>1, <4>1 DEF CallSound, Published
      <3>3. QED BY <3>1, <3>2
    <2>4. QED BY <1>0, <2>1, <2>2, <2>3
  <1>5. QED BY <1>2, <1>3, <1>4, AccountSteps

-----------------------------------------------------------------------------
(***************************************************************************)
(* The theorems.                                                           *)
(***************************************************************************)
LEMMA InitAccount == AccountInit => AccountInv
  <1> SUFFICES ASSUME AccountInit PROVE AccountInv
    OBVIOUS
  <1> USE BootstrapBounds, AccountBounds, RoomFacts DEF AccountInit, BootInit
  <1>1. BootTypeOK
    <2>1. NoFile \in File /\ NoFile.rooms = 0 /\ NoFile.token = 0
      BY DEF NoFile, File
    <2>2. rule \in [Rooms -> {"public", "knock", "restricted"}]
      OBVIOUS
    <2>3. at \in Place /\ child \in 1..NChildren /\ epoch \in 1..(MaxWipes + 1)
      BY DEF Place
    <2>4. saved \in File /\ saved.rooms <= epoch /\ saved.token <= epoch
      BY <2>1
    <2>5. mem \in File /\ mem.rooms <= epoch /\ mem.token <= epoch
      BY <2>1
    <2>6. mishaps \in 0..MaxMishaps
      OBVIOUS
    <2>7. halfBuilt \in BOOLEAN /\ admin \in BOOLEAN
      OBVIOUS
    <2>8. taken \subseteq Rooms /\ linked \subseteq Children /\ linked \subseteq taken /\ unlinked \subseteq Children
      OBVIOUS
    <2> HIDE DEF AccountInit, BootInit
    <2>9. QED BY <2>2, <2>3, <2>4, <2>5, <2>6, <2>7, <2>8 DEF BootTypeOK
  <1>2. AccountTypeOK
    <2>1. call \in [Calls -> AtCall] /\ looks \in [Calls -> 0..Attempts]
      BY DEF AtCall
    <2>2. answer \in [Calls -> {"nothing", "signed", "unsigned", "failed"}]
      OBVIOUS
    <2>3. room \in 1..(NChildren + 1) /\ signup \in AtSignup
      BY DEF AtSignup
    <2>4. QED BY <1>1, <2>1, <2>2, <2>3 DEF AccountTypeOK
  <1>3. RunSound /\ FileSound
    BY DEF RunSound, FileSound, NoFile
  <1>4. SignupSound
    BY DEF SignupSound
  <1>5. ASSUME NEW c \in Calls PROVE CallSound(c)
    <2>1. c # 0
      BY DEF Calls
    <2>2. QED BY <2>1 DEF CallSound
  <1>6. QED BY <1>2, <1>3, <1>4, <1>5 DEF AccountInv

LEMMA StepAccount == AccountInv /\ [AccountNext]_accountVars => AccountInv'
  <1> SUFFICES ASSUME AccountInv, [AccountNext]_accountVars PROVE AccountInv'
    OBVIOUS
  <1>1. BootInv'
    BY AccountSteps, StepBoot DEF AccountInv, AccountTypeOK, BootInv
  <1>2. SignupTypeOK' /\ SignupSound'
    BY StepSignup
  <1>3. CallTypeOK' /\ botUp' \in BOOLEAN /\ \A c \in Calls : CallSound(c)'
    BY StepCalls
  <1>4. AccountTypeOK'
    BY <1>1, <1>2, <1>3 DEF BootInv, SignupTypeOK, CallTypeOK, AccountTypeOK
  <1>5. QED BY <1>1, <1>2, <1>3, <1>4 DEF BootInv, AccountInv

(***************************************************************************)
(* The inductive invariant of the account and the script under it.         *)
(***************************************************************************)
THEOREM AccountInvAlways == AccountSpec => []AccountInv
  BY InitAccount, StepAccount, PTL DEF AccountSpec

(***************************************************************************)
(* Every variable of bootstrap.py's model and of the account's keeps its   *)
(* type: the state file never holds rooms of a life of the server to come, *)
(* no call looks more often than the code allows, and no room is linked    *)
(* that was not made.                                                      *)
(***************************************************************************)
THEOREM AccountTypeCorrect == AccountSpec => []AccountTypeOK
  <1>1. AccountInv => AccountTypeOK
    BY DEF AccountInv
  <1>2. QED BY <1>1, AccountInvAlways, PTL

(***************************************************************************)
(* What a finished run of bootstrap.py has printed is there, however often *)
(* runs broke and the server was wiped before.                             *)
(***************************************************************************)
THEOREM ExportsAlwaysTrue == AccountSpec => []ExportsAreTrue
  <1>1. AccountInv => ExportsAreTrue
    <2> SUFFICES ASSUME AccountInv, at = "done" PROVE ExportsAreTrue
      BY DEF ExportsAreTrue
    <2>1. saved.rooms = epoch /\ Complete
      BY DEF AccountInv, FileSound
    <2>2. taken \subseteq Rooms /\ linked \subseteq Children /\ unlinked \subseteq Children
      BY DEF AccountInv, AccountTypeOK, BootTypeOK
    <2>3. QED BY <2>1, <2>2, RoomFacts DEF Complete, SpaceDone, Done, Linked, ExportsAreTrue
  <1>2. QED BY <1>1, AccountInvAlways, PTL

(***************************************************************************)
(* The account signup_handler answers with is inside but for the rooms     *)
(* that slipped; and however calls for cross-signing overlap, break and    *)
(* are killed, somebody holds the keys of the published identity, and a    *)
(* device called signed bears its signature.                               *)
(***************************************************************************)
THEOREM AccountAlwaysWhole == AccountSpec => []AccountIsWhole
  <1>1. AccountInv => AccountIsWhole
    <2> SUFFICES ASSUME AccountInv PROVE AccountIsWhole
      OBVIOUS
    <2>0. AccountTypeOK /\ SignupSound /\ \A c \in Calls : CallSound(c)
      BY DEF AccountInv
    <2>1. InsideWhenAnswered
      BY <2>0 DEF SignupSound, Got, InsideWhenAnswered, AccountTypeOK
    <2>2. KeysAreHeld
      <3> SUFFICES ASSUME master # 0
                   PROVE master \in InFlight \cup lost \/ answer[master] \in {"signed", "unsigned"}
        BY DEF KeysAreHeld
      <3>1. master \in Calls /\ CallSound(master)
        BY <2>0 DEF AccountTypeOK
      <3>2. QED BY <3>1 DEF CallSound, InFlight, Published
    <2>3. SignedIsTrue
      <3>1. ASSUME master # 0, \A c \in Calls : answer[c] = "signed" \/ call[c] = "none"
            PROVE  master \in sigs
        <4>1. master \in Calls /\ CallSound(master)
          BY <2>0, <3>1 DEF AccountTypeOK
        <4>2. answer[master] = "signed"
          BY <3>1, <4>1 DEF CallSound, Published
        <4>3. QED BY <4>1, <4>2 DEF CallSound
      <3>2. ASSUME NEW c \in early, answer[c] = "unsigned" PROVE c \in spoilt
        BY <2>0, <3>2 DEF AccountTypeOK, CallSound
      <3>3. QED BY <3>1, <3>2 DEF SignedIsTrue
    <2>4. QED BY <2>1, <2>2, <2>3 DEF AccountIsWhole
  <1>2. QED BY <1>1, AccountInvAlways, PTL
=============================================================================
