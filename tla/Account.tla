------------------------------ MODULE Account -------------------------------
(***************************************************************************)
(* A bot's account on the server that Bootstrap has set up: what           *)
(* signup_handler does once the account is registered, and the             *)
(* cross-signing endpoint.                                                 *)
(*                                                                         *)
(* Signup goes through the rooms one request after the other and goes on   *)
(* when one is refused.  A call for cross-signing makes keys of its own,   *)
(* publishes them, looks a few times for the bot's device on the server    *)
(* and signs it; the private keys are in its answer and nowhere else.      *)
(* Calls run side by side.  Keys and signatures bear the call's number.    *)
(***************************************************************************)
EXTENDS Bootstrap

CONSTANTS
    NCalls,      \* calls for cross-signing
    Attempts     \* how often a call looks for the device

ASSUME AccountBounds == NCalls \in Nat /\ Attempts \in Nat \ {0}

Calls == 1..NCalls

VARIABLES
    signup,     \* where signup_handler is
    room,       \* the child it is about to join
    invited,    \* the account is invited to the space
    inside,     \* rooms the account is in
    slips,      \* history: rooms it could not be invited to or join
    agent,      \* the client has the answer: it can use the account
    botUp,      \* the bot's device keys are on the server
    call,       \* where each call is
    looks,      \* how often it has looked for the device
    password,   \* the calls that came with the account's password
    master,     \* the call whose keys are published, 0 for none
    sigs,       \* the calls whose key has signed the device
    answer,     \* what each call was answered
    lost,       \* history: calls that ended without an answer after publishing
    spoilt,     \* history: calls for which a request to look or to sign failed
    early       \* history: calls begun when the bot was up

signingUp   == <<signup, room, invited, inside, slips, agent>>
signing     == <<call, looks, password, master, sigs, answer, lost, spoilt, early>>
accountVars == <<bootVars, signingUp, botUp, signing>>

AtSignup == {"none", "invite", "join", "children", "answer", "over"}
AtCall   == {"none", "whoami", "publish", "uia", "look", "sign", "unsigned", "signed", "over"}

AccountTypeOK ==
    /\ BootTypeOK
    /\ signup \in AtSignup /\ room \in 1..(NChildren + 1)
    /\ invited \in BOOLEAN /\ inside \subseteq Rooms
    /\ slips \subseteq Rooms
    /\ agent \in BOOLEAN /\ botUp \in BOOLEAN
    /\ call \in [Calls -> AtCall] /\ looks \in [Calls -> 0..Attempts]
    /\ password \subseteq Calls
    /\ master \in Calls \cup {0} /\ sigs \subseteq Calls
    /\ answer \in [Calls -> {"nothing", "signed", "unsigned", "failed"}]
    /\ lost \subseteq Calls /\ spoilt \subseteq Calls /\ early \subseteq Calls

AccountInit ==
    /\ BootInit
    /\ signup = "none" /\ room = 1 /\ invited = FALSE /\ inside = {} /\ slips = {}
    /\ agent = FALSE /\ botUp = FALSE
    /\ call = [c \in Calls |-> "none"] /\ looks = [c \in Calls |-> 0]
    /\ password = {} /\ master = 0 /\ sigs = {}
    /\ answer = [c \in Calls |-> "nothing"]
    /\ lost = {} /\ spoilt = {} /\ early = {}

-----------------------------------------------------------------------------
(***************************************************************************)
(* Signup, from the registration on.                                       *)
(***************************************************************************)
Register ==
    /\ signup = "none" /\ at = "done" /\ signup' = "invite"
    /\ UNCHANGED <<bootVars, room, invited, inside, slips, agent, botUp, signing>>

Slip(r) == Mishap /\ slips' = slips \cup {r}

InviteToSpace ==
    /\ signup = "invite" /\ signup' = "join"
    /\ \/ invited' = TRUE /\ UNCHANGED <<slips, mishaps>>
       \/ Slip(Space) /\ UNCHANGED invited
    /\ UNCHANGED <<epoch, built, script, halfBuilt, unlinked, room, inside, agent, botUp, signing>>

\* The server's join rules.
MayJoin(r) ==
    \/ rule[r] = "public"
    \/ rule[r] = "knock" /\ invited
    \/ rule[r] = "restricted" /\ Space \in inside

JoinRoom(r) ==
    \/ /\ inside' = IF MayJoin(r) THEN inside \cup {r} ELSE inside
       /\ UNCHANGED <<slips, mishaps>>
    \/ Slip(r) /\ UNCHANGED inside

JoinSpace ==
    /\ signup = "join" /\ JoinRoom(Space)
    /\ signup' = "children" /\ room' = 1
    /\ UNCHANGED <<epoch, built, script, halfBuilt, unlinked, invited, agent, botUp, signing>>

\* Mistaken: the children first.
ChildrenFirst ==
    /\ signup = "invite" /\ JoinRoom(room)
    /\ IF room < NChildren THEN room' = room + 1 /\ UNCHANGED signup
       ELSE signup' = "answer" /\ UNCHANGED room
    /\ UNCHANGED <<epoch, built, script, halfBuilt, unlinked, invited, agent, botUp, signing>>

JoinChild ==
    /\ signup = "children" /\ JoinRoom(room)
    /\ IF room < NChildren THEN room' = room + 1 /\ UNCHANGED signup
       ELSE signup' = "answer" /\ UNCHANGED room
    /\ UNCHANGED <<epoch, built, script, halfBuilt, unlinked, invited, agent, botUp, signing>>

\* The direct room with the inviter, and the answer, which may be lost.
AnswerSignup ==
    /\ signup = "answer" /\ signup' = "over"
    /\ \/ agent' = TRUE /\ UNCHANGED mishaps
       \/ Mishap /\ UNCHANGED agent
    /\ UNCHANGED <<epoch, built, script, halfBuilt, unlinked, room, invited, inside, slips, botUp,
                   signing>>

Signup == Register \/ InviteToSpace \/ JoinSpace \/ JoinChild \/ AnswerSignup

\* The responder's share_keys.
ShareKeys ==
    /\ agent /\ ~botUp /\ botUp' = TRUE
    /\ UNCHANGED <<bootVars, signingUp, signing>>

-----------------------------------------------------------------------------
(***************************************************************************)
(* Cross-signing.  A call that raises is answered with an error; so is a   *)
(* client whose server wants a password that did not come with the call.   *)
(***************************************************************************)
Elsewhere == UNCHANGED <<epoch, built, script, halfBuilt, unlinked, signingUp, botUp>>

To(c, place)  == call' = [call EXCEPT ![c] = place]
Tell(c, what) == To(c, "over") /\ answer' = [answer EXCEPT ![c] = what]

Call(c) ==
    /\ agent /\ call[c] = "none" /\ \A x \in 1..(c - 1) : call[x] # "none"
    /\ To(c, "whoami")
    /\ password' \in {password, password \cup {c}}
    /\ early' = IF botUp THEN early \cup {c} ELSE early
    /\ Elsewhere /\ UNCHANGED <<mishaps, looks, master, sigs, answer, lost, spoilt>>

WhoAmI(c) ==
    /\ call[c] = "whoami" /\ To(c, "publish")
    /\ Elsewhere /\ UNCHANGED <<mishaps, looks, password, master, sigs, answer, lost, spoilt, early>>

\* The keys of this call replace those of any before it.
Publishes(c) == master' = c /\ To(c, "look") /\ UNCHANGED answer

Publish(c) ==
    /\ call[c] = "publish"
    /\ \/ Publishes(c)
       \/ To(c, "uia") /\ c \in password /\ UNCHANGED <<master, answer>>
       \/ Tell(c, "failed") /\ UNCHANGED master
    /\ Elsewhere /\ UNCHANGED <<mishaps, looks, password, sigs, lost, spoilt, early>>

PublishWithPassword(c) ==
    /\ call[c] = "uia"
    /\ \/ Publishes(c)
       \/ Tell(c, "failed") /\ UNCHANGED master
    /\ Elsewhere /\ UNCHANGED <<mishaps, looks, password, sigs, lost, spoilt, early>>

\* Mistaken: no second look.
LookOnce(c) ==
    /\ call[c] = "look"
    /\ looks' = [looks EXCEPT ![c] = @ + 1]
    /\ IF botUp THEN To(c, "sign") /\ UNCHANGED answer ELSE Tell(c, "failed")
    /\ Elsewhere /\ UNCHANGED <<mishaps, password, master, sigs, lost, spoilt, early>>

\* Mistaken: one look too many.
LookOnceMore(c) ==
    /\ call[c] = "look"
    /\ looks' = [looks EXCEPT ![c] = @ + 1]
    /\ To(c, IF botUp THEN "sign" ELSE IF looks[c] <= Attempts THEN "look" ELSE "unsigned")
    /\ Elsewhere /\ UNCHANGED <<mishaps, password, master, sigs, answer, lost, spoilt, early>>

\* A look that fails counts as one that finds nothing.
Look(c) ==
    /\ call[c] = "look"
    /\ looks' = [looks EXCEPT ![c] = @ + 1]
    /\ \/ botUp /\ To(c, "sign") /\ UNCHANGED <<spoilt, mishaps>>
       \/ /\ To(c, IF looks'[c] < Attempts THEN "look" ELSE "unsigned")
          /\ \/ ~botUp /\ UNCHANGED <<spoilt, mishaps>>
             \/ botUp /\ Mishap /\ spoilt' = spoilt \cup {c}
    /\ Elsewhere /\ UNCHANGED <<password, master, sigs, answer, lost, early>>

\* The server takes the signature or reports a failure.
Sign(c) ==
    /\ call[c] = "sign"
    /\ \/ sigs' = sigs \cup {c} /\ To(c, "signed") /\ UNCHANGED <<spoilt, mishaps>>
       \/ To(c, "unsigned") /\ Mishap /\ spoilt' = spoilt \cup {c} /\ UNCHANGED sigs
    /\ Elsewhere /\ UNCHANGED <<looks, password, master, answer, lost, early>>

\* The answer: whether the device is signed, and the private keys.
Answer(c) ==
    /\ call[c] \in {"signed", "unsigned"} /\ Tell(c, call[c])
    /\ Elsewhere /\ UNCHANGED <<mishaps, looks, password, master, sigs, lost, spoilt, early>>

Published == {"look", "sign", "signed", "unsigned"}

\* A request raises, with or without effect, or the answer is lost.
CallBreaks(c) ==
    /\ call[c] \notin {"none", "over"} /\ Mishap
    /\ Tell(c, IF call[c] \in {"signed", "unsigned"} THEN "nothing" ELSE "failed")
    /\ \/ UNCHANGED <<master, sigs>> /\ lost' = IF call[c] \in Published THEN lost \cup {c} ELSE lost
       \/ /\ call[c] \in {"publish", "uia"} /\ master' = c
          /\ lost' = lost \cup {c} /\ UNCHANGED sigs
       \/ call[c] = "sign" /\ sigs' = sigs \cup {c} /\ lost' = lost \cup {c} /\ UNCHANGED master
    /\ Elsewhere /\ UNCHANGED <<looks, password, spoilt, early>>

CrossSigning ==
    \E c \in Calls :
        \/ WhoAmI(c) \/ Publish(c) \/ PublishWithPassword(c)
        \/ Look(c) \/ Sign(c) \/ Answer(c) \/ CallBreaks(c)

\* The approver is killed: everything under way ends without an answer.
InFlight == {c \in Calls : call[c] \notin {"none", "over"}}

Killed ==
    /\ Mishap /\ (InFlight # {} \/ signup \notin {"none", "over"})
    /\ signup' = IF signup = "none" THEN "none" ELSE "over"
    /\ call' = [c \in Calls |-> IF c \in InFlight THEN "over" ELSE call[c]]
    /\ lost' = lost \cup {c \in InFlight : call[c] \in Published}
    /\ UNCHANGED <<epoch, built, script, halfBuilt, unlinked, room, invited, inside, slips, agent,
                   botUp, looks, password, master, sigs, answer, spoilt, early>>

-----------------------------------------------------------------------------
\* Once there is an account the script and the server are left alone.
Setup ==
    /\ signup = "none"
    /\ Script \/ Breaks \/ WipeServer
    /\ UNCHANGED <<signingUp, botUp, signing>>

CallStep == \E c \in Calls : Call(c)

AccountNext == Setup \/ Signup \/ ShareKeys \/ CallStep \/ CrossSigning \/ Killed

AccountSpec == AccountInit /\ [][AccountNext]_accountVars

RunsAgain == signup = "none" /\ Script /\ UNCHANGED <<signingUp, botUp, signing>>

\* Whoever sets up a server runs the script until it is through.
FairSpec == AccountSpec /\ WF_accountVars(RunsAgain)

-----------------------------------------------------------------------------
(***************************************************************************)
(* A client that has its answer is in the space and in every room of it,   *)
(* but for the room whose own join failed, and unless the way into the     *)
(* space was barred.                                                       *)
(***************************************************************************)
InsideWhenAnswered ==
    agent =>
        \/ Space \in slips
        \/ Rooms = inside \cup slips

(***************************************************************************)
(* "The approver returns these once and keeps nothing": the private keys   *)
(* of the published identity are in a call under way or with the client,   *)
(* unless the call that published them broke before its answer arrived.    *)
(* However many calls overlap, the last to publish is not the one whose    *)
(* keys went.                                                              *)
(***************************************************************************)
KeysAreHeld ==
    master # 0 =>
        \/ master \in InFlight \cup lost
        \/ answer[master] \in {"signed", "unsigned"}

(***************************************************************************)
(* "Reload the DM: the shield should be gone": once every call that got    *)
(* anywhere is answered with "signed", the device bears a signature of the *)
(* published identity, whichever call's that is.  And a call that began    *)
(* when the bot was up is "unsigned" only if one of its requests failed.   *)
(***************************************************************************)
SignedIsTrue ==
    /\ (master # 0 /\ \A c \in Calls : answer[c] = "signed" \/ call[c] = "none")
         => master \in sigs
    /\ \A c \in early : answer[c] = "unsigned" => c \in spoilt

AccountIsWhole == InsideWhenAnswered /\ KeysAreHeld /\ SignedIsTrue
=============================================================================
