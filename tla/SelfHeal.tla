------------------------------ MODULE SelfHeal ------------------------------
(***************************************************************************)
(* How the main bot gets a token at startup, and what becomes of its       *)
(* crypto store: _resolve_credentials, then, if the device is another one, *)
(* export of the inbound sessions, wipe, a fresh store and the import of   *)
(* the escrow.                                                             *)
(*                                                                         *)
(* A token is told apart by its device alone: a login on a device          *)
(* invalidates the tokens it had.  Devices are numbered as the server      *)
(* hands them out.  The store is readable with the key of one device only. *)
(* Every stretch between two writes is an action of its own, and the       *)
(* process may die, or the server not answer, at any of them.              *)
(***************************************************************************)
EXTENDS Naturals

CONSTANTS
    Sessions,   \* inbound megolm sessions: what the history is read with
    NoFile,     \* there is no such file
    Torn,       \* the escrow file was truncated and not written
    MaxTurns,   \* bound: revocations and changes of the environment's token
    MaxFlakes,  \* bound: requests the server answers with an error
    MaxCrashes  \* bound: crashes

ASSUME SelfHealBounds ==
    /\ MaxTurns \in Nat /\ MaxFlakes \in Nat /\ MaxCrashes \in Nat
    /\ NoFile # Torn /\ \A S \in SUBSET Sessions : S \notin {NoFile, Torn}
    /\ NoFile \notin [key : Nat, sessions : SUBSET Sessions]

VARIABLES
    env,         \* the device of MATRIX_TOKEN, 0: not set
    envLive,     \* that token is valid
    tokenFile,   \* the device of the persisted token, 0: no file
    tokenLive,   \* that token is valid
    deviceFile,  \* the persisted device id, 0: no file
    password,    \* whether there is a password file
    store,       \* bot_crypto.db
    escrow,      \* inbound_sessions.escrow.json
    devices,     \* how many devices the server has handed out
    pc,          \* where the startup is
    dev,         \* the device resolved
    cached,      \* the device id read at the start
    reminted,    \* the token came from a login
    received,    \* history: sessions the bot was ever given
    mishaps,     \* history: what went wrong, by kind
    turns, flakes, crashes  \* history: numbers of them

files   == <<tokenFile, tokenLive, deviceFile, password>>
keys    == <<store, escrow>>
outside == <<env, envLive, devices>>
boot    == <<dev, cached, reminted>>
tally   == <<received, mishaps, turns, crashes>>
vars    == <<files, keys, outside, pc, boot, tally, flakes>>

Mishaps == {"blind", "unwiped", "half login", "half import", "fallback", "other env"}

TypeOK ==
    /\ devices \in Nat
    /\ env \in 0..devices /\ envLive \in BOOLEAN
    /\ tokenFile \in 0..devices /\ tokenLive \in BOOLEAN
    /\ deviceFile \in 0..devices /\ password \in BOOLEAN
    /\ dev \in 0..devices /\ cached \in 0..devices /\ reminted \in BOOLEAN
    /\ store \in [key : 0..devices, sessions : SUBSET Sessions] \cup {NoFile}
    /\ escrow \in (SUBSET Sessions) \cup {NoFile, Torn}
    /\ pc \in {"down", "env", "cache", "login", "token", "device", "check",
               "export", "exporting", "wipe", "open", "import", "up", "blind"}
    /\ received \subseteq Sessions /\ mishaps \subseteq Mishaps
    /\ turns \in 0..MaxTurns /\ flakes \in 0..MaxFlakes /\ crashes \in 0..MaxCrashes

\* A volume without anything but perhaps a password, and perhaps a token in
\* the environment.
Init ==
    /\ devices \in 0..1 /\ env = devices /\ envLive = (env = 1)
    /\ tokenFile = 0 /\ tokenLive = FALSE /\ deviceFile = 0
    /\ password \in BOOLEAN
    /\ store = NoFile /\ escrow = NoFile
    /\ pc = "down" /\ dev = 0 /\ cached = 0 /\ reminted = FALSE
    /\ received = {} /\ mishaps = {}
    /\ turns = 0 /\ flakes = 0 /\ crashes = 0

-----------------------------------------------------------------------------
(***************************************************************************)
(* _resolve_credentials                                                    *)
(***************************************************************************)
Goto(next) == pc' = next

\* A request that gets no proper answer.
Flake == flakes < MaxFlakes /\ flakes' = flakes + 1
Steady == UNCHANGED flakes

Boot ==
    /\ pc = "down" /\ Goto("env")
    /\ cached' = deviceFile /\ dev' = 0 /\ reminted' = FALSE
    /\ Steady /\ UNCHANGED <<files, keys, outside, tally>>

\* /whoami: a token is taken for stale if there is none or no proper answer.
Whoami(here, live, device, next) ==
    /\ pc = here
    /\ \/ live /\ Steady /\ dev' = device /\ Goto("check")
       \/ (IF live THEN Flake ELSE Steady) /\ dev' = dev /\ Goto(next)
    /\ UNCHANGED <<files, keys, outside, cached, reminted, tally>>

AskEnv == Whoami("env", envLive, env, "cache")
AskCached == Whoami("cache", tokenLive, tokenFile, "login")

LoginAs(d) ==
    /\ pc = "login" /\ password /\ Goto("token")
    /\ dev' = d /\ reminted' = TRUE
    /\ envLive' = (envLive /\ env # d) /\ tokenLive' = (tokenLive /\ tokenFile # d)
    /\ UNCHANGED <<keys, env, tokenFile, deviceFile, password, cached, tally>>

LoginCached == cached # 0 /\ LoginAs(cached) /\ Steady /\ UNCHANGED devices

\* A mistaken login: it makes the device id up.
LoginMadeUp ==
    /\ IF cached = 0 THEN Steady ELSE Flake
    /\ LoginAs(devices + 1) /\ UNCHANGED devices

\* Without a cached device, or when the login with it was refused.
LoginFresh ==
    /\ IF cached = 0 THEN Steady ELSE Flake
    /\ LoginAs(devices + 1) /\ devices' = devices + 1

\* SystemExit, or an exception nobody catches; docker starts the process again.
Exit ==
    /\ Goto("down")
    /\ dev' = 0 /\ cached' = 0 /\ reminted' = FALSE
    /\ UNCHANGED <<files, outside, received, turns, crashes>>

LoginFails ==
    /\ pc = "login" /\ (IF password THEN Flake ELSE Steady)
    /\ Exit /\ UNCHANGED <<keys, mishaps>>

WriteToken ==
    /\ pc = "token" /\ Goto("device")
    /\ tokenFile' = dev /\ tokenLive' = TRUE
    /\ Steady /\ UNCHANGED <<deviceFile, password, keys, outside, boot, tally>>

WriteDevice ==
    /\ pc = "device" /\ Goto("check")
    /\ deviceFile' = dev
    /\ Steady /\ UNCHANGED <<tokenFile, tokenLive, password, keys, outside, boot, tally>>

-----------------------------------------------------------------------------
(***************************************************************************)
(* main: export and wipe                                                   *)
(***************************************************************************)
DeviceChanged == cached # 0 /\ dev # 0 /\ cached # dev

\* A mistaken test: it trusts the cached device id alone.
MustWipeIfChanged == DeviceChanged

\* A login without a cached device takes any store there is for a stale one.
MustWipe == DeviceChanged \/ (reminted /\ cached = 0 /\ store # NoFile)

\* A store with key 0 holds no account of the bot's.
Fits == store # NoFile => store.key \in {0, dev}

\* A mistaken order: the wipe without the export.
CheckNoExport ==
    /\ pc = "check"
    /\ Goto(IF MustWipe THEN "wipe" ELSE "open")
    /\ mishaps' = mishaps \cup {m \in {"other env"} : ~reminted /\ dev = env /\ (DeviceChanged \/ ~Fits)}
    /\ Steady /\ UNCHANGED <<files, keys, outside, boot, received, turns, crashes>>

Check ==
    /\ pc = "check"
    /\ Goto(IF ~MustWipe THEN "open" ELSE IF cached # 0 THEN "export" ELSE "wipe")
    /\ mishaps' = mishaps \cup {m \in {"other env"} : ~reminted /\ dev = env /\ (DeviceChanged \/ ~Fits)}
    /\ Steady /\ UNCHANGED <<files, keys, outside, boot, received, turns, crashes>>

\* No store, nothing to export; else every session is read before the file is
\* opened, and one pickled with another key raises.
Readable == store.key = cached \/ store.sessions = {}

ExportNothing ==
    /\ pc = "export" /\ store = NoFile /\ Goto("wipe")
    /\ Steady /\ UNCHANGED <<files, keys, outside, boot, tally>>

ExportRaises ==
    /\ pc = "export" /\ store # NoFile /\ ~Readable
    /\ Steady /\ Exit /\ UNCHANGED <<keys, mishaps>>

ExportOpens ==
    /\ pc = "export" /\ store # NoFile /\ Readable /\ Goto("exporting")
    /\ escrow' = Torn
    /\ Steady /\ UNCHANGED <<files, store, outside, boot, tally>>

ExportWrites ==
    /\ pc = "exporting" /\ Goto("wipe")
    /\ escrow' = store.sessions
    /\ Steady /\ UNCHANGED <<files, store, outside, boot, tally>>

Wipe ==
    /\ pc = "wipe" /\ Goto("open")
    /\ store' = NoFile
    /\ mishaps' = mishaps \cup
          {m \in {"blind"} : cached = 0 /\ store # NoFile /\ store.sessions # {}}
    /\ Steady /\ UNCHANGED <<files, escrow, outside, boot, received, turns, crashes>>

-----------------------------------------------------------------------------
(***************************************************************************)
(* sync_loop: open and import                                              *)
(***************************************************************************)
Open ==
    /\ pc = "open" /\ Fits /\ Goto("import")
    /\ store' = [key |-> dev, sessions |-> IF store = NoFile THEN {} ELSE store.sessions]
    /\ Steady /\ UNCHANGED <<files, escrow, outside, boot, tally>>

OpenRaises ==
    /\ pc = "open" /\ ~Fits
    /\ Steady /\ Exit /\ UNCHANGED <<keys, mishaps>>

\* /whoami fails: the bot runs as nobody in particular, in an account of that
\* name beside its own, into which the escrow is imported.
OpenAsNobody ==
    /\ pc = "open" /\ Flake
    /\ store' = IF store = NoFile THEN [key |-> 0, sessions |-> {}] ELSE store
    /\ mishaps' = mishaps \cup {"fallback"}
    /\ IF escrow = Torn THEN Exit ELSE Goto("blind") /\ UNCHANGED boot
    /\ UNCHANGED <<files, escrow, outside, received, turns, crashes>>

Escrowed == IF escrow \in {NoFile, Torn} THEN {} ELSE escrow

Import(s) ==
    /\ pc = "import" /\ s \in Escrowed \ store.sessions
    /\ store' = [store EXCEPT !.sessions = @ \cup {s}]
    /\ Steady /\ UNCHANGED <<files, escrow, outside, pc, boot, tally>>

\* A mistaken start: it does not wait for the import.
ImportSkipped ==
    /\ pc = "import" /\ escrow # Torn
    /\ Goto("up")
    /\ Steady /\ UNCHANGED <<files, keys, outside, boot, tally>>

ImportDone ==
    /\ pc = "import" /\ escrow # Torn /\ Escrowed \subseteq store.sessions
    /\ Goto("up")
    /\ Steady /\ UNCHANGED <<files, keys, outside, boot, tally>>

ImportRaises ==
    /\ pc = "import" /\ escrow = Torn
    /\ Steady /\ Exit /\ UNCHANGED <<keys, mishaps>>

BootStep ==
    \/ Boot \/ AskEnv \/ AskCached
    \/ LoginCached \/ LoginFresh \/ LoginFails
    \/ WriteToken \/ WriteDevice
    \/ Check \/ ExportNothing \/ ExportRaises \/ ExportOpens \/ ExportWrites \/ Wipe
    \/ Open \/ OpenRaises \/ OpenAsNobody
    \/ \E s \in Sessions : Import(s)
    \/ ImportDone \/ ImportRaises

-----------------------------------------------------------------------------
(***************************************************************************)
(* The running bot, the operators and the server.                          *)
(***************************************************************************)
\* With a revoked token the main loop goes on asking, and gets errors only.
Working == (dev = env /\ envLive) \/ (dev = tokenFile /\ tokenLive)

Receive(s) ==
    /\ pc = "up" /\ Working /\ s \notin received
    /\ received' = received \cup {s}
    /\ store' = [store EXCEPT !.sessions = @ \cup {s}]
    /\ Steady /\ UNCHANGED <<files, escrow, outside, pc, boot, mishaps, turns, crashes>>

\* A redeploy.
Stop ==
    /\ pc \in {"up", "blind"}
    /\ Steady /\ Exit /\ UNCHANGED <<keys, mishaps>>

\* A file is truncated before it is written, and an empty one is none.
Crash ==
    /\ pc \notin {"down", "up", "blind"} /\ crashes < MaxCrashes
    /\ crashes' = crashes + 1
    /\ mishaps' = mishaps
          \cup {m \in {"half login"} : pc = "device"}
          \cup {m \in {"unwiped"} : reminted /\ MustWipe
                                /\ pc \in {"check", "export", "exporting", "wipe"}}
          \cup {m \in {"half import"} : pc = "import" /\ ~(Escrowed \subseteq store.sessions)}
    /\ Goto("down") /\ dev' = 0 /\ cached' = 0 /\ reminted' = FALSE
    /\ tokenFile' \in {tokenFile} \cup {d \in {0} : pc = "token"}
    /\ tokenLive' = (tokenLive /\ tokenFile' # 0)
    /\ deviceFile' \in {deviceFile} \cup {d \in {0} : pc = "device"}
    /\ Steady /\ UNCHANGED <<password, keys, outside, received, turns>>

Turn ==
    /\ pc \in {"down", "up", "blind"} /\ turns < MaxTurns /\ turns' = turns + 1
    /\ Steady /\ UNCHANGED <<tokenFile, deviceFile, password, keys, pc, boot, received, mishaps, crashes>>

\* The tokens of a device are revoked: a logout, a deleted device.
Revoke(d) ==
    /\ Turn
    /\ envLive' = (envLive /\ env # d) /\ tokenLive' = (tokenLive /\ tokenFile # d)
    /\ UNCHANGED <<env, devices>>

\* The environment gets a valid token of a new device.
NewEnv ==
    /\ Turn /\ pc = "down"
    /\ devices' = devices + 1 /\ env' = devices' /\ envLive' = TRUE
    /\ UNCHANGED tokenLive

Next ==
    \/ BootStep
    \/ \E s \in Sessions : Receive(s)
    \/ Stop
    \/ Crash
    \/ \E d \in 1..devices : Revoke(d)
    \/ NewEnv

Spec == Init /\ [][Next]_vars

\* asyncio goes on, the server answers, docker restarts the process.
FairSpec == Spec /\ WF_vars(BootStep)

-----------------------------------------------------------------------------
(***************************************************************************)
(* The history that can still be read from the volume.                     *)
(***************************************************************************)
Kept == Escrowed \cup (IF store = NoFile THEN {} ELSE store.sessions)

(***************************************************************************)
(* "Preserving historical decryptability": a session once received is in   *)
(* the store or in the escrow, unless a store was wiped without a cached   *)
(* device id, an import was cut short or the bot has run as nobody.  A     *)
(* crash in the login, in the export or around the wipe loses nothing.     *)
(***************************************************************************)
NoLoss == mishaps \cap {"blind", "half import", "fallback"} = {}

HistoryKeptUnlessMishap == NoLoss => received \subseteq Kept

(***************************************************************************)
(* "A re-mint preserves historical decryptability", and that is all.       *)
(***************************************************************************)
HistoryKept == received \subseteq Kept

(***************************************************************************)
(* The bot that runs has everything it ever received at hand.              *)
(***************************************************************************)
UpMeansWhole ==
    pc = "up" /\ NoLoss =>
        received \subseteq store.sessions /\ store.key = dev

(***************************************************************************)
(* "The bot stays self-healing": with a password the startup comes to an   *)
(* end, unless a crash came between a login on a new device and the wipe,  *)
(* or the environment brought a token of another device.                   *)
(***************************************************************************)
ComesUp ==
    pc = "down" /\ password ~>
        pc \in {"up", "blind"} \/ mishaps \cap {"unwiped", "half login", "other env"} # {}
=============================================================================
