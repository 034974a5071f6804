# Shape Rotator on Matrix: a TLA+ model of its programs

This directory holds TLA+ modules for the stateful programs of the repository,
the TLC configurations that check them, and proofs that TLAPS checks. The
programs are `knock-approver/approver.py` (one asyncio process: two sync loops
and an HTTP server that guard the door of a Matrix space), `bridge/relay.py`
(one asyncio process that mirrors a Matrix room and a Telegram group),
`landing/responder.py` with `landing/sas_verification.py` (the bot people get
when they sign one up), and `dev/bootstrap.py` (the script that sets up a local
server).

## The system

### The approver: one process, three actors, six files

| actor | what it does |
| --- | --- |
| `sync_loop` (main bot, encrypted) | per `/sync` batch: knocks, vetting rooms, stale vetting rooms, announcements, admin commands |
| `lobby_sync_loop` (onboarding bot, cleartext) | per `/sync` batch: lobby rooms, reposts, stale lobby rooms |
| HTTP handlers | `/join/api`, `/signup/api`, `/signup/api/crosssign`, any number at a time |

| file | written by | how |
| --- | --- | --- |
| `codes.json` | `handle_knock`, `join_handler`, `!mint`, `!revoke`, the seed at boot | the first two: load, **await**, save the copy |
| `signup_codes.json` | `signup_handler`, the welcome code of a promotion (both loops), `!mint`, `!revoke`, the seed | the first: load, **await**, save the copy |
| `vetting.json` | `sync_loop` only | load, many awaits, save the copy |
| `lobby.json` | `join_handler` and `lobby_sync_loop` | handler: load and save at once; loop: load, **many awaits**, save the copy |
| `operator_announces.json` | `announce_lobby_events` | load, awaits, save |
| two `/sync` cursors, token, device id and escrow files | the loops; the startup self-heal | at once |

asyncio runs a handler undisturbed between two awaits, and anything may run at
an await. Whoever saves a copy loaded before an await may overwrite what
another wrote meanwhile. Both cursors are saved **before** their batch is worked
on, so a crash loses the rest of a batch. `_send_msg` and `_send_msg_raw` raise
when the server refuses a message, nobody catches it in the loops, so a refused
message ends the process; docker starts it again (`restart: unless-stopped`).

Components, the properties that make them correct, and where they stand:

| component | state and operations | correct when | model |
| --- | --- | --- | --- |
| code files | uses left per code; validate / spend / fail, mint, welcome, revoke, seed | no code admits more people than it was issued for; no use vanishes; a spent code stays spent | `CodeBook` |
| lobby door | rooms, joiners, tries, reposts, promotion, closing | everyone who follows a link is challenged; only a haiku opens the space; stale rooms end; tries and reposts are bounded; a closed room stays closed | `Lobby`, `LobbyBook` |
| knock door | one private room per knock, tries, displayname, promotion, closing | as above, and the books survive any crash | `Vetting`, `Airlock` |
| relay | two timelines, a cursor, a last id, seen ids | no echo, no repeats, order, nothing lost but in known ways, it keeps up | `Relay` |
| announcements | which starts and failures were told; seed, scan, tell, save | each told once, none forgotten | `Announce`, `LobbyBook` |
| admin commands | a queue in memory; hear, take, check, carry out, reply | admins only, once each, never the bot itself, none left waiting | `Commands` |
| main loop | one cycle: knocks and vetting rooms, the scan, the commands | a scan that raises does not keep the commands waiting | `Vetting`, `MainLoop` |
| self-heal and escrow | tokens, device ids, crypto store, escrow; login, export, wipe, open, import | history stays readable across rotations and crashes; the startup comes to an end | `SelfHeal` |
| signup after the code is spent | the account's way through the space and its rooms | an account whose owner has the answer is in every room, or a join failed | `Account` |
| cross-signing | three keys per call, published, the device signed with them | the published identity is one somebody holds the keys of; "signed" is true | `Account` |
| responder and SAS | sessions, trust in devices; events as tasks nobody waits for | a device is verified when its client is told so; a session ends; a MAC is answered | `Sas`, `Responder` |
| invitations and key bundles | inviter, sessions imported; remember, load, import, join | history only from the inviter, and it arrives | `Invites`, `Responder` |
| dev bootstrap | what a server has, what the state file says | what a finished run prints is there; a re-run finishes | `Bootstrap` |
| bridge clients | a cursor file (in `Relay`), libraries | | partly |
| export of room-key bundles, landing pages, nginx, deploy and admin scripts, CI | none of their own | | not modelled |

### The relay

Two loops share one `State` object and one state file; the Matrix loop has a
`/sync` cursor in a file of its own, saved before the batch is relayed. A signal
cancels both loops wherever they are; a kill saves nothing.

### The responder

One `/sync` loop. Its to-device events reach two parties: the bundles of room
keys, whose handlers the loop waits for before it accepts the invitations of
the batch, and the SAS verifications, each event a task of its own that nobody
waits for. The cursor, the sessions and who invited the bot are in memory only;
the Olm state, the room keys and the trust in devices are on disk. A restarted
bot is given the last batch again.

### The bootstrap script and the account

The script makes the admin, the space and its rooms request by request and
writes its state file at the end. An account signed up on that server is then
led through the rooms by `signup_handler`, which goes on when a step is refused,
and may be given a cross-signing identity by any number of overlapping calls.

## Modules

| module | what it is |
| --- | --- |
| `CodeBook` | one code file, with the handlers suspended at their awaits |
| `CodeBookProofs` | its theorems |
| `Lobby` | `lobby.json`, the onboarding bot's loop, `join_handler`'s write, the people, the server's membership, crashes |
| `LobbyProofs` | its theorems, that it implements `LobbyBook` among them |
| `LobbyBook` | abstract: `lobby.json` as its readers see it; `Lobby` implements it, `Announce` reads it |
| `Airlock` | abstract: what the books of a door promise of their rooms |
| `Vetting` | `vetting.json` and the main loop's cycle for knocks and vetting rooms; instantiates `Airlock` |
| `VettingProofs` | its theorems, the refinement among them |
| `Announce` | `announce_lobby_events` and its file, beside a `LobbyBook` that goes on changing |
| `Commands` | the admin room: who says what, the queue, the permission check, the replies |
| `MainLoop` | the cycle of `sync_loop` that composes `Announce` and `Commands` |
| `MainLoopProofs` | the theorems of all three |
| `SelfHeal` | the startup of the main bot: tokens, device ids, crypto store and escrow |
| `SelfHealProofs` | its theorems |
| `Relay` | both loops of `relay.py`, their files, failures and restarts |
| `RelayProofs` | its theorems |
| `Sas` | the SAS verifications of the responder, beside the clients that start them |
| `Invites` | its invitations and room-key bundles |
| `Responder` | both in one `/sync` loop, with restarts |
| `ResponderProofs` | the theorems of all three |
| `Bootstrap` | `dev/bootstrap.py`, its state file and the server it builds |
| `Account` | signup and cross-signing on that server |
| `AccountProofs` | the theorems of both |
| `MC*` | the finite instances; each `.cfg` is one run |

**CodeBook.** `file` is the JSON file, `flight` the suspended handlers with the
copy each has loaded. `JoinValidate` / `JoinSpend` / `JoinFail` are the stretches
of `join_handler` before and after its await, and likewise for knocks and
signups. A call that fails has had no effect (`Refused`), or it took effect and
its answer was lost, could not be read, or was followed by a request that raised
(`Unanswered`): then the room or the account exists and no use was taken. `Mint`,
`MintWelcome`, `Revoke` and `Restart` have no await inside; `Restart` is a death
of the process, in which the requests of any of those suspended may have taken
effect, then the boot with `merge_seed`. `issued`, `granted`, `unpaid` (rooms and
accounts whose handler never took a use), `voided` and `clobbered` are history.

**Lobby.** `disk` is `lobby.json`, `mem` the loop's copy, `pc`/`cur`/`todo` where
the loop is, `feed` what the server holds beyond the cursor. `Sync` moves the
cursor, loads the file and picks the batch as `iter_lobby_rooms` does (joins of
the not yet challenged, then messages of the challenged; `Picked` is `SelectSeq`
with a set of positions for its test, and `Without` is `list.remove`, both in a
form the proofs can open). `Challenge`, `Refuse`,
`Promote`, `PromoteFails`, `GiveWelcome`, `Acknowledge`, `Repost`, `Clean` and
`Save` are the effects of one cycle in their order. `OpenRoom`
(`join_handler`'s write) may come between any two of them. A send into a room
the bot is not in is `PostRefused`: the process dies. Before its first cycle the
loop asks `/whoami`; unless the answer is 200 it returns, and the lobby flow is
disabled (`pc = "off"`) until a `Reboot`, while `OpenRoom` goes on. The invitation
to the space is answered 200, 403 or something else (`InviteAnswers`,
`PromoteFails`); a 403 comes for a member, and for anybody who is banned or whom
the bot has no right to invite, and the code takes each for "already a member"
(`Noticed`).

**LobbyBook.** A room is recorded once, empty and open; one save may move open
rooms on and erase rooms in which nobody was challenged; what is closed stays.
`Book == INSTANCE LobbyBook WITH book <- ...` in `Lobby` maps each record of
`lobby.json` to the people challenged and the reason it was closed for, and
`KeepsTheBook` says that both writers together, crashes included, are a
`LobbyBook`. That the erasing has to be allowed is the finding `lobby_forgotten`.

**Announce.** `file` is `operator_announces.json`; `snap` and `seen` are the copies
one scan works on. `Seed` is the first run, `Begin` loads both files, `TellStart`
and `TellFailure` are the sends, `Finish` the clean-up and the save, `GiveUp` a
send that raises. `LobbyMoves` (a step of `LobbyBook`) may come between any two of
them, so what holds here holds beside every lobby that keeps its book, `Lobby`'s
among them.

**Commands.** `chat` is the admin room, command by command: people's, and the
bot's own replies to commands that raised, which begin with the command's name.
`Fetch` is a `/sync`: the cursor moves, `on_room_message` queues what it hears.
`Take` is the head of `process_admin_command` up to the permission check, which
asks for the power levels of that moment; `Obey` is the command, `Reply` the
send. `Dead` is the end of the process at any point, after which the cursor may
be gone and the bot may not know its name.

**MainLoop.** `stage` says where the cycle is: `Fetches`, then `Scans` (the actions
of `Announce`, or nothing when there is no lobby), then `Drains`, command by
command. `ScanRaises` is the `except` around the scan; `Dies` ends both.

**SelfHeal.** The four files of the volume are `tokenFile`, `deviceFile`, `store`
and `escrow`; `pc` walks through `_resolve_credentials` (`AskEnv`, `AskCached`,
`LoginCached`, `LoginFresh`, `WriteToken`, `WriteDevice`), the decision and the
export in `main` (`Check`, `Export*`, `Wipe`) and the opening in `sync_loop`
(`Open*`, `Import*`). A process that raises (`*Raises`, `LoginFails`) is `down` and
boots again. `OpenAsNobody` is the fallback of `sync_loop` when its own `/whoami`
fails. `mishaps` records, by kind, the events the properties make an exception
for.

**Vetting.** The same for the knock door. `OpenRoom` is `handle_knock` up to the
save of `vetting.json`, `Greet` the message after it, so a crash fits in between.
`vetting.json` has one writer, which is why this stricter refinement holds here
and not in the lobby.

**Airlock.** A room is entered once, open, with all its tries; open rooms move
on, never back; nothing is struck from the books. `Books == INSTANCE Airlock
WITH book <- ...` maps each record of `vetting.json` to its state and tries.

**Sas.** `pending`, `batch` and `ready` are the to-device events a `/sync` brings, not
yet acknowledged, not yet begun. `Begin` is the first stretch of a handler
(`OnRequest`, `OnStart`, `OnOdd`, `OnKey`, `OnMac`, `OnCancel`), in the order of
arrival within a transaction; `tasks` are the handlers that wait at an await
(`SendOurMac`, `Lookup`, `Query`, `PutNew`, `PutTrust`, `SendDone`, `SendCancel`),
which go on in any order. `Tells` is the client's side. Keys and MACs bear the
number of the session object, so a MAC made for a forgotten session does not
match. Whether `put_devices` replaces the other devices of a user is a constant
(`PutReplaces`); the run takes the harder case, the one mautrix implements.

**Invites.** `SyncInvites` notes the inviter and hands out the bundles of a batch;
`Decrypt`, `Download` and `Import` (session by session) are a bundle's handler,
`Join` follows when all have ended. `box` and `hand` are what the server holds and
what it will give again after a restart; `olm` is what cannot be decrypted twice.

**Responder.** `SyncOnce` is `Sync` and `SyncInvites` at once, `KilledAndStarted` both
restarts.

**Bootstrap.** `at` walks through a run; `saved` is the state file and `mem` the
run's copy, both reduced to the life of the server (`epoch`) their token and
rooms belong to. `CreateRoom` ends the run when the alias is taken. `Breaks` ends
it anywhere.

**Account.** `signup` walks through `signup_handler` behind the registration;
`MayJoin` is the server's view of the rules `Bootstrap` has set. `call` has each
cross-signing call's place; `master` is the call whose keys are published, `sigs`
the calls that signed the device. `CallBreaks` is a request that raises with or
without effect, or a lost answer.

**Relay.** `mx` and `tg` are the two timelines: `0` is what a person wrote, `n`
the relay's copy of message `n` of the other side. A send is two steps, the
arrival (`MxDeliver`, `TgDeliver`) and the return (`MxSent`, `TgSent`), and may
end in an error, a cancellation or a kill before or after the arrival. `limits`
chooses the newest events a `/sync` returns and the length of the ring of seen
ids. `stuck` are the Telegram messages whose `get_sender` raises every time: the
loop gives the poll up there (`TgStuck`), as it does for a failure that passes
(`TgPollError`). The assumption `RelayBounds` says how long the ring must be for its job, and
the code's 500 against batches of 10 is.

## Runs

| run | shows |
| --- | --- |
| `codes` | copies never promise more than was issued; uses are conserved until a stale copy is written back, but for rooms and accounts whose answer was lost; a dead code stays dead |
| `codes_overspend` | **violated:** a code grants at most what was issued on it |
| `lobby` | only a haiku opens the space, and in a room recorded as promoted somebody was invited (`SpaceOnlyByHaiku`); tries, reposts and welcome codes are bounded (`BudgetsKept`); the bot sits in every room it calls open (no crash); `lobby.json` is a `LobbyBook` |
| `lobby_live` | without a crash, and unless the flow was disabled at the start, stale rooms end and joiners are challenged (`EverybodyIsServed`) |
| `lobby_forgotten` | **violated:** a minted room stays recorded |
| `vetting` | the books are an airlock's; only the owner's haiku opens the space; replies, tries and welcome codes are bounded; the displayname advice works when nothing crashes; stale rooms end in spite of crashes and guests are greeted when nothing crashes (`EverybodyIsServed`) |
| `mainloop` | a start or failure is told once, and again only for a scan given up or a file deleted, and no false alarm is raised (`ToldRight`); whoever stays challenged gets noted, and a failure of a known room is told (`AreTold`); commands are carried out for admins only, once per loss of the cursor, never for the bot itself, and are lost in known ways only (`CommandsAreSafe`); those fetched do not wait for ever (`CommandsAreDone`) |
| `selfheal` | history is lost by three named mishaps only; a bot that is up has all of it; the startup ends but for three other named mishaps |
| `selfheal_history` | **violated:** history is kept |
| `relay` | no echo, no repeats but after the breaks that explain them, order (`Mirrored`); every message relayed or lost in a known way (`Accounted`); both sides keep up, the Telegram side unless a message whose sender can never be fetched is in its way (`KeepsUp`) |
| `responder` | a client told "done" has its device verified, and keeps it but for two named cases; sessions end and MACs are answered unless something failed; history comes from inviters only, whole or with a failure; inviters are served |
| `account` | an account that has its answer is in every room but those whose join failed; the keys of the published identity are held by somebody unless the call that published it broke; "signed" is true; what a finished bootstrap prints is there; bootstrap finishes unless a run broke half-way |

### Findings

* **A single-use code can admit several people** (`codes_overspend`). Two
  requests load the file before either saves; both pass the check. The same
  write-back undoes a `!revoke` or loses a `!mint`. `UsesConserved` shows, and
  TLAPS proves, that the count of a code goes wrong in no other way. A room or an
  account that costs no use (`unpaid`) is another matter: it takes a lost or
  unreadable answer of `createRoom` or `register`, or a kill in that await, and a
  signup retried after it finds its name taken.
* **A lobby room can be forgotten** (`lobby_forgotten`). The loop's save erases a
  room `/join/api` recorded during the cycle; the code is spent, and whoever
  follows the link meets silence.
* **History is lost when the environment token dies** (`selfheal_history`). A live
  `MATRIX_TOKEN` returns before the device id file is written. Once it is
  revoked, the login has no cached device id, the store of the bot that ran
  until now passes for a stale one, and it is wiped without an export.

Four more contradict a text of the repository and have no run of their own: the
properties are stated around them.

* **The displayname advice cannot work in the lobby.** The lobby notes a name when it
  challenges someone; later joins of those challenged are filtered out
  (`approver.py:973`, the `Batch` of `Lobby`), so a haiku sent again after setting a
  name is refused again, although the refusal advises just that
  (`approver.py:623`). In a vetting room the advice works
  (`AdviceWorksUnlessCrashed`).
* **The relay does not retry a failed Matrix event.** The comment at `relay.py:322` says
  "Don't advance past this event on failure"; the cursor was moved past it
  before (`relay.py:266`), and the event is in `mx_seen`. `Accounted` names these
  events (`mxFailed`). Nor does it on the Telegram side, unless the failed message
  is the last of its poll: "leave cursor behind so the next pass retries"
  (`relay.py:361`) holds until the next message, or the relay's own echo, moves the
  last id past it (`tgFailed`). So "on restart the relay catches up everything
  missed during downtime" (`bridge/README.md:50-51`) is not so on either side;
  besides, `MxSync` and `TgPoll` reach back to the newest events only.
* **Any 403 is "already a member"**. The room is closed, a
  welcome code minted, and the person told that they are in, although they were
  banned from the space or the bot has lost its right to invite. The comment at
  `approver.py:1031-1034` names the second case and sets it aside. A room
  closed for that reason says nothing of anybody, so `PromotedIsInvited` is said of
  the other reason only, which the code must keep apart from it.
* **A stuck message blocks the Telegram queue**. `get_sender`
  (`relay.py:356`) is awaited outside the `try`; while it raises for a message,
  each poll ends there, and neither the message nor anything behind it is
  relayed, until `TG_POLL_LIMIT` newer ones push it out of the poll. The docstring
  (`relay.py:329-331`) says that a stuck message cannot block the queue. `KeepsUp`
  holds but for this case (`TgBlocked`), and without the exception TLC finds it violated at once.

The exceptions in the properties are findings of a smaller kind. `ComesUp` needs
three: after a crash (or a raising export) between the login on a new device
and the wipe, no later boot wipes, and the store cannot be opened, ever; so it
is when a crash leaves the token without its device id, or when the environment
brings a token of another device than the store's. `HistoryKeptUnlessMishap`
needs three: the wipe of the finding, an import cut short, and a run as nobody,
each of which can leave a later export short. `EverybodyIsServed` of the lobby: a
crash between leaving a lobby room and saving leaves an open record of a left
room; a repost due there is refused and ends the process, and does so again at
every boot, before the cleanup is reached. The other exception is the loop that was
disabled at its start: links are handed out and nobody is there. `KeepsUp` of the
relay: `TgBlocked`.

What the bounded properties spell out besides: a crash gives tries back, a
re-join after the last try brings a new challenge, a crash between an
invitation and the save hands out a second welcome code, and a signal during a
send can repeat a Telegram message in Matrix (`TgOnceUnlessBroken` allows one
repeat per break). An admin command is carried out once more after the cursor
was lost, a `!mint` too (`ObeyedOnce`); one that was queued when the process died
is gone (`killed`), as is one read by a bot whose `/whoami` failed (`unread`).

The responder's are these. The trust in a verified device goes when another
device of the same user is stored (`replaced`; `put_devices` replaces all of a
user's devices), or when a handler that had looked the device up before stores
it as unverified and is killed before the next store (`halfway`; also if another
device's entry erases it in between). A session whose
method was refused, or whose handler raised, stays in the dict (`SessionsEnd`). A
bundle that comes before its sender's invitation is dropped for good, because
Olm does not decrypt it twice; after a restart the inviter of a room already
joined is not known any more, and a join that fails is not tried again until
the invite is shown again (`InvitersAreServed`).

A bootstrap run that breaks after its first room cannot be completed by running
the script again, although line 22 says that re-running reuses what is there:
the state file does not know the rooms and their aliases are taken. Only a new
server leads out (`halfBuilt` in `SetupEnds`). The request that links a room into
the space is not checked (`unlinked`). A cross-signing identity whose call broke
after the upload has no private keys anywhere (`lost`); another call replaces it.

### Bounds, and why they are enough

* `codes`: 2 codes, 2 requests and the sync loop, counts up to 2. Three
  suspended handlers is one more than a stale write-back needs, and two codes
  are what it takes for one handler to overwrite another's code. The constraint
  `FewGrants` cuts behaviors in which stale copies are passed to and fro, after
  three grants of a code, or two of them without an answer.
* `lobby`: 2 rooms (a batch spans rooms, one is minted while the loop works on
  the other), 1 person, 3 events, 2 tries, 1 repost, 1 crash. Joining, a bad and
  a good haiku, or joining twice around the last try, fit in three events.
  Rooms are symmetric. `lobby_live` and `lobby_forgotten` use two events.
* `vetting`: 2 rooms, 1 person, 4 events, 2 tries, 1 crash: a knock, the join, a
  refused and a good haiku.
* `mainloop`: 2 rooms (one note must survive the other's), 1 person in them, 1 scan
  given up or death, 1 deleted file, 2 people in the admin room (one on the
  allowlist, one whose power level comes and goes), 3 commands with the bot's
  own replies, 2 misses (a failed request or handler, an event not delivered).
  The whole product is too large, and `Load` bounds it: two rooms, or one room
  with a command or a deleted file, or three of commands, promotions and misses.
  The scan and the commands share nothing but the loop and its deaths, so one of
  the two at its full size beside a little of the other is what can matter.
* `selfheal`: 3 turns of the operators, 2 crashes, 1 unanswered request, 2
  sessions (one can be in the escrow, or imported, without the other). A turn
  each brings a new environment token, revokes it and revokes the cached one.
  With 2 unanswered requests it also passes, with 2 million states.
* `responder`: 2 transactions, of two devices or of one; 2 people who invite or send
  a bundle of 2 sessions; one mishap on either side (a request or join that
  fails, a restart, a client that gives up). Transactions and people are numbered
  as they first do something, which is their symmetry broken by hand. `MaxBegun`
  allows both verifications, or one beside the whole of one inviter, or both
  inviters. Two verifications are what every race here takes.
* `account`: 2 rooms besides the space (a run may break between them), one wiped
  server, 2 calls for cross-signing, the 4 looks of the code, and 2 mishaps: a
  failure, and one in what repairs it. The model stops when all is done
  (`CHECK_DEADLOCK FALSE`).
* `relay`: 3 messages in any split, besides a Telegram backlog of one or none,
  a poll of 2, a `/sync` of 2 with a ring of 3 or of 1 with a ring of 1, one break (failed send or poll, stop, kill) and one lost or
  rewound cursor; any of the Telegram messages may be stuck, which costs no break. Three fresh messages are more than a limit lets through, and a
  batch of two has one message behind a failed one. Both loops only wait when
  nothing is new, so this model may stop (`CHECK_DEADLOCK FALSE`).
  A ring of 2 * sync - 1 ids is what the assumption asks for; with a ring of sync
  ids `Mirrored` fails, and with two breaks and two rewinds, 21 million states,
  it holds.

The bounds are guards on the environment (`MaxEvents`, `MaxCrashes`, `MaxPosts`,
`MaxBreaks`, `MaxRewinds`, `MaxWipes`, `MaxTurns`, `MaxFlakes`, `MaxSent`, `MaxMisses`,
`MaxLoad`, `MaxMishaps`, `MaxTroubles`, `MaxBegun`, `NCalls`); no step of the code is cut off
by one, except that a failed send counts against `MaxBreaks`, an unanswered
request against `MaxFlakes`, and a request that fails against `MaxMisses`,
`MaxTroubles` or `MaxMishaps`. An error reply beyond `MaxSent` is sent, and not
kept in `chat`.

### Fairness

`FairSpec` of `Lobby` and `Vetting` is weak fairness of the loop's steps: asyncio
resumes a loop whose await is done, requests return or raise, and docker
restarts a dead process. A lobby loop that is disabled has no step to be fair
about, and nothing says that anybody reboots it. `LoopFairSpec` of `MainLoop` and `FairSpec` of
`SelfHeal` are the same for the cycle and the startup. `FairSpec` of `Responder` has the loop's `/sync` and,
apart from it, the handlers: each await ends, and asyncio resumes who waits.
`FairSpec` of `Account` says that whoever sets up a server runs the script until
it is through (`RunsAgain`); nothing else there is fair. `FairSpec` of `Relay` asks the same of each of its two
loops while the process is up, and nothing makes anybody start it again, so its
liveness properties end in "or the relay is down". Failed sends and polls are
bounded, so they pass; a `get_sender` that raises every time is not one of them, and
its step, the end of the poll, is fair like the others. A send that always fails
holds up nothing behind it, and is not in the model. People are never fair: nobody
has to join, answer or write, and no crash has to happen.

## Proofs

Every safety property that a run checks is also a theorem, for every value of
the constants that the named assumptions of the modules allow:

* bounds are naturals, and what is counted down starts above zero (`BoundsAssumption`
  and `SeedAssumption` of `CodeBook`, `LobbyBounds`, `VettingBounds`, `AnnounceBounds`,
  `LoopBounds`, `SelfHealBounds`, `RelayBounds`, `SasBounds`, `InviteBounds`,
  `BootstrapBounds`, `AccountBounds`);
* the slots for requests are finitely many (`NamesAssumption` of `CodeBook`), since those
  cut off by a death are counted;
* a placeholder for "no such record" is not a record (`NamesAssumption`,
  `NothingAssumption`, `NoFileAssumption`, and `EntryAssumption` of `Lobby`, the same of
  the readers' view), and the bot is not one of the people (`CommandsAssumption`);
* the ring of the relay holds two batches less one (`RelayBounds`). The code
  keeps 500 ids, and a `/sync` gives 10 events of a room by default.

A theorem comes from an inductive invariant, which TLC checked on the runs'
instances before it was proved. The invariants are long because the
properties are end-to-end and the code's guards are local. `Step...` lemmas take
one action each; lemmas about sequences and records come first in each module.

* `CodeBookProofs!TypeCorrect` and `CopiesSound`. `uses_remaining` is decremented
  on a copy, so that it stays a natural number is not local: it follows from
  `Within`, which says of *every* copy, the file and the suspended ones, that it
  lies within what was issued, and of every suspended handler that its own copy
  still has the use it is about to take. `TInv` is the type part the other
  proofs rest on. `UsesConserved` is inductive given `TInv`. In `Spend` either the copy is the file or
  `clobbered` is set; `Unanswered` and `Restart` grant and leave unpaid the same number, the
  latter one for each handler whose request had taken effect. `DeadForGood` is an action property, one case per action.
* `LobbyProofs!LobbyInv`. `BooksSound`: what either copy of `lobby.json` says of a room
  is true of the world (minted, challenged, named). `BudgetSound`: tries and
  reposts still on the books, with those already spent, are within the budget
  of the challenges posted; this holds of the loop's copy and of the file *only
  while the copy is clean*, as a dirty copy has spent what the file still
  offers. `LoopSound` and `EventsSound`: where the loop is, and that a message it
  will judge comes from someone challenged. `EventsCounted`: a welcome code has
  cost an event, which is why the saturating count of crashes is enough.
  `SaveSound`: what the next save makes of the file is a move of `LobbyBook`.
  `NotesTrue`, of both copies: a promotion noted has somebody behind it; the second
  half of `SpaceOnlyByHaiku` is drawn from it.
  From it follow `LobbyTypeCorrect`, `LobbyOnlyByHaiku`, `BudgetsAlwaysKept`,
  `AlwaysInside` (which the crash case of the invariant itself needs: a refused
  post cannot be the first mishap) and the refinement `LobbyIsBook`: `OpenRoom` is a
  `Mint`, a dirty `Save` a `Save`, all else a stutter.
  `Least`, a set of naturals has a least one, stands in for induction: it is drawn
  from the well-foundedness of strict inclusion between finite sets.
* `VettingProofs!VInv` is `TypeOK` with three parts it needs: `FileSound` (an open
  record on disk has a try left), `CopySound` (the loop's copy is the file, or
  ahead of it by legal moves, room by room, in the states where it is used) and
  `CurSound` (where the loop has a current room, it has a record). `TypeOK`
  alone is not inductive: that `left` never drops below zero needs the judged
  room to be open. In `VettingIsAirlock`, `OpenRoom` maps to `Admit`, `Save` to
  `Settle`, every other step to a stutter; `CopySound` is what makes `Save` legal.
  `RepliesBounded` strengthens to `TriesCounted`, `WelcomesBoundedAlways` to
  `WelcomesCounted` (whether the current records know of the promotion).
  `SpaceOnlyByHaikuAlways` rests on `HaikuInv`, which follows a displayname and a
  haiku from the event through the batch to the record; `AdviceWorks` on
  `AdviceInv`, which says that a name set is on record or ahead of the messages
  in the queue, for the batch at hand and the next one.
* `MainLoopProofs!AnnounceInv`. A start told once more has been paid for:
  `startTold` is below `breaks + wipes` unless the start is noted where the next
  scan, or the rest of this one, looks (`StartsCounted`), or its room is gone. That
  a room which is gone does not come back, and a closed one does not change, is
  `LobbyBook`; that the real `lobby.json` is one, `LobbyIsBook`. `CommandsInv` says the same
  of commands and lost cursors (`ObeyedCounted`), with `QueueSound` and `RightsSound`
  (a command past the check is rightful, whoever lost the right since).
* `ResponderProofs!SasInv`. `DoneMeansVerified` needs that a MAC is judged by the
  session it was made with (`MacsMatch`), and that needs the order of a client's
  events within its queue and batch (`Ordered`, `CommitSound`): after the keys were
  compared, nothing that makes another session is on its way. `ImportsSound` is the
  invariant of the invitations. Both act on disjoint variables, which the
  composition in `ResponderTypeCorrect` uses. The proof found the history
  variable `halfway` of `Sas` too small: a device also loses its trust when the
  handler on its way to trust it is killed after another device's entry erased
  the one it had written. TLC's instance did not reach it; the definition is
  corrected.
* `RelayProofs!RelayInv`. `Ring` is the heart of it: the ids in the ring do not
  repeat, and none was a batch newer than one marked after it, so that an id
  pushed out is older than what any batch can still bring, wherever the cursor
  was put. It is there that the size of the ring is used. `MxCounted` and `TgCounted` then
  count copies by what the books that count (`Held`: those in memory, or those a
  start will load) still remember; `SeenTold` and `PassedTold` carry `Accounted` from
  one poll to the next, and `Ordered` compares copies with where each loop is.
* `AccountProofs!AccountInv`. `FileSound`: who knows of one room of this life of the
  server knows of all, so `RunSound`, the rooms a run has behind it, can be
  taken up by a later run from the file. `SignupSound` is the same of the account,
  `CallSound` says where the keys of each call are.
* `SelfHealProofs!SInv` is `TypeOK` with `Shape` (a store is there, of the right
  device, where it is written to). `HistoryInv` strengthens
  `HistoryKeptUnlessMishap`: but for an import under way the store has all that
  the escrow has, so truncating the escrow loses nothing; before a wipe the
  escrow has all that the store has. `HistoryKeptAlways` and
  `UpMeansWholeAlways` follow.

Only model-checked: liveness, for the prover has no ENABLED (`EverybodyIsServed` of
both doors, `AreTold`, `CommandsAreDone`, `KeepsUp`, `SessionsEnd`, `MacsAreAnswered`,
`InvitersAreServed`, `SetupEnds`, `ComesUp`), and the three violations, which are
counterexamples. What a recursive definition computes for every input is out of
the prover's reach; the models use none.

## What is left out

* Texts, the wiki fetch, audit lines, aliases and federation delay. `_vet` is
  "a proper haiku or not" and "a displayname or not".
* The server is reliable but for refusals: it gives each batch once per cursor,
  in order, and a membership it reported stands. A batch of the lobby or knock
  door is never limited.
* In `CodeBook` a file is one of the two; `!revoke` looks into `codes.json` first.
  A code that is in both files is not modelled.
* In `Lobby` and `Vetting` whether a code is good is a free choice; `CodeBook` has
  that part. `Vetting` takes the lobby's loop only as a source of crashes.
* A room whose `createRoom` succeeded without an answer is counted in `CodeBook`; it has no
  record in `lobby.json`, so it is not one of `Lobby`'s rooms. Nobody is given its link.
* A displayname is set, never removed, in either door.
* `Announce` does not tell `already_member` from `promoted`. A lobby whose people ran
  out of tries looks like a ghost room when it times out, to the code and to
  `FailuresAreTold`.
* `SelfHeal`: the onboarding bot takes the same login paths and keeps no store. The
  `/sync` cursor the wipe deletes and the side files of sqlite are left out. A
  login on a known device invalidates its other tokens, as Matrix specifies;
  nothing changes on the server during a startup.
* `Announce` and `Commands` share no state in `MainLoop` but the loop: the lobby's
  people and the admins are different ones. Knocks and vetting rooms, which come
  first in the same cycle, are in `Vetting`; here they are one cause of `Dies`.
* In `Commands` a message the bot posts by itself is not a command; a handler that
  raises has done its work or not, and counts as having been carried out.
* In `Relay` messages of a kind the relay does not carry are left out (they take
  the path of its own echo).
* `Sas`: one user with several devices; the emoji, the olm computations and the
  forms of the JSON are taken as right. An event that carries no transaction, or
  a key from an unknown one, is dropped by the code and not in the model. What
  the bot sends is answered by the client at once.
* `Invites`: one room; everything is kept by room. A person invites once and sends
  one bundle. The intro message and the chat commands keep no state.
* `Account`: one account and no displayname. Of the direct room with the inviter
  only the time it takes is there. Spending the code is in `CodeBook`.
* `Bootstrap`: the codes the script makes up, and what it prints besides the rooms.

### Not modelled

* `build_room_key_bundle` (`approver.py:1560`) is a pure encoding and one upload that
  only a test calls.
* `_lobby_accept_pending_invites`: a startup convenience that joins rooms the lobby
  bot was invited to by hand.
* `bridge/mx.py` besides its cursor store and `bridge/tg.py`: a command line over
  client libraries. Its bootstrap (account, cross-signing, recovery key) runs by
  hand and once.
* `deploy/` and `deploy/admin/`: scripts run by hand, one request after the other,
  without state. The web pages, nginx and CI.

## Plan

1. Done: `CodeBook`, `Lobby`, `LobbyBook`, `Airlock`, `Vetting`, `Announce`, `Commands`,
   `MainLoop`, `SelfHeal`, `Relay`, `Sas`, `Invites`, `Responder`, `Bootstrap`, `Account`.
2. Done: proofs of every safety property the runs check, and of both refinements.
   Next, the composition of `Lobby` and `Announce` as one theorem, and from the
   invariants here action properties no run states yet (a closed record of
   `lobby.json` does not change; a cursor of the relay goes back only by a rewind).
3. Later, if the code grows there: the first boot of the bridge's own account
   (`bridge/mx.py`).
