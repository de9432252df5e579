# CrossPlay in TLA+

CrossPlay is the firmware of an ESP32-S3 e-ink reader with games, study cards
and small network screens, and the services it talks to. This directory holds
TLA+ models of the parts of it in which several actors act at once or in which a
step may be the last one before the power goes, the TLC runs that check them on
small instances, and the theorems about them that TLAPS checks for every
instance.

Run from this directory: `tlc -config LinkMatch.cfg MCLinkSession` for a run
(section 4 names them), `tlapm LinkSessionProofs.tla` for the proofs.

## 1. The system

| Component | Source | State | Interacts with |
|---|---|---|---|
| Link session | `src/apps_local/link/LinkSession.*` | the match: state, peer, toss and roles, move counter, outgoing and incoming boards, notes, clocks | other devices, over packets; the application, through `submit`/`takeIncoming`/`announce` |
| Link protocol, transport | `LinkProtocol.*`, `LinkTransport.h` | none | one packet in, one packet out |
| Link radio | `LinkRadio.*` | a 6-slot ring filled by the Wi-Fi task and drained by the loop task; who holds the radio | the session; Developer Mode |
| Link lifecycle | `LinkPlay.*`, `LinkActivity.*`, `LinkEndgame.h` | the seats, the rematch question, the hold of the final board | the session's notes and states; the render task |
| Activity manager | `src/activities/ActivityManager.*`, `RenderLock.h` | the activity stack, one pending transition, the render task's notifications, one waiting caller | every screen |
| Input gates | `src/util/ButtonReleaseGate.*`, `MappedInputManager.*` | the arm that holds a release back, the release a long press swallows | the activity manager, every screen |
| Live | `src/apps_local/live/*` | the pairing file, the picture on the glass, the schedule | the service, the card, the radio, sleep and wake |
| Wallpapers | `src/apps_local/wallpapers/*` | the chosen picture or set, its marker | Live, with which it shares the sleep picture |
| Study | `src/apps_local/study/*` | the deck's files, the review log, UNDO, `.bridge` | the Study service |
| Study service | `server/study-bridge/*` | a journal, the posted states, jobs, a mirror of the collection, the newest build | the reader; AnkiWeb |
| Boot, sleep, main loop | `src/main.cpp` | the RTC timer, what a wake is read as | Live, the activity manager |
| Developer Mode | `src/DevMode.*` | join state, the yield depth | link radio, Live, the web server |
| Stores | `lib/Serialization/PersistableStore.*`, settings, shelf | files on the card | every screen |
| Instapaper, trivia, HN, Wikipedia, notes, calculator, solo and linked games, readers, library index, OTA, web server | `src/apps_local/*`, `src/activities/*`, `lib/*` | files and screens of one user | the stores, HTTP bridges |

What is hard in it:

1. **The link**: a peer-to-peer protocol with no server, on a radio that loses,
   repeats and reorders. Discovery among any number of devices, a match that one
   side may enter before the other, strict alternation carried by whole states,
   acknowledgements that may be late, a second channel for notes, and ends that
   may be silent.
2. **The life of a match above it**: a rematch is agreed over the notes while the
   new game's first state travels on another channel.
3. **The sync of a Study deck**: an answer goes through a log, a POST, a journal, a
   mirror and AnkiWeb. Each of them may stop, be retried, be replaced from outside
   or be behind the others, and none may lose the answer or count it twice.
4. **Live**: one wake is a chain of steps, each of which may fail or be the last
   one before the battery goes, on a card whose rename cannot replace a file.
5. **The screens**: the render task and the loop task share the screen on top, a
   mutex and one waiting caller, while screens come and go with buttons down.

`PROJECT.json` lists every hazard at its line, and the properties that cover it.

### What makes each part correct

- Link session: two devices of a match never both have the turn, never lose it,
  never disagree on the board by more than the move in flight; a move is resent
  until it has arrived; searchers meet; nobody stays on a board whose opponent
  is gone; roles are opposite.
- Lifecycle: two devices agree on whether a rematch runs and on who moves first; a
  finished match is counted once on each device, and on both.
- Screens: nothing destroyed is drawn; a waiting caller wakes; no request for a
  picture is lost; a result goes to the screen that asked; no screen acts on the
  release of a button whose press it did not see, and none is kept from its own.
- Live: the glass always has a whole picture; the stored tag is that of a picture
  that was placed; a sleeping reader has a timer and keeps its backoff; the newest
  picture is shown in the end.
- Study: an answer the service took is kept until AnkiWeb has it; none is left out
  of a POST, sent after it was taken back or counted twice; what `.bridge` says of
  a deck is true of the card; an answer arrives.

## 2. Modules

| Module | What it is |
|---|---|
| `LinkSession.tla` | `linkplay::Session` on any set of devices, with the air between them |
| `LinkSessionProps.tla` | its properties, fairness, refinement mapping and inductive invariant |
| `AlternatingGame.tla` | what a match promises: one log of moves, each device sees its moves in order, a mover has seen everything |
| `LinkSessionProofs.tla` | its theorems about a match |
| `LinkMatchProofs.tla` | about the notes, and about who has left |
| `LinkGameProofs.tla` | that one match implements `AlternatingGame` |
| `Rematch.tla`, `RematchProps.tla` | `LinkActivity`, `PlayBase`, `Endgame` and the games' hooks on the two devices of a match; properties and fairness |
| `RematchProofs.tla` | its types, and who may start another game |
| `RematchGameProofs.tla` | the game that two devices then play, and the count of its results |
| `Screens.tla`, `ScreensProps.tla` | the activity manager, the render task, the main loop around them; properties and inductive invariant |
| `ReleaseGate.tla` | `ButtonReleaseGate` as operators on sets of buttons |
| `ScreensProofs.tla` | its theorems |
| `LiveSchedule.tla` | `LiveCore.cpp`: the arithmetic of the schedule |
| `LivePicture.tla`, `LivePictureProps.tla` | a check, the card, sleep and wake, the app, the phone; properties, fairness, invariants |
| `LivePictureProofs.tla` | its theorems |
| `StudySync.tla`, `StudySyncProps.tla` | one deck from the answer to AnkiWeb and back, on the reader and the service; properties and fairness |
| `StudySyncProofs.tla` | its invariants and theorems |
| `MC*.tla` | what the runs instantiate, with the constants a `.cfg` cannot write |

Operators named in a comment as a mutant, or as a wrong reading, belong to no
action: each is a mistake that the code could have made in the definition after
it, and one of the properties fails when it takes that definition's place.

The five models are composed by what each takes from the other. `Rematch` takes the
session at the word that `LinkSession` gives (newest state and note arrive, never an
old one after a new one). `LivePicture` holds the part of `main.cpp` and of
`WallpapersActivity` that Live shares state with, `Screens` the part that it runs
between two sleeps. `Screens` lets a screen's body be any sequence of calls, so what
it shows holds of every screen of the other models.

## 3. How the modules correspond to the code

### `LinkSession.tla`

One action is one packet handled by `handlePacket`, one branch of the timed tail
of `tick`, or one call of the application. A `tick` drains at most 16 packets and
then looks at its timers; here each packet and each timer is a step of its own,
so a call of the application may fall between two of them. That adds only ticks
that end early because nothing more was due.

| Code | Action |
|---|---|
| `begin`, `reset`, `leave` | `Begin`, `Drop` (also a loss of power), `Leave` |
| `handlePacket`, searching | `HearSearcher`, `MatchOnJoin`, `MatchOnTraffic`, `Ignore` |
| `handlePacket`, playing | `HearJoin`, `HearState`, `HearAck`, `HearSay`, `HearSayAck`, `HearDeparture`, `HearEarlyHello`, `Ignore` |
| tail of `tick` | `Forget`, `HelloAgain`, `JoinAgain`, `Silence`, `SayAgain`, `StateAgain`, `Heartbeat` |
| `submit`, `takeIncoming`, `announce`, `takeAnnouncement` | `Submit`, `TakeIncoming`, `Announce`, `TakeAnnouncement` |
| the millisecond clock | `Elapse`: a tracked timer becomes due; timers not in `Tracked` may fire at any moment |
| the air | `net`, `After`, `Lose` |

State is one function per field of `Session`. `Nobody` stands for
`hasCandidate_ = false`. The payload is the sequence of the movers so far, so a
move lost, repeated or built on a stale position is a different payload; `board`
is the application's own copy of it. `life`, `peerLife` and a packet's `life` and
`phase` are history: they are on no wire and no action reads them except the air.

What is abstracted: magic, game id and length filters (`decode`); the wording of
names (`peerName` is whose name it is); the accessors; three copies of a `Bye`
(one packet, which the air may lose or repeat); the radio's transmit errors (the
packet is lost); the budget of 16 packets.

The air. `net` is a set: a packet sent twice is one element, and an air that is
`Sticky` never removes it, so it may be heard any number of times, in any order,
as long as its receiver listens. An air that is not `Sticky` delivers a packet
once or loses it, and needs the retries. Two limits of disorder are assumed. They are
assumptions about the radio and the room, and are written in no code (the fake medium of
the tests, `host-tests/link/FakeLink.h`, has neither):

- a packet of an earlier `begin` is not heard after one of a later `begin` of the
  same sender (`Older`): the radio is off and the screen changes in between, while
  a packet waits for milliseconds in a queue of five;
- only where a run says `Ordered`, a packet of a device's search is not heard after
  one of its match. Without it a Hello of
  a device's search can end the match it led to (section 6).

A device whose session is not open hears nothing and keeps nothing: `Radio::end`
empties the ring, and `Radio::begin` opens with `end()`.

`Steady` says that a device that keeps sending is heard within the three seconds of
`kCandidateForgetMs` and the ten of `kPeerTimeoutMs`: then `Forget` and `Silence`
fire only on a device that has stopped sending. Only the two liveness runs
(`link_live`, `link_orphan`) assume it. Everywhere else the timers may fire on a
healthy peer.

### `Rematch.tla`

One action is one pass of `LinkActivity::loop`, with no tap (`PassIdle`) or with one
(`PassAsk`, `PassMove`, `PassLeave`); a packet taken by `tick` (`HearState`, `HearSay`,
`HearBye`), its silence clock (`Silence`); or a frame that reaches the panel and with
it the table taps are routed by (`Paint`). `Driven` is `driveLink()` in its order: the
note, the opponent's state, the endgame, the question, the ended match, the handover
of the screen. `Propose`, `StartRematch`, `LeaveLink`, `EndgameUpdate` are the functions
of those names; `d` is one device's session, activity and board.

The session is taken at its word (the link runs): the newest state and
note arrive, perhaps late, perhaps after one another in the wrong order, never an old
one after a new one. A state and a note are ordered by nothing. Three habits of the
people and the room are constants, so that a run names what it assumes:

- `Swift`: what a tap sends is heard, and acted on, before the same player taps again.
  The session retries every few hundred milliseconds. Without it a NEW GAME can
  overtake the move made just before it, and chess gives both players Black: with
  `Swift = FALSE` `SeatsDiffer`, `SameGame`, `NotStuck` and `CountedOnce` fail
  (section 6). No code enforces it;
- `Patient`: who has asked does not tap PLAY AGAIN again. Without it, in a third game,
  the second note reads as a fresh request and its answer starts a game alone: with
  `Patient = FALSE` and `MaxGames = 3` `NobodyRestartsAlone` fails;
- `MidGame`: the game has NEW GAME on its board (chess, battleship).

What tells the games apart is in `Styles`: `seatBy` (the toss, or the session's turn)
and `opening` (both deal the same board; one deals and sends; one deals and passes).
The rules are abstracted to a count of moves, whose turn the rules say it is, and a
winner. The hold of the final board ends at any moment (`expired`).

### `Screens.tla`

A screen is a model value; `onEnter`, `loop` and the result handlers are *bodies*
(`act`, `enter`, `handle`): any sequence of calls into the manager. One step of the
main task is what it does between two points where the render task can tell the
difference, which are the mutex, the notifications and the waiting caller.

| Code | Action |
|---|---|
| a pass of `loop()` in `main.cpp` | `Proceed`, `Skip` (an early return), `PowerChanged`, `GoToSleep` |
| `mappedInputManager.update()` | `Poll`, in each of these; `Pump` when a body polls for itself |
| `wasLongPressed` | `LongPress` |
| `ActivityManager::loop()`, first half | `Consume`, `HomeGesture`, `LightPanel`, `RunTop` |
| its loop over the pending action | `TakeLock`, `PopLast` and `goHome`, `PopQuiet`, `PopResult`, `Push`, `Replace`, `Flush` |
| `requestUpdate`, `requestUpdate(true)`, `requestUpdateAndWait` | `RequestUpdate`, `RequestNow`, `RequestAndWait` and `Resume` |
| `startActivityForResult`, `finish`, the `goTo` functions | `Start`, `Finish`, `GoTo` |
| a body returns | `Return` |
| `renderTaskLoop()` | `Wake`, `BeginDraw`, `EndDraw`, `NothingToDraw` |
| deep sleep, the restart that ends the USB drive | `Reset` |
| `ButtonReleaseGate` | `arm`, `settle`, `passed` in `ReleaseGate.tla` |

`pc` is where the main task stands; `owns`, `long` and `dirty` are history. The
`Apps` are started by another screen or pushed as a panel, the `Places` are put in
place of all others. Left out: what is drawn, night polarity, the orientation that
maps buttons, the timing of the home key and of a hold, a failed allocation, and
screens that are not alive more than once at a time in the stack.

### `LivePicture.tla` and `LiveSchedule.tla`

One action is what happens up to the next write of the card, the next packet, or the
next point at which the power may go (`Cut`, and `Aborts` in a wake by timer).

| Code | Action |
|---|---|
| `joinWifi`, the GET and its statuses in `checkNow` | `JoinFails`, `PullFails`, `PullRefused` (401), `PullNothing` (304, 204), `PullPicture` (200) |
| `partIsWholePicture`, `commitImage` | `TearsUp`, `CommitRemoves`, `CommitRenames`, `CommitFails` |
| `live::save` | `SaveRemoves`, `SaveRenames`, `SaveFails` |
| `decide`, `retryDelaySeconds`, `clampInterval` | `fetchNow`, `timerOf`, `retryDelay`, `clampInterval` |
| `enterDeepSleep`, `onSleep`, `startDeepSleepArmed` | `Sleep`, `GoesDown`, `TimerDone` |
| `setup()` by the reason of the wake | `TimerWake`, `PowerWake`, `Brushed`, `ColdOnUsb` |
| `WallpapersActivity`: opening, the queued check, CHECK NOW, `toggleLive`, `pollLivePairing` | `OpenApp`, `CloseApp`, `RunLiveCheck`, `AppDone`, `AsksNow`, `toggleLive` and `LiveTakesOver`, `pollLivePairing` |
| `commitSelection` | `ChooseOne`, `Chosen`, `ChooseFails`, `ChooseSet`, `ChooseNone` |
| the phone | `Sends`, `Disconnects` |

A picture is a number in the order in which the phone drew them, and stands for its
ETag. The age of a state is the time since its last attempt, capped at `Horizon`,
where every wait is over; a state that never asked has the age `Never`, which is due
with and without a clock. `toggleLive` saves the card first, and a cut before
`LiveTakesOver` leaves the marker and the set with Live on. `brushed` is a sleep that
`setup()` began by itself: after a press too short to wake (`Brushed`), or on a board
that goes back to sleep when USB power comes (`ColdOnUsb`, `main.cpp:742`). `placed`,
`brushed`, `streak` and `owed` are history. A `.part` left over from another check is never
read, so none is kept. A set, or a marker, is written in one step with the slot.
A second phone, the list of senders, revoking one of them, and the report to the
service that Live is off have no state here.

### `StudySync.tla`

One deck, one reader, one account. On the reader an action is what `runSyncFlow()`
does between two points where the card, the network or the user can stop it; on the
service the request handler and the job are two threads, and an action is what one
of them does up to its next commit.

| Code | Action |
|---|---|
| `grade`, `undoLast` in `StudyActivity.cpp` | `grade`, `undoLast` |
| `runPairing` | `Pair` |
| `loadBridgeState`, `buildPayloads`, `syncStart` | `PackAndPost`, with `Loaded`, `Payload` and `Offset` |
| its failures; its answer | `NotSent`; `TakeAck` |
| the poll of the job | `SeeDone`, `LeavePoll` |
| `applyManifests` | `UpToDate`, `FetchFails`, `Fetched`, `RenameCards`, `RenameDeck`, `RenameMeta`, `Claim` |
| `start_sync` in `app.py`, `Journal.ingest` | `Ingest`, `Answer`, `Refuse` |
| `sync_cycle` in `engine.py` | `ReadCards`, `PullNormal`, `Replace`, `ResetApplied`, `Freeze`, `apply`, `MarkApplied`, `Push`, `PushAnswered`, `ClearPushed` |
| the builds after it | `KeepBuild`, `BuildDeck`, `SaveState`, `BuildFails` |
| the world | `Remove`, `Restore` (the card in a computer), `Cut`, `JobFails`, `Kill`, `ForceSync` (another client of AnkiWeb) |

A byte offset is a number of records, the hash of the log's first bytes those
records, a build id is TRUE of the newest build. A log that ends inside a record is
left out (section 6 says what becomes of one). Every answer has a card of its own,
so a set of answers says which cards have the schedule that goes with them; the
schedules of the cards in `Watched` only are followed. `taken` (the journal took it)
and `there` (AnkiWeb has confirmed it) are history. A new POST waits until the one
before it is answered. A cut between the removal and the rename of `.bridge` is a
save that fails (`"card"`) with `Cut` after it. `pylib` and AnkiWeb are external: a
normal sync leaves both sides with what either had, a full download replaces the
mirror.

The rename of a file of a deck may fail (`"rename"`), with the old file or none left in
its place, and the flow goes on as the code does: `applyManifests` does not look at the
results. `slipped` is history: a file was not replaced since the folder was last whole.

`apply` is the import of `deck_to_anki.py:185-205`. A row has an id, in Anki its time in
milliseconds, and an answer has only whole seconds (`Stamp`): the loop starts at the
answer's second and walks over the ids that belong to other cards, or that this import
has given out, to the first that is free or is its own card's already (`Places`, for
every order in which answers of one second may come). A collection is therefore a set of
ids for each answer, and that each has one at most is a property and not a type. Two
assumptions bound it. Answers of one card are seconds apart, a thousand ids: the journal
has one entry for a card and a second. And a client that forces a full sync has an older
collection, with nothing missing between (`OlderRows`): no client of Anki deletes single
rows. Rows of other clients at the very millisecond are left out.

Left out: the picker and the slots of several decks, rate limits, media and
fonts, statistics, and the FSRS arithmetic.

## 4. Runs

| Run | Instance | What it checks |
|---|---|---|
| `link_match` | 2 devices, tosses {0,1}, 4 moves, 2 notes of the first device, sticky air in any order, any timer at any time | types, one turn, turn not lost, boards agree, acknowledged moves and notes have arrived; the match implements `AlternatingGame` |
| `link_return` | 2 devices, tosses {0,1}, 2 moves; device 2 may leave, lose power and search again | opposite roles, THEY LEFT is true |
| `link_live` | 2 devices, lossy air, 1 move; device 2 may leave or lose power | searchers meet, moves arrive |
| `link_orphan` | 2 devices, sticky air; device 2 may leave, lose power and search again | who is left alone leaves the board, or is played again |
| `rematch` | chess and battleship: 2 games of at most 2 moves, 2 notes each, either player may leave or fall silent | nobody restarts alone, opposite sides, the same board once all is heard, somebody may move, every result counted once, oppositely, and by both |
| `rematch_stuck` | toy battle, violation | somebody may move |
| `live_check` | 2 pictures, 1 pairing, delays of 1 and 2, intervals of 1 and 2 and a hint beyond them, every fault | types, no torn picture, the claim was placed, a timer for every sleep of a running reader, the backoff holds, the newest picture is shown |
| `screens_check` | 1 gated button, 2 apps, home, the USB drive and the sleep screen, 1 screen under the top | types, own releases, the gate opens, what is drawn is alive, results go to the starter, waits end, no request is lost |
| `study_check` | 2 answers of one second, one of a card that may be deleted; `power`, `card`, `restore`, `net`, `kill` and `anki`, at most 2 blows | types, answers kept, nothing skipped, nothing taken back goes out, nothing counted twice |
| `study_live` | 1 answer, every fault but `torn`, at most 2 blows, fair | an answer arrives; the claim is on the card unless a file was not replaced |
| `study_crash` | 1 answer, the service dies (`kill`, `torn`) after a forced sync, violation | answers kept |
| `study_schedule` | 1 answer, no fault, violation | the schedule goes along |

Deadlock is not checked in the runs of the link and of a match: a device whose user
has left and whose lives are used up may stop, and so may both. The others check it.

**Bounds of the link.** Two devices are a whole match; a third matters only in
discovery, and the theorems cover any number. Two lives of one device give every kind
of stale packet: of a past search, of a past match, with another toss. Four moves let
each device move twice and leave acknowledgements of two earlier moves on the air; the
protocol compares counters only with each other, so longer games repeat these states
with larger numbers. Two notes give one that replaces another still being resent, and an
acknowledgement that is stale. One move is enough where the question is whether it
arrives, none where it is who plays whom. In `link_orphan` the air is sticky, for a
second life needs what the first one left there; nothing that liveness needs is lost by
it, for only the kinds of packet that are sent again and again are heard for certain,
and a Bye may never be.

**Bounds of a match.** Two games are one rematch, which is what the properties compare;
a game of at most two moves may be won by either player, and so be continued by either.
`Patient`, `Swift` and `MidGame` (section 3) are TRUE: these are assumptions about the
players, and what fails without the first two is in section 6.

**Bounds of the screens.** One button, because the gate and the filters treat each bit
alike; two apps, so that one may be on top of, or start, the other; `UsbDrive` and
`Home` besides the sleep screen are those that are treated apart. One screen under the
top gives every shape of a push and a pop; a deeper stack repeats them, and the
theorems have no such bound.

**Bounds of Live.** A second picture is one that arrives while the first is on its way
or claimed. The delays are 1 and 2, so that the second failure reaches the cap; the
intervals 1 and 2, with a hint of 3 that must be clamped. A second pairing is left to
the theorems.

**Bounds of Study.** Three faults are in the run of one answer only: a failing
rename concerns the files and no answer; a job that fails leaves what a service that dies
at the same point leaves; and a revoked token leaves the empty `.bridge` that a failed
save may leave too. Two answers give an offset in the middle of the log, one that is
undone behind one that is not, a POST that joins a job with half of them applied, and,
being of one second, two rows that want one id.
`MaxBlows = 2` lets two of the expensive faults meet: the offset of a log that was
replaced twice, a forced sync with a death after it. Faults that need no bound (a lost
request or answer, a save that fails, a revoked token, a build that fails) are free.
`Watched` is empty where the schedules do not matter.

### Fairness

*Link.* The main loop ticks for ever, so an expired timer fires (`WF` of the timed
actions) and time passes (`WF` of `Elapse`); a packet that is sent again and again is
heard now and then (`SF` of hearing it: the air is not a jammer, which the code cannot
beat either). Nothing the players do is forced: they may never move, answer or leave.

*A match.* Each device keeps running its loop and hears what has been sent (`Runs`);
nobody has to tap, and frames need not reach the panel. `Fairness` is weak fairness of
`Runs` with its enabling condition written out (`Busy`).

*Screens.* Both tasks are scheduled (`WF` of the steps of the manager and of the render
task), and neither takes the mutex past the other for ever (`SF` of `TakeLock` and of
`BeginDraw`: FreeRTOS gives it to the waiting task of the highest priority, and both
block on other things in between). The user's gestures and the early returns of a pass
let some pass through (`SF` of `Proceed` and of `RunTop`), a body returns, and bodies do
not move from screen to screen for ever (`SF` of a `Return` with nothing pending).

*Live.* The reader's own steps run (`WF`), and of the attempts to fetch a picture, to
clear its place and to rename it not every one fails (`SF` of `Delivered`,
`CommitRemoves` and `CommitRenames`). Nothing is assumed of the person or the phone.

*Study.* The user keeps pressing SYNC and the flow goes on (`WF` of `Reader`), the
service's threads run (`WF` of `Handler` and of `Job`), and a POST that is tried again
and again gets through (`SF` of `Ingest`). That AnkiWeb stops asking for a full sync is
a premise of the property: the account is frozen until it does.

Each liveness property has a mutant in which one guard or one step of the code is wrong
and the property fails.

### What the violations say

- `rematch_stuck`. Toy battle deals by the toss and must pass by the session's turn. If
  the toss winner made the last move, the link refuses the deal and the other device,
  which has cleared its board, holds a turn it cannot use (`ToyBattleActivity.cpp:596`).
- `study_crash`. A full download replaces the mirror, and the journal is told in a
  second step (`engine.py:120`). A service that dies between the two starts again with
  answers marked applied that no mirror has; the next clean push clears them, and they
  are lost. `engine.py:16` says that a crash anywhere is a safe retry.
- `study_schedule`. A POST that finds a job running gets that job (`jobs.py:87`). If the
  job has read the posted states but not yet the journal, the answer is applied with the
  state its card had before it, is never corrected (`deck_to_anki.py:203` skips a row
  that is there), and the next build takes the old state back to the reader.

## 5. Proofs

| Module | Theorem | Property |
|---|---|---|
| `LinkSessionProofs` | `TypeCorrect` | `TypeOK` |
| | `Inductive` | `IInv` |
| | `OneTurn` | `TurnExclusive` |
| | `TurnKept` | `TurnNeverLost` |
| | `Agreement` | `BoardsAgree` |
| | `OneHost` | `OppositeHosts` |
| | `NoMoveDropped` | `AckedMoveArrived` |
| `LinkMatchProofs` | `NoNoteDropped` | `AckedNoteArrived` |
| | `LeftIsLeft` | `DepartureIsReal`, when `Ordered` |
| `LinkGameProofs` | `OneGame` | `PlaysTheGame`, when `OneMatch` |
| `RematchProofs` | `Types` | `TypeOK` |
| | `NobodyAlone` | `NobodyRestartsAlone`, when `Patient` |
| `RematchGameProofs` | `DifferentSides` | `SeatsDiffer`, when `SameDeal`, `Patient` and `Swift` |
| | `OneBoard` | `SameGame`, when `SameDeal`, `Patient` and `Swift` |
| | `SomebodyHasTheTurn` | `OneMayMove`, when `SameDeal`, `Patient` and `Swift` |
| | `SomebodyMoves` | `NotStuck`, when `SameDeal`, `Patient` and `Swift` and the seats go by the turn |
| | `CountsOnce` | `CountedOnce`, when `SameDeal`, `Patient` and `Swift` |
| `ScreensProofs` | `TypeCorrect` | `TypeOK` |
| | `Inductive` | `IInv` |
| | `OwnReleases` | `ReleaseIsOwn` |
| | `GateOpens` | `GateLetsOwnThrough` |
| | `LivingDrawn` | `DrawsTheLiving` |
| | `ResultsGoHome` | `ResultToStarter` |
| | `UsbDriveStays` | `StorageIsExclusive` |
| `LivePictureProofs` | `TypeCorrect` | `TypeOK` |
| | `Inductive` | `IInv` |
| | `PicturesAreWhole` | `NoTornPicture` |
| | `ClaimsArePlaced` | `ClaimWasPlaced` |
| | `AlwaysATimer` | `TimerKept`, which leaves out the sleeps `setup()` begins |
| | `BackoffIsKept` | `BackoffHolds`, when `BuildTimer = 0` |
| `StudySyncProofs` | `TypeCorrect` | `TypeOK` |
| | `NoReviewIsLost` | `ReviewsKept`, when `"torn" \notin Faults` |
| | `NothingUndoneGoesOut` | `UndoneStaysOut` |
| | `NothingIsSkipped` | `NothingSkipped` |
| | `WhatIsClaimedIsThere` | `ClaimIsOnCard`, which excepts a file that was not replaced |
| | `NothingCountsTwice` | `AppliedOnce`, on the assumptions of section 3 about ids |

They hold for every value of the constants that the named assumptions of the models
allow. Each proof of an invariant shows that the initial states have it and that every
action keeps it, with one step per action.

### The link

From `LinkSession.tla` only (devices are positive numbers, finitely many; tosses and
bounds are naturals): every set of devices, number of lives, moves and notes, and kind
of air. None of the properties is inductive: whether a packet heard now breaks the
match depends on what its sender has done since. `IInv` says what is missing:

- `Sound`: a packet of its sender's present life carries the sender's toss, an
  acknowledgement no larger than its counter, a state no newer than its last
  submission and equal to it when of the same number. Packets of earlier lives say
  nothing, and `Timely` says that they are no longer heard by a device matched with
  a later one;
- `Self`: in one device, a move being resent is the newest state it has and it has
  given up the turn; an undrained state comes with the turn;
- `Role`, `Alone`: a device matched with one that still searches has at most opened
  the game, in the role that the two present tosses give it. This is the window in
  which one side is in the match and the other is not;
- `Sync`: two matched devices are `Even` (same moves seen, one of them to play) or
  one is `Ahead` by the move it is resending.

`TypeInv` is proved first, then `PacketInv`, then each of the others is shown to be
kept by every action that touches its fields. The properties follow from `Sync` and
`Role` without any step of the system.

*Beside the game* (`LinkMatchProofs`, on top of `IInv`). `NoteInv`: a device acknowledges
no note newer than the newest it has heard, and a note is resent until there is a device
in the match that has heard it; without the first half, an old acknowledgement on the air
could be one of a note not sent yet. `LeftInv`: a Bye is
the last packet of a life, and once a device is known to be in the match what it sent
while it searched is spent, so that no packet says of a device in the match that it has
left. It needs `Ordered`, and section 6 says what happens without: a Hello of the very
search that led to the match is taken for a departure.

*The refinement* (`LinkGameProofs`). `PlaysTheGame` is every initial state and every step
of the session mapped to `AlternatingGame`. It is stated of `OneMatch`: two devices, one
search each, neither leaving by itself, which is what run `link_match` has, with any
number of moves and notes and any air. The abstract game has one match in it, and no end.
`IInv` does not carry it: it speaks of two devices that both play, and a move can be
delivered after its mover has given the match up for silent. `GameInv` therefore follows
a device from its search to its end (`Once`, `FromGame`), ties the two roles to the two
tosses before either has the match (`Seat`), and says that the logs of the two are
the same or one move apart (`Close`) in whatever states they are.

### The rematch

`Types` holds of any two devices, styles and habits. The state is a record for each
device, and the code changes it by composing functions (`Driven` is six of them), so the
proofs state what each function does to the fields that an invariant reads (`Hand` and
`GameOf`), and then work on those.

`QuestionInv`, for `NobodyAlone`, relates the answers of two playing devices. What a device
said and the other has not acted on is `Owed`; what it is held to is `Held`. In one game
only the answer a device is held to is owed (`Level`); when one has begun the next game, the
other is held to its own answer, and is owed one that starts the game there too (`Ahead`).
`Patient` is what keeps `Owed` at one: without it a second answer outlives the game it was
given in. The theorem needs neither `Swift` nor any style of game.

`SequelInv` adds the game, for `CalmMatch`: `SameDeal`, the styles in which both deal the
same board (chess and battleship by the turn; connect four, checkers, hex, go, knucklebones
and yahtzee by the toss), with `Patient` and `Swift`, which each theorem states as
hypotheses of its own, for no code enforces them. There is one turn, held or under way (`HasTurn`, `Sends`);
a state under way is the board of its sender (`Carried`); who has answered had nothing else
under way (`Shared`), so that a device which begins the next game (`Begun`) takes the same
turn into it that the other will find; and where the seats go by that turn, the side to
move is the side of the device that has it (`Sided`). The hypotheses are not for
convenience. What the theorems show is that the code keeps two devices in one game as
long as no tap overtakes an earlier one, whatever else is lost, late, asked or left.
Without `Swift`, `SeatsDiffer`, `SameGame`, `NotStuck` and `CountedOnce` fail; the games
that deal from one side break them (section 6); and `NotStuck` fails where the seats go
by the toss.

`CountInv`, for `CountedOnce`, has to go on where `SequelInv` stops, when one of the two is
no longer playing: the other may still hear its last state, or its answer, and count a game
the first has counted. What a device has counted and what its newest board would make it
count are its `Claims`; the claims of the two about one game never name the same winner
(`Agreed`). Only the device with the turn of an open game can end it, so the other has no
claim about that game (`Open`), and nobody has a claim about a game the other has yet to
start (`NoFuture`). A state that waits, or is still to be heard, is of the game on the
listener's table, which is not over and which no answer has ended (`Own`, `Clean`,
`Coming`): that is what makes the new claim one about the same game. `SequelComing` derives
`Coming` from `SequelInv` while both play; from then on it keeps itself.

### The screens

For any buttons, screens and depth of the stack, from `ScreensDiffer` (the special
screens are what they are called, and none is `Nobody`). `GateInv`: every button that
is down was seen by the screen on top or is armed, which `arm` and `settle` keep and
each push and pop needs. `TaskInv`: who holds the mutex is where its holder is.
`StackInv`: the screens alive are different ones, and a handler is set only for the
screen directly above. `PendingInv`: what is pending can still be done when the mutex
comes; a screen on top that waits for a result has just asked for the push of the one
it comes from, and that is what a second call in the same body replaces.

### Live

For any number of pictures and pairings, any delays and intervals that obey
`DelayAssumption` and `IntervalAssumption`, and any faults. `RetryAssumption` says what
the doubling of the delay comes to (longer after every failure, up to the cap): that is
an induction, and TLC evaluates it instead. `PictureInv` follows a picture from the
`.part` to the slot and a claim from memory to the card; `TimerInv` says that on the
way to sleep the memory still holds the pairing the card holds; `BackoffInv` that the
failures in memory or on the card are at least those owed for, whichever of the two the
next step reads. With a build-time timer (`BuildTimer > 0`) a brushed wake may be
followed by an earlier check, so `BackoffIsKept` assumes the release build.

### Study

For any answers, any faults and any number of blows.

- `PostInv`: while a flow waits, its POST is the tail of the log as it stands, and the
  answer acknowledges the whole log. Types need it: a recorded mark is a prefix.
- `KeptInv`: an answer marked applied is in the mirror, except between the replacement
  of the mirror and the second step that tells the journal. That exception is `torn`,
  where `study_crash` finds the property violated; the theorem excludes it by name.
- `UndoneInv`: an answer is in the log once, and while it can be taken back no POST
  carries it. Both must hold together for UNDO to be safe.
- `SentInv`: what `.bridge` records as sent, what a POST leaves out and what an answer
  acknowledges are answers the journal has. `Offset` believes the record only when the
  log still begins with it.
- `DeckInv`: the files are replaced only while neither copy of `.bridge` calls the deck
  current, unless the reader cannot list it; and at the claim, what came of each file is
  the newest build's, unless it is `slipped`. A rename that fails makes the mixture
  current: this is what `ClaimIsOnCard` excepts, and section 6 tells.
- `RowsInv`: an answer has one row at most, and, where a normal sync is on offer, AnkiWeb
  has none the mirror lacks, so that a merge gives none beside; no two answers share an id; and between an answer's time
  and its id every id is taken in each collection that has the row, by another card
  (`AppliedInv`). The last is what the import needs. `PlacesFacts` says where its walk
  ends: at the row the answer has, since none of the ids before it is free, or else at an
  id no other answer has. `ApplyStep` shows that rows put so keep all of it, and
  `OlderRows` is what an older collection needs to keep it.

### Only model-checked

All liveness (the prover has no fairness), `CountedByBoth` of the rematch among it.
What the doubling of Live's delay comes to (`RetryAssumption`), an induction over the
number of failures. The games that deal from one side, of which the properties of a
running game do not hold.

## 6. Known divergences

What the code does against what a comment, or a person, would expect, besides the three
violations of section 4. The properties named here are stated in the modules, and no run
keeps them, or only with the other value of the constant that is named; giving one to a
run of section 4, with that constant, shows how it fails.

**Link**

- `NoPairingCycle`, three devices. The comment at `LinkSession.cpp:161` says the
  lowest-address rule prevents a pairing cycle. It does while candidates are kept. A
  candidate that is not heard for three seconds is forgotten, and a Join that was sent
  to it may still be on its way: three devices can each be sealed by such a Join. Each
  then plays a device that ignores it, and times out after ten seconds.
- `PairAgreesOnHost`, a device that searches again. The comment at
  `LinkSession.cpp:298` says both sides compute the host from the same two tosses. A
  device that begins again rolls a new toss and may be sealed by a heartbeat of its old
  opponent's old match. The two then have roles from different tosses, until the Hello
  or the timeout ends the old match.
- `NameIsPeers`, three devices. A match sealed by an Ack keeps the name of the candidate
  (`LinkSession.cpp:167`, `:193`), which may be a third device's.
- `DepartureIsReal` with `Ordered = FALSE`. A Hello is read as proof of departure once
  the peer is confirmed (`LinkSession.cpp:276`). A Hello of the very search that led to
  this match, heard after the first Ack, ends it.
- `LinkSession.h:28` says the host is elected by lower address; the code, and the
  comment at `LinkSession.cpp:298`, elect by toss and use the address for a tie.

**Rematch**

- `NotStuck`, `Styles <- ByToss`. Connect four seats the rematch by the match's coin
  toss, as checkers, hex, go, knucklebones and yahtzee do, but who may move is the
  session's turn, which the last game has moved. When the toss winner has won, the loser
  opens with the winner's colour. The seats still differ and one of the two can move, as
  `DifferentSides` and `SomebodyHasTheTurn` show of these games too. Chess has the rule right and says why
  (`ChessActivity.cpp:1155`).
- `SeatsDiffer`, `Styles <- ByDealer`. Jaipur, like sea salt, seats by the session's
  turn. The accepter deals and sends at once; if its note is lost and resent, the deal is
  heard first and taken for a move of the old game, and the proposer then finds the turn
  its own and deals too (`JaipurActivity.cpp:287`).
- `SeatsDiffer`, `SameGame`, `NotStuck` and `CountedOnce` with `Swift = FALSE`. A note and
  a state travel on channels that nothing orders. A player who moves and then taps NEW
  GAME or PLAY AGAIN may have the note heard and answered while the move is still being
  resent: each device then takes its seat from a turn the other does not know of
  (`LinkActivity.cpp:203`), and in chess and battleship both get the second. The move
  itself, when it comes, is read as one of the new game (`LinkActivity.cpp:96`), and a
  final board is counted in it. `rematch` and the theorems of section 5 assume that this
  does not happen; the session resends every few hundred milliseconds, so that a player
  must be quicker than a lost packet.
- `NobodyRestartsAlone` with `Patient = FALSE` and `MaxGames = 3`: a second tap on PLAY
  AGAIN outlives the game it was given in.

**Screens**

- `LongPressEatsItsOwn`. A long press swallows "its release" (`MappedInputManager.h:85`).
  When the action opens a screen, the gate hides that release from the other filter
  (`MappedInputManager.cpp:382`), which keeps its mark and swallows the button's next
  release, one of a short press. `LibraryListActivity.cpp:620` relies on the opposite.
- `SleepScreenIsUp`. `ActivityManager.cpp:416` says that the sleep screen is rendered
  before the reader goes off. There is one pending transition: when the screen on top, in
  the pass that sleep runs, asks for another, the sleep screen is replaced by it.
- A caller of `requestUpdateAndWait` may be released by a picture that began before it
  asked, as `XkcdActivity.cpp:1199` says itself: the waiter is read at the end of an
  iteration (`ActivityManager.cpp:139`). `WaitEnds` says only that it is released.

**Live**

- `TimerAlwaysKept`. "Live's number wins" (`main.cpp:445`), but two ways back to sleep
  from `setup()` arm the build's timer, which a release build does not have: after a press
  too short to wake (`main.cpp:704`), and when the power comes back by USB
  (`main.cpp:742-757`). Live then sleeps until somebody wakes the reader.
- `PickerTellsTruth`. Pairing turns Live on without taking the marker off the chosen
  wallpaper, as the toggle does (`WallpapersActivity.cpp:1815`).
- Choosing a wallpaper turns Live off and keeps its ETag (`WallpapersActivity.cpp:604`).
  Switched on again, Live asks with it, is told that nothing is new, and the wallpaper
  stays until the phone sends another picture. `MessageArrives` starts from a card that
  does not hold the tag.
- A cut between the removal and the rename leaves no sleep picture, or no pairing
  (`LiveStore.cpp:73`), until the next check or the next pairing.

**Study**

- `CurrentIsWhole`. A deck taken off the card loses its slot in `.bridge` only if it had
  sent an answer. One that had not, and whose next sync is cut after `cards.dat` was
  renamed, keeps its claim, is not listed for want of `meta.dat`, and every sync after it
  says that the decks are up to date.
- "This reader and your Anki are up to date." (`StudyActivity.cpp:2557`) is also said after
  a POST joined a job that had read the journal before it, and after a push that AnkiWeb
  answered with a demand (`engine.py:164`): the answers are safe and not yet in Anki.
- `ClaimIsOnCard` without `~slipped`. "The batch renames together", for a torn pair "would
  show the wrong scheduling under the right cards" (`StudyActivity.cpp:2189`), but the
  results of `Storage.remove` and `Storage.rename` are not looked at, and the build is
  recorded whatever they were (`StudyActivity.cpp:2227`).
  A rename that fails leaves the old file, or none, among the new ones, and a deck that
  `.bridge` calls current: no later sync fetches that build again, and the mixture is
  studied until Anki changes the deck. A cut between two renames leaves such a mixture
  too, but not recorded, so that the next sync replaces it.
- A half-written answer, which the model leaves out; traced by hand. A cut while an answer
  is appended may leave a log that ends inside a record. A sync then posts those bytes
  too; the service drops the piece (`wire.py:20`) and acknowledges every byte
  (`app.py:607`). The next answer overwrites the piece (`StudyActivity.cpp:754`). If
  it differs in those bytes, the hash of the log's first bytes does not match and the whole
  log is sent again. If it does not, which takes a piece of at most the card's id and an
  answer to the same card, the hash matches, the next tail begins inside that record, and
  the answer is never sent.
- The job saves the account's state that it read before its builds over what a request has
  saved since (`app.py:663`).

## 7. Not modelled

The components with status `not_modelled` or `partly` in `PROJECT.json` say what is left
out of each and why. Most of the repository is fonts, pictures as tables, vendored
parsers, and screens of one user that run one step after the other and have their tests
in `host-tests/`; what these models map is a small share of it, and is the part in which
the order of events decides.

Hazards seen in the modelled code that no property is about: two matched devices answer
each other's Joins for ever (`LinkSession.cpp:223`); a second `announce()` overwrites a
note still being resent (`:365`); the 16-bit counter stops being newer after 65535 moves
(`:350`); a screen changes hands in the middle of a pass (`LinkActivity.cpp:161`); a
power cut inside the save of the pairing (`LiveStore.cpp:73`).

What could be modelled next: who holds the radio (the link, a check of Live, Developer
Mode) and its receive ring against a bounded queue; the sync of Instapaper; several decks
in one `.bridge`.
