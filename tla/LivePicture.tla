----------------------------- MODULE LivePicture -----------------------------
(***************************************************************************)
(* Live, the picture a phone sends to the sleep screen: the check          *)
(* (live::engine::checkNow), its state file and picture on the card, the   *)
(* way into deep sleep and out of it (src/main.cpp), and the app that      *)
(* shares the sleep picture with it (apps_local/wallpapers).               *)
(*                                                                         *)
(* The card survives a reset; everything else of the reader is memory.     *)
(* After any step the power may go.  A step writes the card once, except   *)
(* the picker's: a set or a marker is written with the slot.  The service, *)
(* the phone and the network are the environment.  A picture is a number,  *)
(* in the order the phone drew them, and stands for its ETag too.          *)
(***************************************************************************)
EXTENDS LiveSchedule

CONSTANTS
  MaxImages,   \* bound: how many pictures the phone sends
  Hints,       \* X-Next-Wake: what a reply may carry, 0 for absent
  MaxPairings, \* bound: how often a phone may claim a code
  BuildTimer,  \* kTimerWakeMicros, in units of time: 0 in a release build
  Faults       \* what may go wrong: "cut", "usb", "rename", "write", "torn", "brush"

ASSUME HintAssumption == Hints \subseteq Nat
ASSUME LimitAssumption == BuildTimer \in Nat /\ MaxPairings \in Nat /\ MaxImages \in Nat

VARIABLES
  sent, token,         \* the service: the newest image, and the device token it honours, or 0
  pairings,            \* device tokens it has given out
  card,                \* /.crosspoint/live.json; Unpaired when it is absent
  slot, shuffle,       \* /sleep.bmp; is there a chosen set in /.sleep
  marked,              \* /wallpapers/.active
  part,                \* /.crosspoint/live-sleep.part, as this check wrote it: a leftover is never read
  phase, pc,           \* what the reader is doing, and how far the check or save in it is
  work,                \* the live::State in memory: the app's, or onSleep's
  arrived,             \* imageArrived
  checkQ,              \* liveCheckQueued_ of the app
  armed, clock,        \* the RTC timer of this sleep; is the wall clock usable
  stamped,             \* unattendedWakeMagic
  panel,               \* what the e-ink shows
  placed,              \* history: <<token, image>> renamed into the slot
  brushed,             \* history: this sleep began in setup(), without a word from Live
  streak, owed         \* history: failures in a row, and the rest of the delay they call for

service == <<sent, token, pairings>>
files == <<slot, shuffle, part, marked>>
hardware == <<armed, clock, stamped, panel>>
past == <<placed, brushed, streak, owed>>
vars == <<service, card, files, phase, pc, work, arrived, checkQ, armed, clock, stamped, panel, past>>

\* What a file or the panel holds: the number of a picture, or one of these.
Images == 1 .. MaxImages
NoImage == 0          \* also the etag of a card that holds none
wallpaper == -1
torn == -2
shuffled == -3        \* a picture of the set
default == -4         \* the sleep screen of a card with no picture
ui == -5              \* the reader is awake

Unpaired == [key |-> 0, on |-> FALSE, etag |-> NoImage, fails |-> 0,
             every |-> DefaultInterval, age |-> Never]

Fault(f) == f \in Faults
\* What SleepActivity would draw now: the slot wins over the set.
Shown == IF slot # NoImage THEN slot ELSE IF shuffle THEN shuffled ELSE default
Awake == panel' = ui /\ brushed' = FALSE /\ stamped' = FALSE /\ phase' = "ui" /\ armed' = 0

------------------------------------------------------------------------------
(* live::engine::checkNow, from a state in memory to the card.              *)

Failed(st) == [st EXCEPT !.fails = Smaller(@ + 1, MaxFails), !.age = 0]
Succeeded(st) == [st EXCEPT !.fails = 0, !.age = 0]
forgetPairing(st) == [st EXCEPT !.key = 0, !.etag = NoImage, !.fails = 0, !.age = Never]
TakesAnyInterval(st, hint) == IF hint > 0 THEN [st EXCEPT !.every = hint] ELSE st   \* mutant
Adopted(st, hint) == IF hint > 0 THEN [st EXCEPT !.every = clampInterval(hint)] ELSE st

\* A failure is counted in memory and by the watch kept here.
Counted(n) == streak' = n /\ owed' = retryDelay(n)
FailsUnsaved(st) == work' = Failed(st) /\ pc' = "done" /\ Counted(Smaller(streak + 1, MaxFails))   \* mutant
FailsWith(st) == work' = Failed(st) /\ pc' = "save" /\ Counted(Smaller(streak + 1, MaxFails))
SucceedsWith(st) == work' = Succeeded(st) /\ pc' = "save" /\ Counted(0)

\* joinWifi() says no: no network, no credential, Developer Mode holds the radio.
JoinFails ==
  /\ pc = "ask"
  /\ FailsWith(work)
  /\ UNCHANGED <<service, card, files, phase, arrived, checkQ, hardware, placed, brushed>>

\* Any answer may carry the time and the next wake; the next wake is adopted
\* with it, whatever the status.
Heard(hint) == hint \in Hints /\ \E timed \in BOOLEAN : clock' = (clock \/ timed)

\* No answer, or a status that is none of those below.
PullFails ==
  /\ pc = "ask"
  /\ \E hint \in Hints : Heard(hint) /\ FailsWith(Adopted(work, hint))
  /\ UNCHANGED <<service, card, files, phase, arrived, checkQ, armed, stamped, panel, placed, brushed>>

\* 401: the phone let this reader go.
PullRefused ==
  /\ pc = "ask" /\ work.key # token
  /\ \E hint \in Hints : Heard(hint) /\ work' = forgetPairing(Adopted(work, hint))
  /\ pc' = "save" /\ Counted(0)
  /\ UNCHANGED <<service, card, files, phase, arrived, checkQ, armed, stamped, panel, placed, brushed>>

\* 304 for the image the etag names, 204 when nothing was ever sent.
PullNothing ==
  /\ pc = "ask" /\ work.key = token /\ sent \in {NoImage, work.etag}
  /\ \E hint \in Hints : Heard(hint) /\ SucceedsWith(Adopted(work, hint))
  /\ UNCHANGED <<service, card, files, phase, arrived, checkQ, armed, stamped, panel, placed, brushed>>

\* 200: the body goes to the .part, whole or not.
PullPicture ==
  /\ pc = "ask" /\ work.key = token /\ sent \notin {NoImage, work.etag}
  /\ \E hint \in Hints : Heard(hint) /\ work' = Adopted(work, hint)
  /\ part' \in {sent} \cup (IF Fault("torn") THEN {torn} ELSE {})
  /\ pc' = "got"
  /\ UNCHANGED <<service, card, slot, shuffle, marked, phase, arrived, checkQ, armed, stamped, panel, past>>

AnyPart == TRUE                                                            \* mutant
partIsWholePicture == part # torn

TearsUp ==
  /\ pc = "got" /\ ~partIsWholePicture
  /\ part' = NoImage
  /\ FailsWith(work)
  /\ UNCHANGED <<service, card, slot, shuffle, marked, phase, arrived, checkQ, hardware, placed, brushed>>

\* commitImage(): the old picture is removed, then the new one renamed.
EtagFirst ==                                                               \* mutant
  /\ pc = "got" /\ partIsWholePicture
  /\ slot' = NoImage /\ pc' = "move" /\ work' = [work EXCEPT !.etag = part]
  /\ UNCHANGED <<service, card, shuffle, part, marked, phase, arrived, checkQ, hardware, past>>
CommitRemoves ==
  /\ pc = "got" /\ partIsWholePicture
  /\ slot' = NoImage /\ pc' = "move"
  /\ UNCHANGED <<service, card, shuffle, part, marked, phase, work, arrived, checkQ, hardware, past>>
CommitRenames ==
  /\ pc = "move"
  /\ slot' = part /\ part' = NoImage /\ arrived' = TRUE
  /\ placed' = placed \cup {<<work.key, part>>}
  /\ SucceedsWith([work EXCEPT !.etag = part])
  /\ UNCHANGED <<service, card, shuffle, marked, phase, checkQ, hardware, brushed>>
CommitFails ==
  /\ pc = "move" /\ Fault("rename")
  /\ part' = NoImage
  /\ FailsWith(work)
  /\ UNCHANGED <<service, card, slot, shuffle, marked, phase, arrived, checkQ, hardware, placed, brushed>>

\* live::save(): beside and renamed.  A write that fails leaves the old file,
\* and what was to be remembered is not.
SaveRemoves ==
  /\ pc = "save"
  /\ card' = Unpaired /\ pc' = "name"
  /\ UNCHANGED <<service, files, phase, work, arrived, checkQ, hardware, past>>
SaveRenames ==
  /\ pc = "name"
  /\ card' = work /\ pc' = "done"
  /\ UNCHANGED <<service, files, phase, work, arrived, checkQ, hardware, past>>
SaveFails ==
  /\ \/ pc = "save" /\ Fault("write")
     \/ pc = "name" /\ Fault("rename")
  /\ pc' = "done" /\ Counted(0)
  /\ UNCHANGED <<service, card, files, phase, work, arrived, checkQ, hardware, placed, brushed>>

Check == \/ JoinFails \/ PullFails \/ PullRefused \/ PullNothing \/ PullPicture
         \/ TearsUp \/ CommitRemoves \/ CommitRenames \/ CommitFails
         \/ SaveRemoves \/ SaveRenames \/ SaveFails

------------------------------------------------------------------------------
(* Into deep sleep and out of it.                                           *)

\* live::engine::onSleep() on the way into p: load, decide, and check or not.
NeverFetches(p, st, clk, fired) == phase' = p /\ work' = st /\ arrived' = FALSE /\ pc' = "done"   \* mutant
OnSleep(p, st, clk, fired) ==
  /\ phase' = p /\ work' = st /\ arrived' = FALSE
  /\ pc' = IF fetchNow(st, clk, fired) THEN "ask" ELSE "done"

\* enterDeepSleep(): the sleep screen is on the glass before the first packet.
enterDeepSleep(p) == panel' = Shown /\ OnSleep(p, card, clock, FALSE)

\* startDeepSleepArmed(): Live's number when it has one.  The stamp stays in the
\* memory that outlives the sleep; the next setup() reads it and clears it.
NextWake == timerOf(work, clock, FALSE)
BuildTimerOnly(live) == armed' = BuildTimer /\ phase' = "asleep" /\ pc' = "idle" \* mutant
StartDeepSleep(live) ==
  /\ armed' = IF live > 0 THEN live ELSE BuildTimer
  /\ phase' = "asleep" /\ pc' = "idle"

\* The person, or the sleep timeout, puts the reader to sleep; the app goes
\* with the radio steps it had queued.
Sleep ==
  /\ phase \in {"ui", "app"} /\ pc = "idle"
  /\ enterDeepSleep("down")
  /\ checkQ' = FALSE
  /\ UNCHANGED <<service, card, files, armed, clock, stamped, past>>

\* onSleep() has returned: repaint when an image arrived, and sleep.
GoesDown ==
  /\ phase \in {"down", "tail"} /\ pc = "done"
  /\ StartDeepSleep(NextWake)
  /\ panel' = IF arrived THEN Shown ELSE panel
  /\ work' = Unpaired /\ arrived' = FALSE
  /\ UNCHANGED <<service, card, files, checkQ, clock, stamped, past>>

\* The timer case of setup(): nothing new, and straight back down; or a new
\* picture, which the rest of setup() draws through enterDeepSleep().
TimerDone ==
  /\ phase = "timer" /\ pc = "done"
  /\ \/ ~arrived /\ StartDeepSleep(NextWake) /\ work' = Unpaired /\ UNCHANGED <<arrived, panel>>
     \/ arrived /\ enterDeepSleep("tail") /\ UNCHANGED armed
  /\ UNCHANGED <<service, card, files, checkQ, clock, stamped, past>>

Passes(d) == card' = [card EXCEPT !.age = Later(@, d)] /\ owed' = (IF owed <= d THEN 0 ELSE owed - d)

TimerWake ==
  /\ phase = "asleep" /\ armed > 0
  /\ Passes(armed)
  /\ OnSleep("timer", card', clock, TRUE)
  /\ stamped' = TRUE /\ armed' = 0 /\ brushed' = FALSE
  /\ UNCHANGED <<service, files, checkQ, clock, panel, placed, streak>>

\* Someone presses power before that.
Elapsed == 0 .. (IF armed > 0 THEN armed - 1 ELSE Horizon)
PowerWake ==
  /\ phase = "asleep"
  /\ \E d \in Elapsed : Passes(d)
  /\ Awake
  /\ UNCHANGED <<service, files, pc, work, arrived, checkQ, clock, placed, streak>>

\* A press that is not held through the wake check: back to sleep from setup().
Brushed ==
  /\ phase = "asleep" /\ Fault("brush")
  /\ \E d \in Elapsed : Passes(d)
  /\ armed' = BuildTimer /\ stamped' = FALSE /\ brushed' = TRUE
  /\ UNCHANGED <<service, files, phase, pc, work, arrived, checkQ, clock, panel, placed, streak>>

\* Time passes while somebody reads.
Reads ==
  /\ phase = "ui"
  /\ Passes(1)
  /\ UNCHANGED <<service, files, phase, pc, work, arrived, checkQ, hardware, placed, brushed, streak>>

\* The power goes, or the firmware panics: a boot with a person.  A reset of
\* another kind under a timer wake boots as unattended, once.
Forgets == pc' = "idle" /\ part' = NoImage /\ work' = Unpaired /\ arrived' = FALSE /\ checkQ' = FALSE
Uncounted == IF pc = "idle" THEN UNCHANGED <<streak, owed>> ELSE Counted(0)
Cut ==
  /\ Fault("cut") /\ Uncounted
  /\ clock' \in {clock, FALSE}
  /\ Awake /\ Forgets
  /\ UNCHANGED <<service, card, slot, shuffle, marked, placed>>
\* The power went and comes back by the cable: the boards whose setup() sleeps
\* again then do so with the build's timer, and the panel keeps what it had.
ColdOnUsb ==
  /\ Fault("usb") /\ Uncounted
  /\ armed' = BuildTimer /\ phase' = "asleep" /\ brushed' = TRUE
  /\ stamped' = FALSE /\ clock' = FALSE
  /\ Forgets
  /\ UNCHANGED <<service, card, slot, shuffle, marked, panel, placed>>
Aborts ==
  /\ Fault("cut") /\ Uncounted /\ phase \in {"timer", "tail"}
  /\ IF stamped
     THEN enterDeepSleep("tail") /\ part' = NoImage /\ stamped' = FALSE /\ UNCHANGED <<checkQ, armed, brushed>>
     ELSE Awake /\ Forgets
  /\ UNCHANGED <<service, card, slot, shuffle, marked, clock, placed>>

------------------------------------------------------------------------------
(* WallpapersActivity: Live's screen and the picker.                        *)

OpenApp ==
  /\ phase = "ui"
  /\ phase' = "app" /\ work' = card
  /\ UNCHANGED <<service, card, files, pc, arrived, checkQ, hardware, past>>
CloseApp ==
  /\ phase = "app" /\ pc = "idle"
  /\ phase' = "ui" /\ work' = Unpaired /\ checkQ' = FALSE
  /\ UNCHANGED <<service, card, files, pc, arrived, hardware, past>>

InApp == phase = "app" /\ pc = "idle"

\* loop() runs what is queued before it routes another tap.
RunLiveCheck ==
  /\ InApp /\ checkQ
  /\ checkQ' = FALSE /\ arrived' = FALSE
  /\ pc' = IF paired(work) THEN "ask" ELSE "done"
  /\ UNCHANGED <<service, card, files, phase, work, hardware, past>>
Tap == InApp /\ ~checkQ

\* The check or the save of a tap is over.
AppDone ==
  /\ phase = "app" /\ pc = "done"
  /\ pc' = "idle" /\ arrived' = FALSE
  /\ UNCHANGED <<service, card, files, phase, work, checkQ, hardware, past>>

\* CHECK NOW is on the screen whether Live is on or off.
AsksNow ==
  /\ Tap /\ paired(work)
  /\ checkQ' = TRUE
  /\ UNCHANGED <<service, card, files, phase, pc, work, arrived, hardware, past>>

\* The switch is saved first.  Switched on, Live then takes the claim off the
\* picker, clears the set and asks.  (The report to the service that Live is off
\* changes nothing here.)
toggleLive ==
  /\ Tap /\ paired(work)
  /\ work' = [work EXCEPT !.on = ~@] /\ pc' = "save"
  /\ phase' = IF work'.on THEN "switch" ELSE "app"
  /\ UNCHANGED <<service, card, files, arrived, checkQ, hardware, past>>
LiveTakesOver ==
  /\ phase = "switch" /\ pc = "done"
  /\ marked' = FALSE /\ shuffle' = FALSE
  /\ checkQ' = TRUE /\ phase' = "app" /\ pc' = "idle"
  /\ UNCHANGED <<service, card, slot, part, work, arrived, hardware, past>>

\* commitSelection(): one wallpaper goes to /sleep.bmp, removed and renamed;
\* several go to /.sleep and leave /sleep.bmp empty.  Then Live is switched off.
LiveGivesWay ==
  IF work.on
  THEN work' = [work EXCEPT !.on = FALSE] /\ pc' = "save"
  ELSE work' = work /\ pc' = "idle"
ChooseOne ==
  /\ Tap
  /\ slot' = NoImage
  /\ pc' = "copy"
  /\ UNCHANGED <<service, card, shuffle, part, marked, phase, work, arrived, checkQ, hardware, past>>
Chosen ==
  /\ pc = "copy"
  /\ slot' = wallpaper /\ shuffle' = FALSE /\ marked' = TRUE
  /\ LiveGivesWay
  /\ UNCHANGED <<service, card, part, phase, arrived, checkQ, hardware, past>>
ChooseFails ==
  /\ pc = "copy" /\ Fault("rename")
  /\ pc' = "idle"
  /\ UNCHANGED <<service, card, files, phase, work, arrived, checkQ, hardware, past>>
ChooseSet ==
  /\ Tap
  /\ slot' = NoImage /\ shuffle' = TRUE /\ marked' = FALSE
  /\ LiveGivesWay
  /\ UNCHANGED <<service, card, part, phase, arrived, checkQ, hardware, past>>
ChooseNone ==
  /\ Tap
  /\ shuffle \/ (slot # NoImage /\ marked)
  /\ slot' = NoImage /\ shuffle' = FALSE /\ marked' = FALSE
  /\ UNCHANGED <<service, card, part, phase, pc, work, arrived, checkQ, hardware, past>>

\* A phone claims the code on the screen: a new fridge, and Live is on.
pollLivePairing ==
  /\ Tap /\ ~paired(work) /\ pairings < MaxPairings
  /\ pairings' = pairings + 1 /\ token' = pairings' /\ sent' = NoImage
  /\ work' = [work EXCEPT !.key = pairings', !.on = TRUE] /\ pc' = "save"
  /\ checkQ' = TRUE /\ Counted(0)
  /\ UNCHANGED <<card, files, phase, arrived, hardware, placed, brushed>>

------------------------------------------------------------------------------
(* The phone.                                                               *)

Sends ==
  /\ sent < MaxImages /\ sent' = sent + 1
  /\ UNCHANGED <<token, pairings, card, files, phase, pc, work, arrived, checkQ, hardware, past>>
Disconnects ==
  /\ token # 0 /\ token' = 0
  /\ UNCHANGED <<sent, pairings, card, files, phase, pc, work, arrived, checkQ, hardware, past>>

Power == Sleep \/ GoesDown \/ TimerDone \/ TimerWake \/ PowerWake \/ Brushed \/ Reads \/ Cut \/ ColdOnUsb \/ Aborts
App == \/ OpenApp \/ CloseApp \/ RunLiveCheck \/ AppDone \/ AsksNow \/ toggleLive \/ LiveTakesOver
       \/ ChooseOne \/ Chosen \/ ChooseFails \/ ChooseSet \/ ChooseNone \/ pollLivePairing

Init ==
  /\ sent = NoImage /\ token = 0 /\ pairings = 0
  /\ card = Unpaired /\ slot = NoImage /\ shuffle = FALSE /\ part = NoImage /\ marked = FALSE
  /\ phase = "ui" /\ pc = "idle" /\ work = Unpaired /\ arrived = FALSE
  /\ checkQ = FALSE
  /\ armed = 0 /\ clock = FALSE /\ stamped = FALSE /\ panel = ui
  /\ placed = {} /\ brushed = FALSE /\ streak = 0 /\ owed = 0
Next == Check \/ Power \/ App \/ Sends \/ Disconnects
Spec == Init /\ [][Next]_vars
=============================================================================
