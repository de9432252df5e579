------------------------- MODULE LivePictureProofs -------------------------
(***************************************************************************)
(* Proofs about Live, for any schedule, any faults, and any number of      *)
(* pictures and pairings.                                                  *)
(***************************************************************************)
EXTENDS LivePictureProps, TLAPS

USE DEF NoImage, wallpaper, torn, shuffled, default, ui, Images

------------------------------------------------------------------------------
(* The schedule.                                                            *)

LEMMA HorizonFacts ==
  /\ Horizon \in Nat /\ MaxRetry <= Horizon /\ MaxInterval <= Horizon
  /\ Never \in Nat /\ Never > Horizon
  BY DelayAssumption, IntervalAssumption DEF Horizon, Never

LEMMA DelayFacts ==
  ASSUME NEW n \in 0 .. MaxFails
  PROVE  /\ retryDelay(n) \in 0 .. MaxRetry
         /\ n > 0 => retryDelay(n) > 0
         /\ \A m \in n .. MaxFails : retryDelay(n) <= retryDelay(m)
<1>1. retryDelay(0) = 0
  BY DEF retryDelay
<1>2. MaxFails \in Nat /\ MaxRetry \in Nat
  BY FailsAssumption, DelayAssumption
<1>3. \A m \in 1 .. MaxFails : retryDelay(m) \in 1 .. MaxRetry
  BY RetryAssumption
<1>4. CASE n = 0
  BY <1>1, <1>2, <1>3, <1>4
<1>5. CASE n # 0
  BY <1>2, <1>5, RetryAssumption
<1> QED
  BY <1>4, <1>5

\* What a check makes of a state is a state.
LEMMA StateFacts ==
  ASSUME NEW st \in States
  PROVE  /\ Failed(st) \in States /\ Failed(st).key = st.key /\ Failed(st).on = st.on
         /\ Failed(st).etag = st.etag /\ Failed(st).age = 0
         /\ Failed(st).fails = Smaller(st.fails + 1, MaxFails)
         /\ Succeeded(st) \in States /\ Succeeded(st).key = st.key /\ Succeeded(st).on = st.on
         /\ Succeeded(st).etag = st.etag
         /\ forgetPairing(st) \in States /\ forgetPairing(st).etag = NoImage
         /\ forgetPairing(st).key = 0
<1> USE HorizonFacts, FailsAssumption, LimitAssumption
<1>1. Smaller(st.fails + 1, MaxFails) \in 0 .. MaxFails
  BY DEF Smaller, States
<1>2. 0 \in 0 .. MaxPairings /\ 0 \in 0 .. MaxImages /\ 0 \in 0 .. MaxFails /\ 0 \in 0 .. Never
      /\ Never \in 0 .. Never
  OBVIOUS
<1>3. /\ Failed(st) \in States /\ Failed(st).key = st.key /\ Failed(st).on = st.on
      /\ Failed(st).etag = st.etag /\ Failed(st).age = 0
      /\ Failed(st).fails = Smaller(st.fails + 1, MaxFails)
  BY <1>1, <1>2 DEF States, Failed
<1>4. /\ Succeeded(st) \in States /\ Succeeded(st).key = st.key /\ Succeeded(st).on = st.on
      /\ Succeeded(st).etag = st.etag
  BY <1>2 DEF States, Succeeded
<1>5. /\ forgetPairing(st) \in States /\ forgetPairing(st).etag = NoImage
      /\ forgetPairing(st).key = 0
  BY <1>2 DEF States, forgetPairing
<1> QED
  BY <1>3, <1>4, <1>5

LEMMA AdoptedFacts ==
  ASSUME NEW st \in States, NEW hint \in Hints
  PROVE  /\ Adopted(st, hint) \in States
         /\ Adopted(st, hint).key = st.key /\ Adopted(st, hint).on = st.on
         /\ Adopted(st, hint).etag = st.etag /\ Adopted(st, hint).fails = st.fails
         /\ Adopted(st, hint).age = st.age
<1>1. clampInterval(hint) \in MinInterval .. MaxInterval
  BY HintAssumption, IntervalAssumption DEF clampInterval, Smaller
<1> QED
  BY <1>1 DEF States, Adopted

LEMMA UnpairedFacts == Unpaired \in States
  BY HorizonFacts, IntervalAssumption, FailsAssumption, LimitAssumption DEF Unpaired, States

\* Time makes a state older and what is owed less.
LEMMA PassesFacts ==
  ASSUME card \in States, owed \in 0 .. MaxRetry, NEW d \in Nat, Passes(d)
  PROVE  /\ card' \in States /\ card'.key = card.key /\ card'.on = card.on
         /\ card'.etag = card.etag /\ card'.fails = card.fails
         /\ card'.age = Later(card.age, d)
         /\ owed' \in 0 .. MaxRetry
<1>1. Later(card.age, d) \in 0 .. Never
  BY HorizonFacts DEF Later, Smaller, States
<1>2. owed' \in 0 .. MaxRetry
  BY DelayAssumption DEF Passes
<1> QED
  BY <1>1, <1>2 DEF Passes, States

\* A reader that Live may wake is given a timer.
LEMMA TimerIsSet ==
  ASSUME NEW st \in States, NEW clk \in BOOLEAN
  PROVE  /\ timerOf(st, clk, FALSE) \in Nat
         /\ eligible(st) => timerOf(st, clk, FALSE) > 0
         /\ eligible(st) /\ st.fails > 0 => timerOf(st, clk, FALSE) >= retryDelay(st.fails) - st.age
<1>1. /\ st.age \in Nat /\ st.fails \in 0 .. MaxFails /\ st.every \in Nat \ {0}
  BY HorizonFacts, IntervalAssumption DEF States
<1>2. retryDelay(st.fails) \in Nat /\ (st.fails > 0 => retryDelay(st.fails) > 0)
  BY <1>1, DelayFacts, DelayAssumption
<1>3. waitOf(st) \in Nat \ {0} /\ (st.fails > 0 => waitOf(st) = retryDelay(st.fails))
  BY <1>1, <1>2, FailsAssumption DEF waitOf
<1>4. clk /\ eligible(st) /\ ~fetchNow(st, clk, FALSE) => st.age < waitOf(st)
  BY <1>1, <1>3 DEF fetchNow
<1> DEFINE t == timerOf(st, clk, FALSE)
<1>5. \/ t = 0 /\ ~eligible(st)
      \/ t = waitOf(st)
      \/ t = waitOf(st) - st.age /\ st.age < waitOf(st)
  BY <1>4 DEF timerOf
<1> HIDE DEF t
<1>6. t \in Nat /\ (eligible(st) => t > 0)
  BY <1>1, <1>3, <1>5
<1>7. eligible(st) /\ st.fails > 0 => t >= retryDelay(st.fails) - st.age
  BY <1>1, <1>2, <1>3, <1>5
<1> QED
  BY <1>6, <1>7 DEF t

LEMMA CountedFacts ==
  ASSUME NEW n \in 0 .. MaxFails, Counted(n)
  PROVE  streak' = n /\ owed' = retryDelay(n) /\ owed' \in 0 .. MaxRetry /\ (n = 0 => owed' = 0)
  BY DelayFacts DEF Counted, retryDelay

------------------------------------------------------------------------------
(* Types.                                                                   *)

CardTypes == card \in States /\ work \in States
FileTypes ==
  /\ slot \in Slots /\ part \in Images \cup {NoImage, torn}
  /\ panel \in Slots \cup {shuffled, default, ui}
ModeTypes ==
  /\ phase \in {"asleep", "ui", "app", "switch", "timer", "down", "tail"}
  /\ pc \in {"idle", "ask", "got", "move", "save", "name", "copy", "done"}
  /\ {shuffle, marked, brushed, arrived, checkQ, clock, stamped} \subseteq BOOLEAN
CountTypes ==
  /\ sent \in 0..MaxImages /\ {token, pairings} \subseteq 0..MaxPairings
  /\ armed \in Nat /\ placed \subseteq (1..MaxPairings) \X Images
  /\ streak \in 0..MaxFails /\ owed \in 0..MaxRetry

LEMMA TypeParts == TypeOK = (CardTypes /\ FileTypes /\ ModeTypes /\ CountTypes)
  BY DEF TypeOK, CardTypes, FileTypes, ModeTypes, CountTypes

LEMMA ElapsedFacts ==
  ASSUME armed \in Nat
  PROVE  Elapsed \subseteq Nat
  BY HorizonFacts DEF Elapsed

LEMMA CardStep ==
  ASSUME IInv, [Next]_vars
  PROVE  CardTypes'
<1> USE DEF CardTypes, IInv, TypeOK
<1>1. CASE UNCHANGED vars
  BY <1>1 DEF vars
<1>2. CASE JoinFails \/ PullFails \/ TearsUp \/ CommitFails
  BY <1>2, StateFacts, AdoptedFacts DEF JoinFails, PullFails, TearsUp, CommitFails, FailsWith, Heard
<1>3. CASE PullRefused \/ PullNothing
  BY <1>3, StateFacts, AdoptedFacts DEF PullRefused, PullNothing, SucceedsWith, Heard
<1>4. CASE PullPicture
  BY <1>4, AdoptedFacts DEF PullPicture, Heard
<1>5. CASE CommitRenames
  <2>1. [work EXCEPT !.etag = part] \in States
    BY <1>5 DEF CommitRenames, PictureInv, States
  <2> QED
    BY <1>5, <2>1, StateFacts DEF CommitRenames, SucceedsWith
<1>6. CASE CommitRemoves \/ SaveRenames \/ SaveFails
  BY <1>6 DEF CommitRemoves, SaveRenames, SaveFails
<1>7. CASE SaveRemoves
  BY <1>7, UnpairedFacts DEF SaveRemoves
<1>8. CASE Sleep \/ GoesDown \/ TimerDone
  BY <1>8, UnpairedFacts DEF Sleep, GoesDown, TimerDone, enterDeepSleep, OnSleep
<1>9. CASE TimerWake \/ PowerWake \/ Brushed \/ Reads
  <2>1. card' \in States
    <3>1. PICK d \in Nat : Passes(d)
      BY <1>9, ElapsedFacts DEF TimerWake, PowerWake, Brushed, Reads
    <3> QED
      BY <3>1, PassesFacts
  <2> QED
    BY <1>9, <2>1 DEF TimerWake, PowerWake, Brushed, Reads, OnSleep
<1>10. CASE Cut \/ ColdOnUsb \/ Aborts
  BY <1>10, UnpairedFacts DEF Cut, ColdOnUsb, Aborts, Forgets, enterDeepSleep, OnSleep
<1>11. CASE toggleLive \/ Chosen \/ ChooseSet \/ pollLivePairing
  <2>1. ASSUME pollLivePairing PROVE pairings + 1 \in 0 .. MaxPairings
    BY <2>1, LimitAssumption DEF pollLivePairing
  <2> QED
    BY <1>11, <2>1 DEF toggleLive, Chosen, ChooseSet, LiveGivesWay, pollLivePairing, States
<1>12. CASE OpenApp \/ CloseApp \/ RunLiveCheck \/ AppDone \/ AsksNow \/ LiveTakesOver \/ ChooseOne \/ ChooseFails
            \/ ChooseNone \/ Sends \/ Disconnects
  BY <1>12, UnpairedFacts DEF OpenApp, CloseApp, RunLiveCheck, AppDone, AsksNow, LiveTakesOver, ChooseOne, ChooseFails,
     ChooseNone, Sends, Disconnects
<1> QED
  BY <1>1, <1>2, <1>3, <1>4, <1>5, <1>6, <1>7, <1>8, <1>9, <1>10, <1>11, <1>12
  DEF Next, Check, Power, App

LEMMA FileStep ==
  ASSUME IInv, [Next]_vars
  PROVE  FileTypes'
<1> USE LimitAssumption DEF FileTypes, IInv, TypeOK, Slots
<1>1. Shown \in Slots \cup {shuffled, default}
  BY DEF Shown
<1>2. CASE UNCHANGED vars
  BY <1>2 DEF vars, files
<1>3. CASE PullPicture
  BY <1>3 DEF PullPicture
<1>4. CASE JoinFails \/ PullFails \/ PullRefused \/ PullNothing \/ TearsUp \/ CommitRemoves
           \/ CommitFails \/ SaveRemoves \/ SaveRenames \/ SaveFails
  BY <1>4 DEF JoinFails, PullFails, PullRefused, PullNothing, TearsUp, CommitRemoves, CommitFails,
     SaveRemoves, SaveRenames, SaveFails, files, hardware
<1>5. CASE CommitRenames
  BY <1>5 DEF CommitRenames, hardware
<1>6. CASE Sleep \/ GoesDown \/ TimerDone \/ TimerWake
  BY <1>1, <1>6 DEF Sleep, GoesDown, TimerDone, TimerWake, enterDeepSleep, files
<1>7. CASE PowerWake \/ Brushed \/ Reads \/ Cut \/ ColdOnUsb \/ Aborts
  BY <1>1, <1>7 DEF PowerWake, Brushed, Reads, Cut, ColdOnUsb, Aborts, Awake, Forgets, enterDeepSleep, files, hardware
<1>8. CASE App
  BY <1>8 DEF App, OpenApp, CloseApp, RunLiveCheck, AppDone, AsksNow, toggleLive, LiveTakesOver, ChooseOne, Chosen,
     ChooseFails, ChooseSet, ChooseNone, pollLivePairing, files, hardware
<1>9. CASE Sends \/ Disconnects
  BY <1>9 DEF Sends, Disconnects, files, hardware
<1> QED
  BY <1>2, <1>3, <1>4, <1>5, <1>6, <1>7, <1>8, <1>9 DEF Next, Check, Power

LEMMA ModeStep ==
  ASSUME IInv, [Next]_vars
  PROVE  ModeTypes' /\ FlowInv'
<1> USE DEF ModeTypes, IInv, TypeOK, FlowInv
<1>1. CASE UNCHANGED vars
  BY <1>1 DEF vars, files, hardware, past
<1>2. CASE JoinFails \/ PullFails \/ PullRefused \/ PullNothing \/ PullPicture \/ TearsUp
  BY <1>2 DEF JoinFails, PullFails, PullRefused, PullNothing, PullPicture, TearsUp, FailsWith,
     SucceedsWith, Heard, files, hardware, past
<1>3. CASE CommitRemoves \/ CommitRenames \/ CommitFails \/ SaveRemoves \/ SaveRenames \/ SaveFails
  BY <1>3 DEF CommitRemoves, CommitRenames, CommitFails, SaveRemoves, SaveRenames, SaveFails,
     FailsWith, SucceedsWith, files, hardware, past
<1>4. CASE Sleep \/ GoesDown \/ TimerDone \/ TimerWake
  BY <1>4 DEF Sleep, GoesDown, TimerDone, TimerWake, enterDeepSleep, OnSleep, StartDeepSleep, files,
     hardware, past
<1>5. CASE PowerWake \/ Brushed \/ Reads
  BY <1>5 DEF PowerWake, Brushed, Reads, Awake, files, hardware, past
<1>6. CASE Cut \/ ColdOnUsb \/ Aborts
  BY <1>6 DEF Cut, ColdOnUsb, Aborts, Awake, Forgets, enterDeepSleep, OnSleep, files, hardware, past
<1>7. CASE OpenApp \/ CloseApp \/ RunLiveCheck \/ AppDone \/ AsksNow \/ LiveTakesOver \/ ChooseOne \/ ChooseFails
           \/ ChooseNone
  BY <1>7 DEF OpenApp, CloseApp, RunLiveCheck, AppDone, AsksNow, LiveTakesOver, ChooseOne, ChooseFails, ChooseNone,
     InApp, Tap, files, hardware, past
<1>8. CASE toggleLive
  <2>1. work'.on \in BOOLEAN
    BY <1>8 DEF toggleLive, States
  <2> QED
    BY <1>8, <2>1 DEF toggleLive, InApp, Tap, files, hardware, past
<1>9. CASE Chosen \/ ChooseSet \/ pollLivePairing
  BY <1>9 DEF Chosen, ChooseSet, LiveGivesWay, pollLivePairing, InApp, Tap, files, hardware, past
<1>10. CASE Sends \/ Disconnects
  BY <1>10 DEF Sends, Disconnects, files, hardware, past
<1> QED
  BY <1>1, <1>2, <1>3, <1>4, <1>5, <1>6, <1>7, <1>8, <1>9, <1>10 DEF Next, Check, Power, App

LEMMA CountStep ==
  ASSUME IInv, [Next]_vars
  PROVE  CountTypes'
<1> USE LimitAssumption, FailsAssumption DEF CountTypes, IInv, TypeOK
<1>1. CASE UNCHANGED vars
  BY <1>1 DEF vars, service, past
<1>2. CASE JoinFails \/ PullFails \/ TearsUp \/ CommitFails
  <2>1. PICK n \in 0 .. MaxFails : Counted(n)
    BY <1>2 DEF JoinFails, PullFails, TearsUp, CommitFails, FailsWith, Smaller
  <2> QED
    BY <1>2, <2>1, CountedFacts DEF JoinFails, PullFails, TearsUp, CommitFails, service, hardware
<1>3. CASE PullRefused \/ PullNothing \/ SaveFails
  <2>1. Counted(0)
    BY <1>3 DEF PullRefused, PullNothing, SaveFails, SucceedsWith
  <2> QED
    BY <1>3, <2>1, CountedFacts DEF PullRefused, PullNothing, SaveFails, service, hardware
<1>4. CASE CommitRenames
  <2>1. Counted(0)
    BY <1>4 DEF CommitRenames, SucceedsWith
  <2>2. <<work.key, part>> \in (1 .. MaxPairings) \X Images
    BY <1>4 DEF CommitRenames, PictureInv, paired, States
  <2> QED
    BY <1>4, <2>1, <2>2, CountedFacts DEF CommitRenames, service, hardware
<1>5. CASE PullPicture \/ CommitRemoves \/ SaveRemoves \/ SaveRenames
  BY <1>5 DEF PullPicture, CommitRemoves, SaveRemoves, SaveRenames, service, hardware, past
<1>6. CASE Sleep
  BY <1>6 DEF Sleep, service, past
<1>7. CASE GoesDown \/ TimerDone
  <2>1. NextWake \in Nat
    BY TimerIsSet DEF NextWake
  <2> QED
    BY <1>7, <2>1 DEF GoesDown, TimerDone, StartDeepSleep, enterDeepSleep, service, past
<1>8. CASE TimerWake \/ PowerWake \/ Brushed \/ Reads
  <2>1. PICK d \in Nat : Passes(d)
    BY <1>8, ElapsedFacts DEF TimerWake, PowerWake, Brushed, Reads
  <2>2. owed' \in 0 .. MaxRetry
    BY <2>1, PassesFacts
  <2>3. armed' \in {0, BuildTimer, armed}
    BY <1>8 DEF TimerWake, PowerWake, Brushed, Reads, Awake, hardware
  <2>4. UNCHANGED <<sent, token, pairings, placed, streak>>
    BY <1>8 DEF TimerWake, PowerWake, Brushed, Reads, service
  <2> QED
    BY <2>2, <2>3, <2>4
<1>9. CASE Cut \/ ColdOnUsb \/ Aborts
  <2>1. Uncounted
    BY <1>9 DEF Cut, ColdOnUsb, Aborts
  <2>2. ASSUME Counted(0) PROVE streak' \in 0 .. MaxFails /\ owed' \in 0 .. MaxRetry
    <3>1. 0 \in 0 .. MaxFails
      OBVIOUS
    <3> QED
      BY <2>2, <3>1, CountedFacts
  <2>4. streak' \in 0 .. MaxFails /\ owed' \in 0 .. MaxRetry
    BY <2>1, <2>2 DEF Uncounted
  <2>5. armed' \in {0, armed, BuildTimer}
    BY <1>9 DEF Cut, ColdOnUsb, Aborts, Awake
  <2>6. UNCHANGED <<sent, token, pairings, placed>>
    BY <1>9 DEF Cut, ColdOnUsb, Aborts, service
  <2> QED
    BY <2>4, <2>5, <2>6
<1>10. CASE OpenApp \/ CloseApp \/ RunLiveCheck \/ AppDone \/ AsksNow \/ LiveTakesOver \/ ChooseOne \/ ChooseFails
            \/ ChooseNone \/ toggleLive \/ Chosen \/ ChooseSet
  BY <1>10 DEF OpenApp, CloseApp, RunLiveCheck, AppDone, AsksNow, LiveTakesOver, ChooseOne, ChooseFails, ChooseNone,
     toggleLive, Chosen, ChooseSet, service, hardware, past
<1>11. CASE pollLivePairing
  <2>1. Counted(0)
    BY <1>11 DEF pollLivePairing
  <2> QED
    BY <1>11, <2>1, CountedFacts DEF pollLivePairing, hardware
<1>12. CASE Sends \/ Disconnects
  BY <1>12 DEF Sends, Disconnects, hardware, past
<1> QED
  BY <1>1, <1>2, <1>3, <1>4, <1>5, <1>6, <1>7, <1>8, <1>9, <1>10, <1>11, <1>12
  DEF Next, Check, Power, App

------------------------------------------------------------------------------
(* The picture.                                                             *)

LEMMA PictureStep ==
  ASSUME IInv, [Next]_vars, TypeOK'
  PROVE  PictureInv'
<1> USE LimitAssumption DEF IInv, PictureInv, NoTornPicture, Claims
<1>1. Shown # torn
  BY DEF Shown
<1>2. card \in States /\ work \in States /\ part \in Images \cup {NoImage, torn} /\ sent \in 0 .. MaxImages
      /\ placed \subseteq (1 .. MaxPairings) \X Images
  BY DEF TypeOK
<1>3. CASE UNCHANGED vars
  BY <1>3 DEF vars, files, hardware, past, paired
<1>4. CASE JoinFails \/ PullFails \/ TearsUp \/ CommitFails
  <2>1. work'.key = work.key /\ work'.etag = work.etag /\ pc' = "save"
    BY <1>2, <1>4, StateFacts, AdoptedFacts DEF JoinFails, PullFails, TearsUp, CommitFails, FailsWith, Heard
  <2>2. UNCHANGED <<card, slot, panel, placed>>
    BY <1>4 DEF JoinFails, PullFails, TearsUp, CommitFails, files, hardware
  <2> QED
    BY <2>1, <2>2
<1>5. CASE PullRefused
  <2>1. work'.etag = NoImage /\ pc' = "save"
    BY <1>2, <1>5, StateFacts, AdoptedFacts DEF PullRefused, Heard
  <2>2. UNCHANGED <<card, slot, panel, placed>>
    BY <1>5 DEF PullRefused, files, past
  <2>3. placed' = placed
    BY <1>5 DEF PullRefused
  <2> QED
    BY <2>1, <2>2, <2>3
<1>6. CASE PullNothing
  <2>1. work'.key = work.key /\ work'.etag = work.etag /\ pc' = "save"
    BY <1>2, <1>6, StateFacts, AdoptedFacts DEF PullNothing, SucceedsWith, Heard
  <2>2. UNCHANGED <<card, slot, panel, placed>>
    BY <1>6 DEF PullNothing, files
  <2> QED
    BY <2>1, <2>2
<1>7. CASE PullPicture
  <2>1. work'.key = work.key /\ work'.etag = work.etag /\ pc' = "got" /\ part' # NoImage
    BY <1>2, <1>7, AdoptedFacts DEF PullPicture, Heard
  <2>2. UNCHANGED <<card, slot, panel, placed>> /\ paired(work)
    BY <1>7 DEF PullPicture, past
  <2> QED
    BY <2>1, <2>2 DEF paired
<1>8. CASE CommitRemoves
  <2>1. slot' = NoImage /\ pc' = "move" /\ paired(work) /\ UNCHANGED <<card, work, part, panel, placed>>
    BY <1>8 DEF CommitRemoves, hardware, past
  <2>2. part \in Images
    BY <1>2, <1>8 DEF CommitRemoves, partIsWholePicture
  <2> QED
    BY <2>1, <2>2 DEF paired
<1>9. CASE CommitRenames
  <2> DEFINE st == [work EXCEPT !.etag = part]
  <2>1. part \in Images /\ st \in States /\ st.key = work.key /\ st.etag = part
    BY <1>2, <1>9 DEF CommitRenames, States
  <2>2. work'.key = work.key /\ work'.etag = part /\ pc' = "save"
    BY <1>9, <2>1, StateFacts DEF CommitRenames, SucceedsWith
  <2>3. slot' = part /\ placed' = placed \cup {<<work.key, part>>} /\ UNCHANGED <<card, panel>>
    BY <1>9 DEF CommitRenames, hardware
  <2> QED
    BY <2>1, <2>2, <2>3
<1>10. CASE SaveRemoves \/ SaveRenames \/ SaveFails
  BY <1>10 DEF SaveRemoves, SaveRenames, SaveFails, Unpaired, files, hardware, past
<1>11. CASE Sleep \/ GoesDown \/ TimerDone
  <2>1. panel' \in {panel, Shown} /\ UNCHANGED <<card, slot, placed>>
    BY <1>11 DEF Sleep, GoesDown, TimerDone, enterDeepSleep, files, past
  <2>2. \/ work' = Unpaired /\ pc' = "idle"
        \/ work' = card /\ (pc' = "done" \/ (pc' = "ask" /\ eligible(card)))
    BY <1>11 DEF Sleep, GoesDown, TimerDone, enterDeepSleep, StartDeepSleep, OnSleep, fetchNow
  <2> QED
    BY <1>1, <2>1, <2>2 DEF eligible, paired, Unpaired
<1>12. CASE TimerWake \/ PowerWake \/ Brushed \/ Reads
  <2>1. PICK d \in Nat : Passes(d)
    BY <1>12, ElapsedFacts DEF TimerWake, PowerWake, Brushed, Reads, TypeOK
  <2>2. card'.key = card.key /\ card'.etag = card.etag /\ card'.on = card.on
    BY <2>1, PassesFacts DEF TypeOK
  <2>3. UNCHANGED <<slot, placed>> /\ panel' \in {panel, ui}
    BY <1>12 DEF TimerWake, PowerWake, Brushed, Reads, Awake, files, hardware
  <2>4. CASE TimerWake
    <3>1. work' = card' /\ (pc' = "done" \/ (pc' = "ask" /\ eligible(card')))
      BY <2>4 DEF TimerWake, OnSleep, fetchNow
    <3> QED
      BY <2>2, <2>3, <3>1 DEF eligible, paired
  <2>5. CASE PowerWake \/ Brushed \/ Reads
    <3>1. UNCHANGED <<pc, work, part>>
      BY <2>5 DEF PowerWake, Brushed, Reads, files
    <3> QED
      BY <2>2, <2>3, <3>1 DEF paired
  <2> QED
    BY <1>12, <2>4, <2>5
<1>13. CASE Cut \/ ColdOnUsb \/ Aborts
  <2>1. UNCHANGED <<card, slot, placed>> /\ panel' \in {ui, Shown, panel}
    BY <1>13 DEF Cut, ColdOnUsb, Aborts, Awake, enterDeepSleep
  <2>2. \/ work' = Unpaired /\ pc' = "idle"
        \/ work' = card /\ (pc' = "done" \/ (pc' = "ask" /\ eligible(card)))
    BY <1>13 DEF Cut, ColdOnUsb, Aborts, Forgets, enterDeepSleep, OnSleep, fetchNow
  <2> QED
    BY <1>1, <2>1, <2>2 DEF eligible, paired, Unpaired
<1>14. CASE OpenApp \/ CloseApp
  BY <1>14 DEF OpenApp, CloseApp, FlowInv, Unpaired, files, hardware, past
<1>15. CASE RunLiveCheck
  BY <1>15 DEF RunLiveCheck, files, hardware, past
<1>16. CASE AppDone \/ AsksNow \/ LiveTakesOver \/ ChooseOne \/ ChooseFails \/ ChooseNone
  BY <1>16 DEF AppDone, AsksNow, LiveTakesOver, ChooseOne, ChooseFails, ChooseNone, InApp, Tap, files, hardware, past
<1>17. CASE toggleLive \/ Chosen \/ ChooseSet
  <2>1. work'.key = work.key /\ work'.etag = work.etag /\ pc' \in {"save", "idle"}
    BY <1>2, <1>17 DEF toggleLive, Chosen, ChooseSet, LiveGivesWay, InApp, Tap, States
  <2>2. slot' \in {slot, wallpaper, NoImage} /\ UNCHANGED <<card, panel, placed>>
    BY <1>17 DEF toggleLive, Chosen, ChooseSet, files, hardware, past
  <2> QED
    BY <2>1, <2>2
<1>18. CASE pollLivePairing
  <2>1. work.etag = NoImage
    BY <1>2, <1>18 DEF pollLivePairing, paired
  <2>2. work'.etag = work.etag /\ pc' = "save"
    BY <1>2, <1>18 DEF pollLivePairing, States
  <2>3. UNCHANGED <<card, slot, panel, placed>>
    BY <1>18 DEF pollLivePairing, files, hardware
  <2> QED
    BY <2>1, <2>2, <2>3
<1>19. CASE Sends \/ Disconnects
  BY <1>19 DEF Sends, Disconnects, files, hardware, past, paired
<1> QED
  BY <1>3, <1>4, <1>5, <1>6, <1>7, <1>8, <1>9, <1>10, <1>11, <1>12, <1>13, <1>14, <1>15, <1>16, <1>17,
     <1>18, <1>19
  DEF Next, Check, Power, App

------------------------------------------------------------------------------
(* The timer.                                                               *)

LEMMA NextWakeFacts ==
  ASSUME TypeOK
  PROVE  NextWake \in Nat /\ (eligible(work) => NextWake > 0)
<1>1. work \in States /\ clock \in BOOLEAN
  BY DEF TypeOK
<1> QED
  BY <1>1, TimerIsSet DEF NextWake

LEMMA TimerStep ==
  ASSUME IInv, [Next]_vars
  PROVE  TimerInv'
<1> USE DEF IInv, TimerInv, TimerKept, Falling, Welcome, eligible, paired
<1>1. card \in States /\ work \in States
  BY DEF TypeOK
<1>2. CASE UNCHANGED vars
  BY <1>2 DEF vars, service, hardware, past
<1>3. CASE JoinFails \/ PullFails \/ PullNothing \/ PullPicture \/ TearsUp \/ CommitFails
  <2>1. work'.key = work.key /\ work'.on = work.on
    BY <1>1, <1>3, StateFacts, AdoptedFacts DEF JoinFails, PullFails, PullNothing, PullPicture, TearsUp,
       CommitFails, FailsWith, SucceedsWith, Heard
  <2>2. UNCHANGED <<card, token, phase, armed, brushed>>
    BY <1>3 DEF JoinFails, PullFails, PullNothing, PullPicture, TearsUp, CommitFails, service, hardware, past
  <2> QED
    BY <2>1, <2>2
<1>4. CASE CommitRenames
  <2> DEFINE st == [work EXCEPT !.etag = part]
  <2>1. st \in States /\ st.key = work.key /\ st.on = work.on
    BY <1>1, <1>4 DEF CommitRenames, PictureInv, States
  <2>2. work'.key = work.key /\ work'.on = work.on
    BY <1>4, <2>1, StateFacts DEF CommitRenames, SucceedsWith
  <2>3. UNCHANGED <<card, token, phase, armed, brushed>>
    BY <1>4 DEF CommitRenames, service, hardware
  <2> QED
    BY <2>2, <2>3
<1>5. CASE PullRefused
  <2>1. work.key # token /\ phase # "asleep" /\ UNCHANGED <<card, token, phase>>
    BY <1>5 DEF PullRefused, FlowInv, service
  <2> QED
    BY <2>1
<1>6. CASE CommitRemoves
  BY <1>6 DEF CommitRemoves, service, hardware, past
<1>7. CASE SaveRemoves \/ SaveRenames \/ SaveFails
  BY <1>7 DEF SaveRemoves, SaveRenames, SaveFails, Unpaired, FlowInv, service, hardware, past
<1>8. CASE Sleep
  BY <1>1, <1>8 DEF Sleep, enterDeepSleep, OnSleep
<1>9. CASE GoesDown \/ (TimerDone /\ ~arrived)
  <2>1. UNCHANGED <<card, token>> /\ phase' = "asleep" /\ armed' = (IF NextWake > 0 THEN NextWake ELSE BuildTimer)
    BY <1>9 DEF GoesDown, TimerDone, StartDeepSleep, service
  <2>2. Welcome(card) => eligible(work)
    BY <1>9 DEF GoesDown, TimerDone
  <2> QED
    BY <2>1, <2>2, NextWakeFacts
<1>10. CASE TimerDone /\ arrived
  BY <1>10 DEF TimerDone, enterDeepSleep, OnSleep, service
<1>11. CASE TimerWake
  BY <1>11 DEF TimerWake, OnSleep
<1>12. CASE PowerWake \/ Brushed \/ Reads
  BY <1>12 DEF PowerWake, Brushed, Reads, Awake
<1>13. CASE Cut \/ ColdOnUsb \/ Aborts
  BY <1>13 DEF Cut, ColdOnUsb, Aborts, Awake, Forgets, enterDeepSleep, OnSleep
<1>14. CASE App
  <2>1. phase \in {"app", "ui", "switch"}
    BY <1>14 DEF App, OpenApp, CloseApp, RunLiveCheck, AppDone, AsksNow, toggleLive, LiveTakesOver, ChooseOne, Chosen,
       ChooseFails, ChooseSet, ChooseNone, pollLivePairing, InApp, Tap, FlowInv
  <2>2. phase' \in {phase, "app", "ui", "switch"}
    BY <1>14 DEF App, OpenApp, CloseApp, RunLiveCheck, AppDone, AsksNow, toggleLive, LiveTakesOver, ChooseOne, Chosen,
       ChooseFails, ChooseSet, ChooseNone, pollLivePairing
  <2> QED
    BY <2>1, <2>2
<1>15. CASE Sends \/ Disconnects
  BY <1>15 DEF Sends, Disconnects, hardware, past
<1> QED
  BY <1>2, <1>3, <1>4, <1>5, <1>6, <1>7, <1>8, <1>9, <1>10, <1>11, <1>12, <1>13, <1>14, <1>15
  DEF Next, Check, Power

------------------------------------------------------------------------------
(* The theorems.                                                            *)

LEMMA InvInit == Init => IInv
<1> SUFFICES ASSUME Init PROVE IInv
  OBVIOUS
<1> USE LimitAssumption, FailsAssumption, DelayAssumption DEF Init
<1>1. TypeOK
  <2>1. CardTypes /\ FileTypes
    BY UnpairedFacts DEF CardTypes, FileTypes, Slots
  <2>2. ModeTypes
    BY DEF ModeTypes
  <2>3. CountTypes
    BY DEF CountTypes
  <2> QED
    BY <2>1, <2>2, <2>3, TypeParts
<1>2. FlowInv /\ TimerInv
  BY DEF FlowInv, TimerInv, TimerKept, Falling
<1>3. PictureInv
  BY DEF PictureInv, NoTornPicture, Claims, Unpaired
<1> QED
  BY <1>1, <1>2, <1>3 DEF IInv

LEMMA InvStep == IInv /\ [Next]_vars => IInv'
<1> SUFFICES ASSUME IInv, [Next]_vars PROVE IInv'
  OBVIOUS
<1>1. TypeOK'
  BY CardStep, FileStep, ModeStep, CountStep
  DEF TypeOK, CardTypes, FileTypes, ModeTypes, CountTypes
<1>2. FlowInv' /\ PictureInv' /\ TimerInv'
  BY <1>1, ModeStep, PictureStep, TimerStep
<1> QED
  BY <1>1, <1>2 DEF IInv

\* Along every run of Live, whatever the network, the card and the power do,
\* the invariant holds that the theorems below are read off.
THEOREM Inductive == Spec => []IInv
  BY InvInit, InvStep, PTL DEF Spec

\* Every variable keeps its type.
THEOREM TypeCorrect == Spec => []TypeOK
<1>1. IInv => TypeOK
  BY DEF IInv
<1> QED
  BY <1>1, Inductive, PTL

\* No torn picture ever reaches the slot or the glass.
THEOREM PicturesAreWhole == Spec => []NoTornPicture
<1>1. IInv => NoTornPicture
  BY DEF IInv, PictureInv
<1> QED
  BY <1>1, Inductive, PTL

\* The card claims only what was put into the slot under its pairing.
THEOREM ClaimsArePlaced == Spec => []ClaimWasPlaced
<1>1. IInv => ClaimWasPlaced
  BY DEF IInv, PictureInv, Claims, ClaimWasPlaced
<1> QED
  BY <1>1, Inductive, PTL

\* A reader that its phone has not let go never sleeps without a timer, but for
\* the sleeps that setup() begins by itself (brushed).
THEOREM AlwaysATimer == Spec => []TimerKept
<1>1. IInv => TimerKept
  BY DEF IInv, TimerInv
<1> QED
  BY <1>1, Inductive, PTL
------------------------------------------------------------------------------
(* The backoff.                                                             *)

LEMMA OwesLater ==
  ASSUME TypeOK, Owes(card), streak' = streak, NEW d \in Nat, Passes(d)
  PROVE  Owes(card)'
<1>1. card \in States /\ owed \in Nat
  BY DelayAssumption DEF TypeOK
<1>2. card'.fails = card.fails /\ card'.age <= card.age + d /\ card'.age \in Nat /\ card.age \in Nat
  BY <1>1, PassesFacts, HorizonFacts DEF TypeOK, Later, Smaller, States
<1>3. retryDelay(card.fails) \in Nat
  BY <1>1, DelayFacts, DelayAssumption DEF States
<1>4. owed' = (IF owed <= d THEN 0 ELSE owed - d)
  BY DEF Passes
<1> QED
  BY <1>1, <1>2, <1>3, <1>4 DEF Owes

LEMMA FailsOwes ==
  ASSUME TypeOK, Owes(work), NEW st \in States, st.fails = work.fails,
         work' = Failed(st), Counted(Smaller(streak + 1, MaxFails))
  PROVE  Owes(work)'
<1> DEFINE n == Smaller(streak + 1, MaxFails)
           m == Smaller(st.fails + 1, MaxFails)
<1>1. streak \in 0 .. MaxFails /\ st.fails \in 0 .. MaxFails /\ streak <= st.fails
  BY DEF TypeOK, Owes, States
<1>2. n \in 0 .. MaxFails /\ m \in n .. MaxFails
  BY <1>1, FailsAssumption DEF Smaller
<1>3. work'.fails = m /\ work'.age = 0
  BY StateFacts
<1>4. streak' = n /\ owed' = retryDelay(n)
  BY DEF Counted
<1> HIDE DEF n, m
<1>5. retryDelay(n) \in Nat /\ retryDelay(n) <= retryDelay(m)
  BY <1>2, DelayFacts, DelayAssumption
<1> QED
  BY <1>2, <1>3, <1>4, <1>5, FailsAssumption DEF Owes

LEMMA NothingOwed ==
  ASSUME Counted(0), TypeOK'
  PROVE  Owes(card)' /\ Owes(work)' /\ owed' = 0
<1>1. streak' = 0 /\ owed' = 0
  BY DEF Counted, retryDelay
<1>2. card'.fails \in Nat /\ work'.fails \in Nat
  BY FailsAssumption DEF TypeOK, States
<1> QED
  BY <1>1, <1>2 DEF Owes

\* A sleep that fetches by the schedule has nothing left to wait for.
LEMMA DueFacts ==
  ASSUME TypeOK, Owes(card), fetchNow(card, clock, FALSE)
  PROVE  owed = 0
<1>1. card.fails \in 0 .. MaxFails /\ card.age \in Nat /\ owed \in Nat
  BY DelayAssumption, HorizonFacts DEF TypeOK, States
<1>2. retryDelay(card.fails) \in Nat /\ retryDelay(card.fails) <= MaxRetry /\ retryDelay(0) = 0
  BY <1>1, DelayFacts, DelayAssumption DEF retryDelay
<1>3. card.age = Never \/ card.fails = 0 \/ card.age >= retryDelay(card.fails)
  BY <1>1, FailsAssumption DEF fetchNow, waitOf
<1> QED
  BY <1>1, <1>2, <1>3, HorizonFacts, DelayAssumption DEF Owes

LEMMA BackoffStep ==
  ASSUME BuildTimer = 0, IInv, BackoffInv, [Next]_vars, TypeOK'
  PROVE  BackoffInv'
<1> USE DEF BackoffInv
<1>1. card \in States /\ work \in States
  BY DEF IInv, TypeOK
<1>2. phase \in {"ui", "asleep"} => pc = "idle"
  BY DEF IInv, FlowInv
<1>3. TypeOK
  BY DEF IInv
<1>4. CASE UNCHANGED vars
  BY <1>4 DEF vars, hardware, past, Owes, Falling, eligible, paired
<1>5. CASE JoinFails \/ PullFails \/ TearsUp \/ CommitFails
  <2>1. PICK st \in States : /\ st.fails = work.fails /\ st.key = work.key /\ st.on = work.on
                             /\ work' = Failed(st) /\ Counted(Smaller(streak + 1, MaxFails))
    BY <1>1, <1>5, AdoptedFacts DEF JoinFails, PullFails, TearsUp, CommitFails, FailsWith, Heard
  <2>2. pc \in {"ask", "got", "move"} /\ pc' = "save" /\ UNCHANGED <<card, phase>>
    BY <1>5 DEF JoinFails, PullFails, TearsUp, CommitFails, FailsWith
  <2>3. Owes(work)'
    BY <1>2, <1>3, <2>1, <2>2, FailsOwes
  <2>4. work'.key = work.key /\ work'.on = work.on
    BY <2>1, StateFacts
  <2> QED
    BY <1>2, <2>2, <2>3, <2>4 DEF Falling, eligible, paired
<1>6. CASE PullRefused \/ PullNothing \/ CommitRenames
  <2>1. Counted(0) /\ pc \in {"ask", "move"} /\ pc' = "save" /\ phase' = phase
    BY <1>6 DEF PullRefused, PullNothing, CommitRenames, SucceedsWith
  <2> QED
    BY <1>2, <2>1, NothingOwed
<1>7. CASE SaveFails
  <2>1. Counted(0) /\ pc \in {"save", "name"} /\ pc' = "done" /\ phase' = phase
    BY <1>7 DEF SaveFails
  <2> QED
    BY <1>2, <2>1, NothingOwed
<1>8. CASE PullPicture
  <2>1. /\ work'.fails = work.fails /\ work'.age = work.age
        /\ work'.key = work.key /\ work'.on = work.on
    BY <1>1, <1>8, AdoptedFacts DEF PullPicture, Heard
  <2>2. pc = "ask" /\ pc' = "got" /\ UNCHANGED <<card, phase, armed, streak, owed>>
    BY <1>8 DEF PullPicture, past
  <2> QED
    BY <1>2, <2>1, <2>2 DEF Owes, Falling, eligible, paired
<1>9. CASE CommitRemoves \/ SaveRemoves
  BY <1>2, <1>9 DEF CommitRemoves, SaveRemoves, Unpaired, past, Owes, Falling, eligible, paired
<1>10. CASE SaveRenames
  BY <1>2, <1>10 DEF SaveRenames, past, Owes, Falling, eligible, paired
<1>11. CASE Sleep
  BY <1>11 DEF Sleep, enterDeepSleep, OnSleep, fetchNow, past, Owes, Falling, eligible, paired
<1>12. CASE GoesDown \/ (TimerDone /\ ~arrived)
  <2>1. /\ phase' = "asleep" /\ pc' = "idle" /\ UNCHANGED <<card, streak, owed>>
        /\ armed' = (IF NextWake > 0 THEN NextWake ELSE BuildTimer)
        /\ pc = "done" /\ Falling
    BY <1>12 DEF GoesDown, TimerDone, StartDeepSleep, past, Falling
  <2>2. clock \in BOOLEAN /\ owed \in Nat /\ work.age \in Nat /\ work.fails \in 0 .. MaxFails
    BY <1>1, <1>3, DelayAssumption, HorizonFacts DEF TypeOK, States
  <2>3. ASSUME eligible(work), owed # 0 PROVE owed <= NextWake
    <3>1. owed + work.age <= retryDelay(work.fails)
      BY <2>1, <2>3 DEF Owes, Falling
    <3>2. retryDelay(work.fails) \in Nat /\ retryDelay(0) = 0
      BY <2>2, DelayFacts, DelayAssumption DEF retryDelay
    <3>3. work.fails > 0
      BY <2>2, <2>3, <3>1, <3>2
    <3>4. NextWake \in Nat /\ NextWake >= retryDelay(work.fails) - work.age
      BY <1>1, <2>2, <2>3, <3>3, TimerIsSet DEF NextWake
    <3> QED
      BY <2>2, <3>1, <3>2, <3>4
  <2>4. eligible(card)' => owed' <= armed'
    BY <1>3, <2>1, <2>2, <2>3, NextWakeFacts DEF eligible, paired
  <2> QED
    BY <2>1, <2>4 DEF Owes, Falling
<1>13. CASE TimerDone /\ arrived
  BY <1>13 DEF TimerDone, enterDeepSleep, OnSleep, fetchNow, past, Owes, Falling, eligible, paired
<1>14. CASE TimerWake \/ PowerWake \/ Brushed \/ Reads
  <2>1. PICK d \in Nat : Passes(d)
    BY <1>3, <1>14, ElapsedFacts DEF TimerWake, PowerWake, Brushed, Reads, TypeOK
  <2>2. pc = "idle" /\ streak' = streak
    BY <1>2, <1>14 DEF TimerWake, PowerWake, Brushed, Reads
  <2>3. Owes(card)'
    BY <1>3, <2>1, <2>2, OwesLater
  <2>4. CASE TimerWake
    BY <2>3, <2>4 DEF TimerWake, OnSleep, fetchNow, Owes, Falling, eligible, paired
  <2>5. CASE PowerWake \/ Brushed \/ Reads
    BY <2>2, <2>3, <2>5 DEF PowerWake, Brushed, Reads, Awake, Falling
  <2> QED
    BY <1>14, <2>4, <2>5
<1>15. CASE Cut \/ ColdOnUsb \/ Aborts
  <2>1. Owes(card)'
    <3>1. card' = card /\ Uncounted
      BY <1>15 DEF Cut, ColdOnUsb, Aborts, enterDeepSleep
    <3>2. CASE pc = "idle"
      BY <3>1, <3>2 DEF Uncounted, Owes
    <3>3. CASE pc # "idle"
      BY <3>1, <3>3, NothingOwed DEF Uncounted
    <3> QED
      BY <3>2, <3>3
  <2>2. \/ phase' = "ui"
        \/ phase' = "asleep" /\ armed' = 0
        \/ phase' = "tail" /\ work' = card' /\ (pc' \in {"ask", "got", "move"} => eligible(card)')
    BY <1>15 DEF Cut, ColdOnUsb, Aborts, Awake, enterDeepSleep, OnSleep, fetchNow, eligible, paired
  <2> QED
    BY <2>1, <2>2 DEF Owes, Falling, eligible, paired
<1>16. CASE OpenApp \/ CloseApp \/ RunLiveCheck \/ AppDone \/ AsksNow \/ LiveTakesOver \/ ChooseOne \/ ChooseFails
            \/ ChooseNone
  BY <1>2, <1>16 DEF OpenApp, CloseApp, RunLiveCheck, AppDone, AsksNow, LiveTakesOver, ChooseOne, ChooseFails,
     ChooseNone, InApp, Tap, past, Owes, Falling
<1>17. CASE toggleLive \/ Chosen \/ ChooseSet
  <2>1. work'.fails = work.fails /\ work'.age = work.age /\ UNCHANGED <<card, streak, owed>>
    BY <1>1, <1>17 DEF toggleLive, Chosen, ChooseSet, LiveGivesWay, past, States
  <2>2. phase = "app" /\ phase' \in {"app", "switch"} /\ pc \notin {"save", "name"}
    BY <1>17 DEF toggleLive, Chosen, ChooseSet, InApp, Tap, IInv, FlowInv
  <2> QED
    BY <2>1, <2>2 DEF Owes, Falling
<1>18. CASE pollLivePairing
  <2>1. Counted(0) /\ phase' = "app"
    BY <1>18 DEF pollLivePairing, InApp, Tap
  <2> QED
    BY <2>1, NothingOwed DEF Falling
<1>19. CASE Sends \/ Disconnects
  BY <1>19 DEF Sends, Disconnects, hardware, past, Owes, Falling, eligible, paired
<1> QED
  BY <1>4, <1>5, <1>6, <1>7, <1>8, <1>9, <1>10, <1>11, <1>12, <1>13, <1>14, <1>15, <1>16, <1>17, <1>18,
     <1>19
  DEF Next, Check, Power, App

LEMMA BackoffAction ==
  ASSUME IInv, BackoffInv, [Next]_vars, TypeOK', pc # "ask", pc' = "ask", phase' # "app"
  PROVE  owed' = 0
<1>1. TypeOK
  BY DEF IInv
<1>2. CASE Sleep
  <2>1. fetchNow(card, clock, FALSE) /\ pc = "idle" /\ owed' = owed
    BY <1>2 DEF Sleep, enterDeepSleep, OnSleep, past
  <2> QED
    BY <1>1, <2>1, DueFacts DEF BackoffInv
<1>3. CASE TimerDone
  <2>1. fetchNow(card, clock, FALSE) /\ pc = "done" /\ owed' = owed
    BY <1>3 DEF TimerDone, StartDeepSleep, enterDeepSleep, OnSleep, past
  <2> QED
    BY <1>1, <2>1, DueFacts DEF BackoffInv
<1>4. CASE TimerWake
  <2>1. phase = "asleep" /\ armed > 0 /\ Passes(armed) /\ eligible(card')
    BY <1>4 DEF TimerWake, OnSleep, fetchNow
  <2>2. armed \in Nat /\ owed \in Nat
    BY <1>1, DelayAssumption DEF TypeOK
  <2>3. eligible(card)
    BY <1>1, <2>1, <2>2, PassesFacts DEF TypeOK, eligible, paired
  <2> QED
    BY <2>1, <2>2, <2>3 DEF BackoffInv, Passes
<1>5. CASE Aborts
  <2>1. fetchNow(card, clock, FALSE) /\ Uncounted
    BY <1>5 DEF Aborts, Forgets, enterDeepSleep, OnSleep
  <2>2. CASE pc = "idle"
    BY <1>1, <2>1, <2>2, DueFacts DEF BackoffInv, Uncounted
  <2>3. CASE pc # "idle"
    BY <2>1, <2>3, NothingOwed DEF Uncounted
  <2> QED
    BY <2>2, <2>3
<1>6. CASE RunLiveCheck
  BY <1>6 DEF RunLiveCheck, InApp
<1>7. CASE Check \/ GoesDown \/ Cut \/ ColdOnUsb
  BY <1>7 DEF Check, JoinFails, PullFails, PullRefused, PullNothing, PullPicture, TearsUp, CommitRemoves,
     CommitRenames, CommitFails, SaveRemoves, SaveRenames, SaveFails, FailsWith, SucceedsWith, GoesDown,
     StartDeepSleep, Cut, ColdOnUsb, Forgets
<1>8. CASE PowerWake \/ Brushed \/ Reads \/ OpenApp \/ CloseApp \/ AppDone \/ AsksNow \/ LiveTakesOver \/ ChooseNone
           \/ Sends \/ Disconnects \/ UNCHANGED vars
  BY <1>8 DEF PowerWake, Brushed, Reads, OpenApp, CloseApp, AppDone, AsksNow, LiveTakesOver, ChooseNone, Sends,
     Disconnects, vars
<1>9. CASE toggleLive \/ ChooseOne \/ Chosen \/ ChooseFails \/ ChooseSet \/ pollLivePairing
  BY <1>9 DEF toggleLive, ChooseOne, Chosen, ChooseFails, ChooseSet, pollLivePairing, LiveGivesWay
<1> QED
  BY <1>2, <1>3, <1>4, <1>5, <1>6, <1>7, <1>8, <1>9 DEF Next, Power, App

LEMMA BackoffInit == Init => BackoffInv
<1> SUFFICES ASSUME Init PROVE BackoffInv
  OBVIOUS
<1>1. owed = 0 /\ streak = 0 /\ card.fails = 0 /\ phase = "ui"
  BY DEF Init, Unpaired
<1> QED
  BY <1>1 DEF BackoffInv, Owes, Falling

\* Without a timer in the build, no check that nobody asked for begins before
\* the delay that the failures in a row call for is over.
THEOREM BackoffIsKept == ASSUME BuildTimer = 0 PROVE Spec => BackoffHolds
<1>1. Init => IInv /\ BackoffInv
  BY InvInit, BackoffInit
<1>2. (IInv /\ BackoffInv) /\ [Next]_vars => (IInv /\ BackoffInv)'
  <2> SUFFICES ASSUME IInv, BackoffInv, [Next]_vars PROVE IInv' /\ BackoffInv'
    OBVIOUS
  <2>1. IInv'
    BY InvStep
  <2>2. TypeOK'
    BY <2>1 DEF IInv
  <2> QED
    BY <2>1, <2>2, BackoffStep
<1>3. IInv /\ IInv' /\ BackoffInv /\ [Next]_vars
      => [(pc # "ask" /\ pc' = "ask" /\ phase' # "app") => owed' = 0]_vars
  <2> SUFFICES ASSUME IInv, IInv', BackoffInv, [Next]_vars,
                      pc # "ask", pc' = "ask", phase' # "app"
               PROVE  owed' = 0
    OBVIOUS
  <2>1. TypeOK'
    BY DEF IInv
  <2> QED
    BY <2>1, BackoffAction
<1> QED
  BY <1>1, <1>2, <1>3, PTL DEF Spec, BackoffHolds
=============================================================================
