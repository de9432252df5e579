--------------------------- MODULE ScreensProofs ---------------------------
(***************************************************************************)
(* Proofs about the activity manager, for any buttons, any screens and any *)
(* depth of the stack.                                                     *)
(***************************************************************************)
EXTENDS ScreensProps, SequenceTheorems, TLAPS

USE DEF Bodies

------------------------------------------------------------------------------
(* The release gate.                                                        *)

\* Polling keeps the gate's invariant whatever comes of the pass.
LEMMA PollKeepsGate ==
  ASSUME GateInv, NEW now \in SUBSET Buttons, Poll(now)
  PROVE  GateInv'
  BY DEF GateInv, Poll, settle

LEMMA SetCurrentKeepsGate ==
  ASSUME GateInv, NEW s, SetCurrent(s), pc' \notin {"gate", "act"}
  PROVE  GateInv'
  BY DEF GateInv, SetCurrent, arm

LEMMA SettleKeepsGate ==
  ASSUME GateInv, pc = "gate", Settle, UNCHANGED <<held, pressed, released, owns>>
  PROVE  GateInv'
  BY DEF GateInv, Settle, settle

LEMMA OtherwiseGate ==
  ASSUME GateInv, UNCHANGED <<held, pressed, released, armed, owns>>,
         pc' = pc \/ pc' \notin {"gate", "act"}
  PROVE  GateInv'
  BY DEF GateInv

LEMMA GateStep ==
  ASSUME GateInv, [Next]_vars
  PROVE  GateInv'
<1>1. CASE UNCHANGED vars
  BY <1>1, OtherwiseGate DEF vars, inputs
<1>2. CASE Skip \/ Proceed \/ PowerChanged \/ GoToSleep \/ Pump
  BY <1>2, PollKeepsGate DEF Skip, Proceed, PowerChanged, GoToSleep, Pump, Polled
<1>3. CASE Consume \/ RunTop \/ HomeGesture \/ \E s \in Apps : LightPanel(s)
  BY <1>3, SettleKeepsGate DEF Consume, RunTop, HomeGesture, LightPanel
<1>4. CASE goHome \/ PopQuiet \/ PopResult \/ Push \/ Replace
  BY <1>4, SetCurrentKeepsGate DEF goHome, PopQuiet, PopResult, Push, Replace
<1>5. CASE Reset
  BY <1>5 DEF Reset, GateInv
<1>6. CASE \E b \in Buttons : LongPress(b)
  BY <1>6, OtherwiseGate DEF LongPress
<1>7. CASE RenderStep
  BY <1>7, OtherwiseGate DEF RenderStep, Wake, BeginDraw, NothingToDraw, EndDraw, inputs
<1>8. CASE Call
  BY <1>8, OtherwiseGate
     DEF Call, RequestUpdate, RequestNow, RequestAndWait, Finish, Start, GoTo, inputs
<1>9. CASE Return \/ Resume \/ TakeLock \/ PopLast \/ Flush
  BY <1>9, OtherwiseGate DEF Return, Resume, TakeLock, PopLast, Flush, Done, inputs
<1> QED
  BY <1>1, <1>2, <1>3, <1>4, <1>5, <1>6, <1>7, <1>8, <1>9 DEF Next, LoopStep, User

------------------------------------------------------------------------------
(* The mutex and the render task.                                           *)

\* A screen that is put on top is a screen.
LEMMA TopIsScreen ==
  ASSUME StackInv, stack # <<>>
  PROVE  /\ Len(stack) \in Nat \ {0} /\ Top = stack[Len(stack)] /\ Top \in Screens \ {Sleep, UsbDrive}
         /\ Below \in Seq(Screens \ {Sleep, UsbDrive}) /\ Len(Below) = Len(stack) - 1
         /\ \A i \in 1 .. Len(Below) : Below[i] = stack[i]
<1> DEFINE S == Screens \ {Sleep, UsbDrive}
           n == Len(stack)
<1>1. stack \in Seq(S)
  BY DEF StackInv
<1> HIDE DEF S
<1>2. n \in Nat \ {0} /\ \A i \in 1 .. n : stack[i] \in S
  BY <1>1
<1>3. /\ SubSeq(stack, 1, n - 1) \in Seq(S) /\ Len(SubSeq(stack, 1, n - 1)) = n - 1
      /\ \A i \in 1 .. n - 1 : SubSeq(stack, 1, n - 1)[i] = stack[i]
  <2>1. \A i \in 1 .. n - 1 : stack[i] \in S
    BY <1>2
  <2>2. 1 \in Int /\ n - 1 \in Int
    BY <1>2
  <2> HIDE DEF n
  <2> QED
    BY <2>1, <2>2, <1>2, SubSeqProperties
<1> QED
  BY <1>2, <1>3 DEF Top, Below, S

\* The screens that are alive, one by one.
LEMMA OnTopIs ==
  ASSUME StackInv
  PROVE  /\ DOMAIN OnTop = 1 .. Len(stack) + 1 /\ OnTop[Len(stack) + 1] = current
         /\ \A i \in 1 .. Len(stack) : OnTop[i] = stack[i]
<1> DEFINE S == Screens \union {Nobody}
<1>1. stack \in Seq(S) /\ <<current>> \in Seq(S) /\ Len(<<current>>) = 1
  BY DEF StackInv
<1> HIDE DEF S
<1>2. Len(stack) \in Nat
  BY <1>1
<1>3. /\ OnTop \in Seq(S) /\ Len(OnTop) = Len(stack) + 1
      /\ \A i \in 1 .. Len(stack) + 1 :
           OnTop[i] = IF i <= Len(stack) THEN stack[i] ELSE <<current>>[i - Len(stack)]
  BY <1>1, ConcatProperties DEF OnTop
<1> QED
  BY <1>2, <1>3

LEMMA AliveIs ==
  ASSUME StackInv, NEW s, s \notin Alive
  PROVE  s # current /\ \A i \in 1 .. Len(stack) : stack[i] # s
<1>1. Len(stack) \in Nat
  BY DEF StackInv
<1> QED
  BY <1>1, OnTopIs DEF Alive

LEMMA NobodyIsNoScreen == Nobody \notin Screens
  BY ScreensDiffer DEF Screens

LEMMA TaskStep ==
  ASSUME IInv, [Next]_vars
  PROVE  TaskInv'
<1> USE ScreensDiffer DEF TaskInv, IInv
<1>1. CASE UNCHANGED vars
  BY <1>1 DEF vars, place, updates
<1>2. CASE Skip \/ Proceed \/ PowerChanged \/ GoToSleep \/ Pump
  BY <1>2 DEF Skip, Proceed, PowerChanged, GoToSleep, Pump, Polled, InBody, place, updates
<1>3. CASE Consume \/ RunTop \/ HomeGesture \/ \E s \in Apps : LightPanel(s)
  BY <1>3 DEF Consume, RunTop, HomeGesture, LightPanel, Done, place, updates
<1>4. CASE goHome \/ PopQuiet \/ PopResult \/ Push \/ Replace
  <2>1. current' # Nobody
    BY <1>4, TopIsScreen, NobodyIsNoScreen
       DEF goHome, PopQuiet, PopResult, Push, Replace, SetCurrent, PendingInv, Screens
  <2> QED
    BY <1>4, <2>1 DEF goHome, PopQuiet, PopResult, Push, Replace, SetCurrent, updates
<1>5. CASE Reset
  BY <1>5 DEF Reset
<1>6. CASE \E b \in Buttons : LongPress(b)
  BY <1>6 DEF LongPress, place, updates
<1>7. CASE RenderStep
  BY <1>7 DEF RenderStep, Wake, BeginDraw, NothingToDraw, EndDraw, Tell, place
<1>8. CASE Call
  BY <1>8
     DEF Call, RequestUpdate, RequestNow, RequestAndWait, Finish, Start, GoTo, place, updates
<1>9. CASE Return \/ Resume \/ TakeLock \/ PopLast \/ Flush
  BY <1>9 DEF Return, Resume, TakeLock, PopLast, Flush, Done, InBody, place
<1> QED
  BY <1>1, <1>2, <1>3, <1>4, <1>5, <1>6, <1>7, <1>8, <1>9 DEF Next, LoopStep, User

------------------------------------------------------------------------------
(* The stack and the result handlers.                                       *)

LEMMA StackKept ==
  ASSUME StackInv, UNCHANGED place
  PROVE  StackInv'
  BY DEF StackInv, Above, place

LEMMA StackStep ==
  ASSUME IInv, [Next]_vars
  PROVE  StackInv'
<1> USE ScreensDiffer, NobodyIsNoScreen DEF IInv
<1>1. CASE UNCHANGED vars
  BY <1>1, StackKept DEF vars
<1>2. CASE Skip \/ Proceed \/ PowerChanged \/ GoToSleep \/ Pump
  BY <1>2, StackKept DEF Skip, Proceed, PowerChanged, GoToSleep, Pump
<1>3. CASE Consume \/ RunTop \/ HomeGesture \/ \E s \in Apps : LightPanel(s)
  BY <1>3, StackKept DEF Consume, RunTop, HomeGesture, LightPanel
<1>4. CASE goHome
  BY <1>4 DEF goHome, SetCurrent, StackInv, Above, TaskInv, PendingInv, Screens
<1>5. CASE PopQuiet \/ PopResult
  <2>1. /\ current' = Top /\ stack' = Below
        /\ handler' = [handler EXCEPT ![current] = Nobody, ![Top] = Nobody]
    BY <1>5, TopIsScreen DEF PopQuiet, PopResult, SetCurrent, StackInv
  <2>2. stack # <<>>
    BY <1>5 DEF PopQuiet, PopResult
  <2>3. current \in Screens
    BY <1>5 DEF PopQuiet, PopResult, TaskInv, StackInv
  <2>4. ASSUME NEW i \in 1 .. Len(Below)
        PROVE  /\ stack[i] # Top
               /\ handler[stack[i]] \in {Nobody, IF i < Len(Below) THEN Below[i + 1] ELSE Top}
    <3>1. /\ i \in 1 .. Len(stack) /\ i < Len(stack) /\ Len(stack) \in 1 .. Len(stack)
          /\ Top = stack[Len(stack)]
      BY <2>2, TopIsScreen
    <3>2. stack[i] # Top /\ handler[stack[i]] \in {Nobody, stack[i + 1]}
      BY <3>1 DEF StackInv, Above
    <3>3. stack[i + 1] = IF i < Len(Below) THEN Below[i + 1] ELSE Top
      BY <2>2, <3>1, TopIsScreen
    <3> QED
      BY <3>2, <3>3
  <2> QED
    BY SMTT(30), <2>1, <2>2, <2>3, <2>4, TopIsScreen DEF StackInv, Above
<1>6. CASE Push
  BY <1>6 DEF Push, SetCurrent, StackInv, Above, TaskInv, PendingInv, Screens
<1>7. CASE Replace
  BY <1>7 DEF Replace, SetCurrent, StackInv, Above, PendingInv
<1>8. CASE Reset
  BY <1>8 DEF Reset, StackInv, Above, Screens
<1>9. CASE PopLast
  BY <1>9 DEF PopLast, StackInv, Above, TaskInv
<1>10. CASE \E s \in Apps : Start(s)
  BY <1>10 DEF Start, InBody, StackInv, Above, TaskInv
<1>11. CASE Call /\ ~(\E s \in Apps : Start(s))
  BY <1>11, StackKept DEF Call, RequestUpdate, RequestNow, RequestAndWait, Finish, GoTo
<1>12. CASE \/ \E b \in Buttons : LongPress(b)
            \/ RenderStep \/ Return \/ Resume \/ TakeLock \/ Flush
  BY <1>12, StackKept
     DEF LongPress, RenderStep, Wake, BeginDraw, NothingToDraw, EndDraw, Return, Resume,
         TakeLock, Flush
<1> QED
  BY <1>1, <1>2, <1>3, <1>4, <1>5, <1>6, <1>7, <1>8, <1>9, <1>10, <1>11, <1>12
     DEF Next, LoopStep, User

------------------------------------------------------------------------------
(* What is pending.                                                         *)

LEMMA PendingStep ==
  ASSUME IInv, [Next]_vars
  PROVE  PendingInv'
<1> USE ScreensDiffer, NobodyIsNoScreen DEF IInv, PendingInv
<1>1. CASE UNCHANGED vars
  BY <1>1 DEF vars, place, intent
<1>2. CASE Skip \/ Proceed \/ PowerChanged \/ Pump
  BY <1>2 DEF Skip, Proceed, PowerChanged, Pump, Polled, InBody, place, intent
<1>3. CASE GoToSleep
  BY <1>3 DEF GoToSleep, Polled, Pend, Exclusive, Screens, place
<1>4. CASE Consume \/ RunTop
  BY <1>4 DEF Consume, RunTop, Done, place, intent
<1>5. CASE HomeGesture
  BY <1>5 DEF HomeGesture, Done, Pend, Exclusive, Screens, place, intent
<1>6. ASSUME NEW s \in Apps, LightPanel(s) PROVE PendingInv'
  <2>1. s # current /\ \A i \in 1 .. Len(stack) : stack[i] # s
    BY <1>6, AliveIs DEF LightPanel
  <2> QED
    BY <1>6, <2>1 DEF LightPanel, Done, Pend, Exclusive, place
<1>7. CASE goHome
  BY <1>7 DEF goHome, SetCurrent, StackInv, Screens, intent
<1>8. CASE PopQuiet \/ PopResult
  <2>1. current' = Top /\ handler'[Top] = Nobody
    BY <1>8, TopIsScreen DEF PopQuiet, PopResult, SetCurrent, StackInv, TaskInv
  <2> QED
    BY <1>8, <2>1, TopIsScreen DEF PopQuiet, PopResult, Pend
<1>9. CASE Push
  BY <1>9 DEF Push, SetCurrent, Pend, StackInv, Screens
<1>10. CASE Replace
  BY <1>10 DEF Replace, SetCurrent, Pend, StackInv, Screens
<1>11. CASE Reset
  BY <1>11 DEF Reset, Pend, Screens
<1>12. CASE PopLast
  BY <1>12 DEF PopLast, Pend
<1>13. ASSUME NEW s \in Apps, Start(s) PROVE PendingInv'
  <2>1. s # current /\ \A i \in 1 .. Len(stack) : stack[i] # s
    BY <1>13, AliveIs DEF Start
  <2> QED
    BY <1>13, <2>1 DEF Start, InBody, Navigates, Exclusive, Pend, StackInv, TaskInv
<1>14. CASE Finish \/ \E s \in Places : GoTo(s)
  BY <1>14 DEF Finish, GoTo, InBody, Navigates, Exclusive, Pend, Screens, place
<1>15. CASE RequestUpdate \/ RequestNow \/ RequestAndWait
  BY <1>15 DEF RequestUpdate, RequestNow, RequestAndWait, place, intent
<1>16. CASE Return \/ Flush
  BY <1>16 DEF Return, Flush, InBody, Exclusive, Done, place, intent
<1>17. CASE (\E b \in Buttons : LongPress(b)) \/ RenderStep \/ Resume \/ TakeLock
  BY <1>17
     DEF LongPress, RenderStep, Wake, BeginDraw, NothingToDraw, EndDraw, Resume, TakeLock,
         place, intent
<1> QED
  BY <1>1, <1>2, <1>3, <1>4, <1>5, <1>6, <1>7, <1>8, <1>9, <1>10, <1>11, <1>12, <1>13, <1>14,
     <1>15, <1>16, <1>17
     DEF Next, LoopStep, Call, User

------------------------------------------------------------------------------
(* The rest of the types.                                                   *)

LEMMA RestStep ==
  ASSUME RestInv, GateInv, [Next]_vars
  PROVE  RestInv'
<1> USE DEF RestInv, GateInv
<1>1. CASE UNCHANGED vars
  BY <1>1 DEF vars, inputs, updates
<1>2. CASE Skip \/ Proceed \/ PowerChanged \/ GoToSleep \/ Pump
  BY <1>2 DEF Skip, Proceed, PowerChanged, GoToSleep, Pump, Polled, Poll, updates
<1>3. CASE Consume \/ RunTop \/ HomeGesture \/ \E s \in Apps : LightPanel(s)
  BY <1>3 DEF Consume, RunTop, HomeGesture, LightPanel, updates
<1>4. CASE goHome \/ PopQuiet \/ PopResult \/ Push \/ Replace
  BY <1>4 DEF goHome, PopQuiet, PopResult, Push, Replace, SetCurrent, updates
<1>5. CASE Reset
  BY <1>5 DEF Reset
<1>6. CASE \E b \in Buttons : LongPress(b)
  BY <1>6 DEF LongPress, updates
<1>7. CASE RenderStep
  BY <1>7 DEF RenderStep, Wake, BeginDraw, NothingToDraw, EndDraw, Tell, inputs
<1>8. CASE Call
  BY <1>8
     DEF Call, RequestUpdate, RequestNow, RequestAndWait, Finish, Start, GoTo, inputs, updates
<1>9. CASE Return \/ Resume \/ TakeLock \/ PopLast \/ Flush
  BY <1>9 DEF Return, Resume, TakeLock, PopLast, Flush, inputs
<1> QED
  BY <1>1, <1>2, <1>3, <1>4, <1>5, <1>6, <1>7, <1>8, <1>9 DEF Next, LoopStep, User

------------------------------------------------------------------------------
(* The invariant, and what follows from it.                                 *)

THEOREM Inductive == Spec => []IInv
<1>1. Init => IInv
  <2> SUFFICES ASSUME Init PROVE IInv
    OBVIOUS
  <2>1. RestInv /\ GateInv
    BY DEF Init, Boot, RestInv, GateInv
  <2>2. TaskInv
    BY ScreensDiffer DEF Init, Boot, TaskInv
  <2>3. StackInv /\ PendingInv
    BY ScreensDiffer, NobodyIsNoScreen DEF Init, Boot, StackInv, PendingInv, Screens
  <2> QED
    BY <2>1, <2>2, <2>3 DEF IInv
<1>2. IInv /\ [Next]_vars => IInv'
  BY RestStep, GateStep, TaskStep, StackStep, PendingStep DEF IInv
<1> QED
  BY <1>1, <1>2, PTL DEF Spec

\* Every variable is what the code may hold, and no screen is alive twice.
THEOREM TypeCorrect == Spec => []TypeOK
<1>1. IInv => TypeOK
  <2> SUFFICES ASSUME IInv PROVE TypeOK
    OBVIOUS
  <2> USE DEF IInv
  <2>1. Len(stack) \in Nat
    BY DEF StackInv
  <2>2. \A i, j \in DOMAIN OnTop : OnTop[i] = OnTop[j] => i = j
    BY <2>1, OnTopIs DEF StackInv
  <2>3. pending = "push" => next \in Apps \ Alive
    BY <2>1, OnTopIs DEF Alive, PendingInv
  <2>4. <<pending, next>> \in {<<"none", Nobody>>, <<"pop", Nobody>>}
          \union {"push"} \X (Apps \ Alive) \union {"replace"} \X Screens
    BY <2>3 DEF PendingInv
  <2>5. drawn \in Screens \union {Nobody}
    BY DEF TaskInv, StackInv
  <2> QED
    BY <2>2, <2>4, <2>5 DEF TypeOK, RestInv, GateInv, TaskInv, StackInv, PendingInv
<1> QED
  BY <1>1, Inductive, PTL

\* A screen reads no release of a press it was not on top for.
THEOREM OwnReleases == Spec => []ReleaseIsOwn
<1>1. IInv => ReleaseIsOwn
  BY DEF IInv, GateInv, ReleaseIsOwn, passed
<1> QED
  BY <1>1, Inductive, PTL

\* The gate stands in the way of no press that the screen on top saw, and is
\* open again after the release it waited for.
THEOREM GateOpens == Spec => []GateLetsOwnThrough
<1>1. IInv => GateLetsOwnThrough
  BY DEF IInv, GateInv, GateLetsOwnThrough
<1> QED
  BY <1>1, Inductive, PTL

\* What is drawn is on top and alive until the drawing is over.
THEOREM LivingDrawn == Spec => []DrawsTheLiving
<1>1. IInv => DrawsTheLiving
  BY DEF IInv, TaskInv, DrawsTheLiving
<1> QED
  BY <1>1, Inductive, PTL

\* A handler is called with the result of the screen it was set for.
THEOREM ResultsGoHome == Spec => []ResultToStarter
<1>1. IInv => ResultToStarter
  <2> SUFFICES ASSUME IInv PROVE ResultToStarter
    OBVIOUS
  <2>1. \A i \in 1 .. Len(stack) : Above(i) = OnTop[i + 1]
    BY OnTopIs DEF IInv, Above
  <2>2. \A i \in DOMAIN stack : handler[stack[i]] \in {Nobody, OnTop[i + 1]}
    BY <2>1 DEF IInv, StackInv
  <2>3. stack # <<>> => handler[Top] \in {Nobody, current}
    BY TopIsScreen DEF IInv, StackInv, Above
  <2> QED
    BY <2>2, <2>3 DEF ResultToStarter
<1> QED
  BY <1>1, Inductive, PTL

\* The USB drive is left by a restart and by nothing else.
THEOREM UsbDriveStays == Spec => StorageIsExclusive
<1>1. IInv /\ [Next]_vars => [current = UsbDrive => current' = UsbDrive \/ Reset]_vars
  <2> SUFFICES ASSUME IInv, Next, current = UsbDrive, ~Reset
               PROVE  current' = UsbDrive
    BY DEF vars, place
  <2>1. pc \notin {"swap", "home"}
    BY ScreensDiffer, NobodyIsNoScreen DEF IInv, PendingInv, TaskInv, Screens
  <2> QED
    BY <2>1
       DEF Next, LoopStep, RenderStep, Call, User, Proceed, Consume, RunTop, Return, Resume,
           TakeLock, PopLast, goHome, PopQuiet, PopResult, Push, Replace, Flush, Wake, BeginDraw,
           NothingToDraw, EndDraw, RequestUpdate, RequestNow, RequestAndWait, Finish, Start, GoTo,
           Skip, PowerChanged, GoToSleep, HomeGesture, Pump, LongPress, LightPanel, place
<1> QED
  BY <1>1, Inductive, PTL DEF Spec, StorageIsExclusive
=============================================================================
