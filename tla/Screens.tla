------------------------------ MODULE Screens ------------------------------
(***************************************************************************)
(* The activity manager (src/activities/ActivityManager.cpp): the stack of *)
(* screens, the main task that polls the buttons and runs the screen on    *)
(* top, the render task that draws it, the mutex between them, and the two *)
(* filters on button releases (ButtonReleaseGate and the long press in     *)
(* MappedInputManager.cpp).                                                *)
(*                                                                         *)
(* A screen is a model value; what it shows and why it acts is left out.   *)
(* Its onEnter(), loop() and result handler are bodies: any sequence of    *)
(* calls into the manager.  One step of the main task is what it does      *)
(* between two points where the render task can tell the difference.       *)
(***************************************************************************)
EXTENDS Naturals, Sequences, ReleaseGate

CONSTANTS
  Buttons,   \* GATED_BUTTONS
  Apps,      \* screens that are started by another, or pushed as a panel
  Places,    \* screens that the goTo functions put in place of all others
  Home, Sleep, UsbDrive,   \* the three screens that are treated apart
  Nobody,    \* no screen: a null currentActivity, pendingActivity or handler
  MaxDepth   \* bound: screens under the one on top

Screens == Apps \union Places \union {Sleep}

ASSUME ScreensDiffer ==
  /\ {Home, UsbDrive} \subseteq Places \ Apps /\ Home # UsbDrive
  /\ {Sleep, Nobody} \intersect (Apps \union Places) = {} /\ Sleep # Nobody

VARIABLES
  held, pressed, released,  \* the buttons: levels, and the edges of this frame
  armed,                    \* releaseGate
  suppressed, fired,        \* suppressedReleaseButtons, longPressFiredButtons
  current, stack,           \* currentActivity, stackActivities
  pending, next,            \* pendingAction, pendingActivity
  handler,                  \* for whose result a screen's resultHandler is set
  pc,                       \* where the main task is
  sleeping,                 \* this pass is goToSleep()'s
  requested,                \* requestedUpdate
  wait,                     \* requestUpdateAndWait(): "no", "waits", "woken"
  notified,                 \* the render task's notification
  render,                   \* where the render task is
  drawn,                    \* the screen it is drawing
  lock,                     \* who holds renderingMutex
  owns,    \* history: buttons whose last press the screen on top could see
  long,    \* history: buttons whose last press fired a long press
  dirty    \* history: a draw was asked for, and none has begun since

inputs == <<held, pressed, released, armed, suppressed, fired, owns, long>>
place == <<current, stack, handler>>
intent == <<pending, next>>
updates == <<requested, wait, notified, render, drawn, lock, dirty>>
vars == <<inputs, place, intent, pc, sleeping, updates>>

Bodies == {"act", "enter", "handle"}
\* Where the main task goes when this call of loop() returns.
Done == IF sleeping THEN "off" ELSE "poll"
OnTop == stack \o <<current>>
Alive == {OnTop[i] : i \in DOMAIN OnTop}
\* requiresExclusiveStorageLoop().
Exclusive == current = UsbDrive
\* A screen from which others are reached: the sleep screen does nothing.
Navigates == ~Exclusive /\ current # Sleep
InBody == pc \in Bodies /\ wait = "no"
Pend(action, screen) == pending' = action /\ next' = screen

------------------------------------------------------------------------------
(* The buttons.                                                             *)

\* mappedInputManager.update(): new levels, the edges they make, the tail.
Poll(now) ==
  /\ held' = now /\ pressed' = now \ held /\ released' = held \ now
  /\ fired' = fired \intersect now
  /\ armed' = settle(armed, now \ held, held \ now, now)
  /\ owns' = owns \union (now \ held)
  /\ long' = long \ (now \ held)
  /\ UNCHANGED suppressed

\* A loop() that blocks, for a download, polls the buttons itself.
Pump == /\ InBody /\ pc = "act" /\ Navigates
        /\ \E now \in SUBSET Buttons : Poll(now)
        /\ UNCHANGED <<place, intent, pc, sleeping, updates>>

\* wasLongPressed(): the threshold is passed with the button down.
LongPress(b) ==
  /\ pc = "act" /\ wait = "no" /\ Navigates
  /\ b \in held /\ b \notin fired
  /\ fired' = fired \union {b}
  /\ suppressed' = suppressed \union {b}
  /\ long' = long \union {b}
  /\ UNCHANGED <<held, pressed, released, armed, owns, place, intent, pc, sleeping, updates>>

------------------------------------------------------------------------------
(* Calls into the manager.                                                  *)

\* requestUpdate(): the loop's end will notify the render task.
RequestUpdate ==
  /\ InBody /\ current # Sleep
  /\ requested' = TRUE /\ dirty' = TRUE
  /\ UNCHANGED <<inputs, place, intent, pc, sleeping, wait, notified, render, drawn, lock>>

\* requestUpdate(true).
RequestNow ==
  /\ InBody /\ current # Sleep
  /\ notified' = TRUE /\ dirty' = TRUE
  /\ UNCHANGED <<inputs, place, intent, pc, sleeping, requested, wait, render, drawn, lock>>

\* Mutant: the request waits for the end of the loop that waits for it.
WaitsForTheFlush ==
  /\ InBody /\ current # Sleep
  /\ wait' = "waits" /\ requested' = TRUE /\ dirty' = TRUE
  /\ UNCHANGED <<inputs, place, intent, pc, sleeping, notified, render, drawn, lock>>

\* requestUpdateAndWait(): the call, and its return.
RequestAndWait ==
  /\ InBody /\ current # Sleep
  /\ wait' = "waits" /\ notified' = TRUE /\ dirty' = TRUE
  /\ UNCHANGED <<inputs, place, intent, pc, sleeping, requested, render, drawn, lock>>

Resume == /\ wait = "woken" /\ wait' = "no"
          /\ UNCHANGED <<inputs, place, intent, pc, sleeping, requested, notified, render, drawn, lock, dirty>>

\* startActivityForResult(): pushActivity() drops what was pending.
Start(s) ==
  /\ InBody /\ Navigates
  /\ s \in Apps \ Alive /\ Len(stack) < MaxDepth
  /\ handler' = [handler EXCEPT ![current] = s]
  /\ Pend("push", s)
  /\ UNCHANGED <<inputs, current, stack, pc, sleeping, updates>>

\* finish(): so does popActivity().
Finish == /\ InBody /\ Navigates
          /\ Pend("pop", Nobody)
          /\ UNCHANGED <<inputs, place, pc, sleeping, updates>>

\* replaceActivity(), by one of the goTo functions.
GoTo(s) == /\ InBody /\ Navigates
           /\ Pend("replace", s)
           /\ UNCHANGED <<inputs, place, pc, sleeping, updates>>

\* A body returns.  Every screen's onEnter() asks for its first picture; after
\* a result handler the manager asks for one, unless the handler moves on.
Return ==
  /\ InBody /\ pc' = IF pc = "act" /\ Exclusive THEN "flush" ELSE "pending"
  /\ IF \/ pc = "enter" /\ current # Sleep
        \/ pc = "handle" /\ pending = "none"
     THEN requested' = TRUE /\ dirty' = TRUE
     ELSE UNCHANGED <<requested, dirty>>
  /\ UNCHANGED <<inputs, place, intent, sleeping, wait, notified, render, drawn, lock>>

------------------------------------------------------------------------------
(* The main loop, up to activityManager.loop().                             *)

Polled == pc = "poll" /\ \E now \in SUBSET Buttons : Poll(now)

\* The pass ends early: the screenshot buttons, the release after a wake.
Skip == /\ Polled /\ ~Exclusive
        /\ UNCHANGED <<place, intent, pc, sleeping, updates>>

Proceed == /\ Polled /\ pc' = "gate"
           /\ UNCHANGED <<place, intent, sleeping, updates>>

\* The charger or the battery changed.
PowerChanged == /\ Polled /\ ~Exclusive /\ pc' = "gate"
                /\ requested' = TRUE /\ dirty' = TRUE
                /\ UNCHANGED <<place, intent, sleeping, wait, notified, render, drawn, lock>>

\* goToSleep(), after the timeout or with the power button held.
GoToSleep == /\ Polled /\ ~Exclusive /\ pc' = "gate"
             /\ sleeping' = TRUE
             /\ Pend("replace", Sleep)
             /\ UNCHANGED <<place, updates>>

------------------------------------------------------------------------------
(* activityManager.loop().                                                  *)

\* settleReleaseGate(), then consumeSuppressedRelease(), which reads the
\* releases through the gate: one that it takes ends the call.
consumed == suppressed \intersect
              passed(settle(armed, pressed, released, held), released)

Settle == armed' = settle(armed, pressed, released, held)

Consume ==
  /\ pc = "gate" /\ Settle /\ consumed # {}
  /\ suppressed' = suppressed \ consumed
  /\ pc' = Done
  /\ UNCHANGED <<held, pressed, released, fired, owns, long, place, intent, sleeping, updates>>

\* The screen on top runs.
RunTop ==
  /\ pc = "gate" /\ Settle /\ consumed = {}
  /\ pc' = "act"
  /\ UNCHANGED <<held, pressed, released, suppressed, fired, owns, long, place, intent, sleeping, updates>>

\* The home gesture, which a screen may take for itself.
HomeGesture ==
  /\ pc = "gate" /\ Settle /\ consumed = {} /\ current # Home /\ ~Exclusive
  /\ Pend("replace", Home) \/ UNCHANGED intent
  /\ pc' = Done
  /\ UNCHANGED <<held, pressed, released, suppressed, fired, owns, long, place, sleeping, updates>>

\* The gesture that pushes the light panel over any screen.
LightPanel(s) ==
  /\ pc = "gate" /\ Settle /\ consumed = {} /\ ~Exclusive
  /\ s \in Apps \ Alive /\ Len(stack) < MaxDepth
  /\ Pend("push", s)
  /\ pc' = Done
  /\ UNCHANGED <<held, pressed, released, suppressed, fired, owns, long, place, sleeping, updates>>

\* Mutant: the screen is changed without the lock.
SwapsUnlocked == /\ pc = "pending" /\ pending # "none" /\ pc' = "swap"
                 /\ UNCHANGED <<inputs, place, intent, sleeping, updates>>

\* The next pending action, under the lock.
TakeLock == /\ pc = "pending" /\ pending # "none" /\ lock = "free"
            /\ lock' = "main" /\ pc' = "swap"
            /\ UNCHANGED <<inputs, place, intent, sleeping, requested, wait, notified, render, drawn, dirty>>

\* Mutant: the screen is installed without arming the gate.
InstallsOnly(s) ==
  /\ current' = s /\ owns' = {}
  /\ UNCHANGED <<held, pressed, released, armed, suppressed, fired, long>>

\* setCurrentActivity(): arms the gate, then installs the screen.
SetCurrent(s) ==
  /\ current' = s
  /\ armed' = arm(armed, held \union pressed)
  /\ owns' = {}
  /\ UNCHANGED <<held, pressed, released, suppressed, fired, long>>

Top == stack[Len(stack)]
Below == SubSeq(stack, 1, Len(stack) - 1)

\* Pop with an empty stack: the screen is gone, and goHome() comes unlocked.
PopLast ==
  /\ pc = "swap" /\ pending = "pop" /\ stack = <<>>
  /\ current' = Nobody /\ handler' = [handler EXCEPT ![current] = Nobody]
  /\ Pend("none", Nobody)
  /\ lock' = "free" /\ pc' = "home"
  /\ UNCHANGED <<inputs, stack, sleeping, requested, wait, notified, render, drawn, dirty>>

goHome ==
  /\ pc = "home" /\ pc' = "enter"
  /\ SetCurrent(Home)
  /\ UNCHANGED <<stack, handler, intent, sleeping, updates>>

\* Pop to a screen that waits for no result.
PopQuiet ==
  /\ pc = "swap" /\ pending = "pop" /\ stack # <<>> /\ handler[Top] = Nobody
  /\ SetCurrent(Top) /\ stack' = Below
  /\ handler' = [handler EXCEPT ![current] = Nobody]
  /\ Pend("none", Nobody)
  /\ requested' = TRUE /\ dirty' = TRUE
  /\ lock' = "free" /\ pc' = "pending"
  /\ UNCHANGED <<sleeping, wait, notified, render, drawn>>

\* Mutant: the handler stays on the screen that has run it.
PopKeepsHandler ==
  /\ pc = "swap" /\ pending = "pop" /\ stack # <<>> /\ handler[Top] # Nobody
  /\ SetCurrent(Top) /\ stack' = Below
  /\ handler' = [handler EXCEPT ![current] = Nobody]
  /\ Pend("none", Nobody)
  /\ lock' = "free" /\ pc' = "handle"
  /\ UNCHANGED <<sleeping, requested, wait, notified, render, drawn, dirty>>

\* Pop to one that does: its handler is taken off it, and runs unlocked.
PopResult ==
  /\ pc = "swap" /\ pending = "pop" /\ stack # <<>> /\ handler[Top] # Nobody
  /\ SetCurrent(Top) /\ stack' = Below
  /\ handler' = [handler EXCEPT ![current] = Nobody, ![Top] = Nobody]
  /\ Pend("none", Nobody)
  /\ lock' = "free" /\ pc' = "handle"
  /\ UNCHANGED <<sleeping, requested, wait, notified, render, drawn, dirty>>

\* Mutant: the pending action is not reset.
PushStays ==
  /\ pc = "swap" /\ pending = "push"
  /\ SetCurrent(next) /\ stack' = Append(stack, current)
  /\ lock' = "free" /\ pc' = "enter"
  /\ UNCHANGED <<handler, intent, sleeping, requested, wait, notified, render, drawn, dirty>>

\* Push: the screen on top goes under the new one.
Push ==
  /\ pc = "swap" /\ pending = "push"
  /\ SetCurrent(next) /\ stack' = Append(stack, current)
  /\ Pend("none", Nobody)
  /\ lock' = "free" /\ pc' = "enter"
  /\ UNCHANGED <<handler, sleeping, requested, wait, notified, render, drawn, dirty>>

\* Replace: every other screen goes.
Replace ==
  /\ pc = "swap" /\ pending = "replace"
  /\ SetCurrent(next) /\ stack' = <<>>
  /\ handler' = [s \in Screens |-> Nobody]
  /\ Pend("none", Nobody)
  /\ lock' = "free" /\ pc' = "enter"
  /\ UNCHANGED <<sleeping, requested, wait, notified, render, drawn, dirty>>

\* Nothing is pending, or it must wait: the requests of the pass become one
\* notification.
Flush == /\ pc = "flush" \/ (pc = "pending" /\ pending = "none")
         /\ pc' = Done
         /\ requested' = FALSE
         /\ notified' = (notified \/ requested)
         /\ UNCHANGED <<inputs, place, intent, sleeping, wait, render, drawn, lock, dirty>>

------------------------------------------------------------------------------
(* renderTaskLoop().                                                        *)

Wake == /\ render = "idle" /\ notified
        /\ notified' = FALSE /\ render' = "lock"
        /\ UNCHANGED <<inputs, place, intent, pc, sleeping, requested, wait, drawn, lock, dirty>>

\* Holding the lock, it reads currentActivity and begins to draw it.
BeginDraw == /\ render = "lock" /\ lock = "free" /\ current # Nobody
             /\ lock' = "render" /\ render' = "draw" /\ drawn' = current
             /\ dirty' = FALSE
             /\ UNCHANGED <<inputs, place, intent, pc, sleeping, requested, wait, notified>>

\* The end of the iteration: the waiter is taken and told, the lock goes.
Tell == /\ lock' = "free" /\ render' = "idle"
        /\ wait' = IF wait = "waits" THEN "woken" ELSE wait

\* Mutant: the notification is cleared when the drawing is over.
ClearsAfterDraw == /\ render = "draw" /\ drawn' = Nobody
                   /\ Tell /\ notified' = FALSE
                   /\ UNCHANGED <<inputs, place, intent, pc, sleeping, requested, dirty>>

EndDraw == /\ render = "draw" /\ drawn' = Nobody
           /\ Tell
           /\ UNCHANGED <<inputs, place, intent, pc, sleeping, requested, notified, dirty>>

\* There is no screen: an iteration that draws nothing.
NothingToDraw == /\ render = "lock" /\ lock = "free" /\ current = Nobody
                 /\ Tell
                 /\ UNCHANGED <<inputs, place, intent, pc, sleeping, requested, notified, drawn, dirty>>

------------------------------------------------------------------------------
(* The specification.                                                       *)

\* setup() has put Home on top; a button held since before it is armed.
Boot(now) ==
  /\ held = now /\ pressed = {} /\ released = {} /\ armed = now
  /\ suppressed = {} /\ fired = {} /\ owns = {} /\ long = {}
  /\ current = Home /\ stack = <<>> /\ handler = [s \in Screens |-> Nobody]
  /\ pending = "none" /\ next = Nobody
  /\ pc = "poll" /\ sleeping = FALSE
  /\ requested = TRUE /\ dirty = TRUE /\ notified = FALSE /\ wait = "no"
  /\ render = "idle" /\ drawn = Nobody /\ lock = "free"

Init == \E now \in SUBSET Buttons : Boot(now)

\* Deep sleep, or the restart that ends the USB drive: a reset, and setup().
Reset ==
  /\ \/ pc = "off"
     \/ pc = "act" /\ wait = "no" /\ current = UsbDrive
  /\ held' \in SUBSET Buttons /\ pressed' = {} /\ released' = {} /\ armed' = held'
  /\ suppressed' = {} /\ fired' = {} /\ owns' = {} /\ long' = {}
  /\ current' = Home /\ stack' = <<>> /\ handler' = [s \in Screens |-> Nobody]
  /\ Pend("none", Nobody)
  /\ pc' = "poll" /\ sleeping' = FALSE
  /\ requested' = TRUE /\ dirty' = TRUE /\ notified' = FALSE /\ wait' = "no"
  /\ render' = "idle" /\ drawn' = Nobody /\ lock' = "free"

\* What the code of the screens and of the main loop does of itself.
LoopStep == \/ TakeLock \/ PopLast \/ goHome \/ PopQuiet \/ PopResult \/ Push \/ Replace
            \/ Flush
RenderStep == Wake \/ BeginDraw \/ NothingToDraw \/ EndDraw
Call == \/ RequestUpdate \/ RequestNow \/ RequestAndWait \/ Finish
        \/ \E s \in Apps : Start(s)
        \/ \E s \in Places : GoTo(s)
User == \/ Skip \/ PowerChanged \/ GoToSleep \/ HomeGesture \/ Pump
        \/ \E b \in Buttons : LongPress(b)
        \/ \E s \in Apps : LightPanel(s)

Next == \/ Proceed \/ Consume \/ RunTop \/ Return \/ Resume \/ Reset
        \/ LoopStep \/ RenderStep \/ Call \/ User

Spec == Init /\ [][Next]_vars

\* Both tasks run, and neither takes the mutex past the other for ever.  The
\* user lets some pass through (Proceed, RunTop), every body returns, and the
\* bodies do not move from screen to screen for ever.
FairSpec == /\ Spec
            /\ WF_vars(Consume \/ Resume \/ LoopStep) /\ SF_vars(TakeLock)
            /\ WF_vars(RenderStep) /\ SF_vars(BeginDraw)
            /\ SF_vars(Proceed) /\ SF_vars(RunTop)
            /\ WF_vars(Return) /\ SF_vars(pending = "none" /\ Return)
=============================================================================
