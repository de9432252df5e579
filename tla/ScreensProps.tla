---------------------------- MODULE ScreensProps ----------------------------
(***************************************************************************)
(* What the activity manager and its two release filters promise.          *)
(***************************************************************************)
EXTENDS Screens

\* Every variable is what the code may hold, and the screens that are alive
\* are different ones (currentActivity, stackActivities, pendingActivity).
TypeOK ==
  /\ held \subseteq Buttons /\ pressed \subseteq held /\ released \subseteq Buttons \ held
  /\ armed \subseteq Buttons /\ suppressed \subseteq Buttons /\ fired \subseteq held
  /\ owns \subseteq Buttons /\ long \subseteq Buttons
  /\ current \in Screens \union {Nobody} /\ (current = Nobody) = (pc = "home")
  /\ stack \in Seq(Screens \ {Sleep, UsbDrive})
  /\ \A i, j \in DOMAIN OnTop : OnTop[i] = OnTop[j] => i = j
  /\ handler \in [Screens -> Apps \union {Nobody}]
  /\ <<pending, next>> \in {<<"none", Nobody>>, <<"pop", Nobody>>}
       \union {"push"} \X (Apps \ Alive) \union {"replace"} \X Screens
  /\ pc \in Bodies \union {"poll", "gate", "pending", "swap", "home", "flush", "off"}
  /\ sleeping \in BOOLEAN /\ requested \in BOOLEAN /\ notified \in BOOLEAN /\ dirty \in BOOLEAN
  /\ wait \in {"no", "waits", "woken"}
  /\ render \in {"idle", "lock", "draw"}
  /\ drawn \in Screens \union {Nobody}
  /\ lock \in {"free", "main", "render"}

\* A screen reads the release of a button only if it was on top when the
\* button went down (the seam ButtonReleaseGate.h describes).
ReleaseIsOwn == pc = "act" => passed(armed, released) \subseteq owns

\* The gate never takes a release from the screen that saw the press, and is
\* open again when that press is over: Back cannot stay dead.
GateLetsOwnThrough ==
  armed \intersect owns = {} /\ armed \subseteq held \union released

\* The render task draws only the screen that is on top, and nobody takes the
\* screen away under it: no render() of a destroyed activity.
DrawsTheLiving == render = "draw" => lock = "render" /\ drawn = current

\* While the USB drive owns the card, no other screen comes on top: leaving
\* takes a restart.
StorageIsExclusive == [][current = UsbDrive => current' = UsbDrive \/ Reset]_vars

\* A result goes to the screen that started the one it comes from, however
\* the two were interrupted by panels, gestures and replacements.
ResultToStarter ==
  /\ \A i \in DOMAIN stack : handler[stack[i]] \in {Nobody, OnTop[i + 1]}
  /\ pc = "swap" /\ pending = "pop" /\ stack # <<>> => handler[Top] \in {Nobody, current}

\* Nobody waits on himself: requestUpdateAndWait() comes back, though the
\* render task needs the mutex and the waiter is told under it.
WaitEnds == wait = "waits" ~> wait = "no"

\* A request for a new picture is never lost: in the end a drawing begins
\* after it, unless the last screen is closed, whose successor asks anew, or
\* the reader is about to reset (deep sleep, the USB drive).
RequestIsDrawn == dirty ~> ~dirty \/ current = Nobody \/ sleeping \/ current = UsbDrive

\* "One-shot threshold event while the button is down; consumes its release":
\* the release that is swallowed is the one of the press that was long.
LongPressEatsItsOwn == [][Consume => consumed \subseteq long]_vars

\* "sleep screen must be rendered immediately, the caller will go to sleep
\* right after this returns": the reader goes off under its sleep screen.
SleepScreenIsUp == pc = "off" => current = Sleep

------------------------------------------------------------------------------
(* The invariant that the proofs use.                                       *)

\* Every button that is down was seen by the screen on top or is armed, and
\* in a pass that has installed no screen so is every release.
GateInv ==
  /\ held \subseteq Buttons /\ pressed \subseteq held /\ released \subseteq Buttons \ held
  /\ armed \subseteq held \union released /\ armed \intersect owns = {}
  /\ held \subseteq armed \union owns
  /\ pc \in {"gate", "act"} => pressed \subseteq owns /\ released \subseteq armed \union owns

\* The mutex: who holds it is where its holder is.
TaskInv ==
  /\ (lock = "main") = (pc = "swap") /\ (lock = "render") = (render = "draw")
  /\ lock \in {"free", "main", "render"} /\ render \in {"idle", "lock", "draw"}
  /\ (current = Nobody) = (pc = "home") /\ (pc = "home" => render # "draw")
  /\ drawn = IF render = "draw" THEN current ELSE Nobody

Above(i) == IF i < Len(stack) THEN stack[i + 1] ELSE current

\* The screens that are alive are different ones, and each of them that
\* waits for a result waits for the one above it.
StackInv ==
  /\ current \in Screens \union {Nobody} /\ stack \in Seq(Screens \ {Sleep, UsbDrive})
  /\ \A i \in 1 .. Len(stack) :
       /\ stack[i] # current
       /\ \A j \in 1 .. Len(stack) : stack[i] = stack[j] => i = j
       /\ handler[stack[i]] \in {Nobody, Above(i)}
  /\ handler \in [Screens -> Apps \union {Nobody}]
  /\ \A s \in Screens : s # current /\ (\A i \in 1 .. Len(stack) : stack[i] # s) => handler[s] = Nobody

\* What is pending can be done: a screen that is pushed is a new one, those
\* that start nothing have nothing pending, and a screen on top that waits for
\* a result has just asked for the push of the one it comes from.
PendingInv ==
  /\ \/ pending \in {"none", "pop"} /\ next = Nobody
     \/ pending = "push" /\ next \in Apps /\ next # current
        /\ \A i \in 1 .. Len(stack) : stack[i] # next
     \/ pending = "replace" /\ next \in Screens
  /\ pc = "swap" => pending # "none"
  /\ pc = "home" => pending = "none" /\ stack = <<>>
  /\ current \in {UsbDrive, Sleep} => pending = "none"
  /\ current = Sleep => pc \in {"enter", "pending", "off"}
  /\ current = Sleep \/ next = Sleep => sleeping
  /\ sleeping => pc # "poll"
  /\ current # Nobody /\ handler[current] # Nobody =>
       /\ pc \in Bodies \union {"pending", "swap"} /\ pending # "none"
       /\ pending = "push" => handler[current] = next
  /\ pc \in Bodies \union {"poll", "gate", "pending", "swap", "home", "flush", "off"}

\* The rest of the types.
RestInv ==
  /\ suppressed \subseteq Buttons /\ fired \subseteq held /\ owns \subseteq Buttons
  /\ long \subseteq Buttons
  /\ {sleeping, requested, notified, dirty} \subseteq BOOLEAN
  /\ wait \in {"no", "waits", "woken"}

IInv == RestInv /\ GateInv /\ TaskInv /\ StackInv /\ PendingInv
=============================================================================
