---------------------------- MODULE ReleaseGate ----------------------------
(***************************************************************************)
(* ButtonReleaseGate (src/util): which of the buttons have a release that  *)
(* the screen now on top must not act on.  A gate is a set of buttons; its *)
(* operations take the set there was and give the next one.                *)
(***************************************************************************)

\* arm(heldMask): the screen on top changed with these buttons down.
arm(armed, held) == armed \union held

\* Mutant: a new press does not end the wait.
KeepsThroughPress(armed, presses, releases, held) ==
  armed \intersect (releases \union held)

\* settle(): a press ends the wait for the release of an earlier one, and so
\* does a frame in which the button is neither down nor just released.
settle(armed, presses, releases, held) ==
  (armed \ presses) \intersect (releases \union held)

\* The releases that a screen may read.
passed(armed, releases) == releases \ armed
=============================================================================
