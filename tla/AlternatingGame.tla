--------------------------- MODULE AlternatingGame ---------------------------
(***************************************************************************)
(* What a match promises its players (LinkSession.h, decisions 1 and 2):   *)
(* one game, which only ever grows by one move, made by a player who has   *)
(* seen all the others, the two taking turns; and each player sees it grow *)
(* in that order, at worst one move late.                                  *)
(***************************************************************************)
EXTENDS Naturals, Sequences

CONSTANT Player

VARIABLES
  log,   \* the movers so far, oldest first
  seen   \* how many of the moves each player has

Init ==
  /\ log = <<>>
  /\ seen = [p \in Player |-> 0]

\* The player who did not move last, and has seen that move, makes the next.
Move(p) ==
  /\ seen[p] = Len(log)
  /\ log # <<>> => log[Len(log)] # p
  /\ log' = Append(log, p)
  /\ seen' = [seen EXCEPT ![p] = Len(log) + 1]

\* The move a player is missing reaches it.
Deliver(p) ==
  /\ seen[p] + 1 = Len(log)
  /\ seen' = [seen EXCEPT ![p] = Len(log)]
  /\ UNCHANGED log

Next == \E p \in Player : Move(p) \/ Deliver(p)

Spec == Init /\ [][Next]_<<log, seen>>

=============================================================================
