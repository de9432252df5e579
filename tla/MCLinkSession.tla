--------------------------- MODULE MCLinkSession ---------------------------
(* TLC instances of LinkSession and its properties. *)
EXTENDS LinkSessionProps

\* One trip through the search for each device.
OneLife == [n \in Device |-> 1]
\* Nobody says anything; or the first device sends two notes.
Quiet == [n \in Device |-> 0]
TwoNotes == [n \in Device |-> IF n = 1 THEN 2 ELSE 0]
\* The second device leaves, or dies, and searches again.
SecondReturns == [n \in Device |-> IF n = 2 THEN 2 ELSE 1]
=============================================================================
