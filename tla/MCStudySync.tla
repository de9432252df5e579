---------------------------- MODULE MCStudySync ----------------------------
(* StudySync for TLC: the constants are given in the configurations.       *)
EXTENDS StudySyncProps

\* All the answers are given in one second.
SameSecond == [r \in Review |-> 0]
=============================================================================
