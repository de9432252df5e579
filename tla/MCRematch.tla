------------------------------ MODULE MCRematch ------------------------------
EXTENDS RematchProps

\* Chess and battleship; connect four; jaipur; toy battle.
ByTurn   == {[seatBy |-> "turn", opening |-> "both"]}
ByToss   == {[seatBy |-> "toss", opening |-> "both"]}
ByDealer == {[seatBy |-> "turn", opening |-> "dealer"]}
ByPass   == {[seatBy |-> "toss", opening |-> "pass"]}
=============================================================================
