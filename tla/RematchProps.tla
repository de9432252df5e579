---------------------------- MODULE RematchProps ----------------------------
(***************************************************************************)
(* What two devices may rely on between two games of a match.              *)
(***************************************************************************)
EXTENDS Rematch

Boards ==
  [deal : (Device \cup {0}) \X Nat, plies : 0..MaxPlies, turn : {0, 1}, winner : {NoSeat, 0, 1}]

\* Every device's fields keep their types.
TypeOK ==
  \A n \in Device :
    LET d == dev[n] IN
    /\ d.me = n
    /\ d.session \in {"Playing", "Ended", "Off"} /\ d.why \in {"None", "PeerLeft", "PeerLost"}
    /\ {d.turn, d.asking, d.ready, d.owned, d.dealt, d.recorded} \subseteq BOOLEAN
    /\ {d.seq, d.said, d.noteSeq, d.games} \subseteq Nat
    /\ {d.board, d.pending} \subseteq Boards
    /\ d.note \in {"none", "again", "leaving"}
    /\ d.you \in {"Deciding", "Ready"} /\ d.them \in {"Deciding", "Ready", "Left", "Lost"}
    /\ {d.stage, d.lastStage} \subseteq {"Live", "Final", "Offer"} /\ d.seat \in {0, 1}

Both(n, p) == n # p /\ dev[n].session = "Playing" /\ dev[p].session = "Playing"

\* "Only an answer actually given counts" (proposeRematch): no device starts
\* another game unless the other has asked for it or said yes to it, and will
\* start it too when it hears the answer.
NobodyRestartsAlone ==
  \A n, p \in Device :
    (Both(n, p) /\ dev[n].games > dev[p].games)
      => dev[n].games = dev[p].games + 1 /\ dev[p].you = "Ready"

\* In one game the two devices play different sides.
SeatsDiffer ==
  \A n, p \in Device : (Both(n, p) /\ dev[n].games = dev[p].games) => dev[n].seat # dev[p].seat

\* When neither is asking and nothing is on its way, the two boards are the
\* same board.
Settled(n, p) ==
  /\ Both(n, p) /\ dev[n].games = dev[p].games
  /\ \A q \in {n, p} : /\ Unheard(q) = {} /\ dev[q].pending = NoBoard /\ dev[q].note = "none"
                       /\ ~dev[q].asking
SameGame == \A n, p \in Device : Settled(n, p) => dev[n].board = dev[p].board

\* And while it runs one of the two has the move,
Running(n, p) ==
  Settled(n, p) /\ \A q \in {n, p} : dev[q].ready /\ ~GameOver(dev[q])
OneMayMove == \A n, p \in Device : Running(n, p) => MayMove(dev[n]) \/ MayMove(dev[p])

\* and the side it plays is the one to move: the turn of the session and the
\* turn of the rules are one, in every game of the match.
NotStuck ==
  \A n, p \in Device :
    Running(n, p) => \E q \in {n, p} : MayMove(dev[q]) /\ dev[q].board.turn = dev[q].seat

\* A finished game is counted once on each device, and a win on one is a loss
\* on the other.
CountedOnce ==
  \A n, p \in Device :
    \A i \in DOMAIN dev[n].tally, j \in DOMAIN dev[p].tally :
      dev[n].tally[i].deal = dev[p].tally[j].deal
        => \/ n = p /\ i = j
           \/ n # p /\ dev[n].tally[i].won # dev[p].tally[j].won

\* Every device keeps running its loop: what it can hear is heard in the end,
\* and acted on.  Nobody has to tap.  This is \A n : WF_vars(Runs(n)); Busy is
\* its ENABLED, written out because TLC takes minutes to find it.
Runs(n) == PassIdle(n) \/ HearState(n) \/ HearSay(n)
Busy(n) ==
  \/ dev[n].session # "Off" /\ \E expired \in BOOLEAN : Driven(dev[n], expired) # dev[n]
  \/ dev[n].session = "Playing" /\ Unheard(Other(n)) # {}
Fairness == \A n \in Device : []<>~Busy(n) \/ []<><<Runs(n)>>_vars
FairSpec == Spec /\ Fairness

\* A game counted on one device is counted on the other: whatever the players
\* ask in the meantime, the last move reaches the loser, or the match ends.
CountedByBoth ==
  \A n \in Device : \A k \in 1..MaxGames :
    (Len(dev[n].tally) = k) ~> (\/ Len(dev[Other(n)].tally) >= k
                                \/ \E q \in Device : dev[q].session # "Playing")
=============================================================================
