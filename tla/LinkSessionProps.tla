-------------------------- MODULE LinkSessionProps --------------------------
(***************************************************************************)
(* What linkplay::Session promises, and the inductive invariant behind it. *)
(***************************************************************************)
EXTENDS LinkSession

PlayTypes ==
  /\ seqn \in [Device -> Nat] /\ outSeq \in [Device -> Nat]
  /\ outgoing \in [Device -> Board] /\ incoming \in [Device -> Board]
  /\ board \in [Device -> Board] /\ inPending \in [Device -> BOOLEAN]
SayTypes ==
  /\ saySeq \in [Device -> Nat] /\ sayPending \in [Device -> BOOLEAN]
  /\ heardSeq \in [Device -> Nat] /\ heardPending \in [Device -> BOOLEAN]
BornTypes == life \in [Device -> Nat] /\ toss \in [Device -> Nat]
SeatTypes ==
  /\ peer \in [Device -> SomeOne] /\ peerLife \in [Device -> Nat]
  /\ isHost \in [Device -> BOOLEAN] /\ peerName \in [Device -> SomeOne]
EndTypes ==
  /\ state \in [Device -> {"Idle", "Searching", "Playing", "Ended"}]
  /\ reason \in [Device -> {"None", "PeerLeft", "PeerLost", "LocalLeft"}]
  /\ myTurn \in [Device -> BOOLEAN] /\ outPending \in [Device -> BOOLEAN]
  /\ candidate \in [Device -> SomeOne]
TimeTypes == confirmed \in [Device -> BOOLEAN] /\ due \in [Device -> SUBSET Timer]
\* "Our own broadcast, reflected" is not among the packets a device hears.
NetTypes == \A m \in net : m \in Packet /\ m.from # m.to

\* Every variable keeps its type, and no device is ever sent its own packets.
TypeOK ==
  PlayTypes /\ SayTypes /\ BornTypes /\ SeatTypes /\ EndTypes /\ TimeTypes /\ NetTypes

\* n and p are in one match: each plays the other, and each was matched by a
\* packet of the other's present life.
Matched(n, p) ==
  /\ n # p
  /\ state[n] = "Playing" /\ state[p] = "Playing"
  /\ peer[n] = p /\ peer[p] = n
  /\ peerLife[n] = life[p] /\ peerLife[p] = life[n]

\* "Two writers can never race" (LinkSession.h, decision 2): the two devices
\* of a match never both hold the turn.
TurnExclusive ==
  \A n, p \in Device : Matched(n, p) => ~(myTurn[n] /\ myTurn[p])

\* The turn is never lost either: somebody holds it, or a move that will hand
\* it over is still being resent.
TurnNeverLost ==
  \A n, p \in Device :
    Matched(n, p) => \/ myTurn[n] \/ outPending[n]
                     \/ myTurn[p] \/ outPending[p]

\* The latest state a device has, taken by its application or not.
Latest(n) == IF inPending[n] THEN incoming[n] ELSE board[n]

\* "The two devices cannot disagree" (LinkSession.h, decision 1): the two
\* games are equal, or one is ahead by one move its device has just made.
BoardsAgree ==
  \A n, p \in Device :
    Matched(n, p) => \/ Latest(n) = Latest(p)
                     \/ Latest(n) = Append(Latest(p), n)
                     \/ Latest(p) = Append(Latest(n), p)

\* Both sides compute opposite roles from the two tosses.
OppositeHosts ==
  \A n, p \in Device : Matched(n, p) => isHost[n] # isHost[p]

\* A move no longer resent has been adopted: acknowledgements that are late,
\* duplicated or of an earlier move never stop the resending of a later one.
AckedMoveArrived ==
  \A n, p \in Device :
    Matched(n, p) /\ ~outPending[n] => seqn[p] >= outSeq[n]

\* The same of the notes, which run on a counter of their own and may replace
\* one that is still being resent: what the peer has heard is the newest.
AckedNoteArrived ==
  \A n, p \in Device :
    Matched(n, p) /\ ~sayPending[n] => heardSeq[p] >= saySeq[n]

\* THEY LEFT is only ever said of a device that has left: never of one that is
\* still in the match, whatever its packets did on the way.
DepartureIsReal ==
  \A n \in Device :
    state[n] = "Ended" /\ reason[n] = "PeerLeft"
      => ~ LET p == peer[n] IN
             /\ state[p] = "Playing" /\ peer[p] = n
             /\ life[p] = peerLife[n] /\ peerLife[p] = life[n]

\* Three devices never end up each playing the next ("everyone applying that
\* same rule is what stops three devices from forming a pairing cycle").
NoPairingCycle ==
  \A a, b, c \in Device :
    (a # c /\ state[a] = "Playing" /\ state[b] = "Playing" /\ state[c] = "Playing")
      => ~(peer[a] = b /\ peer[b] = c /\ peer[c] = a)

\* The name on the screen of a match is the opponent's, or none.
NameIsPeers ==
  \A n \in Device : state[n] = "Playing" => peerName[n] \in {Nobody, peer[n]}

\* "Both sides compute this from the same two tosses and reach the same
\* answer": of any two devices that play each other, one moves first.
PairAgreesOnHost ==
  \A n, p \in Device :
    (/\ n # p /\ state[n] = "Playing" /\ state[p] = "Playing"
     /\ peer[n] = p /\ peer[p] = n) => isHost[n] # isHost[p]

------------------------------------------------------------------------------
(* Fairness.  The main loop ticks for ever, so a timer that stays due fires;   *)
(* time passes, so a tracked timer elapses; the application takes delivery;    *)
(* and a packet that keeps being sent is heard now and then.  What the players *)
(* do (begin, leave, submit, announce) is never forced.                        *)

Fairness ==
  \A n \in Device :
       /\ WF_vars(HelloAgain(n)) /\ WF_vars(JoinAgain(n)) /\ WF_vars(Silence(n))
       /\ WF_vars(StateAgain(n)) /\ WF_vars(Heartbeat(n))
       /\ \A t \in Tracked : WF_vars(Elapse(n, t))
       /\ SF_vars(\E m \in net : HearSearcher(n, m))
       /\ SF_vars(\E m \in net : MatchOnJoin(n, m) \/ MatchOnTraffic(n, m))
       /\ SF_vars(\E m \in net : HearState(n, m))
       /\ SF_vars(\E m \in net : HearAck(n, m))

FairSpec == Spec /\ Fairness

\* Two devices that both search, and stay, come to play each other.
SearchersMeet ==
  \A n \in Device : \A p \in Device \ 1..n :
    (state[n] = "Searching" /\ state[p] = "Searching")
      ~> (Matched(n, p) \/ \E q \in {n, p} : state[q] \in {"Idle", "Ended"})

\* A submitted move is not resent for ever: it is acknowledged, whatever else
\* both devices are sending meanwhile, or the match ends.
MoveArrives ==
  \A n \in Device : outPending[n] ~> ~outPending[n]

\* A device whose opponent is gone, or is back with another begin(), does not
\* stay alone on the board for ever: it leaves the board, or the opponent plays
\* it again.  A peer that searches again keeps it from ever timing out (its
\* Hellos are heard), and before peerConfirmed_ they prove nothing either.
OrphanEnds ==
  \A n \in Device : \A p \in Device \ {n} :
    (/\ state[n] = "Playing" /\ peer[n] = p
     /\ state[p] \in {"Idle", "Ended"} \/ life[p] # peerLife[n])
      ~> (state[n] # "Playing" \/ (state[p] = "Playing" /\ peer[p] = n))

------------------------------------------------------------------------------
(* The match implements the alternating game: the game is the longest of the *)
(* devices' latest states, and a device has seen as much of it as its own.   *)

Newest == CHOOSE b \in {Latest(n) : n \in Device} : \A n \in Device : Len(b) >= Len(Latest(n))

Game == INSTANCE AlternatingGame
          WITH Player <- Device, log <- Newest, seen <- [n \in Device |-> Len(Latest(n))]

\* "There is no move log to replay, no ordering to get right": with whatever the
\* air repeats, delays and reorders, two devices that match play one alternating
\* game, and see its moves in its order.
PlaysTheGame == Game!Spec

------------------------------------------------------------------------------
(* The inductive invariant. *)

\* No device is its own peer or its own candidate.
PeerInv ==
  \A n \in Device :
    /\ candidate[n] # n
    /\ state[n] = "Playing" => peer[n] \in Device \ {n}

TypeInv == TypeOK /\ PeerInv

\* What a packet on the air says of its sender.  A packet of the sender's
\* present life was built from the toss, and no more than the moves, it has now.
Sound(m) ==
  LET s == m.from IN
    /\ m.life =< life[s]
    /\ m.type \notin {"Hello", "Join"} => m.phase = 1
    /\ m.life = life[s] =>
         /\ state[s] = "Searching" => m.phase = 0
         /\ state[s] \in Listening => m.toss = toss[s]
         /\ state[s] = "Playing" =>
              /\ m.type = "Ack" => m.seq =< seqn[s]
              /\ m.type = "State" => /\ m.seq =< outSeq[s]
                                     /\ m.seq = outSeq[s] => m.board = outgoing[s]

\* Once a packet of some life of the peer has been heard, no older one is.
Timely(m) ==
  (state[m.to] = "Playing" /\ m.from = peer[m.to]) => m.life >= peerLife[m.to]

PacketInv == \A m \in net : Sound(m) /\ Timely(m)

\* A device in a match: what its own fields say of each other.
Self(n) ==
  state[n] = "Playing" =>
    /\ peerLife[n] =< life[peer[n]]
    /\ outSeq[n] =< seqn[n]
    /\ outPending[n] => outSeq[n] = seqn[n] /\ ~myTurn[n]
    /\ inPending[n] => myTurn[n]

\* n plays p in p's present life (whether or not p is back in it yet).
Holds(n, p) == n # p /\ state[n] = "Playing" /\ peer[n] = p /\ peerLife[n] = life[p]

\* The role of a matched device is what the two present tosses say.
Role(n, p) ==
  (Holds(n, p) /\ state[p] \in Listening) => isHost[n] = Elect(n, toss[n], p, toss[p])

\* A device that is matched alone can at most have opened the game.
Opening(n) ==
  /\ ~inPending[n]
  /\ \/ /\ seqn[n] = 0 /\ outSeq[n] = 0 /\ ~outPending[n] /\ myTurn[n] = isHost[n]
        /\ board[n] = <<>>
     \/ /\ seqn[n] = 1 /\ outSeq[n] = 1 /\ outPending[n] /\ ~myTurn[n] /\ isHost[n]
        /\ board[n] = <<n>> /\ outgoing[n] = <<n>>

Alone(n, p) == (Holds(n, p) /\ state[p] = "Searching") => Opening(n)

\* n has moved and p has not seen it.
Ahead(n, p) ==
  /\ outPending[n] /\ ~myTurn[n] /\ ~myTurn[p] /\ ~inPending[n] /\ ~inPending[p]
  /\ seqn[n] = seqn[p] + 1 /\ outSeq[n] = seqn[n]
  /\ board[n] = Append(board[p], n) /\ outgoing[n] = board[n]

\* Both have seen the same moves and n is to play.
Even(n, p) ==
  /\ myTurn[n] /\ ~myTurn[p] /\ ~inPending[p]
  /\ seqn[n] = seqn[p] /\ Latest(n) = board[p]

\* The two devices of a match are always in step, or one move apart.
Sync(n, p) ==
  Matched(n, p) => Ahead(n, p) \/ Ahead(p, n) \/ Even(n, p) \/ Even(p, n)

PairInv == \A n, p \in Device : Role(n, p) /\ Alone(n, p) /\ Sync(n, p)

IInv == TypeInv /\ PacketInv /\ (\A n \in Device : Self(n)) /\ PairInv
=============================================================================
