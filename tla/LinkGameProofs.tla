---------------------------- MODULE LinkGameProofs ----------------------------
(***************************************************************************)
(* One match of linkplay::Session implements AlternatingGame: whatever the *)
(* air loses, repeats, delays and reorders, and however the match ends,    *)
(* the two devices play one game and see its moves in its order.           *)
(*                                                                         *)
(* The session's own invariant speaks of two devices that both play.  The  *)
(* game outlives that: a move of a device that has given up may still be   *)
(* on the air, so this one follows a device from its search to its end.    *)
(***************************************************************************)
EXTENDS LinkSessionProofs

USE DeviceAssumption DEF Nobody

\* The behaviours of one match: two devices, each searching once, neither
\* dropping what it holds.  A match may still end, on either side, by silence.
OneMatch ==
  /\ \E a, b \in Device : a # b /\ Device = {a, b}
  /\ \A n \in Device : MaxLives[n] =< 1
  /\ Leavers = {}

InGame(n) == state[n] \in {"Playing", "Ended"}

Unplayed(n) ==
  seqn[n] = 0 /\ outSeq[n] = 0 /\ outgoing[n] = <<>> /\ board[n] = <<>> /\ ~inPending[n]

\* What a device's own fields say of its one life.  Who holds the turn did not
\* make the last move, and nobody but the host makes the first.
Once(n) ==
  /\ life[n] = IF state[n] = "Idle" THEN 0 ELSE 1
  /\ ~InGame(n) => Unplayed(n)
  /\ outSeq[n] =< seqn[n]
  /\ myTurn[n] => /\ state[n] = "Playing"
                  /\ seqn[n] = 0 => isHost[n]
                  /\ Latest(n) # <<>> => Latest(n)[Len(Latest(n))] # n

\* A packet tells of its sender's one toss, and of no move it has not made.
FromGame(m) ==
  /\ state[m.from] # "Idle"
  /\ m.toss = toss[m.from]
  /\ m.type = "State" => /\ m.seq =< outSeq[m.from]
                         /\ m.seq = outSeq[m.from] => m.board = outgoing[m.from]

\* Once in the match, a device has the role that the two tosses give it.
Seat(n, p) == InGame(n) => state[p] # "Idle" /\ (isHost[n] <=> Elect(n, toss[n], p, toss[p]))

\* n has made a move that p has not heard of.
OneAhead(n, p) ==
  /\ Latest(n) = Append(Latest(p), n) /\ seqn[n] = seqn[p] + 1
  /\ outSeq[n] = seqn[n] /\ outgoing[n] = Latest(n)
  /\ ~myTurn[n] /\ ~myTurn[p]
  /\ seqn[p] = 0 => isHost[n]

\* Both have seen the same moves.
InStep(n, p) == Latest(n) = Latest(p) /\ seqn[n] = seqn[p] /\ ~(myTurn[n] /\ myTurn[p])

Close(n, p) == OneAhead(n, p) \/ OneAhead(p, n) \/ InStep(n, p)

GameInv ==
  /\ \A n \in Device : Once(n)
  /\ \A m \in net : FromGame(m)
  /\ \A n \in Device : \A p \in Device \ {n} : Seat(n, p) /\ Close(n, p)

ownVars == <<state, life, toss, isHost, myTurn, playVars>>

\* What the invariant reads of device p, all of it unchanged by a step.
SameOwn(p) ==
  /\ state'[p] = state[p] /\ life'[p] = life[p] /\ toss'[p] = toss[p]
  /\ isHost'[p] = isHost[p] /\ myTurn'[p] = myTurn[p] /\ seqn'[p] = seqn[p]
  /\ outgoing'[p] = outgoing[p] /\ outSeq'[p] = outSeq[p]
  /\ incoming'[p] = incoming[p] /\ inPending'[p] = inPending[p] /\ board'[p] = board[p]

------------------------------------------------------------------------------

LEMMA LatestType ==
  ASSUME TypeInv, NEW n \in Device
  PROVE  Latest(n) \in Board /\ seqn[n] \in Nat /\ outSeq[n] \in Nat
  BY DEF TypeInv, TypeOK, PlayTypes, Latest

\* A step of one device keeps the invariant if it keeps what mentions that device.
LEMMA GameOne ==
  ASSUME GameInv, NEW n \in Device, \A p \in Device \ {n} : SameOwn(p),
         Once(n)', \A m \in net' : FromGame(m)',
         \A p \in Device \ {n} : Seat(n, p)' /\ Seat(p, n)' /\ Close(n, p)'
  PROVE  GameInv'
  <1>1. ASSUME NEW p \in Device PROVE Once(p)'
    <2>1. CASE p # n
      BY <2>1 DEF GameInv, Once, InGame, Unplayed, Latest, SameOwn
    <2> QED BY <2>1
  <1>2. ASSUME NEW p \in Device, NEW q \in Device \ {p} PROVE Seat(p, q)' /\ Close(p, q)'
    <2>1. CASE p = n
      BY <2>1
    <2>2. CASE q = n
      <3>1. Seat(p, q)' /\ Close(q, p)'
        BY <2>2
      <3> QED BY <3>1 DEF Close, InStep
    <2>3. CASE p # n /\ q # n
      <3>1. Seat(p, q) /\ Close(p, q) /\ SameOwn(p) /\ SameOwn(q)
        BY <2>3 DEF GameInv
      <3>2. Latest(p)' = Latest(p) /\ Latest(q)' = Latest(q)
        BY <3>1 DEF Latest, SameOwn
      <3> QED BY <3>1, <3>2 DEF Seat, InGame, Close, OneAhead, InStep, SameOwn
    <2> QED BY <2>1, <2>2, <2>3
  <1> QED BY <1>1, <1>2 DEF GameInv

\* A packet that carries no move.
LEMMA PlainPkt ==
  ASSUME NEW n \in Device, NEW to, NEW type, type # "State", NEW s, NEW b, state[n] # "Idle"
  PROVE  FromGame(Pkt(n, to, type, s, b))
  BY DEF FromGame, Pkt, Made

\* A step that changes nothing of the game.
LEMMA GameStill ==
  ASSUME GameInv, UNCHANGED ownVars, \A m \in net' : m \in net \/ FromGame(m)
  PROVE  GameInv'
  <1>1. ASSUME NEW m \in net' PROVE FromGame(m)'
    BY DEF GameInv, FromGame, ownVars, playVars
  <1>2. ASSUME NEW n \in Device PROVE Once(n)'
    BY DEF GameInv, Once, InGame, Unplayed, Latest, ownVars, playVars
  <1>3. ASSUME NEW n \in Device, NEW p \in Device \ {n} PROVE Seat(n, p)' /\ Close(n, p)'
    <2>1. Seat(n, p) /\ Close(n, p)
      BY DEF GameInv
    <2>2. Latest(n)' = Latest(n) /\ Latest(p)' = Latest(p)
      BY DEF Latest, ownVars, playVars
    <2> QED BY <2>1, <2>2 DEF Seat, InGame, Close, OneAhead, InStep, ownVars, playVars
  <1> QED BY <1>1, <1>2, <1>3 DEF GameInv

\* The match ends on one side: what was played stays played.
LEMMA GameEnd ==
  ASSUME TypeInv, TypeInv', GameInv, NEW n \in Device, state[n] = "Playing", NEW why, End(n, why),
         UNCHANGED <<playVars, bornVars, seatVars>>, net' \subseteq net
  PROVE  GameInv'
  <1>1. state'[n] = "Ended" /\ ~myTurn'[n] /\ \A p \in Device \ {n} : SameOwn(p)
    BY DEF End, SameOwn, TypeInv, TypeOK, EndTypes, playVars, bornVars, seatVars
  <1>2. Once(n)'
    BY <1>1 DEF GameInv, Once, InGame, playVars, bornVars
  <1>3. ASSUME NEW m \in net' PROVE FromGame(m)'
    <2>1. m.from \in Device /\ FromGame(m)
      BY DEF GameInv, TypeInv, TypeOK, NetTypes, Packet
    <2> QED BY <1>1, <2>1 DEF FromGame, SameOwn, playVars, bornVars
  <1>4. ASSUME NEW p \in Device \ {n} PROVE Seat(n, p)' /\ Seat(p, n)' /\ Close(n, p)'
    <2>1. Seat(n, p) /\ Seat(p, n) /\ Close(n, p) /\ SameOwn(p)
      BY <1>1 DEF GameInv
    <2>2. Latest(n)' = Latest(n) /\ Latest(p)' = Latest(p)
      BY DEF Latest, playVars
    <2>3. Seat(n, p)' /\ Seat(p, n)'
      BY <1>1, <2>1 DEF Seat, InGame, SameOwn, bornVars, seatVars
    <2>4. Close(n, p)'
      BY <1>1, <2>1, <2>2 DEF Close, OneAhead, InStep, SameOwn, playVars, seatVars
    <2> QED BY <2>3, <2>4
  <1> QED BY <1>1, <1>2, <1>3, <1>4, GameOne

\* begin(): the one toss of this device, before any packet of it.
LEMMA GameBegin ==
  ASSUME OneMatch, TypeInv, TypeInv', GameInv, NEW n \in Device, Begin(n)
  PROVE  GameInv'
  <1>1. PICK t \in Toss :
          /\ toss' = [toss EXCEPT ![n] = t]
          /\ net' = net \cup Sent({Made(n, p, "Hello", 0, <<>>, t, life[n] + 1, 0) : p \in Device \ {n}})
    BY DEF Begin
  <1>2. state[n] = "Idle" /\ life[n] = 0
    BY BoundAssumption DEF Begin, OneMatch, GameInv, Once, TypeInv, TypeOK, BornTypes
  <1>3. /\ state'[n] = "Searching" /\ toss'[n] = t /\ life'[n] = 1 /\ ~myTurn'[n]
        /\ Unplayed(n)' /\ \A p \in Device \ {n} : SameOwn(p)
    BY <1>1, <1>2 DEF Begin, Cleared, NewGame, Unplayed, SameOwn, TypeInv, TypeOK, EndTypes, BornTypes,
                      SeatTypes, PlayTypes
  <1>4. Unplayed(n) /\ ~myTurn[n]
    BY <1>2 DEF GameInv, Once, InGame
  <1>5. Once(n)'
    BY <1>3 DEF Once, InGame, Unplayed
  <1>6. ASSUME NEW m \in net' PROVE FromGame(m)'
    <2>1. m.from \in Device
      BY DEF TypeInv, TypeOK, NetTypes, Packet
    <2>2. CASE m \in net
      <3>1. FromGame(m) /\ m.from # n
        BY <1>2, <2>2 DEF GameInv, FromGame
      <3> QED BY <1>3, <2>1, <3>1 DEF FromGame, SameOwn
    <2>3. CASE m \notin net
      BY <1>1, <1>3, <2>3 DEF Sent, Made, FromGame
    <2> QED BY <2>2, <2>3
  <1>7. ASSUME NEW p \in Device \ {n} PROVE Seat(n, p)' /\ Seat(p, n)' /\ Close(n, p)'
    <2>1. Seat(p, n) /\ Close(n, p) /\ SameOwn(p)
      BY <1>3 DEF GameInv
    <2>2. Latest(n)' = Latest(n) /\ Latest(p)' = Latest(p)
      BY <1>3, <1>4, <2>1 DEF Latest, Unplayed, SameOwn
    <2>3. Seat(n, p)' /\ Seat(p, n)'
      BY <1>2, <1>3, <2>1 DEF Seat, InGame, SameOwn
    <2>4. ~OneAhead(n, p)
      BY <1>4, LatestType DEF OneAhead, Unplayed
    <2>5. Close(n, p)'
      BY <1>3, <1>4, <2>1, <2>2, <2>4 DEF Close, OneAhead, InStep, Unplayed, SameOwn
    <2> QED BY <2>3, <2>5
  <1> QED BY <1>3, <1>5, <1>6, <1>7, GameOne

\* matchWith(): the packet tells of the toss the other still has, so the roles
\* are opposite even if the other has already moved, or already given up.
LEMMA GameMatch ==
  ASSUME OneMatch, TypeInv, TypeInv', GameInv, NEW n \in Device, NEW m, Arrives(n, m),
         state[n] = "Searching", NEW name, MatchWith(n, m, name)
  PROVE  GameInv'
  <1> DEFINE q == m.from
  <1> DEFINE ack == Made(n, q, "Ack", 0, <<>>, toss[n], life[n], 1)
  <1>1. m \in net /\ q \in Device \ {n} /\ FromGame(m)
    BY Heard DEF Arrives, TypeInv, TypeOK, GameInv
  <1>2. \A p \in Device : toss[p] \in Nat
    BY DEF TypeInv, TypeOK, BornTypes
  <1>3. /\ state'[n] = "Playing" /\ life' = life /\ toss' = toss
        /\ (isHost'[n] <=> Elect(n, toss[n], q, toss[q])) /\ (myTurn'[n] <=> isHost'[n])
        /\ Unplayed(n)' /\ \A p \in Device \ {n} : SameOwn(p)
    BY <1>1 DEF MatchWith, NewGame, Unplayed, SameOwn, FromGame, bornVars, TypeInv, TypeOK, EndTypes,
                SeatTypes, PlayTypes
  <1>4. Unplayed(n) /\ ~myTurn[n] /\ life[n] = 1
    BY DEF GameInv, Once, InGame
  <1>5. Once(n)'
    BY <1>3, <1>4 DEF Once, InGame, Unplayed, Latest
  <1>6. ASSUME NEW k \in net' PROVE FromGame(k)'
    <2>1. k.from \in Device
      BY DEF TypeInv, TypeOK, NetTypes, Packet
    <2>2. k \in net \/ k = ack
      BY DEF MatchWith, After, Sent
    <2>3. CASE k = ack
      BY <1>3, <2>3 DEF Made, FromGame
    <2>4. CASE k \in net
      <3>1. FromGame(k)
        BY <2>4 DEF GameInv
      <3>2. CASE k.from = n
        BY <1>3, <1>4, <3>1, <3>2 DEF FromGame, Unplayed
      <3>3. CASE k.from # n
        BY <1>3, <2>1, <3>1, <3>3 DEF FromGame, SameOwn
      <3> QED BY <3>2, <3>3
    <2> QED BY <2>2, <2>3, <2>4
  <1>7. ASSUME NEW p \in Device \ {n} PROVE Seat(n, p)' /\ Seat(p, n)' /\ Close(n, p)'
    <2>1. Seat(p, n) /\ Close(n, p) /\ SameOwn(p) /\ Once(p)
      BY <1>3 DEF GameInv
    <2>2. Latest(n)' = Latest(n) /\ Latest(p)' = Latest(p)
      BY <1>3, <1>4, <2>1 DEF Latest, Unplayed, SameOwn
    <2>3. p = q
      BY <1>1 DEF OneMatch
    <2>4. Seat(n, p)' /\ Seat(p, n)'
      BY <1>1, <1>3, <2>1, <2>3 DEF Seat, InGame, SameOwn, FromGame
    <2>5. isHost[p] /\ InGame(p) => ~isHost'[n]
      <3>1. toss[n] \in Nat /\ toss[p] \in Nat /\ n \in Nat /\ p \in Nat /\ n # p
        BY <1>2
      <3> QED BY <1>3, <2>1, <2>3, <3>1 DEF Seat, Elect
    <2>6. CASE OneAhead(p, n)
      <3>1. isHost[p] /\ seqn[p] = 1
        BY <1>4, <2>6 DEF OneAhead, Unplayed
      <3>2. InGame(p)
        BY <2>1, <3>1 DEF Once, Unplayed
      <3>3. ~myTurn'[n] /\ seqn'[n] = seqn[n]
        BY <1>3, <1>4, <2>5, <3>1, <3>2 DEF Unplayed
      <3>4. OneAhead(p, n)'
        BY <2>1, <2>2, <2>6, <3>3 DEF OneAhead, SameOwn
      <3> QED BY <2>4, <3>4 DEF Close
    <2>7. CASE InStep(n, p)
      <3>1. seqn[p] = 0
        BY <1>4, <2>7 DEF InStep, Unplayed
      <3>2. myTurn[p] => isHost[p] /\ InGame(p)
        BY <2>1, <3>1 DEF Once, InGame
      <3>3. ~(myTurn'[n] /\ myTurn'[p]) /\ seqn'[n] = seqn[n]
        BY <1>3, <1>4, <2>1, <2>5, <3>2 DEF Unplayed, SameOwn
      <3>4. InStep(n, p)'
        BY <2>1, <2>2, <2>7, <3>3 DEF InStep, SameOwn
      <3> QED BY <2>4, <3>4 DEF Close
    <2>8. ~OneAhead(n, p)
      BY <1>4, LatestType DEF OneAhead, Unplayed
    <2> QED BY <2>1, <2>6, <2>7, <2>8 DEF Close
  <1> QED BY <1>3, <1>5, <1>6, <1>7, GameOne

\* A newer state can only be the one move this device has not seen ...
LEMMA NewerIsNext ==
  ASSUME TypeInv, GameInv, NEW n \in Device, NEW m, HearState(n, m), Newer(n, m)
  PROVE  /\ peer[n] \in Device \ {n} /\ OneAhead(peer[n], n)
         /\ m.seq = seqn[peer[n]] /\ m.board = Latest(peer[n])
  <1>1. m \in net /\ m.from = peer[n] /\ m.type = "State" /\ m.seq > seqn[n] /\ m.seq \in Nat
    BY Heard DEF HearState, FromPeer, Arrives, Newer, TypeInv, TypeOK
  <1>2. peer[n] \in Device \ {n}
    BY DEF HearState, FromPeer, TypeInv, PeerInv
  <1>3. FromGame(m) /\ Once(peer[n]) /\ Close(n, peer[n])
    BY <1>1, <1>2 DEF GameInv
  <1>4. /\ seqn[n] \in Nat /\ seqn[peer[n]] \in Nat /\ outSeq[peer[n]] \in Nat
        /\ m.seq =< outSeq[peer[n]] /\ outSeq[peer[n]] =< seqn[peer[n]]
    BY <1>1, <1>2, <1>3, LatestType DEF FromGame, Once
  <1>5. OneAhead(peer[n], n)
    BY <1>1, <1>3, <1>4 DEF Close, OneAhead, InStep
  <1> QED BY <1>1, <1>2, <1>3, <1>4, <1>5 DEF OneAhead, FromGame

\* ... and brings it in step, with the turn.
LEMMA GameAdopt ==
  ASSUME OneMatch, TypeInv, TypeInv', GameInv, NEW n \in Device, NEW m, HearState(n, m), Newer(n, m)
  PROVE  GameInv'
  <1> DEFINE q == peer[n]
  <1>1. q \in Device \ {n} /\ OneAhead(q, n) /\ m.seq = seqn[q] /\ m.board = Latest(q)
    BY NewerIsNext
  <1>2. /\ seqn'[n] = m.seq /\ inPending'[n] /\ myTurn'[n] /\ incoming'[n] = m.board
    BY DEF HearState, TypeInv, TypeOK, EndTypes, PlayTypes
  <1>3. /\ state' = state /\ life' = life /\ toss' = toss /\ isHost' = isHost
        /\ outgoing' = outgoing /\ outSeq' = outSeq /\ board' = board
        /\ state[n] = "Playing" /\ \A p \in Device \ {n} : SameOwn(p)
    BY DEF HearState, FromPeer, SameOwn, bornVars, seatVars, TypeInv, TypeOK, EndTypes, PlayTypes
  <1>4. Latest(q) \in Board /\ Latest(n) \in Board /\ Latest(q) = Append(Latest(n), q)
        /\ seqn[n] \in Nat /\ outSeq[n] \in Nat /\ seqn[q] = seqn[n] + 1
    BY <1>1, LatestType DEF OneAhead
  <1>5. Latest(n)' = Latest(q) /\ Latest(q) # <<>> /\ Latest(q)[Len(Latest(q))] = q
    BY <1>1, <1>2, <1>4 DEF Latest, Board
  <1>6. Once(n)'
    <2>1. Once(n)
      BY DEF GameInv
    <2>2. outSeq'[n] =< seqn'[n] /\ seqn'[n] # 0
      BY <1>1, <1>2, <1>3, <1>4, <2>1 DEF Once
    <2> QED BY <1>1, <1>3, <1>5, <2>1, <2>2 DEF Once, InGame
  <1>7. ASSUME NEW k \in net' PROVE FromGame(k)'
    <2>1. k \in net \/ k = AckOf(n, seqn'[n])
      BY DEF HearState, After, Sent
    <2>2. FromGame(k)
      BY <1>3, <2>1, PlainPkt DEF GameInv, AckOf
    <2> QED BY <1>3, <2>2 DEF FromGame
  <1>8. ASSUME NEW p \in Device \ {n} PROVE Seat(n, p)' /\ Seat(p, n)' /\ Close(n, p)'
    <2>1. Seat(n, p) /\ Seat(p, n) /\ SameOwn(p) /\ Close(n, p)
      BY <1>3 DEF GameInv
    <2>2. Latest(p)' = Latest(p)
      BY <2>1 DEF Latest, SameOwn
    <2>3. p = q
      BY <1>1 DEF OneMatch
    <2>4. Seat(n, p)' /\ Seat(p, n)'
      BY <1>3, <2>1 DEF Seat, InGame, SameOwn
    <2>5. InStep(n, p)'
      BY <1>1, <1>2, <1>5, <2>1, <2>2, <2>3 DEF InStep, OneAhead, SameOwn
    <2> QED BY <2>4, <2>5 DEF Close
  <1> QED BY <1>3, <1>6, <1>7, <1>8, GameOne

\* submit(): who holds the turn has seen every move, and did not make the last.
LEMMA GameSubmit ==
  ASSUME TypeInv, TypeInv', GameInv, NEW n \in Device, Submit(n)
  PROVE  GameInv'
  <1> DEFINE moved == Append(board[n], n)
  <1> DEFINE pkt == Pkt(n, peer[n], "State", seqn[n] + 1, moved)
  <1>1. state[n] = "Playing" /\ myTurn[n] /\ Latest(n) = board[n] /\ Once(n)
    BY DEF Submit, MaySubmit, Latest, GameInv
  <1>2. /\ board'[n] = moved /\ outgoing'[n] = moved /\ seqn'[n] = seqn[n] + 1
        /\ outSeq'[n] = seqn[n] + 1 /\ ~myTurn'[n] /\ ~inPending'[n]
    BY DEF Submit, MaySubmit, TypeInv, TypeOK, EndTypes, PlayTypes
  <1>3. /\ state' = state /\ life' = life /\ toss' = toss /\ isHost' = isHost
        /\ net' = net \cup Sent({pkt}) /\ \A p \in Device \ {n} : SameOwn(p)
    BY DEF Submit, SameOwn, bornVars, seatVars, TypeInv, TypeOK, EndTypes, PlayTypes
  <1>4. board[n] \in Board /\ seqn[n] \in Nat /\ outSeq[n] \in Nat /\ Latest(n)' = moved
    BY <1>2 DEF Latest, TypeInv, TypeOK, PlayTypes
  <1>5. Once(n)'
    BY <1>1, <1>2, <1>3, <1>4 DEF Once, InGame
  <1>6. ASSUME NEW k \in net' PROVE FromGame(k)'
    <2>1. k.from \in Device /\ k.seq \in Nat
      BY DEF TypeInv, TypeOK, NetTypes, Packet
    <2>2. CASE k \in net
      <3>1. FromGame(k)
        BY <2>2 DEF GameInv
      <3>2. CASE k.from = n
        BY <1>1, <1>2, <1>3, <1>4, <2>1, <3>1, <3>2 DEF FromGame, Once
      <3>3. CASE k.from # n
        BY <1>3, <2>1, <3>1, <3>3 DEF FromGame, SameOwn
      <3> QED BY <3>2, <3>3
    <2>3. CASE k = pkt
      <3>1. /\ k.from = n /\ k.seq = seqn[n] + 1 /\ k.board = moved /\ k.toss = toss[n]
        BY <2>3 DEF Pkt, Made
      <3> QED BY <1>1, <1>2, <1>3, <1>4, <3>1 DEF FromGame
    <2> QED BY <1>3, <2>2, <2>3 DEF Sent
  <1>7. ASSUME NEW p \in Device \ {n} PROVE Seat(n, p)' /\ Seat(p, n)' /\ Close(n, p)'
    <2>1. Seat(n, p) /\ Seat(p, n) /\ Close(n, p) /\ SameOwn(p)
      BY <1>3 DEF GameInv
    <2>2. InStep(n, p) /\ Latest(p)' = Latest(p)
      BY <1>1, <2>1 DEF Close, OneAhead, Latest, SameOwn
    <2>3. Seat(n, p)' /\ Seat(p, n)'
      BY <1>3, <2>1 DEF Seat, InGame, SameOwn
    <2>4. OneAhead(n, p)'
      BY <1>1, <1>2, <1>3, <1>4, <2>1, <2>2 DEF InStep, OneAhead, Once, SameOwn
    <2> QED BY <2>3, <2>4 DEF Close
  <1> QED BY <1>3, <1>5, <1>6, <1>7, GameOne

\* takeIncoming(): the board becomes what the latest state already was.
LEMMA GameTake ==
  ASSUME TypeInv, TypeInv', GameInv, NEW n \in Device, TakeIncoming(n)
  PROVE  GameInv'
  <1>1. /\ state' = state /\ life' = life /\ toss' = toss /\ isHost' = isHost /\ myTurn' = myTurn
        /\ seqn' = seqn /\ outgoing' = outgoing /\ outSeq' = outSeq /\ net' = net
        /\ Latest(n)' = Latest(n) /\ inPending[n] /\ \A p \in Device \ {n} : SameOwn(p)
    BY DEF TakeIncoming, Latest, SameOwn, bornVars, seatVars, endVars, TypeInv, TypeOK, PlayTypes
  <1>2. Once(n)'
    BY <1>1 DEF GameInv, Once, InGame, Unplayed
  <1>3. ASSUME NEW m \in net' PROVE FromGame(m)'
    BY <1>1 DEF GameInv, FromGame
  <1>4. ASSUME NEW p \in Device \ {n} PROVE Seat(n, p)' /\ Seat(p, n)' /\ Close(n, p)'
    <2>1. Seat(n, p) /\ Seat(p, n) /\ Close(n, p) /\ SameOwn(p)
      BY <1>1 DEF GameInv
    <2>2. Latest(p)' = Latest(p)
      BY <2>1 DEF Latest, SameOwn
    <2> QED BY <1>1, <2>1, <2>2 DEF Seat, InGame, Close, OneAhead, InStep
  <1> QED BY <1>1, <1>2, <1>3, <1>4, GameOne

\* The steps that leave the game alone.
GameQuiet(n) ==
  \/ Announce(n) \/ TakeAnnouncement(n)
  \/ TickTail(n) \/ \E m \in net : /\ Receive(n, m)
                                   /\ ~MatchOnJoin(n, m) /\ ~MatchOnTraffic(n, m)
                                   /\ HearState(n, m) => ~Newer(n, m)

\* They leave every latest state alone, too.
LEMMA QuietGame ==
  ASSUME TypeInv, TypeInv', GameInv, NEW n \in Device, GameQuiet(n)
  PROVE  GameInv' /\ UNCHANGED playVars
  <1> USE DEF ownVars, playVars, bornVars, seatVars, endVars
  <1>1. CASE Announce(n)
    BY <1>1, GameStill, PlainPkt DEF Announce, Sent
  <1>2. CASE TakeAnnouncement(n)
    BY <1>2, GameStill DEF TakeAnnouncement
  <1>3. CASE Forget(n)
    BY <1>3, GameStill DEF Forget
  <1>4. CASE HelloAgain(n)
    <2>1. \A m \in HelloTo(n) : FromGame(m)
      BY <1>4, PlainPkt DEF HelloTo, HelloAgain
    <2> QED BY <1>4, <2>1, GameStill DEF HelloAgain, Sends, Sent
  <1>5. CASE JoinAgain(n)
    BY <1>5, GameStill, PlainPkt DEF JoinAgain, Sends, Sent
  <1>6. CASE Silence(n)
    BY <1>6, GameEnd DEF Silence, Deaf
  <1>7. CASE SayAgain(n)
    BY <1>7, GameStill, PlainPkt DEF SayAgain, Sends, Sent, SayOf
  <1>8. CASE StateAgain(n)
    <2>1. FromGame(StateOf(n))
      BY <1>8, LatestType DEF StateAgain, StateOf, FromGame, Pkt, Made
    <2> QED BY <1>8, <2>1, GameStill DEF StateAgain, Sends, Sent
  <1>9. CASE Heartbeat(n)
    BY <1>9, GameStill, PlainPkt DEF Heartbeat, Sends, Sent, AckOf
  <1>10. ASSUME NEW m \in net, Receive(n, m), ~MatchOnJoin(n, m), ~MatchOnTraffic(n, m),
                HearState(n, m) => ~Newer(n, m)
         PROVE  GameInv' /\ UNCHANGED playVars
    <2>1. After(n, m) \subseteq net
      BY DEF After
    <2>2. CASE HearSearcher(n, m) \/ Ignore(n, m) \/ HearAck(n, m) \/ HearSayAck(n, m)
               \/ HearEarlyHello(n, m)
      BY <2>1, <2>2, GameStill DEF HearSearcher, Ignore, HearAck, HearSayAck, HearEarlyHello
    <2>3. CASE HearJoin(n, m)
      <3>1. FromGame(Pkt(n, peer[n], "Join", 0, <<>>)) /\ UNCHANGED ownVars
        BY <2>3, PlainPkt DEF HearJoin, FromPeer
      <3>2. \A k \in net' : k \in net \/ FromGame(k)
        BY <2>1, <2>3, <3>1 DEF HearJoin, Sent
      <3> QED BY <3>1, <3>2, GameStill
    <2>4. CASE HearState(n, m)
      <3>1. UNCHANGED ownVars /\ net' = After(n, m) \cup Sent({AckOf(n, seqn'[n])})
        BY <1>10, <2>4 DEF HearState
      <3>2. FromGame(AckOf(n, seqn'[n]))
        BY <2>4, PlainPkt DEF HearState, FromPeer, AckOf
      <3>3. \A k \in net' : k \in net \/ FromGame(k)
        BY <2>1, <3>1, <3>2 DEF Sent
      <3> QED BY <3>1, <3>3, GameStill
    <2>5. CASE HearSay(n, m)
      <3>1. UNCHANGED ownVars /\ net' = After(n, m) \cup Sent({SayAckOf(n, heardSeq'[n])})
        BY <2>5 DEF HearSay
      <3>2. FromGame(SayAckOf(n, heardSeq'[n]))
        BY <2>5, PlainPkt DEF HearSay, FromPeer, SayAckOf
      <3>3. \A k \in net' : k \in net \/ FromGame(k)
        BY <2>1, <3>1, <3>2 DEF Sent
      <3> QED BY <3>1, <3>3, GameStill
    <2>6. CASE HearDeparture(n, m)
      BY <2>6, GameEnd DEF HearDeparture, FromPeer, Deaf
    <2> QED BY <1>10, <2>2, <2>3, <2>4, <2>5, <2>6 DEF Receive
  <1> QED BY <1>1, <1>2, <1>3, <1>4, <1>5, <1>6, <1>7, <1>8, <1>9, <1>10 DEF GameQuiet, TickTail

\* Every step of the session is one of these.
LEMMA GameSteps ==
  ASSUME OneMatch, [Next]_vars,
         NEW Goal,
         ASSUME NEW n \in Device, GameQuiet(n) PROVE Goal,
         ASSUME NEW n \in Device, Begin(n) \/ Submit(n) \/ TakeIncoming(n) PROVE Goal,
         ASSUME NEW n \in Device, NEW m \in net, MatchOnJoin(n, m) \/ MatchOnTraffic(n, m) PROVE Goal,
         ASSUME NEW n \in Device, NEW m \in net, HearState(n, m), Newer(n, m) PROVE Goal,
         UNCHANGED ownVars /\ net' \subseteq net => Goal
  PROVE  Goal
  <1>1. ASSUME NEW n \in Device, App(n) PROVE Goal
    <2>1. ~Drop(n) /\ ~Leave(n)
      BY DEF OneMatch, Drop, Leave
    <2> QED BY <1>1, <2>1 DEF App, GameQuiet
  <1>2. ASSUME NEW n \in Device, TickTail(n) PROVE Goal
    BY <1>2 DEF GameQuiet
  <1>3. ASSUME NEW n \in Device, NEW m \in net, Receive(n, m) PROVE Goal
    BY <1>3 DEF GameQuiet
  <1>4. ASSUME NEW n \in Device, NEW t \in Tracked, Elapse(n, t) PROVE Goal
    BY <1>4 DEF Elapse, ownVars, playVars, bornVars, seatVars, endVars
  <1>5. ASSUME NEW m \in net, Lose(m) PROVE Goal
    BY <1>5 DEF Lose, ownVars, playVars, bornVars, seatVars, endVars
  <1>6. CASE UNCHANGED vars
    BY <1>6 DEF vars, ownVars, playVars, bornVars, seatVars, endVars
  <1> QED BY <1>1, <1>2, <1>3, <1>4, <1>5, <1>6 DEF Next

LEMMA GameStep ==
  ASSUME OneMatch, TypeInv, TypeInv', GameInv, [Next]_vars
  PROVE  GameInv'
  <1>1. ASSUME NEW n \in Device, NEW m \in net, MatchOnJoin(n, m) \/ MatchOnTraffic(n, m)
        PROVE  GameInv'
    BY <1>1, GameMatch DEF MatchOnJoin, MatchOnTraffic
  <1>2. UNCHANGED ownVars /\ net' \subseteq net => GameInv'
    BY GameStill
  <1> QED BY <1>1, <1>2, QuietGame, GameBegin, GameSubmit, GameTake, GameAdopt, GameSteps

LEMMA GameStart == Init => GameInv
  BY DEF Init, GameInv, Once, InGame, Unplayed, Latest, Seat, Close, InStep

------------------------------------------------------------------------------
(* The refinement. *)

\* The game of the match is the longer of the two latest states.
LEMMA NewestIs ==
  ASSUME OneMatch, TypeInv, NEW n \in Device, NEW p \in Device \ {n},
         Latest(n) = Latest(p) \/ Latest(n) = Append(Latest(p), n)
  PROVE  Newest = Latest(n)
  <1>1. Device = {n, p} /\ Latest(n) \in Board /\ Latest(p) \in Board
    BY LatestType DEF OneMatch
  <1>2. Len(Latest(n)) >= Len(Latest(p)) /\ (Latest(n) # Latest(p) => Len(Latest(n)) > Len(Latest(p)))
    BY <1>1 DEF Board
  <1>3. \A b : (b \in {Latest(x) : x \in Device} /\ \A x \in Device : Len(b) >= Len(Latest(x)))
                  <=> b = Latest(n)
    BY <1>1, <1>2 DEF Board
  <1> QED BY <1>3 DEF Newest

LEMMA NewestNext ==
  ASSUME OneMatch, TypeInv', NEW n \in Device, NEW p \in Device \ {n},
         Latest(n)' = Latest(p)' \/ Latest(n)' = Append(Latest(p)', n)
  PROVE  Newest' = Latest(n)'
  <1>1. Device = {n, p} /\ Latest(n)' \in Board /\ Latest(p)' \in Board
    BY DEF OneMatch, TypeInv, TypeOK, PlayTypes, Latest
  <1>2. Len(Latest(n)') >= Len(Latest(p)') /\ (Latest(n)' # Latest(p)' => Len(Latest(n)') > Len(Latest(p)'))
    BY <1>1 DEF Board
  <1>3. \A b : (b \in {Latest(x)' : x \in Device} /\ \A x \in Device : Len(b) >= Len(Latest(x)'))
                  <=> b = Latest(n)'
    BY <1>1, <1>2 DEF Board
  <1> QED BY <1>3 DEF Newest

seenNow == [n \in Device |-> Len(Latest(n))]

\* Where no latest state changes, neither does the game.
LEMMA GameStutters ==
  ASSUME OneMatch, TypeInv, TypeInv', GameInv, \A x \in Device : Latest(x)' = Latest(x)
  PROVE  UNCHANGED <<Newest, seenNow>>
  <1>1. PICK n \in Device, p \in Device :
               n # p /\ (Latest(n) = Latest(p) \/ Latest(n) = Append(Latest(p), n))
    <2>1. PICK n \in Device, p \in Device : n # p
      BY DEF OneMatch
    <2>2. Close(n, p)
      BY <2>1 DEF GameInv
    <2> QED BY <2>1, <2>2 DEF Close, OneAhead, InStep
  <1>2. Newest = Latest(n) /\ Newest' = Latest(n)'
    BY <1>1, NewestIs, NewestNext
  <1>3. seenNow' = seenNow
    BY DEF seenNow
  <1> QED BY <1>2, <1>3

\* submit() is a move of the game ...
LEMMA SubmitMoves ==
  ASSUME OneMatch, TypeInv, TypeInv', GameInv, NEW n \in Device, Submit(n)
  PROVE  Game!Move(n)
  <1>1. PICK p \in Device \ {n} : TRUE
    BY DEF OneMatch
  <1>2. Once(n) /\ Close(n, p)
    BY DEF GameInv
  <1>3. myTurn[n] /\ Latest(n) = board[n] /\ Latest(n)' = Append(Latest(n), n)
        /\ \A x \in Device \ {n} : Latest(x)' = Latest(x)
    BY DEF Submit, MaySubmit, Latest, TypeInv, TypeOK, PlayTypes
  <1>4. Latest(n) = Latest(p) /\ Latest(n) \in Board
    BY <1>2, <1>3, LatestType DEF Close, OneAhead, InStep
  <1>5. Newest = Latest(n) /\ Newest' = Append(Latest(n), n)
    BY <1>1, <1>3, <1>4, NewestIs, NewestNext
  <1>6. seenNow[n] = Len(Newest) /\ (Newest # <<>> => Newest[Len(Newest)] # n)
    BY <1>2, <1>3, <1>5 DEF seenNow, Once
  <1>7. Len(Append(Latest(n), n)) = Len(Latest(n)) + 1
    BY <1>4 DEF Board
  <1>8. seenNow' = [seenNow EXCEPT ![n] = Len(Newest) + 1]
    BY <1>3, <1>5, <1>7 DEF seenNow
  <1> QED BY <1>5, <1>6, <1>8 DEF Game!Move, seenNow

\* ... and adopting a newer state is its delivery.
LEMMA AdoptDelivers ==
  ASSUME OneMatch, TypeInv, TypeInv', GameInv, NEW n \in Device, NEW m, HearState(n, m), Newer(n, m)
  PROVE  Game!Deliver(n)
  <1>1. PICK q \in Device \ {n} : OneAhead(q, n) /\ m.board = Latest(q)
    BY NewerIsNext
  <1>2. Latest(n)' = Latest(q) /\ \A x \in Device \ {n} : Latest(x)' = Latest(x)
    BY <1>1 DEF HearState, Latest, TypeInv, TypeOK, PlayTypes
  <1>3. Latest(q) = Append(Latest(n), q) /\ Latest(n) \in Board
    BY <1>1, LatestType DEF OneAhead
  <1>4. Newest = Latest(q) /\ Newest' = Latest(q)
    <2>1. n \in Device \ {q} /\ Latest(q)' = Latest(q) /\ Latest(n)' = Latest(q)'
      BY <1>1, <1>2
    <2>2. Newest = Latest(q)
      BY <1>1, <1>3, <2>1, NewestIs
    <2>3. Newest' = Latest(q)'
      BY <1>1, <2>1, NewestNext
    <2> QED BY <2>1, <2>2, <2>3
  <1>5. Len(Latest(n)) + 1 = Len(Latest(q))
    BY <1>3 DEF Board
  <1>6. seenNow[n] + 1 = Len(Newest) /\ seenNow' = [seenNow EXCEPT ![n] = Len(Newest)]
    BY <1>2, <1>4, <1>5 DEF seenNow
  <1> QED BY <1>4, <1>6 DEF Game!Deliver, seenNow

LEMMA GameNext ==
  ASSUME OneMatch, TypeInv, TypeInv', GameInv, [Next]_vars
  PROVE  [Game!Next]_<<Newest, seenNow>>
  <1> DEFINE Goal == [Game!Next]_<<Newest, seenNow>>
  <1>1. ASSUME \A x \in Device : Latest(x)' = Latest(x) PROVE Goal
    BY <1>1, GameStutters
  <1>2. ASSUME NEW n \in Device, GameQuiet(n) PROVE Goal
    BY <1>1, <1>2, QuietGame DEF Latest, playVars
  <1>3. ASSUME NEW n \in Device, Begin(n) PROVE Goal
    <2>1. state[n] = "Idle"
      BY <1>3, BoundAssumption DEF Begin, OneMatch, GameInv, Once, TypeInv, TypeOK, BornTypes
    <2>2. Unplayed(n)
      BY <2>1 DEF GameInv, Once, InGame
    <2>3. \A x \in Device : Latest(x)' = Latest(x)
      BY <1>3, <2>2 DEF Begin, NewGame, Latest, Unplayed, TypeInv, TypeOK, PlayTypes
    <2> QED BY <1>1, <2>3
  <1>4. ASSUME NEW n \in Device, Submit(n) PROVE Goal
    BY <1>4, SubmitMoves DEF Game!Next
  <1>5. ASSUME NEW n \in Device, TakeIncoming(n) PROVE Goal
    <2>1. \A x \in Device : Latest(x)' = Latest(x)
      BY <1>5 DEF TakeIncoming, Latest, TypeInv, TypeOK, PlayTypes
    <2> QED BY <1>1, <2>1
  <1>6. ASSUME NEW n \in Device, NEW m \in net, MatchOnJoin(n, m) \/ MatchOnTraffic(n, m) PROVE Goal
    <2>1. state[n] = "Searching" /\ NewGame(n)
      BY <1>6 DEF MatchOnJoin, MatchOnTraffic, MatchWith
    <2>2. Unplayed(n)
      BY <2>1 DEF GameInv, Once, InGame
    <2>3. \A x \in Device : Latest(x)' = Latest(x)
      BY <2>1, <2>2 DEF NewGame, Latest, Unplayed, TypeInv, TypeOK, PlayTypes
    <2> QED BY <1>1, <2>3
  <1>7. ASSUME NEW n \in Device, NEW m \in net, HearState(n, m), Newer(n, m) PROVE Goal
    BY <1>7, AdoptDelivers DEF Game!Next
  <1>8. UNCHANGED ownVars /\ net' \subseteq net => Goal
    BY <1>1 DEF Latest, ownVars, playVars
  <1> HIDE DEF Goal
  <1>9. Goal
    BY <1>2, <1>3, <1>4, <1>5, <1>6, <1>7, <1>8, GameSteps
  <1> QED BY <1>9 DEF Goal

LEMMA GameInit ==
  ASSUME OneMatch, Init
  PROVE  Game!Init
  <1>1. \A n \in Device : Latest(n) = <<>>
    BY DEF Init, Latest
  <1>2. PICK n \in Device, p \in Device : n # p
    BY DEF OneMatch
  <1>3. Newest = <<>>
    BY <1>1, <1>2, TypeStart, NewestIs
  <1> QED BY <1>1, <1>3 DEF Game!Init

\* Two devices that match play one alternating game, whatever is submitted and
\* announced, however many moves it has, and whatever the air does: every step
\* of the session is a move by the one whose turn it is and who has seen all of
\* them, the delivery of the one move a device is missing, or neither.
THEOREM OneGame ==
  ASSUME OneMatch
  PROVE  Spec => PlaysTheGame
  <1>1. Init => TypeInv /\ GameInv /\ Game!Init
    BY TypeStart, GameStart, GameInit
  <1>2. TypeInv /\ GameInv /\ [Next]_vars => (TypeInv /\ GameInv)'
    BY TypeStep, GameStep
  <1>3. TypeInv /\ TypeInv' /\ GameInv /\ [Next]_vars => [Game!Next]_<<Newest, seenNow>>
    BY GameNext
  <1> QED BY <1>1, <1>2, <1>3, PTL DEF Spec, PlaysTheGame, Game!Spec, seenNow

=============================================================================
