------------------------- MODULE LinkSessionProofs -------------------------
(***************************************************************************)
(* Proofs about linkplay::Session, for any set of devices, any tosses, any *)
(* bounds and any behaviour of the air that LinkSession allows.            *)
(***************************************************************************)
EXTENDS LinkSessionProps, TLAPS

USE DeviceAssumption DEF Nobody

------------------------------------------------------------------------------
(* Types. *)

GoodPacket(m) == m \in Packet /\ m.from # m.to

\* Whatever a device makes for another device is a packet.
LEMMA MadeType ==
  ASSUME NEW n \in Device, NEW to \in Device, to # n, NEW type \in PacketType,
         NEW s \in Nat, NEW b \in Board, NEW t \in Nat, NEW l \in Nat, NEW ph \in {0, 1}
  PROVE  GoodPacket(Made(n, to, type, s, b, t, l, ph))
  BY DEF Made, Packet, GoodPacket

LEMMA PktType ==
  ASSUME BornTypes, NEW n \in Device, NEW to \in Device, to # n,
         NEW type \in PacketType, NEW s \in Nat, NEW b \in Board
  PROVE  GoodPacket(Pkt(n, to, type, s, b))
  BY MadeType DEF Pkt, BornTypes

LEMMA NoBoard == <<>> \in Board
  BY DEF Board

\* What is on the air stays well typed when a device adds such packets to it.
LEMMA NetGrows ==
  ASSUME NetTypes, NEW old, old \subseteq net, NEW new, \A m \in new : GoodPacket(m),
         net' = old \cup Sent(new)
  PROVE  NetTypes'
  BY DEF NetTypes, Sent, GoodPacket

LEMMA NetShrinks ==
  ASSUME NetTypes, net' \subseteq net
  PROVE  NetTypes'
  BY DEF NetTypes

\* A group of variables that a step leaves alone keeps its types.
LEMMA SameTypes ==
  /\ PlayTypes /\ UNCHANGED playVars => PlayTypes'
  /\ SayTypes /\ UNCHANGED sayVars => SayTypes'
  /\ BornTypes /\ UNCHANGED bornVars => BornTypes'
  /\ SeatTypes /\ UNCHANGED seatVars => SeatTypes'
  /\ EndTypes /\ UNCHANGED endVars => EndTypes'
  BY DEF PlayTypes, SayTypes, BornTypes, SeatTypes, EndTypes,
         playVars, sayVars, bornVars, seatVars, endVars

LEMMA NewGameTypes ==
  ASSUME TypeOK, NEW n \in Device, NewGame(n)
  PROVE  PlayTypes' /\ SayTypes' /\ outPending' \in [Device -> BOOLEAN]
  BY NoBoard DEF TypeOK, PlayTypes, SayTypes, EndTypes, NewGame

LEMMA ClearedTypes ==
  ASSUME TypeOK, NEW n \in Device, Cleared(n)
  PROVE  /\ SeatTypes'
         /\ reason' \in [Device -> {"None", "PeerLeft", "PeerLost", "LocalLeft"}]
         /\ candidate' \in [Device -> SomeOne] /\ myTurn' \in [Device -> BOOLEAN]
         /\ confirmed' \in [Device -> BOOLEAN]
  BY DEF TypeOK, SeatTypes, EndTypes, TimeTypes, Cleared, SomeOne

LEMMA EndTyped ==
  ASSUME TypeInv, NEW n \in Device, NEW why \in {"PeerLeft", "PeerLost", "LocalLeft"},
         End(n, why), UNCHANGED seatVars
  PROVE  EndTypes' /\ PeerInv'
  BY DEF TypeInv, PeerInv, TypeOK, EndTypes, End, SomeOne, seatVars

LEMMA ResetTyped ==
  ASSUME TimeTypes, NEW n \in Device, NEW S, Reset(n, S)
  PROVE  due' \in [Device -> SUBSET Timer]
  BY DEF TimeTypes, Reset

------------------------------------------------------------------------------
(* The application's calls keep the types. *)

LEMMA BeginTypes ==
  ASSUME TypeInv, NEW n \in Device, Begin(n)
  PROVE  TypeInv'
  <1>1. PICK t \in Toss :
          /\ toss' = [toss EXCEPT ![n] = t]
          /\ net' = net \cup Sent({Made(n, p, "Hello", 0, <<>>, t, life[n] + 1, 0) : p \in Device \ {n}})
    BY DEF Begin
  <1>2. "Hello" \in PacketType /\ t \in Nat /\ life[n] + 1 \in Nat
    BY TossAssumption DEF PacketType, TypeInv, TypeOK, BornTypes
  <1>3. \A m \in {Made(n, p, "Hello", 0, <<>>, t, life[n] + 1, 0) : p \in Device \ {n}} : GoodPacket(m)
    <2>1. \A p \in Device \ {n} : GoodPacket(Made(n, p, "Hello", 0, <<>>, t, life[n] + 1, 0))
      BY <1>2, MadeType, NoBoard DEF TypeInv, TypeOK, BornTypes
    <2> QED BY <2>1
  <1>4. NetTypes'
    BY <1>1, <1>3, NetGrows DEF TypeInv, TypeOK
  <1>5. BornTypes' /\ TimeTypes'
    BY <1>1, <1>2, ClearedTypes, ResetTyped DEF Begin, TypeInv, TypeOK, BornTypes, TimeTypes
  <1>6. PlayTypes' /\ SayTypes' /\ SeatTypes'
    BY NewGameTypes, ClearedTypes DEF Begin, TypeInv
  <1>7. EndTypes'
    BY NewGameTypes, ClearedTypes DEF Begin, TypeInv, TypeOK, EndTypes
  <1>8. PeerInv'
    BY DEF Begin, Cleared, TypeInv, PeerInv, TypeOK, EndTypes, SeatTypes
  <1> QED BY <1>4, <1>5, <1>6, <1>7, <1>8 DEF TypeInv, TypeOK

LEMMA DropTypes ==
  ASSUME TypeInv, NEW n \in Device, Drop(n)
  PROVE  TypeInv'
  <1>1. NetTypes'
    BY NetShrinks DEF Drop, Deaf, TypeInv, TypeOK
  <1>2. BornTypes' /\ TimeTypes'
    BY ClearedTypes, ResetTyped DEF Drop, TypeInv, TypeOK, BornTypes, TimeTypes
  <1>3. PlayTypes' /\ SayTypes' /\ SeatTypes'
    BY NewGameTypes, ClearedTypes DEF Drop, TypeInv
  <1>4. EndTypes'
    BY NewGameTypes, ClearedTypes DEF Drop, TypeInv, TypeOK, EndTypes
  <1>5. PeerInv'
    BY DEF Drop, Cleared, TypeInv, PeerInv, TypeOK, EndTypes, SeatTypes
  <1> QED BY <1>1, <1>2, <1>3, <1>4, <1>5 DEF TypeInv, TypeOK

LEMMA LeaveTypes ==
  ASSUME TypeInv, NEW n \in Device, Leave(n)
  PROVE  TypeInv'
  <1>1. NetTypes'
    <2>1. state[n] = "Playing" => GoodPacket(Pkt(n, peer[n], "Bye", seqn[n], <<>>))
      BY PktType, NoBoard DEF TypeInv, PeerInv, TypeOK, PlayTypes, PacketType
    <2>2. \A m \in net' : m \in net \/ GoodPacket(m)
      BY <2>1 DEF Leave, Deaf, Sent
    <2> QED BY <2>2 DEF NetTypes, GoodPacket, TypeInv, TypeOK
  <1>2. EndTypes' /\ PeerInv'
    BY EndTyped DEF Leave
  <1> QED BY <1>1, <1>2, SameTypes DEF Leave, TypeInv, TypeOK, TimeTypes

\* Submit, announce, and the packets of the timed tail: what a device in a match sends.
LEMMA SendTypes ==
  ASSUME TypeInv, NEW n \in Device, state[n] = "Playing",
         NEW type \in PacketType, NEW s \in Nat, NEW b \in Board,
         NEW old, old \subseteq net, net' = old \cup Sent({Pkt(n, peer[n], type, s, b)})
  PROVE  NetTypes'
  <1>1. GoodPacket(Pkt(n, peer[n], type, s, b))
    BY PktType DEF TypeInv, PeerInv, TypeOK
  <1> QED BY <1>1, NetGrows DEF TypeInv, TypeOK

LEMMA SubmitTypes ==
  ASSUME TypeInv, NEW n \in Device, Submit(n)
  PROVE  TypeInv'
  <1>1. Append(board[n], n) \in Board /\ seqn[n] + 1 \in Nat /\ "State" \in PacketType
    BY DEF TypeInv, TypeOK, PlayTypes, Board, PacketType
  <1>2. NetTypes'
    BY <1>1, SendTypes DEF Submit, MaySubmit
  <1>3. PlayTypes' /\ EndTypes'
    BY <1>1 DEF Submit, TypeInv, TypeOK, PlayTypes, EndTypes
  <1>4. TimeTypes' /\ SayTypes' /\ BornTypes' /\ SeatTypes'
    BY SameTypes, ResetTyped DEF Submit, TypeInv, TypeOK, TimeTypes
  <1>5. PeerInv'
    BY DEF Submit, TypeInv, PeerInv, seatVars
  <1> QED BY <1>2, <1>3, <1>4, <1>5 DEF TypeInv, TypeOK

LEMMA OtherCallTypes ==
  ASSUME TypeInv, NEW n \in Device, TakeIncoming(n) \/ Announce(n) \/ TakeAnnouncement(n)
  PROVE  TypeInv'
  <1>1. CASE TakeIncoming(n)
    <2>1. PlayTypes'
      BY <1>1 DEF TakeIncoming, TypeInv, TypeOK, PlayTypes
    <2>2. PeerInv' /\ NetTypes' /\ TimeTypes'
      BY <1>1 DEF TakeIncoming, TypeInv, TypeOK, PeerInv, NetTypes, TimeTypes, seatVars, endVars
    <2> QED BY <1>1, <2>1, <2>2, SameTypes DEF TakeIncoming, TypeInv, TypeOK
  <1>2. CASE Announce(n)
    <2>1. NetTypes'
      <3>1. "Say" \in PacketType /\ saySeq[n] + 1 \in Nat
        BY DEF PacketType, TypeInv, TypeOK, SayTypes
      <3> QED BY <1>2, <3>1, SendTypes, NoBoard DEF Announce
    <2>2. SayTypes' /\ TimeTypes'
      BY <1>2, ResetTyped DEF Announce, TypeInv, TypeOK, SayTypes, TimeTypes
    <2>3. PeerInv'
      BY <1>2 DEF Announce, TypeInv, PeerInv, seatVars, endVars
    <2> QED BY <1>2, <2>1, <2>2, <2>3, SameTypes DEF Announce, TypeInv, TypeOK
  <1>3. CASE TakeAnnouncement(n)
    <2>1. SayTypes'
      BY <1>3 DEF TakeAnnouncement, TypeInv, TypeOK, SayTypes
    <2>2. PeerInv' /\ NetTypes' /\ TimeTypes'
      BY <1>3 DEF TakeAnnouncement, TypeInv, TypeOK, PeerInv, NetTypes, TimeTypes, seatVars, endVars
    <2> QED BY <1>3, <2>1, <2>2, SameTypes DEF TakeAnnouncement, TypeInv, TypeOK
  <1> QED BY <1>1, <1>2, <1>3

------------------------------------------------------------------------------
(* The timed tail of tick() keeps the types. *)

\* A step that only sends and moves clocks.
LEMMA SendsTypes ==
  ASSUME TypeInv, NEW n \in Device, NEW pkts, NEW clocks, Sends(n, pkts, clocks),
         \A m \in pkts : GoodPacket(m)
  PROVE  TypeInv'
  <1>1. NetTypes'
    BY NetGrows DEF Sends, TypeInv, TypeOK
  <1>2. TimeTypes'
    BY ResetTyped DEF Sends, TypeInv, TypeOK, TimeTypes
  <1>3. PeerInv'
    BY DEF Sends, TypeInv, PeerInv, seatVars, endVars
  <1> QED BY <1>1, <1>2, <1>3, SameTypes DEF Sends, TypeInv, TypeOK

LEMMA TailTypes ==
  ASSUME TypeInv, NEW n \in Device, TickTail(n)
  PROVE  TypeInv'
  <1> USE DEF TypeInv, TypeOK
  <1>1. CASE Forget(n)
    <2>1. EndTypes' /\ PeerInv'
      BY <1>1 DEF Forget, EndTypes, PeerInv, SomeOne, seatVars
    <2> QED BY <1>1, <2>1, SameTypes DEF Forget, TimeTypes, NetTypes
  <1>2. CASE HelloAgain(n)
    <2>1. \A p \in Device \ {n} : GoodPacket(Pkt(n, p, "Hello", 0, <<>>))
      BY PktType, NoBoard DEF PacketType
    <2>2. \A m \in HelloTo(n) : GoodPacket(m)
      BY <2>1 DEF HelloTo
    <2> QED BY <1>2, <2>2, SendsTypes DEF HelloAgain
  <1>3. CASE JoinAgain(n)
    <2>1. GoodPacket(Pkt(n, candidate[n], "Join", 0, <<>>))
      BY <1>3, PktType, NoBoard DEF JoinAgain, PacketType, PeerInv, EndTypes, SomeOne
    <2> QED BY <1>3, <2>1, SendsTypes DEF JoinAgain
  <1>4. CASE Silence(n)
    <2>1. EndTypes' /\ PeerInv'
      BY <1>4, EndTyped DEF Silence
    <2>2. NetTypes'
      BY <1>4, NetShrinks DEF Silence, Deaf
    <2> QED BY <1>4, <2>1, <2>2, SameTypes DEF Silence, TimeTypes
  <1>5. CASE SayAgain(n)
    <2>1. GoodPacket(SayOf(n))
      BY <1>5, PktType, NoBoard DEF SayAgain, SayOf, PacketType, PeerInv, SayTypes
    <2> QED BY <1>5, <2>1, SendsTypes DEF SayAgain
  <1>6. CASE StateAgain(n)
    <2>1. GoodPacket(StateOf(n))
      BY <1>6, PktType DEF StateAgain, StateOf, PacketType, PeerInv, PlayTypes
    <2> QED BY <1>6, <2>1, SendsTypes DEF StateAgain
  <1>7. CASE Heartbeat(n)
    <2>1. GoodPacket(AckOf(n, seqn[n]))
      BY <1>7, PktType, NoBoard DEF Heartbeat, AckOf, PacketType, PeerInv, PlayTypes
    <2> QED BY <1>7, <2>1, SendsTypes DEF Heartbeat
  <1> QED BY <1>1, <1>2, <1>3, <1>4, <1>5, <1>6, <1>7 DEF TickTail

------------------------------------------------------------------------------
(* The packets a device hears keep the types. *)

LEMMA Heard ==
  ASSUME NetTypes, NEW n \in Device, NEW m, Arrives(n, m)
  PROVE  /\ m \in Packet /\ m.from \in Device \ {n} /\ m.type \in PacketType
         /\ m.seq \in Nat /\ m.toss \in Nat /\ m.life \in Nat /\ m.board \in Board
         /\ m.phase \in {0, 1} /\ After(n, m) \subseteq net
  BY DEF NetTypes, Arrives, After, Packet

LEMMA SearchTypes ==
  ASSUME TypeInv, NEW n \in Device, NEW m, HearSearcher(n, m) \/ Ignore(n, m)
  PROVE  TypeInv'
  <1> USE DEF TypeInv, TypeOK
  <1>1. CASE HearSearcher(n, m)
    <2>1. m.from \in Device \ {n} /\ NetTypes'
      BY <1>1, Heard, NetShrinks DEF HearSearcher
    <2>2. EndTypes' /\ PeerInv' /\ SeatTypes'
      BY <1>1, <2>1 DEF HearSearcher, EndTypes, SeatTypes, PeerInv, SomeOne, Chosen
    <2>3. TimeTypes'
      BY <1>1, ResetTyped DEF HearSearcher, TimeTypes
    <2> QED BY <1>1, <2>1, <2>2, <2>3, SameTypes DEF HearSearcher
  <1>2. CASE Ignore(n, m)
    <2>1. NetTypes'
      BY <1>2, Heard, NetShrinks DEF Ignore
    <2>2. PeerInv' /\ TimeTypes'
      BY <1>2 DEF Ignore, PeerInv, TimeTypes, seatVars, endVars
    <2> QED BY <1>2, <2>1, <2>2, SameTypes DEF Ignore
  <1> QED BY <1>1, <1>2

LEMMA MatchTypes ==
  ASSUME TypeInv, NEW n \in Device, NEW m, Arrives(n, m),
         NEW name \in SomeOne, MatchWith(n, m, name)
  PROVE  TypeInv'
  <1> USE DEF TypeInv, TypeOK
  <1>1. m.from \in Device \ {n} /\ m.life \in Nat /\ m.toss \in Nat /\ After(n, m) \subseteq net
    BY Heard
  <1>2. NetTypes'
    <2>1. GoodPacket(Made(n, m.from, "Ack", 0, <<>>, toss[n], life[n], 1))
      BY <1>1, MadeType, NoBoard DEF PacketType, BornTypes
    <2>2. \A k \in {Made(n, m.from, "Ack", 0, <<>>, toss[n], life[n], 1)} : GoodPacket(k)
      BY <2>1
    <2>3. net' = After(n, m) \cup Sent({Made(n, m.from, "Ack", 0, <<>>, toss[n], life[n], 1)})
      BY DEF MatchWith
    <2> QED BY <1>1, <2>2, <2>3, NetGrows
  <1>3. PlayTypes' /\ SayTypes' /\ BornTypes'
    BY NewGameTypes, SameTypes DEF MatchWith
  <1>4. Elect(n, toss[n], m.from, m.toss) \in BOOLEAN
    BY <1>1 DEF Elect, BornTypes
  <1>5. SeatTypes' /\ TimeTypes'
    BY <1>1, <1>4, ResetTyped DEF MatchWith, SeatTypes, TimeTypes, SomeOne
  <1>6. EndTypes'
    BY <1>4, NewGameTypes DEF MatchWith, EndTypes, SomeOne
  <1>7. PeerInv'
    BY <1>1 DEF MatchWith, PeerInv, EndTypes, SeatTypes
  <1> QED BY <1>2, <1>3, <1>5, <1>6, <1>7

LEMMA HearStateTypes ==
  ASSUME TypeInv, NEW n \in Device, NEW m, HearState(n, m)
  PROVE  TypeInv'
  <1> USE DEF TypeInv, TypeOK
  <1>1. m.seq \in Nat /\ m.board \in Board /\ After(n, m) \subseteq net /\ state[n] = "Playing"
    BY Heard DEF HearState, FromPeer
  <1>2. PlayTypes' /\ EndTypes'
    BY <1>1 DEF HearState, PlayTypes, EndTypes
  <1>3. seqn'[n] \in Nat /\ "Ack" \in PacketType
    BY <1>2 DEF PlayTypes, PacketType
  <1>4. NetTypes'
    BY <1>1, <1>3, SendTypes, NoBoard DEF HearState, AckOf
  <1>5. TimeTypes'
    BY ResetTyped DEF HearState, Confirm, TimeTypes
  <1>6. PeerInv'
    BY DEF HearState, PeerInv, seatVars
  <1> QED BY <1>2, <1>4, <1>5, <1>6, SameTypes DEF HearState

LEMMA HearAckTypes ==
  ASSUME TypeInv, NEW n \in Device, NEW m, HearAck(n, m)
  PROVE  TypeInv'
  <1> USE DEF TypeInv, TypeOK
  <1>1. NetTypes'
    BY Heard, NetShrinks DEF HearAck, FromPeer
  <1>2. EndTypes' /\ PeerInv'
    BY DEF HearAck, EndTypes, PeerInv, seatVars
  <1>3. TimeTypes'
    BY ResetTyped DEF HearAck, Confirm, TimeTypes
  <1> QED BY <1>1, <1>2, <1>3, SameTypes DEF HearAck

LEMMA HearNoteTypes ==
  ASSUME TypeInv, NEW n \in Device, NEW m, HearSay(n, m) \/ HearSayAck(n, m)
  PROVE  TypeInv'
  <1> USE DEF TypeInv, TypeOK
  <1>1. CASE HearSay(n, m)
    <2>1. m.seq \in Nat /\ After(n, m) \subseteq net /\ state[n] = "Playing"
      BY <1>1, Heard DEF HearSay, FromPeer
    <2>2. SayTypes' /\ PeerInv' /\ TimeTypes'
      BY <1>1, <2>1, ResetTyped
      DEF HearSay, Confirm, SayTypes, TimeTypes, PeerInv, seatVars, endVars
    <2>3. heardSeq'[n] \in Nat /\ "SayAck" \in PacketType
      BY <2>2 DEF SayTypes, PacketType
    <2>4. NetTypes'
      BY <1>1, <2>1, <2>3, SendTypes, NoBoard DEF HearSay, SayAckOf
    <2> QED BY <1>1, <2>2, <2>4, SameTypes DEF HearSay
  <1>2. CASE HearSayAck(n, m)
    <2>1. NetTypes'
      BY <1>2, Heard, NetShrinks DEF HearSayAck, FromPeer
    <2>2. SayTypes' /\ PeerInv' /\ TimeTypes'
      BY <1>2, ResetTyped DEF HearSayAck, Confirm, SayTypes, TimeTypes, PeerInv, seatVars, endVars
    <2> QED BY <1>2, <2>1, <2>2, SameTypes DEF HearSayAck
  <1> QED BY <1>1, <1>2

LEMMA HearRestTypes ==
  ASSUME TypeInv, NEW n \in Device, NEW m,
         HearJoin(n, m) \/ HearDeparture(n, m) \/ HearEarlyHello(n, m)
  PROVE  TypeInv'
  <1> USE DEF TypeInv, TypeOK
  <1>1. CASE HearJoin(n, m)
    <2>1. After(n, m) \subseteq net /\ state[n] = "Playing" /\ "Join" \in PacketType /\ 0 \in Nat
      BY <1>1, Heard DEF HearJoin, FromPeer, PacketType
    <2>2. NetTypes'
      BY <1>1, <2>1, SendTypes, NetShrinks, NoBoard DEF HearJoin
    <2>3. PeerInv' /\ TimeTypes'
      BY <1>1, ResetTyped DEF HearJoin, Confirm, TimeTypes, PeerInv, seatVars, endVars
    <2> QED BY <1>1, <2>2, <2>3, SameTypes DEF HearJoin
  <1>2. CASE HearDeparture(n, m)
    <2>1. EndTypes' /\ PeerInv'
      BY <1>2, EndTyped DEF HearDeparture
    <2>2. NetTypes' /\ TimeTypes'
      BY <1>2, NetShrinks, ResetTyped DEF HearDeparture, Deaf, TimeTypes
    <2> QED BY <1>2, <2>1, <2>2, SameTypes DEF HearDeparture
  <1>3. CASE HearEarlyHello(n, m)
    <2>1. NetTypes' /\ TimeTypes'
      BY <1>3, Heard, NetShrinks, ResetTyped DEF HearEarlyHello, FromPeer, TimeTypes
    <2>2. PeerInv'
      BY <1>3 DEF HearEarlyHello, PeerInv, seatVars, endVars
    <2> QED BY <1>3, <2>1, <2>2, SameTypes DEF HearEarlyHello
  <1> QED BY <1>1, <1>2, <1>3

------------------------------------------------------------------------------

LEMMA TypeStep ==
  ASSUME TypeInv, [Next]_vars
  PROVE  TypeInv'
  <1>1. ASSUME NEW n \in Device, App(n)
        PROVE  TypeInv'
    BY <1>1, BeginTypes, DropTypes, LeaveTypes, SubmitTypes, OtherCallTypes DEF App
  <1>2. ASSUME NEW n \in Device, TickTail(n)
        PROVE  TypeInv'
    BY <1>2, TailTypes
  <1>3. ASSUME NEW n \in Device, NEW m \in net, Receive(n, m)
        PROVE  TypeInv'
    <2>1. CASE MatchOnJoin(n, m)
      BY <2>1, MatchTypes, Heard DEF MatchOnJoin, SomeOne, TypeInv, TypeOK
    <2>2. CASE MatchOnTraffic(n, m)
      BY <2>2, MatchTypes DEF MatchOnTraffic, TypeInv, TypeOK, SeatTypes
    <2> QED BY <1>3, <2>1, <2>2, SearchTypes, HearStateTypes, HearAckTypes, HearNoteTypes,
               HearRestTypes DEF Receive
  <1>4. ASSUME NEW n \in Device, NEW t \in Tracked, Elapse(n, t)
        PROVE  TypeInv'
    <2>1. PeerInv' /\ TimeTypes' /\ NetTypes'
      BY <1>4, TimerAssumption
      DEF Elapse, TypeInv, TypeOK, PeerInv, TimeTypes, NetTypes, seatVars, endVars
    <2> QED BY <1>4, <2>1, SameTypes DEF Elapse, TypeInv, TypeOK
  <1>5. ASSUME NEW m \in net, Lose(m)
        PROVE  TypeInv'
    <2>1. PeerInv' /\ TimeTypes' /\ NetTypes'
      BY <1>5, NetShrinks DEF Lose, TypeInv, TypeOK, PeerInv, TimeTypes, seatVars, endVars
    <2> QED BY <1>5, <2>1, SameTypes DEF Lose, TypeInv, TypeOK
  <1>6. CASE UNCHANGED vars
    <2>1. PeerInv' /\ TimeTypes' /\ NetTypes'
      BY <1>6 DEF vars, TypeInv, TypeOK, PeerInv, TimeTypes, NetTypes, seatVars, endVars
    <2> QED BY <1>6, <2>1, SameTypes DEF vars, TypeInv, TypeOK
  <1> QED BY <1>1, <1>2, <1>3, <1>4, <1>5, <1>6 DEF Next

LEMMA TypeStart == Init => TypeInv
  BY NoBoard
  DEF Init, TypeInv, TypeOK, PeerInv, PlayTypes, SayTypes, BornTypes, SeatTypes, EndTypes,
      TimeTypes, NetTypes, SomeOne

\* Every variable keeps its type, and no device is ever sent its own packets.
THEOREM TypeCorrect == Spec => []TypeOK
  <1>1. Spec => []TypeInv
    BY TypeStart, TypeStep, PTL DEF Spec
  <1>2. TypeInv => TypeOK
    BY DEF TypeInv
  <1> QED BY <1>1, <1>2, PTL

------------------------------------------------------------------------------
(* The inductive invariant. *)

\* What the invariant reads of device p, all of it unchanged by a step.
SameAt(p) ==
  /\ state'[p] = state[p] /\ life'[p] = life[p] /\ toss'[p] = toss[p]
  /\ peer'[p] = peer[p] /\ peerLife'[p] = peerLife[p] /\ isHost'[p] = isHost[p]
  /\ myTurn'[p] = myTurn[p] /\ seqn'[p] = seqn[p]
  /\ outgoing'[p] = outgoing[p] /\ outSeq'[p] = outSeq[p] /\ outPending'[p] = outPending[p]
  /\ incoming'[p] = incoming[p] /\ inPending'[p] = inPending[p] /\ board'[p] = board[p]

\* A step of one device keeps the invariant if it keeps the parts that
\* mention that device.
LEMMA OneDevice ==
  ASSUME IInv, TypeInv', NEW n \in Device, life'[n] >= life[n],
         \A p \in Device \ {n} : SameAt(p),
         PacketInv', Self(n)',
         \A p \in Device \ {n} : Role(n, p)' /\ Role(p, n)' /\ Alone(n, p)' /\ Alone(p, n)'
                                 /\ Sync(n, p)'
  PROVE  IInv'
  <1>1. \A p \in Device : Self(p)'
    <2>1. SUFFICES ASSUME NEW p \in Device \ {n} PROVE Self(p)'
      OBVIOUS
    <2>2. CASE state[p] # "Playing"
      BY <2>2 DEF SameAt, Self
    <2>3. CASE state[p] = "Playing"
      <3>1. peer[p] \in Device /\ life[peer[p]] \in Nat /\ life'[peer[p]] \in Nat
            /\ peerLife[p] \in Nat
        BY <2>3 DEF IInv, TypeInv, PeerInv, TypeOK, BornTypes, SeatTypes
      <3>2. life'[peer[p]] >= life[peer[p]]
        BY <3>1 DEF SameAt
      <3> QED BY <3>1, <3>2 DEF IInv, SameAt, Self
    <2> QED BY <2>2, <2>3
  <1>2. \A p, q \in Device \ {n} : Role(p, q)' /\ Alone(p, q)' /\ Sync(p, q)'
    <2> SUFFICES ASSUME NEW p \in Device \ {n}, NEW q \in Device \ {n}
                 PROVE  Role(p, q)' /\ Alone(p, q)' /\ Sync(p, q)'
      OBVIOUS
    <2>1. Role(p, q) /\ Alone(p, q) /\ Sync(p, q)
      BY DEF IInv, PairInv
    <2>2. Role(p, q)' /\ Alone(p, q)'
      BY <2>1 DEF SameAt, Role, Alone, Holds, Opening
    <2>3. Sync(p, q)'
      <3>1. Matched(p, q)' => Matched(p, q)
        BY DEF SameAt, Matched
      <3>2. /\ Ahead(p, q) => Ahead(p, q)'
            /\ Ahead(q, p) => Ahead(q, p)'
        BY DEF SameAt, Ahead
      <3>3. Latest(p)' = Latest(p) /\ Latest(q)' = Latest(q)
        BY DEF SameAt, Latest
      <3>4. /\ Even(p, q) => Even(p, q)'
            /\ Even(q, p) => Even(q, p)'
        BY <3>3 DEF SameAt, Even
      <3> QED BY <2>1, <3>1, <3>2, <3>4 DEF Sync
    <2> QED BY <2>2, <2>3
  <1>3. \A p \in Device : Role(p, p)' /\ Alone(p, p)' /\ Sync(p, p)'
    BY DEF Role, Alone, Sync, Holds, Matched
  <1>4. \A p \in Device \ {n} : Sync(p, n)'
    BY DEF Sync, Matched
  <1>5. PairInv'
    BY <1>2, <1>3, <1>4 DEF PairInv
  <1> QED BY <1>1, <1>5 DEF IInv

coreVars == <<state, life, toss, peer, peerLife, isHost, myTurn, outPending, playVars>>

\* A step that changes nothing the invariant reads, and adds only packets that
\* satisfy it.
LEMMA Quiet ==
  ASSUME IInv, TypeInv', UNCHANGED coreVars,
         \A m \in net' : m \in net \/ (Sound(m) /\ Timely(m))
  PROVE  IInv'
  <1>1. PacketInv'
    BY DEF IInv, PacketInv, Sound, Timely, coreVars, playVars
  <1>2. (\A n \in Device : Self(n))'
    BY DEF IInv, Self, coreVars, playVars
  <1>3. PairInv'
    <2> SUFFICES ASSUME NEW n \in Device, NEW p \in Device
                 PROVE  Role(n, p)' /\ Alone(n, p)' /\ Sync(n, p)'
      BY DEF PairInv
    <2>1. Role(n, p) /\ Alone(n, p) /\ Sync(n, p)
      BY DEF IInv, PairInv
    <2>2. Role(n, p)' /\ Alone(n, p)'
      BY <2>1 DEF Role, Alone, Holds, Opening, coreVars, playVars
    <2>3. Sync(n, p)'
      BY <2>1 DEF Sync, Matched, Ahead, Even, Latest, coreVars, playVars
    <2> QED BY <2>2, <2>3
  <1> QED BY <1>1, <1>2, <1>3 DEF IInv

\* Any packet a device makes of its present state satisfies the invariant.
LEMMA OwnPacket ==
  ASSUME IInv, NEW n \in Device, state[n] \in Listening,
         NEW to \in Device, to # n, NEW type \in PacketType, NEW s \in Nat, NEW b \in Board,
         type \notin {"Hello", "Join"} => state[n] = "Playing",
         type = "Ack" => s =< seqn[n],
         type = "State" => s = outSeq[n] /\ b = outgoing[n]
  PROVE  Sound(Pkt(n, to, type, s, b)) /\ Timely(Pkt(n, to, type, s, b))
  <1> DEFINE m == Pkt(n, to, type, s, b)
  <1>1. /\ m.from = n /\ m.to = to /\ m.type = type /\ m.seq = s /\ m.board = b
        /\ m.toss = toss[n] /\ m.life = life[n]
        /\ m.phase = IF state[n] = "Playing" THEN 1 ELSE 0
    BY DEF Pkt, Made
  <1>2. life[n] \in Nat /\ outSeq[n] \in Nat
    BY DEF IInv, TypeInv, TypeOK, BornTypes, PlayTypes
  <1> HIDE DEF m
  <1>3. Sound(m)
    BY <1>1, <1>2 DEF Sound, Listening
  <1>4. Timely(m)
    <2>1. Self(to)
      BY DEF IInv
    <2> QED BY <1>1, <1>2, <2>1 DEF Timely, Self
  <1> QED BY <1>3, <1>4 DEF m

\* A device that stops listening, for whatever reason.
LEMMA Gone ==
  ASSUME IInv, TypeInv', NEW n \in Device, state'[n] \notin Listening, life' = life,
         \A p \in Device \ {n} : SameAt(p),
         \A m \in net' : m \in net \/ (Sound(m) /\ Timely(m))
  PROVE  IInv'
  <1>1. PacketInv'
    <2> SUFFICES ASSUME NEW m \in net' PROVE Sound(m)' /\ Timely(m)'
      BY DEF PacketInv
    <2>1. Sound(m) /\ Timely(m)
      BY DEF IInv, PacketInv
    <2>2. m.from \in Device /\ m.to \in Device
      BY DEF TypeInv, TypeOK, NetTypes, Packet
    <2>3. Sound(m)'
      BY <2>1, <2>2 DEF Sound, SameAt, Listening
    <2>4. Timely(m)'
      BY <2>1, <2>2 DEF Timely, SameAt, Listening
    <2> QED BY <2>3, <2>4
  <1>2. Self(n)'
    BY DEF Self, Listening
  <1>3. \A p \in Device \ {n} : Role(n, p)' /\ Role(p, n)' /\ Alone(n, p)' /\ Alone(p, n)'
                                /\ Sync(n, p)'
    BY DEF Role, Alone, Sync, Holds, Matched, Listening
  <1>4. life'[n] >= life[n]
    BY DEF IInv, TypeInv, TypeOK, BornTypes
  <1> QED BY <1>1, <1>2, <1>3, <1>4, OneDevice

\* begin(): a new life, which no packet and no opponent knows of yet.
LEMMA BeginInv ==
  ASSUME IInv, TypeInv', NEW n \in Device, Begin(n)
  PROVE  IInv'
  <1> USE DEF IInv
  <1>1. PICK t \in Toss :
          /\ toss' = [toss EXCEPT ![n] = t]
          /\ net' = net \cup Sent({Made(n, p, "Hello", 0, <<>>, t, life[n] + 1, 0) : p \in Device \ {n}})
    BY DEF Begin
  <1>2. state'[n] = "Searching" /\ toss'[n] = t /\ life'[n] = life[n] + 1 /\ life[n] \in Nat
    BY <1>1 DEF Begin, TypeInv, TypeOK, EndTypes, BornTypes
  <1>3. \A p \in Device \ {n} : SameAt(p)
    BY <1>1 DEF Begin, Cleared, NewGame, SameAt, TypeInv, TypeOK, EndTypes, BornTypes, SeatTypes, PlayTypes
  <1>4. \A p \in Device \ {n} : state[p] = "Playing" /\ peer[p] = n => peerLife[p] =< life[n]
    BY DEF Self
  <1>5. PacketInv'
    <2> SUFFICES ASSUME NEW m \in net' PROVE Sound(m)' /\ Timely(m)'
      BY DEF PacketInv
    <2>1. m.from \in Device /\ m.to \in Device /\ m.from # m.to /\ m.life \in Nat
      BY DEF TypeInv, TypeOK, NetTypes, Packet
    <2>2. CASE m \in net
      <3>1. Sound(m) /\ Timely(m)
        BY <2>2 DEF PacketInv
      <3>2. Sound(m)'
        BY <1>2, <1>3, <2>1, <3>1 DEF Sound, SameAt, Listening
      <3>3. Timely(m)'
        BY <1>2, <1>3, <2>1, <3>1 DEF Timely, SameAt
      <3> QED BY <3>2, <3>3
    <2>3. CASE m \notin net
      <3>1. PICK p \in Device \ {n} : m = Made(n, p, "Hello", 0, <<>>, t, life[n] + 1, 0)
        BY <1>1, <2>3 DEF Sent
      <3>2. /\ m.from = n /\ m.to = p /\ m.type = "Hello" /\ m.life = life[n] + 1
            /\ m.toss = t /\ m.phase = 0
        BY <3>1 DEF Made
      <3>3. Sound(m)'
        BY <1>2, <3>2 DEF Sound
      <3>4. Timely(m)'
        <4>1. state'[p] = "Playing" /\ peer'[p] = n => peerLife'[p] =< life[n] /\ peerLife'[p] \in Nat
          BY <1>3, <1>4 DEF SameAt, TypeInv, TypeOK, SeatTypes
        <4> QED BY <1>2, <3>2, <4>1 DEF Timely
      <3> QED BY <3>3, <3>4
    <2> QED BY <2>2, <2>3
  <1>6. Self(n)'
    BY <1>2 DEF Self
  <1>7. \A p \in Device \ {n} : ~Holds(p, n)' /\ ~Holds(n, p)'
    BY <1>2, <1>3, <1>4 DEF Holds, SameAt
  <1>8. \A p \in Device \ {n} : Role(n, p)' /\ Role(p, n)' /\ Alone(n, p)' /\ Alone(p, n)'
                                /\ Sync(n, p)'
    BY <1>2, <1>7 DEF Role, Alone, Sync, Matched
  <1>9. life'[n] >= life[n]
    BY <1>2
  <1> QED BY <1>3, <1>5, <1>6, <1>8, <1>9, OneDevice

\* matchWith(): the packet that seals the match tells n of the other's toss, and
\* the other, if it plays n already, has at most opened the game.
LEMMA MatchInv ==
  ASSUME IInv, TypeInv', NEW n \in Device, NEW m, Arrives(n, m), state[n] = "Searching",
         NEW name \in SomeOne, MatchWith(n, m, name)
  PROVE  IInv'
  <1> USE DEF IInv
  <1> DEFINE q == m.from
  <1> DEFINE ack == Made(n, q, "Ack", 0, <<>>, toss[n], life[n], 1)
  <1>1. /\ q \in Device \ {n} /\ m.life \in Nat /\ m.toss \in Nat /\ m \in net
        /\ After(n, m) \subseteq net /\ Sound(m)
    BY Heard DEF TypeInv, TypeOK, Arrives, PacketInv
  <1>2. /\ state'[n] = "Playing" /\ peer'[n] = q /\ peerLife'[n] = m.life
        /\ life' = life /\ toss' = toss
        /\ net' = After(n, m) \cup Sent({ack})
    BY DEF MatchWith, TypeInv, TypeOK, EndTypes, SeatTypes, bornVars
  <1>10. isHost'[n] = Elect(n, toss[n], q, m.toss) /\ myTurn'[n] = isHost'[n]
    BY DEF MatchWith, TypeInv, TypeOK, EndTypes, SeatTypes
  <1>3. /\ seqn'[n] = 0 /\ outSeq'[n] = 0 /\ ~outPending'[n] /\ ~inPending'[n]
        /\ board'[n] = <<>>
    BY DEF MatchWith, NewGame, TypeInv, TypeOK, EndTypes, PlayTypes
  <1>4. \A p \in Device \ {n} : SameAt(p)
    BY <1>2 DEF MatchWith, NewGame, SameAt, TypeInv, TypeOK, EndTypes, SeatTypes, PlayTypes
  <1>5. \A p \in Device : life[p] \in Nat /\ toss[p] \in Nat
    BY DEF TypeInv, TypeOK, BornTypes
  <1>6. PacketInv'
    <2> SUFFICES ASSUME NEW k \in net' PROVE Sound(k)' /\ Timely(k)'
      BY DEF PacketInv
    <2>1. k.from \in Device /\ k.to \in Device /\ k.from # k.to /\ k.life \in Nat /\ k.phase \in {0, 1}
      BY DEF TypeInv, TypeOK, NetTypes, Packet
    <2>2. CASE k \in After(n, m)
      <3>1. Sound(k) /\ Timely(k)
        BY <1>1, <2>2 DEF PacketInv
      <3>2. Sound(k)'
        BY <1>2, <1>3, <1>4, <2>1, <3>1 DEF Sound, SameAt, Listening
      <3>3. k.to = n /\ k.from = q => k.life >= m.life
        BY <1>1, <2>1, <2>2 DEF After, Older
      <3>4. Timely(k)'
        BY <1>2, <1>4, <2>1, <3>1, <3>3 DEF Timely, SameAt
      <3> QED BY <3>2, <3>4
    <2>3. CASE k \notin After(n, m)
      <3>1. k = ack
        BY <1>2, <2>3 DEF Sent
      <3>2. /\ k.from = n /\ k.to = q /\ k.type = "Ack" /\ k.life = life[n]
            /\ k.toss = toss[n] /\ k.phase = 1 /\ k.seq = 0
        BY <3>1 DEF Made
      <3>3. Sound(k)'
        BY <1>2, <1>3, <1>5, <3>2 DEF Sound
      <3>4. Timely(k)'
        <4>1. Self(q) /\ SameAt(q)
          BY <1>1, <1>4
        <4> QED BY <1>2, <1>5, <3>2, <4>1 DEF Timely, Self, SameAt
      <3> QED BY <3>3, <3>4
    <2> QED BY <2>2, <2>3
  <1>7. Self(n)'
    BY <1>1, <1>2, <1>3 DEF Self, Sound
  <1>8. ASSUME NEW p \in Device \ {n}
        PROVE  /\ Role(n, p)' /\ Role(p, n)' /\ Alone(n, p)' /\ Alone(p, n)'
               /\ Sync(n, p)'
    <2>1. Role(p, n) /\ Alone(p, n) /\ SameAt(p)
      BY <1>4 DEF PairInv
    <2>2. Role(n, p)'
      BY <1>1, <1>2, <1>10, <2>1 DEF Role, Holds, SameAt, Sound
    <2>3. Role(p, n)'
      BY <1>2, <2>1 DEF Role, Holds, SameAt, Listening
    <2>4. Alone(n, p)' /\ Alone(p, n)'
      <3>1. Opening(n)'
        BY <1>3, <1>10 DEF Opening
      <3> QED BY <1>2, <3>1 DEF Alone
    <2>5. Sync(n, p)'
      <3>1. SUFFICES ASSUME Matched(n, p)'
                     PROVE  (Ahead(p, n) \/ Even(n, p) \/ Even(p, n))'
        BY DEF Sync
      <3>2. Holds(p, n) /\ Opening(p)
        BY <1>2, <2>1, <3>1 DEF Matched, Holds, Alone, SameAt
      <3>3. Holds(n, p)' /\ Holds(p, n)' /\ state'[n] \in Listening /\ state'[p] \in Listening
        BY <3>1 DEF Matched, Holds, Listening
      <3>4. isHost'[n] <=> ~isHost'[p]
        <4>1. /\ isHost'[n] <=> Elect(n, toss'[n], p, toss'[p])
              /\ isHost'[p] <=> Elect(p, toss'[p], n, toss'[n])
          BY <2>2, <2>3, <3>3 DEF Role
        <4>2. toss'[n] \in Nat /\ toss'[p] \in Nat /\ n \in Nat /\ p \in Nat /\ n # p
          BY <1>2, <1>5
        <4> QED BY <4>1, <4>2 DEF Elect
      <3>5. (myTurn'[n] <=> isHost'[n]) /\ (isHost'[p] <=> isHost[p])
            /\ (myTurn'[p] <=> myTurn[p])
        BY <1>10, <2>1 DEF SameAt
      <3>6. CASE seqn[p] = 0
        <4>1. (myTurn[p] <=> isHost[p]) /\ ~inPending[p] /\ board[p] = <<>>
          BY <3>2, <3>6 DEF Opening
        <4> QED BY <1>3, <2>1, <3>4, <3>5, <3>6, <4>1 DEF SameAt, Even, Latest
      <3>7. CASE seqn[p] = 1
        <4>1. /\ outSeq[p] = 1 /\ outPending[p] /\ ~myTurn[p] /\ isHost[p] /\ ~inPending[p]
              /\ board[p] = <<p>> /\ outgoing[p] = <<p>>
          BY <3>2, <3>7 DEF Opening
        <4>2. <<p>> = Append(<<>>, p)
          OBVIOUS
        <4> QED BY <1>3, <2>1, <3>4, <3>5, <3>7, <4>1, <4>2 DEF SameAt, Ahead
      <3> QED BY <3>2, <3>6, <3>7 DEF Opening
    <2> QED BY <2>2, <2>3, <2>4, <2>5
  <1>9. life'[n] >= life[n]
    BY <1>2, <1>5
  <1> QED BY <1>4, <1>6, <1>7, <1>8, <1>9, OneDevice

\* Packets from the opponent a device holds are of that opponent's present life:
\* none but a Hello or a Join while it searches, and never ahead of its counter.
LEMMA FromHeld ==
  ASSUME IInv, NEW n \in Device, NEW m, NEW type, FromPeer(n, m, type),
         type \notin {"Hello", "Join"}, Holds(n, peer[n])
  PROVE  /\ state[peer[n]] # "Searching"
         /\ state[peer[n]] = "Playing" =>
              /\ type = "Ack" => m.seq =< seqn[peer[n]]
              /\ type = "State" => /\ m.seq =< outSeq[peer[n]]
                                   /\ m.seq = outSeq[peer[n]] => m.board = outgoing[peer[n]]
  <1>1. m \in net /\ m.to = n /\ m.from = peer[n] /\ m.type = type /\ state[n] = "Playing"
    BY DEF FromPeer, Arrives
  <1>2. Sound(m) /\ Timely(m) /\ m.life \in Nat /\ life[peer[n]] \in Nat
    BY <1>1 DEF IInv, PacketInv, TypeInv, TypeOK, PeerInv, NetTypes, Packet, BornTypes
  <1>3. m.life = life[peer[n]]
    BY <1>1, <1>2 DEF Sound, Timely, Holds
  <1> QED BY <1>1, <1>2, <1>3 DEF Sound

\* A newer state is adopted: the game goes from one move apart to in step.
LEMMA AdoptInv ==
  ASSUME IInv, TypeInv', NEW n \in Device, NEW m, HearState(n, m), Newer(n, m)
  PROVE  IInv'
  <1> USE DEF IInv
  <1> DEFINE q == peer[n]
  <1> DEFINE ack == AckOf(n, m.seq)
  <1>1. /\ FromPeer(n, m, "State") /\ state[n] = "Playing" /\ q \in Device \ {n}
        /\ m.seq \in Nat /\ m.seq > seqn[n] /\ seqn[n] \in Nat /\ outSeq[n] \in Nat
        /\ After(n, m) \subseteq net
    BY Heard DEF HearState, FromPeer, Newer, TypeInv, TypeOK, PeerInv, PlayTypes
  <1>2. /\ seqn'[n] = m.seq /\ inPending'[n] /\ myTurn'[n] /\ ~outPending'[n]
        /\ incoming'[n] = m.board
    BY DEF HearState, TypeInv, TypeOK, EndTypes, PlayTypes
  <1>3. /\ state' = state /\ life' = life /\ toss' = toss /\ peer' = peer
        /\ peerLife' = peerLife /\ isHost' = isHost /\ outgoing' = outgoing
        /\ outSeq' = outSeq /\ board' = board
        /\ net' = After(n, m) \cup Sent({ack})
    BY <1>2 DEF HearState, bornVars, seatVars
  <1>4. \A p \in Device \ {n} : SameAt(p)
    BY <1>3 DEF HearState, SameAt, TypeInv, TypeOK, EndTypes, PlayTypes
  <1>5. PacketInv'
    <2> SUFFICES ASSUME NEW k \in net' PROVE Sound(k)' /\ Timely(k)'
      BY DEF PacketInv
    <2>1. k.from \in Device /\ k.to \in Device /\ k.from # k.to /\ k.seq \in Nat
      BY DEF TypeInv, TypeOK, NetTypes, Packet
    <2>2. CASE k \in After(n, m)
      <3>1. Sound(k) /\ Timely(k)
        BY <1>1, <2>2 DEF PacketInv
      <3>2. ASSUME k.from = n PROVE Sound(k)'
        <4>1. seqn[n] =< seqn'[n]
          BY <1>1, <1>2
        <4>2. k.type = "Ack" /\ k.seq =< seqn[n] => k.seq =< seqn'[n]
          BY <1>1, <1>2, <2>1, <4>1
        <4> QED BY <1>3, <3>1, <3>2, <4>2 DEF Sound
      <3>3. ASSUME k.from # n PROVE Sound(k)'
        BY <1>3, <1>4, <2>1, <3>1, <3>3 DEF Sound, SameAt
      <3>4. Timely(k)'
        BY <1>3, <3>1 DEF Timely
      <3> QED BY <3>2, <3>3, <3>4
    <2>3. CASE k \notin After(n, m)
      <3>1. k = ack
        BY <1>3, <2>3 DEF Sent
      <3>2. /\ k.from = n /\ k.to = q /\ k.type = "Ack" /\ k.life = life[n]
            /\ k.toss = toss[n] /\ k.phase = 1 /\ k.seq = m.seq
        BY <1>1, <3>1 DEF AckOf, Pkt, Made
      <3>3. life[n] \in Nat
        BY DEF TypeInv, TypeOK, BornTypes
      <3>4. Sound(k)'
        BY <1>1, <1>2, <1>3, <3>2, <3>3 DEF Sound
      <3>5. Timely(k)'
        <4>1. Self(q)
          BY <1>1
        <4> QED BY <1>3, <3>2, <3>3, <4>1 DEF Timely, Self
      <3> QED BY <3>4, <3>5
    <2> QED BY <2>2, <2>3
  <1>6. Self(n)'
    <2>1. Self(n)
      BY <1>1
    <2> QED BY <1>1, <1>2, <1>3, <2>1 DEF Self
  <1>7. ASSUME NEW p \in Device \ {n}
        PROVE  /\ Role(n, p)' /\ Role(p, n)' /\ Alone(n, p)' /\ Alone(p, n)'
               /\ Sync(n, p)'
    <2>1. Role(n, p) /\ Role(p, n) /\ Sync(n, p) /\ SameAt(p)
      BY <1>4 DEF PairInv
    <2>2. Role(n, p)' /\ Role(p, n)'
      BY <1>3, <2>1 DEF Role, Holds
    <2>3. Alone(n, p)' /\ Alone(p, n)'
      BY <1>1, <1>3, FromHeld DEF Alone, Holds
    <2>4. Sync(n, p)'
      <3>1. SUFFICES ASSUME Matched(n, p) PROVE Even(n, p)'
        BY <1>3 DEF Sync, Matched
      <3>2. p = q /\ Holds(n, q) /\ state[q] = "Playing"
        BY <3>1 DEF Matched, Holds
      <3>3. m.seq =< outSeq[p] /\ (m.seq = outSeq[p] => m.board = outgoing[p])
        BY <1>1, <3>2, FromHeld
      <3>4. outSeq[p] =< seqn[p] /\ outSeq[p] \in Nat /\ seqn[p] \in Nat
        BY <3>2 DEF Self, TypeInv, TypeOK, PlayTypes
      <3>5. Ahead(p, n)
        BY <1>1, <2>1, <3>1, <3>3, <3>4 DEF Sync, Ahead, Even
      <3>6. m.seq = outSeq[p] /\ m.seq = seqn[p] /\ m.board = board[p]
        BY <1>1, <3>3, <3>4, <3>5 DEF Ahead
      <3> QED BY <1>2, <2>1, <3>5, <3>6 DEF Ahead, Even, Latest, SameAt
    <2> QED BY <2>2, <2>3, <2>4
  <1>8. life'[n] >= life[n]
    BY <1>3 DEF TypeInv, TypeOK, BornTypes
  <1> QED BY <1>4, <1>5, <1>6, <1>7, <1>8, OneDevice

\* An acknowledgement clears the pending move only when it is of that move.
LEMMA AckInv ==
  ASSUME IInv, TypeInv', NEW n \in Device, NEW m, HearAck(n, m)
  PROVE  IInv'
  <1> USE DEF IInv
  <1>1. FromPeer(n, m, "Ack") /\ state[n] = "Playing" /\ m.seq \in Nat /\ After(n, m) \subseteq net
        /\ outSeq[n] \in Nat
    BY Heard DEF HearAck, FromPeer, TypeInv, TypeOK, PlayTypes
  <1>2. /\ state' = state /\ life' = life /\ toss' = toss /\ peer' = peer
        /\ peerLife' = peerLife /\ isHost' = isHost /\ UNCHANGED playVars /\ myTurn' = myTurn
        /\ net' = After(n, m) /\ outPending' = [outPending EXCEPT ![n] = @ /\ ~Acks(n, m)]
    BY DEF HearAck, bornVars, seatVars
  <1>3. /\ seqn' = seqn /\ outgoing' = outgoing /\ outSeq' = outSeq /\ board' = board
        /\ incoming' = incoming /\ inPending' = inPending
    BY <1>2 DEF playVars
  <1>4. outPending'[n] => outPending[n]
    BY <1>2 DEF TypeInv, TypeOK, EndTypes
  <1>5. m.seq < outSeq[n] /\ outPending[n] => outPending'[n]
    BY <1>1, <1>2 DEF Acks, TypeInv, TypeOK, EndTypes
  <1>6. \A p \in Device \ {n} : SameAt(p)
    BY <1>2, <1>3 DEF SameAt, TypeInv, TypeOK, EndTypes
  <1>7. PacketInv'
    <2>1. \A k \in net' : Sound(k) /\ Timely(k)
      BY <1>1, <1>2 DEF PacketInv
    <2> QED BY <1>2, <1>3, <2>1 DEF PacketInv, Sound, Timely
  <1>8. Self(n)'
    <2>1. Self(n)
      OBVIOUS
    <2> QED BY <1>2, <1>3, <1>4, <2>1 DEF Self
  <1>9. ASSUME NEW p \in Device \ {n}
        PROVE  /\ Role(n, p)' /\ Role(p, n)' /\ Alone(n, p)' /\ Alone(p, n)'
               /\ Sync(n, p)'
    <2>1. Role(n, p) /\ Role(p, n) /\ Sync(n, p) /\ SameAt(p)
      BY <1>6 DEF PairInv
    <2>2. Role(n, p)' /\ Role(p, n)'
      BY <1>2, <2>1 DEF Role, Holds
    <2>3. Alone(n, p)' /\ Alone(p, n)'
      BY <1>1, <1>2, FromHeld DEF Alone, Holds
    <2>4. Sync(n, p)'
      <3>1. SUFFICES ASSUME Matched(n, p)
                     PROVE  (Ahead(n, p) \/ Ahead(p, n) \/ Even(n, p) \/ Even(p, n))'
        BY <1>2 DEF Sync, Matched
      <3>2. p = peer[n] /\ Holds(n, peer[n]) /\ state[peer[n]] = "Playing"
        BY <3>1 DEF Matched, Holds
      <3>3. m.seq =< seqn[p] /\ seqn[p] \in Nat
        BY <1>1, <3>2, FromHeld DEF TypeInv, TypeOK, PlayTypes
      <3>4. CASE Ahead(n, p)
        <4>1. outPending'[n]
          BY <1>1, <1>5, <3>3, <3>4 DEF Ahead
        <4> QED BY <1>2, <1>3, <2>1, <3>4, <4>1 DEF Ahead
      <3>5. CASE Ahead(p, n) \/ Even(n, p) \/ Even(p, n)
        BY <1>2, <1>3, <2>1, <3>5 DEF Ahead, Even, Latest, SameAt
      <3> QED BY <2>1, <3>1, <3>4, <3>5 DEF Sync
    <2> QED BY <2>2, <2>3, <2>4
  <1>10. life'[n] >= life[n]
    BY <1>2 DEF TypeInv, TypeOK, BornTypes
  <1> QED BY <1>6, <1>7, <1>8, <1>9, <1>10, OneDevice

\* submit(): from in step to one move ahead.
LEMMA SubmitInv ==
  ASSUME IInv, TypeInv', NEW n \in Device, Submit(n)
  PROVE  IInv'
  <1> USE DEF IInv
  <1> DEFINE moved == Append(board[n], n)
  <1> DEFINE pkt == Pkt(n, peer[n], "State", seqn[n] + 1, moved)
  <1>1. /\ state[n] = "Playing" /\ myTurn[n] /\ ~inPending[n] /\ peer[n] \in Device \ {n}
        /\ seqn[n] \in Nat /\ outSeq[n] \in Nat /\ life[n] \in Nat
    BY DEF Submit, MaySubmit, TypeInv, TypeOK, PeerInv, PlayTypes, BornTypes
  <1>2. /\ board'[n] = moved /\ outgoing'[n] = moved /\ seqn'[n] = seqn[n] + 1
        /\ outSeq'[n] = seqn[n] + 1 /\ outPending'[n] /\ ~myTurn'[n]
    BY DEF Submit, TypeInv, TypeOK, EndTypes, PlayTypes
  <1>3. /\ state' = state /\ life' = life /\ toss' = toss /\ peer' = peer
        /\ peerLife' = peerLife /\ isHost' = isHost /\ incoming' = incoming
        /\ inPending' = inPending /\ net' = net \cup Sent({pkt})
    BY DEF Submit, bornVars, seatVars
  <1>4. \A p \in Device \ {n} : SameAt(p)
    BY <1>3 DEF Submit, SameAt, TypeInv, TypeOK, EndTypes, PlayTypes
  <1>5. Self(n) /\ outSeq[n] =< seqn[n]
    BY <1>1 DEF Self
  <1>6. PacketInv'
    <2> SUFFICES ASSUME NEW k \in net' PROVE Sound(k)' /\ Timely(k)'
      BY DEF PacketInv
    <2>1. k.from \in Device /\ k.to \in Device /\ k.from # k.to /\ k.seq \in Nat
      BY DEF TypeInv, TypeOK, NetTypes, Packet
    <2>2. CASE k \in net
      <3>1. Sound(k) /\ Timely(k)
        BY <2>2 DEF PacketInv
      <3>2. ASSUME k.from = n PROVE Sound(k)'
        <4>1. /\ k.seq =< seqn[n] => k.seq =< seqn'[n]
              /\ k.seq =< outSeq[n] => k.seq =< outSeq'[n] /\ k.seq # outSeq'[n]
          BY <1>1, <1>2, <1>5, <2>1
        <4> QED BY <1>3, <3>1, <3>2, <4>1 DEF Sound
      <3>3. ASSUME k.from # n PROVE Sound(k)'
        BY <1>3, <1>4, <2>1, <3>1, <3>3 DEF Sound, SameAt
      <3>4. Timely(k)'
        BY <1>3, <3>1 DEF Timely
      <3> QED BY <3>2, <3>3, <3>4
    <2>3. CASE k \notin net
      <3>1. k = pkt
        BY <1>3, <2>3 DEF Sent
      <3>2. /\ k.from = n /\ k.to = peer[n] /\ k.type = "State" /\ k.life = life[n]
            /\ k.toss = toss[n] /\ k.phase = 1 /\ k.seq = seqn[n] + 1 /\ k.board = moved
        BY <1>1, <3>1 DEF Pkt, Made
      <3>3. Sound(k)'
        BY <1>1, <1>2, <1>3, <3>2 DEF Sound
      <3>4. Timely(k)'
        <4>1. Self(peer[n])
          BY <1>1
        <4> QED BY SMTT(30), <1>1, <1>3, <3>2, <4>1 DEF Timely, Self
      <3> QED BY <3>3, <3>4
    <2> QED BY <2>2, <2>3
  <1>7. Self(n)'
    BY <1>1, <1>2, <1>3, <1>5 DEF Self
  <1>8. ASSUME NEW p \in Device \ {n}
        PROVE  /\ Role(n, p)' /\ Role(p, n)' /\ Alone(n, p)' /\ Alone(p, n)'
               /\ Sync(n, p)'
    <2>1. Role(n, p) /\ Role(p, n) /\ Alone(n, p) /\ Sync(n, p) /\ SameAt(p)
      BY <1>4 DEF PairInv
    <2>2. Role(n, p)' /\ Role(p, n)'
      BY <1>3, <2>1 DEF Role, Holds
    <2>3. Alone(p, n)'
      BY <1>1, <1>3 DEF Alone
    <2>4. Alone(n, p)'
      <3>1. SUFFICES ASSUME Holds(n, p), state[p] = "Searching" PROVE Opening(n)'
        BY <1>3 DEF Alone, Holds
      <3>2. seqn[n] = 0 /\ isHost[n] /\ board[n] = <<>>
        BY <1>1, <2>1, <3>1 DEF Alone, Opening
      <3>3. moved = <<n>>
        BY <3>2
      <3> QED BY <1>1, <1>2, <1>3, <3>2, <3>3 DEF Opening
    <2>5. Sync(n, p)'
      <3>1. SUFFICES ASSUME Matched(n, p) PROVE Ahead(n, p)'
        BY <1>3 DEF Sync, Matched
      <3>2. Even(n, p) /\ board[n] = board[p]
        BY <1>1, <2>1, <3>1 DEF Sync, Ahead, Even, Latest
      <3> QED BY <1>1, <1>2, <1>3, <2>1, <3>2 DEF Ahead, Even, SameAt
    <2> QED BY <2>2, <2>3, <2>4, <2>5
  <1>9. life'[n] >= life[n]
    BY <1>1, <1>3
  <1> QED BY <1>4, <1>6, <1>7, <1>8, <1>9, OneDevice

\* takeIncoming(): the board becomes what the latest state already was.
LEMMA TakeInv ==
  ASSUME IInv, TypeInv', NEW n \in Device, TakeIncoming(n)
  PROVE  IInv'
  <1> USE DEF IInv
  <1>1. /\ state' = state /\ life' = life /\ toss' = toss /\ peer' = peer
        /\ peerLife' = peerLife /\ isHost' = isHost /\ myTurn' = myTurn /\ seqn' = seqn
        /\ outgoing' = outgoing /\ outSeq' = outSeq /\ outPending' = outPending
        /\ incoming' = incoming /\ net' = net
    BY DEF TakeIncoming, bornVars, seatVars, endVars
  <1>2. inPending[n] /\ ~inPending'[n] /\ board'[n] = incoming[n]
    BY DEF TakeIncoming, TypeInv, TypeOK, PlayTypes
  <1>3. \A p \in Device \ {n} : SameAt(p)
    BY <1>1 DEF TakeIncoming, SameAt, TypeInv, TypeOK, PlayTypes
  <1>4. PacketInv'
    BY <1>1 DEF PacketInv, Sound, Timely
  <1>5. Self(n) /\ Self(n)'
    BY <1>1, <1>2 DEF Self
  <1>6. ASSUME NEW p \in Device \ {n}
        PROVE  /\ Role(n, p)' /\ Role(p, n)' /\ Alone(n, p)' /\ Alone(p, n)'
               /\ Sync(n, p)'
    <2>1. /\ Role(n, p) /\ Role(p, n) /\ Alone(n, p) /\ Alone(p, n) /\ Sync(n, p)
          /\ SameAt(p)
      BY <1>3 DEF PairInv
    <2>2. Role(n, p)' /\ Role(p, n)'
      BY <1>1, <2>1 DEF Role, Holds
    <2>3. Alone(n, p)' /\ Alone(p, n)'
      BY <1>1, <1>2, <2>1 DEF Alone, Holds, Opening, SameAt
    <2>4. Sync(n, p)'
      <3>1. SUFFICES ASSUME Matched(n, p) PROVE Even(n, p)'
        BY <1>1 DEF Sync, Matched
      <3>2. Even(n, p)
        BY <1>2, <2>1, <3>1 DEF Sync, Ahead, Even
      <3> QED BY <1>1, <1>2, <2>1, <3>2 DEF Even, Latest, SameAt
    <2> QED BY <2>2, <2>3, <2>4
  <1>7. life'[n] >= life[n]
    BY <1>1 DEF TypeInv, TypeOK, BornTypes
  <1> QED BY <1>3, <1>4, <1>5, <1>6, <1>7, OneDevice

\* The other handlers and timers change nothing the invariant reads ...
LEMMA QuietHeard ==
  ASSUME IInv, TypeInv', UNCHANGED coreVars, net' \subseteq net
  PROVE  IInv'
  BY Quiet

\* ... and may send a packet about the device's present state.
LEMMA QuietSend ==
  ASSUME IInv, TypeInv', UNCHANGED coreVars,
         NEW n \in Device, state[n] \in Listening, NEW to \in Device, to # n,
         NEW type \in PacketType, NEW s \in Nat, NEW b \in Board,
         type \notin {"Hello", "Join"} => state[n] = "Playing",
         type = "Ack" => s =< seqn[n],
         type = "State" => s = outSeq[n] /\ b = outgoing[n],
         NEW old, old \subseteq net, net' = old \cup Sent({Pkt(n, to, type, s, b)})
  PROVE  IInv'
  <1>1. Sound(Pkt(n, to, type, s, b)) /\ Timely(Pkt(n, to, type, s, b))
    BY OwnPacket
  <1>2. \A m \in net' : m \in net \/ (Sound(m) /\ Timely(m))
    BY <1>1 DEF Sent
  <1> QED BY <1>2, Quiet

LEMMA TailInv ==
  ASSUME IInv, TypeInv', NEW n \in Device, TickTail(n)
  PROVE  IInv'
  <1> USE DEF coreVars, playVars, bornVars, seatVars, endVars
  <1>1. CASE Forget(n)
    BY <1>1, QuietHeard DEF Forget
  <1>2. CASE HelloAgain(n)
    <2>1. UNCHANGED coreVars /\ state[n] \in Listening /\ net' = net \cup Sent(HelloTo(n))
      BY <1>2 DEF HelloAgain, Sends, Listening
    <2>2. \A p \in Device \ {n} :
            Sound(Pkt(n, p, "Hello", 0, <<>>)) /\ Timely(Pkt(n, p, "Hello", 0, <<>>))
      BY <2>1, OwnPacket, NoBoard DEF PacketType
    <2>3. \A m \in net' : m \in net \/ (Sound(m) /\ Timely(m))
      BY <2>1, <2>2 DEF Sent, HelloTo
    <2> QED BY <2>1, <2>3, Quiet
  <1>3. CASE JoinAgain(n)
    <2>1. /\ UNCHANGED coreVars /\ state[n] \in Listening
          /\ net' = net \cup Sent({Pkt(n, candidate[n], "Join", 0, <<>>)})
      BY <1>3 DEF JoinAgain, Sends, Listening
    <2>2. candidate[n] \in Device /\ candidate[n] # n /\ "Join" \in PacketType
      BY <1>3 DEF JoinAgain, IInv, TypeInv, PeerInv, TypeOK, EndTypes, SomeOne, PacketType
    <2> QED BY <2>1, <2>2, QuietSend, NoBoard
  <1>4. CASE Silence(n)
    <2>1. state'[n] \notin Listening /\ life' = life /\ net' \subseteq net
      BY <1>4 DEF Silence, End, Deaf, Listening, IInv, TypeInv, TypeOK, EndTypes
    <2>2. \A p \in Device \ {n} : SameAt(p)
      BY <1>4 DEF Silence, End, SameAt, IInv, TypeInv, TypeOK, EndTypes
    <2> QED BY <2>1, <2>2, Gone DEF IInv, PacketInv
  <1>5. CASE SayAgain(n)
    <2>1. /\ UNCHANGED coreVars /\ state[n] = "Playing" /\ state[n] \in Listening
          /\ net' = net \cup Sent({Pkt(n, peer[n], "Say", saySeq[n], <<>>)})
      BY <1>5 DEF SayAgain, SayOf, Sends, Listening
    <2>2. peer[n] \in Device /\ peer[n] # n /\ "Say" \in PacketType /\ saySeq[n] \in Nat
      BY <2>1 DEF IInv, TypeInv, PeerInv, TypeOK, SayTypes, PacketType
    <2> QED BY <2>1, <2>2, QuietSend, NoBoard
  <1>6. CASE StateAgain(n)
    <2>1. /\ UNCHANGED coreVars /\ state[n] = "Playing" /\ state[n] \in Listening
          /\ net' = net \cup Sent({Pkt(n, peer[n], "State", outSeq[n], outgoing[n])})
      BY <1>6 DEF StateAgain, StateOf, Sends, Listening
    <2>2. /\ peer[n] \in Device /\ peer[n] # n /\ "State" \in PacketType
          /\ outSeq[n] \in Nat /\ outgoing[n] \in Board
      BY <2>1 DEF IInv, TypeInv, PeerInv, TypeOK, PlayTypes, PacketType
    <2> QED BY <2>1, <2>2, QuietSend
  <1>7. CASE Heartbeat(n)
    <2>1. /\ UNCHANGED coreVars /\ state[n] = "Playing" /\ state[n] \in Listening
          /\ net' = net \cup Sent({Pkt(n, peer[n], "Ack", seqn[n], <<>>)})
      BY <1>7 DEF Heartbeat, AckOf, Sends, Listening
    <2>2. /\ peer[n] \in Device /\ peer[n] # n /\ "Ack" \in PacketType /\ seqn[n] \in Nat
          /\ seqn[n] =< seqn[n]
      BY <2>1 DEF IInv, TypeInv, PeerInv, TypeOK, PlayTypes, PacketType
    <2> QED BY <2>1, <2>2, QuietSend, NoBoard
  <1> QED BY <1>1, <1>2, <1>3, <1>4, <1>5, <1>6, <1>7 DEF TickTail

LEMMA AppInv ==
  ASSUME IInv, TypeInv', NEW n \in Device, App(n)
  PROVE  IInv'
  <1> USE DEF coreVars, playVars, bornVars, seatVars, endVars
  <1>1. CASE Drop(n)
    <2>1. state'[n] \notin Listening /\ life' = life /\ net' \subseteq net
      BY <1>1 DEF Drop, Deaf, Listening, IInv, TypeInv, TypeOK, EndTypes
    <2>2. \A p \in Device \ {n} : SameAt(p)
      BY <1>1 DEF Drop, Cleared, NewGame, SameAt, IInv, TypeInv, TypeOK, EndTypes, BornTypes,
                  SeatTypes, PlayTypes
    <2> QED BY <2>1, <2>2, Gone DEF IInv, PacketInv
  <1>2. CASE Leave(n)
    <2>1. state'[n] \notin Listening /\ life' = life /\ state[n] \in Listening
      BY <1>2 DEF Leave, End, Listening, IInv, TypeInv, TypeOK, EndTypes
    <2>2. \A p \in Device \ {n} : SameAt(p)
      BY <1>2 DEF Leave, End, SameAt, IInv, TypeInv, TypeOK, EndTypes
    <2>3. state[n] = "Playing" => Sound(Pkt(n, peer[n], "Bye", seqn[n], <<>>))
                                  /\ Timely(Pkt(n, peer[n], "Bye", seqn[n], <<>>))
      <3>1. state[n] = "Playing" => peer[n] \in Device /\ peer[n] # n /\ seqn[n] \in Nat
                                    /\ "Bye" \in PacketType
        BY DEF IInv, TypeInv, PeerInv, TypeOK, PlayTypes, PacketType
      <3> QED BY <2>1, <3>1, OwnPacket, NoBoard
    <2>4. \A m \in net' : m \in net \/ (Sound(m) /\ Timely(m))
      BY <1>2, <2>3 DEF Leave, Deaf, Sent
    <2> QED BY <2>1, <2>2, <2>4, Gone
  <1>3. CASE Announce(n)
    <2>1. /\ UNCHANGED coreVars /\ state[n] = "Playing" /\ state[n] \in Listening
          /\ net' = net \cup Sent({Pkt(n, peer[n], "Say", saySeq[n] + 1, <<>>)})
      BY <1>3 DEF Announce, Listening
    <2>2. peer[n] \in Device /\ peer[n] # n /\ "Say" \in PacketType /\ saySeq[n] + 1 \in Nat
      BY <2>1 DEF IInv, TypeInv, PeerInv, TypeOK, SayTypes, PacketType
    <2> QED BY <2>1, <2>2, QuietSend, NoBoard
  <1>4. CASE TakeAnnouncement(n)
    BY <1>4, QuietHeard DEF TakeAnnouncement
  <1> QED BY <1>1, <1>2, <1>3, <1>4, BeginInv, SubmitInv, TakeInv DEF App

LEMMA ReceiveInv ==
  ASSUME IInv, TypeInv', NEW n \in Device, NEW m, Receive(n, m)
  PROVE  IInv'
  <1> USE DEF coreVars, playVars, bornVars, seatVars, endVars
  <1>1. Arrives(n, m) => After(n, m) \subseteq net /\ m.from \in SomeOne
    BY Heard DEF IInv, TypeInv, TypeOK, SomeOne
  <1>2. CASE HearSearcher(n, m) \/ Ignore(n, m)
    BY <1>1, <1>2, QuietHeard DEF HearSearcher, Ignore
  <1>3. CASE MatchOnJoin(n, m) \/ MatchOnTraffic(n, m)
    BY <1>1, <1>3, MatchInv DEF MatchOnJoin, MatchOnTraffic, IInv, TypeInv, TypeOK, SeatTypes
  <1>4. CASE HearJoin(n, m)
    <2>1. /\ UNCHANGED coreVars /\ state[n] = "Playing" /\ state[n] \in Listening
          /\ After(n, m) \subseteq net
      BY <1>1, <1>4 DEF HearJoin, FromPeer, Listening
    <2>2. peer[n] \in Device /\ peer[n] # n /\ "Join" \in PacketType
      BY <2>1 DEF IInv, TypeInv, PeerInv, TypeOK, PacketType
    <2>3. CASE net' = After(n, m) \cup Sent({Pkt(n, peer[n], "Join", 0, <<>>)})
      BY <2>1, <2>2, <2>3, QuietSend, NoBoard
    <2>4. CASE net' = After(n, m)
      BY <2>1, <2>4, QuietHeard
    <2> QED BY <1>4, <2>3, <2>4 DEF HearJoin
  <1>5. CASE HearState(n, m)
    <2>1. CASE Newer(n, m)
      BY <1>5, <2>1, AdoptInv
    <2>2. CASE ~Newer(n, m)
      <3>1. /\ UNCHANGED coreVars /\ state[n] = "Playing" /\ state[n] \in Listening
            /\ After(n, m) \subseteq net
            /\ net' = After(n, m) \cup Sent({Pkt(n, peer[n], "Ack", seqn[n], <<>>)})
        BY <1>1, <1>5, <2>2 DEF HearState, FromPeer, AckOf, Listening
      <3>2. /\ peer[n] \in Device /\ peer[n] # n /\ "Ack" \in PacketType /\ seqn[n] \in Nat
            /\ seqn[n] =< seqn[n]
        BY <3>1 DEF IInv, TypeInv, PeerInv, TypeOK, PlayTypes, PacketType
      <3> QED BY <3>1, <3>2, QuietSend, NoBoard
    <2> QED BY <2>1, <2>2
  <1>6. CASE HearSay(n, m)
    <2>1. /\ UNCHANGED coreVars /\ state[n] = "Playing" /\ state[n] \in Listening
          /\ After(n, m) \subseteq net
          /\ net' = After(n, m) \cup Sent({Pkt(n, peer[n], "SayAck", heardSeq'[n], <<>>)})
      BY <1>1, <1>6 DEF HearSay, FromPeer, SayAckOf, Listening
    <2>2. peer[n] \in Device /\ peer[n] # n /\ "SayAck" \in PacketType /\ heardSeq'[n] \in Nat
      BY <2>1 DEF IInv, TypeInv, PeerInv, TypeOK, SayTypes, PacketType
    <2> QED BY <2>1, <2>2, QuietSend, NoBoard
  <1>7. CASE HearSayAck(n, m) \/ HearEarlyHello(n, m)
    BY <1>1, <1>7, QuietHeard DEF HearSayAck, HearEarlyHello, FromPeer
  <1>8. CASE HearDeparture(n, m)
    <2>1. state'[n] \notin Listening /\ life' = life /\ net' \subseteq net
      BY <1>8 DEF HearDeparture, End, Deaf, Listening, IInv, TypeInv, TypeOK, EndTypes
    <2>2. \A p \in Device \ {n} : SameAt(p)
      BY <1>8 DEF HearDeparture, End, SameAt, IInv, TypeInv, TypeOK, EndTypes
    <2> QED BY <2>1, <2>2, Gone DEF IInv, PacketInv
  <1> QED BY <1>2, <1>3, <1>4, <1>5, <1>6, <1>7, <1>8, AckInv DEF Receive

LEMMA InductiveStep ==
  ASSUME IInv, [Next]_vars
  PROVE  IInv'
  <1> USE DEF coreVars, playVars, bornVars, seatVars, endVars
  <1>1. TypeInv'
    BY TypeStep DEF IInv
  <1>2. ASSUME NEW n \in Device, NEW t \in Tracked, Elapse(n, t)
        PROVE  IInv'
    BY <1>1, <1>2, QuietHeard DEF Elapse
  <1>3. ASSUME NEW m \in net, Lose(m)
        PROVE  IInv'
    BY <1>1, <1>3, QuietHeard DEF Lose
  <1>4. CASE UNCHANGED vars
    BY <1>1, <1>4, QuietHeard DEF vars
  <1> QED BY <1>1, <1>2, <1>3, <1>4, AppInv, TailInv, ReceiveInv DEF Next

LEMMA InductiveStart == Init => IInv
  <1> SUFFICES ASSUME Init PROVE IInv
    OBVIOUS
  <1>1. TypeInv
    BY TypeStart
  <1>2. PacketInv /\ \A n \in Device : Self(n)
    BY DEF Init, PacketInv, Self
  <1>3. PairInv
    BY DEF Init, PairInv, Role, Alone, Sync, Holds, Matched
  <1> QED BY <1>1, <1>2, <1>3 DEF IInv

\* The inductive invariant holds of every behaviour of the session.
THEOREM Inductive == Spec => []IInv
  BY InductiveStart, InductiveStep, PTL DEF Spec

------------------------------------------------------------------------------
(* What it implies. *)

\* "Two writers can never race": never both devices of a match hold the turn.
THEOREM OneTurn == Spec => []TurnExclusive
  <1>1. IInv => TurnExclusive
    BY DEF IInv, PairInv, Sync, Ahead, Even, TurnExclusive
  <1> QED BY <1>1, Inductive, PTL

\* The turn is never lost: somebody holds it, or a move that hands it over is
\* still being resent.
THEOREM TurnKept == Spec => []TurnNeverLost
  <1>1. IInv => TurnNeverLost
    BY DEF IInv, PairInv, Sync, Ahead, Even, TurnNeverLost
  <1> QED BY <1>1, Inductive, PTL

\* "The two devices cannot disagree": the boards of a match are equal, or one
\* move apart.
THEOREM Agreement == Spec => []BoardsAgree
  <1>1. IInv => BoardsAgree
    BY DEF IInv, PairInv, Sync, Ahead, Even, Latest, BoardsAgree
  <1> QED BY <1>1, Inductive, PTL

\* The two devices of a match compute opposite roles.
THEOREM OneHost == Spec => []OppositeHosts
  <1>1. ASSUME IInv, NEW n \in Device, NEW p \in Device, Matched(n, p)
        PROVE  isHost[n] # isHost[p]
    <2>1. /\ isHost[n] <=> Elect(n, toss[n], p, toss[p])
          /\ isHost[p] <=> Elect(p, toss[p], n, toss[n])
      BY <1>1 DEF IInv, PairInv, Role, Holds, Matched, Listening
    <2>2. toss[n] \in Nat /\ toss[p] \in Nat /\ n \in Nat /\ p \in Nat /\ n # p
      BY <1>1 DEF IInv, TypeInv, TypeOK, BornTypes, Matched
    <2>3. isHost[n] <=> ~isHost[p]
      BY <2>1, <2>2 DEF Elect
    <2> QED BY <2>3
  <1>2. IInv => OppositeHosts
    BY <1>1 DEF OppositeHosts
  <1> QED BY <1>2, Inductive, PTL

\* A move that is no longer resent has been adopted by the other device.
THEOREM NoMoveDropped == Spec => []AckedMoveArrived
  <1>1. ASSUME IInv, NEW n \in Device, NEW p \in Device, Matched(n, p), ~outPending[n]
        PROVE  seqn[p] >= outSeq[n]
    <2>1. Self(n) /\ Sync(n, p) /\ outSeq[n] =< seqn[n]
      BY <1>1 DEF IInv, PairInv, Self, Matched
    <2>2. seqn[n] \in Nat /\ seqn[p] \in Nat /\ outSeq[n] \in Nat
      BY <1>1 DEF IInv, TypeInv, TypeOK, PlayTypes
    <2>3. seqn[p] >= seqn[n]
      BY <1>1, <2>1, <2>2 DEF Sync, Ahead, Even
    <2> QED BY <2>1, <2>2, <2>3
  <1>2. IInv => AckedMoveArrived
    BY <1>1 DEF AckedMoveArrived
  <1> QED BY <1>2, Inductive, PTL

=============================================================================
