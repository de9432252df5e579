---------------------------- MODULE LinkSession ----------------------------
(***************************************************************************)
(* linkplay::Session (src/apps_local/link/LinkSession.cpp): discovery, the *)
(* match, its alternating moves, its side notes and its end, on any number *)
(* of devices that share one lossy radio channel.                          *)
(*                                                                         *)
(* One action is one packet handled by handlePacket(), one branch of the   *)
(* timed tail of tick(), or one call of the application.  A tick() that    *)
(* drains k packets and then fires j timers is k + j steps of its device;  *)
(* letting the application's calls fall between them only adds the ticks   *)
(* that stopped there because nothing more was due.                        *)
(*                                                                         *)
(* A payload is the whole shared game (LinkSession.h, decision 1): here    *)
(* the sequence of the movers so far, so that a move lost or forked shows  *)
(* up as a different payload.                                              *)
(*                                                                         *)
(* A few operators are used by no action (ReflectedHello, AnyIsNewer,      *)
(* SubmitUndrained, ...): each is a wrong reading of the one defined after *)
(* it, kept to check that the properties would tell the two apart.         *)
(***************************************************************************)
EXTENDS Naturals, Sequences, FiniteSets

CONSTANTS
  Device,    \* radio addresses: compared by operator<, so numbers
  Toss,      \* the coin tosses begin() may roll
  MaxLives,  \* bound: how many times each device may begin()
  Leavers,   \* the devices whose user may leave, or whose power may fail
  MaxMoves,  \* bound: the largest value of the 16-bit move counter
  MaxNotes,  \* bound: the largest value of the 16-bit note counter of each device
  Sticky,    \* TRUE: a packet may be heard again and again, FALSE: once
  Ordered,   \* TRUE: what a device sent while it searched is not heard after what it sends in a match
  Steady,    \* TRUE: a device that keeps sending is heard within seconds
  Tracked    \* the timers whose expiry is tracked; others may fire any time

Timer == {"hello", "join", "forget", "silence", "say", "state", "heartbeat"}

ASSUME DeviceAssumption == Device \subseteq Nat \ {0} /\ IsFiniteSet(Device) /\ Leavers \subseteq Device
ASSUME TossAssumption == Toss \subseteq Nat
ASSUME BoundAssumption == MaxLives \in [Device -> Nat] /\ MaxMoves \in Nat
                          /\ MaxNotes \in [Device -> Nat]
ASSUME AirAssumption == {Sticky, Ordered, Steady} \subseteq BOOLEAN
ASSUME TimerAssumption == Tracked \subseteq Timer

Nobody == 0                   \* hasCandidate_ = false, or no peer yet
SomeOne == Device \cup {Nobody}
Board == Seq(Device)

PacketType == {"Hello", "Join", "State", "Ack", "Say", "SayAck", "Bye"}

\* What crosses the air.  from and to are the radio's; life and phase are not
\* on the wire: they record which begin() of the sender, and which side of its
\* match, the packet comes from.
Packet == [type : PacketType, from : Device, to : Device, seq : Nat, toss : Nat,
           board : Board, life : Nat, phase : {0, 1}]

VARIABLES
  state,        \* Idle, Searching, Playing or Ended
  reason,       \* endReason_
  life,         \* history: how often this device called begin()
  toss,         \* toss_
  candidate,    \* candidate_, Nobody when hasCandidate_ is false
  peerName,     \* whose name peerName_ holds
  peer,         \* peer_
  peerLife,     \* history: the life of the packet that sealed the match
  isHost, myTurn, confirmed,
  seqn,         \* sequence_
  outgoing, outSeq, outPending,
  incoming, inPending,
  board,        \* the application's copy of the game
  saySeq, sayPending,
  heardSeq,     \* peerSaySequence_, which is also the note waiting
  heardPending,
  due,          \* the tracked timers found expired at the next tick
  net           \* the packets on the air and in the receive queues

playVars == <<seqn, outgoing, outSeq, incoming, inPending, board>>
sayVars  == <<saySeq, sayPending, heardSeq, heardPending>>
bornVars == <<life, toss>>
seatVars == <<peer, peerLife, isHost, peerName>>
endVars  == <<state, reason, myTurn, outPending, candidate>>
vars == <<playVars, sayVars, bornVars, seatVars, endVars, confirmed, due, net>>

------------------------------------------------------------------------------
(* Timers.  nowMs_ - lastX_ >= kX is "X has been due since lastX_ was set". *)

Fires(n, t) == t \in Tracked => t \in due[n]
Waits(n, t) == t \in Tracked => t \notin due[n]
Reset(n, S) == due' = [due EXCEPT ![n] = @ \ S]

(* Packets.  Every transmit() moves lastSentMs_, the heartbeat's clock. *)

Made(n, to, type, s, b, t, l, ph) ==
  [type |-> type, from |-> n, to |-> to, seq |-> s, toss |-> t, board |-> b, life |-> l, phase |-> ph]
Pkt(n, to, type, s, b) ==
  Made(n, to, type, s, b, toss[n], life[n], IF state[n] = "Playing" THEN 1 ELSE 0)

AckOf(n, s)   == Pkt(n, peer[n], "Ack", s, <<>>)
StateOf(n)    == Pkt(n, peer[n], "State", outSeq[n], outgoing[n])
SayOf(n)      == Pkt(n, peer[n], "Say", saySeq[n], <<>>)
SayAckOf(n, s) == Pkt(n, peer[n], "SayAck", s, <<>>)
ReflectedHello(n) == {Pkt(n, p, "Hello", 0, <<>>) : p \in Device}
HelloTo(n)    == {Pkt(n, p, "Hello", 0, <<>>) : p \in Device \ {n}}

\* Nobody reads the packets of a device whose session is not open: the radio is
\* off, or its ring is emptied before the next begin().
Listening == {"Searching", "Playing"}
Sent(pkts) == {m \in pkts : state[m.to] \in Listening}
Deaf(n, pkts) == {m \in pkts : m.to # n}

\* What is assumed of the radio, and is written in no code: packets of an
\* earlier life of a device are never heard after one of a later life (seconds
\* lie between), nor, on an Ordered air, those of its search after those of its
\* match.  Otherwise the air may reorder at will.
Older(k, m) == k.life < m.life \/ (Ordered /\ k.life = m.life /\ k.phase < m.phase)
Arrives(n, m) == m \in net /\ m.to = n
After(n, m) ==
  {k \in net : ~(/\ k.to = n
                 /\ k.from = m.from
                 /\ Older(k, m) \/ (~Sticky /\ k = m))}

\* p has stopped addressing n: it neither searches nor plays n.
Absent(n, p) == ~(state[p] = "Searching" \/ (state[p] = "Playing" /\ peer[p] = n))

------------------------------------------------------------------------------
(* begin(), reset() and leave(). *)

\* reset(): everything but the state, the toss and the clocks.
Cleared(n) ==
  /\ reason' = [reason EXCEPT ![n] = "None"]
  /\ candidate' = [candidate EXCEPT ![n] = Nobody]
  /\ peerName' = [peerName EXCEPT ![n] = Nobody]
  /\ peer' = [peer EXCEPT ![n] = Nobody] /\ peerLife' = [peerLife EXCEPT ![n] = 0]
  /\ isHost' = [isHost EXCEPT ![n] = FALSE] /\ myTurn' = [myTurn EXCEPT ![n] = FALSE]
  /\ confirmed' = [confirmed EXCEPT ![n] = FALSE]

\* The counters and buffers that reset() and matchWith() both clear, with the
\* board the application sets up afresh when it is told of the match.
NewGame(n) ==
  /\ seqn' = [seqn EXCEPT ![n] = 0] /\ board' = [board EXCEPT ![n] = <<>>]
  /\ outgoing' = [outgoing EXCEPT ![n] = <<>>] /\ outSeq' = [outSeq EXCEPT ![n] = 0]
  /\ outPending' = [outPending EXCEPT ![n] = FALSE]
  /\ incoming' = [incoming EXCEPT ![n] = <<>>] /\ inPending' = [inPending EXCEPT ![n] = FALSE]
  /\ saySeq' = [saySeq EXCEPT ![n] = 0] /\ sayPending' = [sayPending EXCEPT ![n] = FALSE]
  /\ heardSeq' = [heardSeq EXCEPT ![n] = 0] /\ heardPending' = [heardPending EXCEPT ![n] = FALSE]

\* begin()
Begin(n) ==
  /\ state[n] \in {"Idle", "Ended"}
  /\ life[n] < MaxLives[n]
  /\ Cleared(n) /\ NewGame(n)
  /\ state' = [state EXCEPT ![n] = "Searching"]
  /\ life' = [life EXCEPT ![n] = @ + 1]
  /\ Reset(n, Timer)
  /\ \E t \in Toss :
       /\ toss' = [toss EXCEPT ![n] = t]
       /\ net' = net \cup Sent({Made(n, p, "Hello", 0, <<>>, t, life[n] + 1, 0) : p \in Device \ {n}})

\* reset(): "drops everything without telling anyone".  A device that loses
\* power does the same.
Drop(n) ==
  /\ n \in Leavers
  /\ state[n] # "Idle"
  /\ Cleared(n) /\ NewGame(n)
  /\ state' = [state EXCEPT ![n] = "Idle"]
  /\ toss' = [toss EXCEPT ![n] = 0]
  /\ Reset(n, Timer)
  /\ net' = Deaf(n, net)
  /\ UNCHANGED life

\* end()
End(n, why) ==
  /\ state' = [state EXCEPT ![n] = "Ended"]
  /\ reason' = [reason EXCEPT ![n] = why]
  /\ myTurn' = [myTurn EXCEPT ![n] = FALSE]
  /\ outPending' = [outPending EXCEPT ![n] = FALSE]
  /\ candidate' = [candidate EXCEPT ![n] = Nobody]

\* leave(): the three copies of the Bye are one packet on this air.
Leave(n) ==
  /\ n \in Leavers
  /\ state[n] \in {"Searching", "Playing"}
  /\ End(n, "LocalLeft")
  /\ net' = Deaf(n, net \cup (IF state[n] = "Playing"
                              THEN Sent({Pkt(n, peer[n], "Bye", seqn[n], <<>>)}) ELSE {}))
  /\ UNCHANGED <<playVars, sayVars, bornVars, seatVars, confirmed, due>>

------------------------------------------------------------------------------
(* handlePacket() while Searching. *)

NewestSearcher(n, m) == TRUE
Better(n, m) == candidate[n] = Nobody \/ m.from < candidate[n]
Chosen(n, m) == IF Better(n, m) THEN m.from ELSE candidate[n]

\* A Hello, or a Join from a device that is not our choice.
HearSearcher(n, m) ==
  /\ Arrives(n, m) /\ state[n] = "Searching"
  /\ m.type = "Hello" \/ (m.type = "Join" /\ Chosen(n, m) # m.from)
  /\ candidate' = [candidate EXCEPT ![n] = Chosen(n, m)]
  /\ peerName' = [peerName EXCEPT ![n] = IF Better(n, m) THEN m.from ELSE @]
  /\ Reset(n, IF Chosen(n, m) = m.from THEN {"forget"} ELSE {})
  /\ net' = After(n, m)
  /\ UNCHANGED <<playVars, sayVars, bornVars, peer, peerLife, isHost, state, reason,
                 myTurn, outPending, confirmed>>

\* Lower toss moves first; the address only breaks a tie.
TieIsMine(n, mine, p, its) == mine =< its
Elect(n, mine, p, its) == mine < its \/ (mine = its /\ n < p)

\* matchWith()
MatchWith(n, m, name) ==
  LET host == Elect(n, toss[n], m.from, m.toss) IN
  /\ state' = [state EXCEPT ![n] = "Playing"]
  /\ peer' = [peer EXCEPT ![n] = m.from]
  /\ peerLife' = [peerLife EXCEPT ![n] = m.life]
  /\ peerName' = [peerName EXCEPT ![n] = name]
  /\ isHost' = [isHost EXCEPT ![n] = host]
  /\ myTurn' = [myTurn EXCEPT ![n] = host]
  /\ confirmed' = [confirmed EXCEPT ![n] = FALSE]
  /\ candidate' = [candidate EXCEPT ![n] = Nobody]
  /\ NewGame(n)
  /\ Reset(n, {"silence", "heartbeat"})
  /\ net' = After(n, m) \cup Sent({Made(n, m.from, "Ack", 0, <<>>, toss[n], life[n], 1)})
  /\ UNCHANGED <<bornVars, reason>>

\* A Join from the device we picked: they picked us too.
MatchOnJoin(n, m) ==
  /\ Arrives(n, m) /\ state[n] = "Searching"
  /\ m.type = "Join" /\ Chosen(n, m) = m.from
  /\ MatchWith(n, m, m.from)

\* What only a matched device sends: accept whoever it is.  It carries no name.
NoSilentPartner(m) == m.type \in {"State", "Say", "SayAck"}
OnlyMatched(m) == m.type \in {"Ack", "State", "Say", "SayAck"}

MatchOnChosenTraffic(n, m) ==
  /\ Arrives(n, m) /\ state[n] = "Searching"
  /\ OnlyMatched(m) /\ m.from = candidate[n]
  /\ MatchWith(n, m, peerName[n])
MatchOnTraffic(n, m) ==
  /\ Arrives(n, m) /\ state[n] = "Searching"
  /\ OnlyMatched(m)
  /\ MatchWith(n, m, peerName[n])

\* A Bye heard while searching, and anybody but the peer while playing.
Ignore(n, m) ==
  /\ Arrives(n, m)
  /\ \/ state[n] = "Searching" /\ m.type = "Bye"
     \/ state[n] = "Playing" /\ m.from # peer[n]
  /\ net' = After(n, m)
  /\ UNCHANGED <<playVars, sayVars, bornVars, seatVars, endVars, confirmed, due>>

------------------------------------------------------------------------------
(* handlePacket() while Playing, from the peer: lastHeardMs_ = nowMs_. *)

FromPeer(n, m, type) ==
  /\ Arrives(n, m)
  /\ state[n] = "Playing"
  /\ m.from = peer[n]
  /\ m.type = type

\* peerConfirmed_: the peer is known to be in the match too.
Confirms(m) == m.type \in {"Ack", "State", "Say", "SayAck"}
Confirm(n, m) == confirmed' = [confirmed EXCEPT ![n] = @ \/ Confirms(m)]

HearJoin(n, m) ==
  /\ FromPeer(n, m, "Join")
  /\ Confirm(n, m)
  /\ \/ /\ ~confirmed[n] /\ Fires(n, "join")
        /\ net' = After(n, m) \cup Sent({Pkt(n, peer[n], "Join", 0, <<>>)})
        /\ Reset(n, {"silence", "join", "heartbeat"})
     \/ /\ confirmed[n] \/ Waits(n, "join")
        /\ net' = After(n, m)
        /\ Reset(n, {"silence"})
  /\ UNCHANGED <<playVars, sayVars, bornVars, seatVars, endVars>>

\* A newer state is adopted; every copy is acknowledged.
AnyIsNewer(n, m) == TRUE
Newer(n, m) == m.seq > seqn[n]

HearState(n, m) ==
  /\ FromPeer(n, m, "State")
  /\ IF Newer(n, m)
     THEN /\ incoming' = [incoming EXCEPT ![n] = m.board]
          /\ inPending' = [inPending EXCEPT ![n] = TRUE]
          /\ seqn' = [seqn EXCEPT ![n] = m.seq]
          /\ myTurn' = [myTurn EXCEPT ![n] = TRUE]
          /\ outPending' = [outPending EXCEPT ![n] = FALSE]
     ELSE UNCHANGED <<incoming, inPending, seqn, myTurn, outPending>>
  /\ Confirm(n, m)
  /\ net' = After(n, m) \cup Sent({AckOf(n, seqn'[n])})
  /\ Reset(n, {"silence", "heartbeat"})
  /\ UNCHANGED <<outgoing, outSeq, board, sayVars, bornVars, seatVars, state, reason, candidate>>

AnyAcks(n, m) == TRUE
LaterAcks(n, m) == m.seq > outSeq[n]
Acks(n, m) == m.seq >= outSeq[n]

HearAck(n, m) ==
  /\ FromPeer(n, m, "Ack")
  /\ outPending' = [outPending EXCEPT ![n] = @ /\ ~Acks(n, m)]
  /\ Confirm(n, m)
  /\ net' = After(n, m)
  /\ Reset(n, {"silence"})
  /\ UNCHANGED <<playVars, sayVars, bornVars, seatVars, state, reason, myTurn, candidate>>

\* The newest note replaces one the application has not taken yet.
NewerNote(n, m) == m.seq > heardSeq[n]

HearSay(n, m) ==
  /\ FromPeer(n, m, "Say")
  /\ IF NewerNote(n, m)
     THEN /\ heardSeq' = [heardSeq EXCEPT ![n] = m.seq]
          /\ heardPending' = [heardPending EXCEPT ![n] = TRUE]
     ELSE UNCHANGED <<heardSeq, heardPending>>
  /\ Confirm(n, m)
  /\ net' = After(n, m) \cup Sent({SayAckOf(n, heardSeq'[n])})
  /\ Reset(n, {"silence", "heartbeat"})
  /\ UNCHANGED <<playVars, saySeq, sayPending, bornVars, seatVars, endVars>>

AnyAcksNote(n, m) == TRUE
AcksNote(n, m) == m.seq >= saySeq[n]

HearSayAck(n, m) ==
  /\ FromPeer(n, m, "SayAck")
  /\ sayPending' = [sayPending EXCEPT ![n] = @ /\ ~AcksNote(n, m)]
  /\ Confirm(n, m)
  /\ net' = After(n, m)
  /\ Reset(n, {"silence"})
  /\ UNCHANGED <<playVars, saySeq, heardSeq, heardPending, bornVars, seatVars, endVars>>

\* A Bye, or a Hello from a peer known to have been in the match; its Hello
\* while the handshake is still open proves nothing.
AnyHelloLeaves(n, m) == m.type \in {"Bye", "Hello"}
ProvesLeft(n, m) == m.type = "Bye" \/ (m.type = "Hello" /\ confirmed[n])

HearDeparture(n, m) ==
  /\ \E t \in {"Bye", "Hello"} : FromPeer(n, m, t)
  /\ ProvesLeft(n, m)
  /\ End(n, "PeerLeft")
  /\ net' = Deaf(n, net)
  /\ Reset(n, {"silence"})
  /\ UNCHANGED <<playVars, sayVars, bornVars, seatVars, confirmed>>

HearEarlyHello(n, m) ==
  /\ FromPeer(n, m, "Hello") /\ ~ProvesLeft(n, m)
  /\ net' = After(n, m)
  /\ Reset(n, {"silence"})
  /\ UNCHANGED <<playVars, sayVars, bornVars, seatVars, endVars, confirmed>>

Receive(n, m) ==
  \/ HearSearcher(n, m) \/ MatchOnJoin(n, m) \/ MatchOnTraffic(n, m) \/ Ignore(n, m)
  \/ HearJoin(n, m) \/ HearState(n, m) \/ HearAck(n, m) \/ HearSay(n, m)
  \/ HearSayAck(n, m) \/ HearDeparture(n, m) \/ HearEarlyHello(n, m)

------------------------------------------------------------------------------
(* The timed tail of tick(). *)

Forget(n) ==
  /\ state[n] = "Searching" /\ candidate[n] # Nobody
  /\ Fires(n, "forget")
  /\ Steady => Absent(n, candidate[n])
  /\ candidate' = [candidate EXCEPT ![n] = Nobody]
  /\ UNCHANGED <<playVars, sayVars, bornVars, seatVars, state, reason, myTurn, outPending,
                 confirmed, due, net>>

\* A step that only puts packets on the air and moves clocks.
Sends(n, pkts, clocks) ==
  /\ net' = net \cup Sent(pkts)
  /\ Reset(n, clocks \cup {"heartbeat"})
  /\ UNCHANGED <<playVars, sayVars, bornVars, seatVars, endVars, confirmed>>

HelloAgain(n) ==
  /\ state[n] = "Searching" /\ Fires(n, "hello")
  /\ Sends(n, HelloTo(n), {"hello"})

JoinAgain(n) ==
  /\ state[n] = "Searching" /\ candidate[n] # Nobody
  /\ Fires(n, "join")
  /\ Sends(n, {Pkt(n, candidate[n], "Join", 0, <<>>)}, {"join"})

Silence(n) ==
  /\ state[n] = "Playing" /\ Fires(n, "silence")
  /\ Steady => Absent(n, peer[n])
  /\ End(n, "PeerLost")
  /\ net' = Deaf(n, net)
  /\ UNCHANGED <<playVars, sayVars, bornVars, seatVars, confirmed, due>>

SayAgain(n) ==
  /\ state[n] = "Playing" /\ sayPending[n] /\ Fires(n, "say")
  /\ Sends(n, {SayOf(n)}, {"say"})

StateAgain(n) ==
  /\ state[n] = "Playing" /\ outPending[n] /\ Fires(n, "state")
  /\ Sends(n, {StateOf(n)}, {"state"})

\* The else branch: only when no state retry was due.
Heartbeat(n) ==
  /\ state[n] = "Playing" /\ Fires(n, "heartbeat")
  /\ outPending[n] => Waits(n, "state")
  /\ Sends(n, {AckOf(n, seqn[n])}, {})

------------------------------------------------------------------------------
(* The application's calls. *)

SubmitUndrained(n) == state[n] = "Playing" /\ myTurn[n]
MaySubmit(n) == state[n] = "Playing" /\ myTurn[n] /\ ~inPending[n]

Submit(n) ==
  /\ MaySubmit(n)
  /\ seqn[n] < MaxMoves
  /\ LET moved == Append(board[n], n) IN
     /\ board' = [board EXCEPT ![n] = moved]
     /\ outgoing' = [outgoing EXCEPT ![n] = moved]
     /\ seqn' = [seqn EXCEPT ![n] = @ + 1]
     /\ outSeq' = [outSeq EXCEPT ![n] = seqn[n] + 1]
     /\ net' = net \cup Sent({Pkt(n, peer[n], "State", seqn[n] + 1, moved)})
  /\ outPending' = [outPending EXCEPT ![n] = TRUE]
  /\ myTurn' = [myTurn EXCEPT ![n] = FALSE]
  /\ Reset(n, {"state", "heartbeat"})
  /\ UNCHANGED <<incoming, inPending, sayVars, bornVars, seatVars, state, reason, candidate, confirmed>>

TakeIncoming(n) ==
  /\ inPending[n]
  /\ board' = [board EXCEPT ![n] = incoming[n]]
  /\ inPending' = [inPending EXCEPT ![n] = FALSE]
  /\ UNCHANGED <<seqn, outgoing, outSeq, incoming, sayVars, bornVars, seatVars, endVars,
                 confirmed, due, net>>

Announce(n) ==
  /\ state[n] = "Playing" /\ saySeq[n] < MaxNotes[n]
  /\ saySeq' = [saySeq EXCEPT ![n] = @ + 1]
  /\ sayPending' = [sayPending EXCEPT ![n] = TRUE]
  /\ net' = net \cup Sent({Pkt(n, peer[n], "Say", saySeq[n] + 1, <<>>)})
  /\ Reset(n, {"say", "heartbeat"})
  /\ UNCHANGED <<playVars, heardSeq, heardPending, bornVars, seatVars, endVars, confirmed>>

TakeAnnouncement(n) ==
  /\ heardPending[n]
  /\ heardPending' = [heardPending EXCEPT ![n] = FALSE]
  /\ UNCHANGED <<playVars, saySeq, sayPending, heardSeq, bornVars, seatVars,
                 endVars, confirmed, due, net>>

------------------------------------------------------------------------------
(* The surroundings: time passes, the air loses packets. *)

\* The states in which anything reads a clock.
Read(n, t) ==
  \/ state[n] = "Searching" /\ t \in {"hello", "join", "forget"}
  \/ state[n] = "Playing" /\ t \in {"join", "silence", "heartbeat"}
  \/ sayPending[n] /\ t = "say"
  \/ outPending[n] /\ t = "state"

Elapse(n, t) ==
  /\ Read(n, t)
  /\ t \notin due[n]
  /\ due' = [due EXCEPT ![n] = @ \cup {t}]
  /\ UNCHANGED <<playVars, sayVars, bornVars, seatVars, endVars, confirmed, net>>

Lose(m) ==
  /\ ~Sticky
  /\ net' = net \ {m}
  /\ UNCHANGED <<playVars, sayVars, bornVars, seatVars, endVars, confirmed, due>>

Init ==
  /\ state = [n \in Device |-> "Idle"] /\ reason = [n \in Device |-> "None"]
  /\ life = [n \in Device |-> 0] /\ toss = [n \in Device |-> 0]
  /\ candidate = [n \in Device |-> Nobody] /\ peerName = [n \in Device |-> Nobody]
  /\ peer = [n \in Device |-> Nobody] /\ peerLife = [n \in Device |-> 0]
  /\ isHost = [n \in Device |-> FALSE] /\ myTurn = [n \in Device |-> FALSE]
  /\ confirmed = [n \in Device |-> FALSE]
  /\ seqn = [n \in Device |-> 0] /\ board = [n \in Device |-> <<>>]
  /\ outgoing = [n \in Device |-> <<>>] /\ outSeq = [n \in Device |-> 0]
  /\ outPending = [n \in Device |-> FALSE]
  /\ incoming = [n \in Device |-> <<>>] /\ inPending = [n \in Device |-> FALSE]
  /\ saySeq = [n \in Device |-> 0] /\ sayPending = [n \in Device |-> FALSE]
  /\ heardSeq = [n \in Device |-> 0] /\ heardPending = [n \in Device |-> FALSE]
  /\ due = [n \in Device |-> {}] /\ net = {}

TickTail(n) ==
  \/ Forget(n) \/ HelloAgain(n) \/ JoinAgain(n) \/ Silence(n)
  \/ SayAgain(n) \/ StateAgain(n) \/ Heartbeat(n)

App(n) ==
  \/ Begin(n) \/ Drop(n) \/ Leave(n)
  \/ Submit(n) \/ TakeIncoming(n) \/ Announce(n) \/ TakeAnnouncement(n)

Next ==
  \/ \E n \in Device : App(n) \/ TickTail(n) \/ (\E m \in net : Receive(n, m))
  \/ \E n \in Device, t \in Tracked : Elapse(n, t)
  \/ \E m \in net : Lose(m)

Spec == Init /\ [][Next]_vars

=============================================================================
