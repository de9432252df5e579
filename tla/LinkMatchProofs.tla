--------------------------- MODULE LinkMatchProofs ---------------------------
(***************************************************************************)
(* What goes on beside the game of a match of linkplay::Session: what      *)
(* announce() sends is not dropped, and a device that is said to have left *)
(* has left.  For any set of devices, any bounds and any behaviour of the  *)
(* air that LinkSession allows, but for the order that the second of the   *)
(* two is stated under.                                                    *)
(***************************************************************************)
EXTENDS LinkSessionProofs

\* A device acknowledges no note it has not heard in its present life.
AckSound(m) ==
  (m.type = "SayAck" /\ m.life = life[m.from] /\ state[m.from] = "Playing")
    => m.seq =< heardSeq[m.from]

\* A note no longer resent has been heard by the other device of the match ...
NoteHeard(n, p) == (Matched(n, p) /\ ~sayPending[n]) => heardSeq[p] >= saySeq[n]

\* ... and until there is such a device, every note is still resent.
NoteKept(n, p) == (Holds(n, p) /\ state[p] = "Searching" /\ ~sayPending[n]) => saySeq[n] = 0

NoteInv ==
  /\ \A m \in net : AckSound(m)
  /\ \A n, p \in Device : NoteHeard(n, p) /\ NoteKept(n, p)

noteVars == <<state, life, peer, peerLife, saySeq, sayPending, heardSeq>>

\* What the invariant reads of device p, all of it unchanged by a step.
NotesAt(p) ==
  /\ state'[p] = state[p] /\ life'[p] = life[p] /\ peer'[p] = peer[p]
  /\ peerLife'[p] = peerLife[p] /\ saySeq'[p] = saySeq[p]
  /\ sayPending'[p] = sayPending[p] /\ heardSeq'[p] = heardSeq[p]

------------------------------------------------------------------------------
(* Steps that have nothing to do with notes. *)

LEMMA NotesStill ==
  ASSUME NoteInv, UNCHANGED noteVars, \A m \in net' : m \in net \/ AckSound(m)
  PROVE  NoteInv'
  <1>1. (\A m \in net : AckSound(m))'
    BY DEF NoteInv, AckSound, noteVars
  <1>2. (\A n, p \in Device : NoteHeard(n, p) /\ NoteKept(n, p))'
    BY DEF NoteInv, NoteHeard, NoteKept, Matched, Holds, noteVars
  <1> QED BY <1>1, <1>2 DEF NoteInv

\* Anything but an acknowledgement of a note.
LEMMA OtherPacket ==
  ASSUME NEW n, NEW to, NEW type, type # "SayAck", NEW s, NEW b
  PROVE  AckSound(Pkt(n, to, type, s, b))
  BY DEF AckSound, Pkt, Made

\* A device that stops listening.
LEMMA NotesGone ==
  ASSUME IInv, IInv', NoteInv, NEW n \in Device, state'[n] \notin Listening, life' = life,
         \A p \in Device \ {n} : NotesAt(p), \A m \in net' : m \in net \/ AckSound(m)
  PROVE  NoteInv'
  <1>1. ASSUME NEW m \in net' PROVE AckSound(m)'
    <2>1. m.from \in Device /\ AckSound(m)
      BY DEF IInv, TypeInv, TypeOK, NetTypes, Packet, NoteInv
    <2> QED BY <2>1 DEF AckSound, NotesAt, Listening
  <1>2. ASSUME NEW p \in Device, NEW q \in Device PROVE NoteHeard(p, q)' /\ NoteKept(p, q)'
    <2>1. NoteHeard(p, q) /\ NoteKept(p, q)
      BY DEF NoteInv
    <2>2. CASE p = n \/ q = n
      BY <2>2 DEF NoteHeard, NoteKept, Matched, Holds, Listening
    <2>3. CASE p # n /\ q # n
      BY <2>1, <2>3 DEF NoteHeard, NoteKept, Matched, Holds, NotesAt
    <2> QED BY <2>2, <2>3
  <1> QED BY <1>1, <1>2 DEF NoteInv

LEMMA TailNotes ==
  ASSUME IInv, IInv', NoteInv, NEW n \in Device, TickTail(n)
  PROVE  NoteInv'
  <1> USE DEF noteVars, playVars, sayVars, bornVars, seatVars, endVars
  <1>1. CASE Forget(n)
    BY <1>1, NotesStill DEF Forget
  <1>2. CASE HelloAgain(n)
    <2>1. \A m \in HelloTo(n) : AckSound(m)
      BY OtherPacket DEF HelloTo
    <2> QED BY <1>2, <2>1, NotesStill DEF HelloAgain, Sends, Sent
  <1>3. CASE JoinAgain(n)
    BY <1>3, NotesStill, OtherPacket DEF JoinAgain, Sends, Sent
  <1>4. CASE Silence(n)
    <2>1. state'[n] \notin Listening /\ life' = life /\ \A p \in Device \ {n} : NotesAt(p)
      BY <1>4 DEF Silence, End, Listening, NotesAt, IInv, TypeInv, TypeOK, EndTypes
    <2> QED BY <1>4, <2>1, NotesGone DEF Silence, Deaf
  <1>5. CASE SayAgain(n)
    BY <1>5, NotesStill, OtherPacket DEF SayAgain, Sends, Sent, SayOf
  <1>6. CASE StateAgain(n)
    BY <1>6, NotesStill, OtherPacket DEF StateAgain, Sends, Sent, StateOf
  <1>7. CASE Heartbeat(n)
    BY <1>7, NotesStill, OtherPacket DEF Heartbeat, Sends, Sent, AckOf
  <1> QED BY <1>1, <1>2, <1>3, <1>4, <1>5, <1>6, <1>7 DEF TickTail

------------------------------------------------------------------------------
(* The calls of the application. *)

LEMMA BeginNotes ==
  ASSUME IInv, IInv', NoteInv, NEW n \in Device, Begin(n)
  PROVE  NoteInv'
  <1>1. PICK t \in Toss :
          net' = net \cup Sent({Made(n, p, "Hello", 0, <<>>, t, life[n] + 1, 0) : p \in Device \ {n}})
    BY DEF Begin
  <1>2. state'[n] = "Searching" /\ life'[n] = life[n] + 1 /\ life[n] \in Nat
        /\ \A p \in Device \ {n} : NotesAt(p)
    BY DEF Begin, Cleared, NewGame, NotesAt, IInv, TypeInv, TypeOK, EndTypes, BornTypes,
           SeatTypes, SayTypes
  <1>3. ASSUME NEW m \in net' PROVE AckSound(m)'
    <2>1. m.from \in Device
      BY DEF IInv, TypeInv, TypeOK, NetTypes, Packet
    <2>2. CASE m \in net
      BY <1>2, <2>1, <2>2 DEF NoteInv, AckSound, NotesAt
    <2>3. CASE m \notin net
      BY <1>1, <2>3 DEF Sent, Made, AckSound
    <2> QED BY <2>2, <2>3
  <1>4. ASSUME NEW p \in Device, NEW q \in Device PROVE NoteHeard(p, q)' /\ NoteKept(p, q)'
    <2>1. NoteHeard(p, q) /\ NoteKept(p, q)
      BY DEF NoteInv
    <2>2. CASE p = n
      BY <1>2, <2>2 DEF NoteHeard, NoteKept, Matched, Holds
    <2>3. CASE q = n /\ p # n
      <3>1. state[p] = "Playing" /\ peer[p] = n => peerLife[p] =< life[n] /\ peerLife[p] \in Nat
        BY DEF IInv, Self, TypeInv, TypeOK, SeatTypes
      <3>2. ~Holds(p, n)'
        BY <1>2, <2>3, <3>1 DEF Holds, NotesAt
      <3> QED BY <2>3, <3>2 DEF NoteHeard, NoteKept, Matched, Holds
    <2>4. CASE p # n /\ q # n
      BY <1>2, <2>1, <2>4 DEF NoteHeard, NoteKept, Matched, Holds, NotesAt
    <2> QED BY <2>2, <2>3, <2>4
  <1> QED BY <1>3, <1>4 DEF NoteInv

\* announce(): the newest note replaces the one before and is resent until heard.
LEMMA AnnounceNotes ==
  ASSUME IInv, IInv', NoteInv, NEW n \in Device, Announce(n)
  PROVE  NoteInv'
  <1>1. /\ state' = state /\ life' = life /\ peer' = peer /\ peerLife' = peerLife
        /\ heardSeq' = heardSeq /\ sayPending'[n]
        /\ \A p \in Device \ {n} : NotesAt(p)
        /\ net' = net \cup Sent({Pkt(n, peer[n], "Say", saySeq[n] + 1, <<>>)})
    BY DEF Announce, NotesAt, endVars, bornVars, seatVars, IInv, TypeInv, TypeOK, SayTypes
  <1>2. ASSUME NEW m \in net' PROVE AckSound(m)'
    BY <1>1, OtherPacket DEF NoteInv, AckSound, Sent
  <1>3. ASSUME NEW p \in Device, NEW q \in Device PROVE NoteHeard(p, q)' /\ NoteKept(p, q)'
    BY <1>1 DEF NoteInv, NoteHeard, NoteKept, Matched, Holds, NotesAt
  <1> QED BY <1>2, <1>3 DEF NoteInv

LEMMA AppNotes ==
  ASSUME IInv, IInv', NoteInv, NEW n \in Device, App(n)
  PROVE  NoteInv'
  <1> USE DEF noteVars, playVars, sayVars, bornVars, seatVars, endVars
  <1>1. CASE Drop(n)
    <2>1. state'[n] \notin Listening /\ life' = life /\ \A p \in Device \ {n} : NotesAt(p)
      BY <1>1 DEF Drop, Cleared, NewGame, Listening, NotesAt, IInv, TypeInv, TypeOK, EndTypes,
                  SeatTypes, SayTypes
    <2> QED BY <1>1, <2>1, NotesGone DEF Drop, Deaf
  <1>2. CASE Leave(n)
    <2>1. state'[n] \notin Listening /\ life' = life /\ \A p \in Device \ {n} : NotesAt(p)
      BY <1>2 DEF Leave, End, Listening, NotesAt, IInv, TypeInv, TypeOK, EndTypes
    <2>2. \A m \in net' : m \in net \/ AckSound(m)
      BY <1>2, OtherPacket DEF Leave, Deaf, Sent
    <2> QED BY <2>1, <2>2, NotesGone
  <1>3. CASE Submit(n)
    BY <1>3, NotesStill, OtherPacket DEF Submit, Sent
  <1>4. CASE TakeIncoming(n) \/ TakeAnnouncement(n)
    BY <1>4, NotesStill DEF TakeIncoming, TakeAnnouncement
  <1> QED BY <1>1, <1>2, <1>3, <1>4, BeginNotes, AnnounceNotes DEF App

------------------------------------------------------------------------------
(* The packets a device hears. *)

\* matchWith(): no note of the new match has been sent, heard or acknowledged.
LEMMA MatchNotes ==
  ASSUME IInv, IInv', NoteInv, NEW n \in Device, NEW m, Arrives(n, m), state[n] = "Searching",
         NEW name, MatchWith(n, m, name)
  PROVE  NoteInv'
  <1> DEFINE ack == Made(n, m.from, "Ack", 0, <<>>, toss[n], life[n], 1)
  <1>1. /\ state'[n] = "Playing" /\ life' = life /\ saySeq'[n] = 0 /\ heardSeq'[n] = 0
        /\ \A p \in Device \ {n} : NotesAt(p)
    BY DEF MatchWith, NewGame, NotesAt, bornVars, IInv, TypeInv, TypeOK, EndTypes, SeatTypes,
           SayTypes
  <1>2. After(n, m) \subseteq net /\ net' = After(n, m) \cup Sent({ack})
    BY DEF MatchWith, After
  <1>3. ASSUME NEW k \in net' PROVE AckSound(k)'
    <2>1. k.from \in Device
      BY DEF IInv, TypeInv, TypeOK, NetTypes, Packet
    <2>2. CASE k = ack
      BY <2>2 DEF Made, AckSound
    <2>3. CASE k \in net /\ k.from # n
      BY <1>1, <2>1, <2>3 DEF NoteInv, AckSound, NotesAt
    <2>4. CASE k \in net /\ k.from = n
      <3>1. Sound(k)
        BY <2>4 DEF IInv, PacketInv
      <3> QED BY <1>1, <2>4, <3>1 DEF Sound, AckSound
    <2> QED BY <1>2, <2>2, <2>3, <2>4 DEF Sent
  <1>4. ASSUME NEW p \in Device, NEW q \in Device PROVE NoteHeard(p, q)' /\ NoteKept(p, q)'
    <2>1. NoteHeard(p, q) /\ NoteKept(p, q)
      BY DEF NoteInv
    <2>2. heardSeq'[q] \in Nat
      BY DEF IInv, TypeInv, TypeOK, SayTypes
    <2>3. CASE p = n
      BY <1>1, <2>2, <2>3 DEF NoteHeard, NoteKept
    <2>4. CASE q = n /\ p # n
      BY <1>1, <2>1, <2>2, <2>4 DEF NoteHeard, NoteKept, Matched, Holds, NotesAt
    <2>5. CASE p # n /\ q # n
      BY <1>1, <2>1, <2>5 DEF NoteHeard, NoteKept, Matched, Holds, NotesAt
    <2> QED BY <2>3, <2>4, <2>5
  <1> QED BY <1>3, <1>4 DEF NoteInv

\* A note is heard: the counter only grows, and is what is acknowledged.
LEMMA HearSayNotes ==
  ASSUME IInv, IInv', NoteInv, NEW n \in Device, NEW m, HearSay(n, m)
  PROVE  NoteInv'
  <1>1. m.seq \in Nat /\ heardSeq[n] \in Nat /\ After(n, m) \subseteq net
    BY Heard DEF HearSay, FromPeer, IInv, TypeInv, TypeOK, SayTypes
  <1>2. /\ state' = state /\ life' = life /\ peer' = peer /\ peerLife' = peerLife
        /\ saySeq' = saySeq /\ sayPending' = sayPending
        /\ heardSeq'[n] >= heardSeq[n] /\ heardSeq'[n] \in Nat
        /\ \A p \in Device \ {n} : NotesAt(p)
        /\ net' = After(n, m) \cup Sent({SayAckOf(n, heardSeq'[n])})
    BY <1>1 DEF HearSay, NewerNote, NotesAt, endVars, bornVars, seatVars, IInv, TypeInv, TypeOK,
                SayTypes
  <1>3. ASSUME NEW k \in net' PROVE AckSound(k)'
    <2>1. k.from \in Device /\ k.seq \in Nat
      BY DEF IInv, TypeInv, TypeOK, NetTypes, Packet
    <2>2. CASE k = SayAckOf(n, heardSeq'[n])
      BY <1>2, <2>2 DEF SayAckOf, Pkt, Made, AckSound
    <2>3. CASE k \in net
      <3>1. AckSound(k)
        BY <2>3 DEF NoteInv
      <3>2. k.from # n => AckSound(k)'
        BY <1>2, <2>1, <3>1 DEF AckSound, NotesAt
      <3>3. k.from = n => AckSound(k)'
        BY <1>1, <1>2, <2>1, <3>1 DEF AckSound
      <3> QED BY <3>2, <3>3
    <2> QED BY <1>1, <1>2, <2>2, <2>3 DEF Sent
  <1>4. ASSUME NEW p \in Device, NEW q \in Device PROVE NoteHeard(p, q)' /\ NoteKept(p, q)'
    <2>1. NoteHeard(p, q) /\ NoteKept(p, q)
      BY DEF NoteInv
    <2>2. NoteKept(p, q)'
      BY <1>2, <2>1 DEF NoteKept, Holds
    <2>3. heardSeq'[q] >= heardSeq[q] /\ heardSeq[q] \in Nat /\ heardSeq'[q] \in Nat
          /\ saySeq[p] \in Nat
      BY <1>1, <1>2 DEF NotesAt, IInv, TypeInv, TypeOK, SayTypes
    <2>4. NoteHeard(p, q)'
      BY <1>2, <2>1, <2>3 DEF NoteHeard, Matched
    <2> QED BY <2>2, <2>4
  <1> QED BY <1>3, <1>4 DEF NoteInv

\* The note stops being resent only on an acknowledgement of it, from the
\* device of this match, in its present life.
LEMMA HearSayAckNotes ==
  ASSUME IInv, IInv', NoteInv, NEW n \in Device, NEW m, HearSayAck(n, m)
  PROVE  NoteInv'
  <1>1. /\ FromPeer(n, m, "SayAck") /\ m \in net /\ m.seq \in Nat /\ m.life \in Nat
        /\ m.from = peer[n] /\ m.type = "SayAck" /\ After(n, m) \subseteq net
    BY Heard DEF HearSayAck, FromPeer, Arrives, IInv, TypeInv, TypeOK
  <1>2. /\ state' = state /\ life' = life /\ peer' = peer /\ peerLife' = peerLife
        /\ saySeq' = saySeq /\ heardSeq' = heardSeq
        /\ \A p \in Device \ {n} : NotesAt(p)
        /\ sayPending[n] /\ ~sayPending'[n] => m.seq >= saySeq[n]
        /\ net' = After(n, m)
    BY DEF HearSayAck, AcksNote, NotesAt, endVars, bornVars, seatVars, IInv, TypeInv, TypeOK,
           SayTypes
  <1>3. ASSUME NEW k \in net' PROVE AckSound(k)'
    BY <1>1, <1>2 DEF NoteInv, AckSound
  <1>4. ASSUME NEW p \in Device, NEW q \in Device PROVE NoteHeard(p, q)' /\ NoteKept(p, q)'
    <2>1. NoteHeard(p, q) /\ NoteKept(p, q) /\ saySeq[p] \in Nat /\ heardSeq[q] \in Nat
      BY DEF NoteInv, IInv, TypeInv, TypeOK, SayTypes
    <2>2. CASE p # n \/ sayPending'[p] \/ ~sayPending[p]
      BY <1>2, <2>1, <2>2 DEF NoteHeard, NoteKept, Matched, Holds, NotesAt
    <2>3. CASE p = n /\ ~sayPending'[p] /\ sayPending[p]
      <3>1. NoteKept(p, q)'
        BY <1>1, <1>2, <2>3, FromHeld DEF NoteKept, Holds
      <3>2. SUFFICES ASSUME Matched(p, q) PROVE heardSeq[q] >= saySeq[p]
        BY <1>2, <3>1 DEF NoteHeard, Matched
      <3>3. Timely(m) /\ Sound(m) /\ AckSound(m)
        BY <1>1 DEF IInv, PacketInv, NoteInv
      <3>4. m.life = life[q] /\ state[q] = "Playing"
        BY <1>1, <2>3, <3>2, <3>3 DEF Timely, Sound, Matched, FromPeer, Arrives, IInv, TypeInv,
           TypeOK, BornTypes
      <3>5. m.seq =< heardSeq[q] /\ m.seq >= saySeq[p]
        BY <1>1, <1>2, <2>3, <3>2, <3>3, <3>4 DEF AckSound, Matched
      <3> QED BY <1>1, <2>1, <3>5
    <2> QED BY <2>2, <2>3
  <1> QED BY <1>3, <1>4 DEF NoteInv

LEMMA ReceiveNotes ==
  ASSUME IInv, IInv', NoteInv, NEW n \in Device, NEW m, Receive(n, m)
  PROVE  NoteInv'
  <1> USE DEF noteVars, playVars, sayVars, bornVars, seatVars, endVars
  <1>1. After(n, m) \subseteq net
    BY DEF After
  <1>2. CASE HearSearcher(n, m) \/ Ignore(n, m) \/ HearAck(n, m) \/ HearEarlyHello(n, m)
    BY <1>1, <1>2, NotesStill DEF HearSearcher, Ignore, HearAck, HearEarlyHello
  <1>3. CASE MatchOnJoin(n, m) \/ MatchOnTraffic(n, m)
    BY <1>3, MatchNotes DEF MatchOnJoin, MatchOnTraffic
  <1>4. CASE HearJoin(n, m)
    BY <1>1, <1>4, NotesStill, OtherPacket DEF HearJoin, Sent
  <1>5. CASE HearState(n, m)
    <2>1. UNCHANGED noteVars
      BY <1>5 DEF HearState
    <2>2. \A k \in net' : k \in net \/ AckSound(k)
      BY <1>1, <1>5, OtherPacket DEF HearState, Sent, AckOf
    <2> QED BY <2>1, <2>2, NotesStill
  <1>6. CASE HearDeparture(n, m)
    <2>1. state'[n] \notin Listening /\ life' = life /\ \A p \in Device \ {n} : NotesAt(p)
      BY <1>6 DEF HearDeparture, End, Listening, NotesAt, IInv, TypeInv, TypeOK, EndTypes
    <2> QED BY <1>6, <2>1, NotesGone DEF HearDeparture, Deaf
  <1> QED BY <1>2, <1>3, <1>4, <1>5, <1>6, HearSayNotes, HearSayAckNotes DEF Receive

------------------------------------------------------------------------------

LEMMA NoteStep ==
  ASSUME IInv, IInv', NoteInv, [Next]_vars
  PROVE  NoteInv'
  <1> USE DEF noteVars, playVars, sayVars, bornVars, seatVars, endVars
  <1>1. ASSUME NEW n \in Device, NEW t \in Tracked, Elapse(n, t) PROVE NoteInv'
    BY <1>1, NotesStill DEF Elapse
  <1>2. ASSUME NEW m \in net, Lose(m) PROVE NoteInv'
    BY <1>2, NotesStill DEF Lose
  <1>3. CASE UNCHANGED vars
    BY <1>3, NotesStill DEF vars
  <1> QED BY <1>1, <1>2, <1>3, AppNotes, TailNotes, ReceiveNotes DEF Next

LEMMA NoteStart == Init => NoteInv
  BY DEF Init, NoteInv, NoteHeard, NoteKept, Matched, Holds

\* A note that is no longer resent has reached the other device of the match:
\* no acknowledgement that is late, repeated, of an earlier note or of an
\* earlier life of the opponent ever stops the resending of a newer one.
THEOREM NoNoteDropped == Spec => []AckedNoteArrived
  <1>1. Spec => []NoteInv
    BY Inductive, NoteStart, NoteStep, PTL DEF Spec
  <1>2. NoteInv => AckedNoteArrived
    BY DEF NoteInv, NoteHeard, AckedNoteArrived
  <1> QED BY <1>1, <1>2, PTL

------------------------------------------------------------------------------
(* Who has left. *)

\* A Bye is the last packet of a life, and a Hello is never sent in a match.
LastWord(m) ==
  /\ m.type = "Hello" => m.phase = 0
  /\ (m.type = "Bye" /\ m.life = life[m.from]) => state[m.from] \notin Listening

\* Once p is known to be in the match, what it sent while it searched is spent.
KnownThere(n, p) ==
  (Holds(n, p) /\ confirmed[n]) =>
    /\ state[p] # "Searching"
    /\ \A m \in net : (m.to = n /\ m.from = p /\ m.life = life[p]) => m.phase = 1

\* p is not in the life, or not in the match, that n was in with it.
HasLeft(n, p) ==
  /\ peerLife[n] =< life[p]
  /\ life[p] = peerLife[n] => state[p] \notin Listening

LeftInv ==
  /\ \A m \in net : LastWord(m)
  /\ \A n, p \in Device : KnownThere(n, p)
  /\ \A n \in Device : (state[n] = "Ended" /\ reason[n] = "PeerLeft")
                          => peer[n] \in Device /\ HasLeft(n, peer[n])

\* A packet about the present life, as a device that listens makes it.
Present(m) ==
  /\ m.life = life[m.from]
  /\ state[m.from] # "Searching" => m.phase = 1
  /\ LastWord(m)

\* What the invariant reads of device p, all of it unchanged by a step.
PartAt(p) ==
  /\ state'[p] = state[p] /\ life'[p] = life[p] /\ peer'[p] = peer[p]
  /\ peerLife'[p] = peerLife[p] /\ reason'[p] = reason[p] /\ confirmed'[p] = confirmed[p]

leftVars == <<state, life, peer, peerLife, reason>>

\* A step that neither begins nor ends anything; it may confirm a match, if it
\* then does what KnownThere asks of that match.
LEMMA LeftStill ==
  ASSUME IInv, IInv', LeftInv, UNCHANGED leftVars,
         \A m \in net' : m \in net \/ Present(m),
         \A n \in Device : confirmed'[n] => confirmed[n] \/ \A p \in Device : KnownThere(n, p)'
  PROVE  LeftInv'
  <1>1. ASSUME NEW m \in net' PROVE LastWord(m)'
    BY DEF LeftInv, LastWord, Present, leftVars
  <1>2. ASSUME NEW n \in Device, NEW p \in Device PROVE KnownThere(n, p)'
    BY DEF LeftInv, KnownThere, Holds, Present, leftVars
  <1>3. (\A n \in Device : (state[n] = "Ended" /\ reason[n] = "PeerLeft")
                              => peer[n] \in Device /\ HasLeft(n, peer[n]))'
    BY DEF LeftInv, HasLeft, leftVars
  <1> QED BY <1>1, <1>2, <1>3 DEF LeftInv

LEMMA PresentPkt ==
  ASSUME NEW n \in Device, NEW to, NEW type, NEW s, NEW b, state[n] \in Listening,
         type # "Bye", type = "Hello" => state[n] = "Searching"
  PROVE  Present(Pkt(n, to, type, s, b))
  BY DEF Present, LastWord, Pkt, Made, Listening

\* A device that stops listening; if it is told that the other has left, the
\* other has.
LEMMA LeftGone ==
  ASSUME IInv, IInv', LeftInv, NEW n \in Device, state'[n] \notin Listening, life' = life,
         \A p \in Device \ {n} : PartAt(p),
         \A m \in net' : m \in net \/ (m.from = n /\ m.type # "Hello" /\ m.phase = 1),
         (state'[n] = "Ended" /\ reason'[n] = "PeerLeft")
            => peer'[n] \in Device \ {n} /\ HasLeft(n, peer[n]) /\ peer'[n] = peer[n]
                                  /\ peerLife'[n] = peerLife[n]
  PROVE  LeftInv'
  <1>1. ASSUME NEW m \in net' PROVE LastWord(m)'
    <2>1. m.from \in Device
      BY DEF IInv, TypeInv, TypeOK, NetTypes, Packet
    <2> QED BY <2>1 DEF LeftInv, LastWord, PartAt
  <1>2. ASSUME NEW p \in Device, NEW q \in Device PROVE KnownThere(p, q)'
    <2>1. KnownThere(p, q)
      BY DEF LeftInv
    <2>2. CASE p = n
      BY <2>2 DEF KnownThere, Holds, Listening
    <2>3. CASE p # n
      BY <2>1, <2>3 DEF KnownThere, Holds, PartAt, Listening
    <2> QED BY <2>2, <2>3
  <1>3. ASSUME NEW p \in Device, state'[p] = "Ended", reason'[p] = "PeerLeft"
        PROVE  peer'[p] \in Device /\ HasLeft(p, peer[p])'
    <2>1. CASE p = n
      BY <1>3, <2>1 DEF HasLeft, PartAt
    <2>2. CASE p # n
      <3>1. peer[p] \in Device /\ HasLeft(p, peer[p]) /\ PartAt(p)
        BY <1>3, <2>2 DEF LeftInv, PartAt
      <3> QED BY <3>1 DEF HasLeft, PartAt
    <2> QED BY <2>1, <2>2
  <1> QED BY <1>1, <1>2, <1>3 DEF LeftInv

\* begin(): a new life, of which no Bye and no confirmed match can be.
LEMMA BeginLeft ==
  ASSUME IInv, IInv', LeftInv, NEW n \in Device, Begin(n)
  PROVE  LeftInv'
  <1>1. PICK t \in Toss :
          net' = net \cup Sent({Made(n, p, "Hello", 0, <<>>, t, life[n] + 1, 0) : p \in Device \ {n}})
    BY DEF Begin
  <1>2. /\ state'[n] = "Searching" /\ life'[n] = life[n] + 1 /\ ~confirmed'[n]
        /\ \A p \in Device \ {n} : PartAt(p)
    BY DEF Begin, Cleared, PartAt, IInv, TypeInv, TypeOK, EndTypes, BornTypes, SeatTypes, TimeTypes
  <1>3. \A p \in Device : life[p] \in Nat /\ peerLife[p] \in Nat
    BY DEF IInv, TypeInv, TypeOK, BornTypes, SeatTypes
  <1>4. ASSUME NEW m \in net' PROVE LastWord(m)'
    <2>1. m.from \in Device /\ m.life \in Nat
      BY DEF IInv, TypeInv, TypeOK, NetTypes, Packet
    <2>2. CASE m \in net
      <3>1. LastWord(m) /\ m.life =< life[m.from]
        BY <2>2 DEF LeftInv, IInv, PacketInv, Sound
      <3> QED BY <1>2, <1>3, <2>1, <3>1 DEF LastWord, PartAt
    <2>3. CASE m \notin net
      BY <1>1, <2>3 DEF Sent, Made, LastWord
    <2> QED BY <2>2, <2>3
  <1>5. ASSUME NEW p \in Device, NEW q \in Device PROVE KnownThere(p, q)'
    <2>1. KnownThere(p, q)
      BY DEF LeftInv
    <2>2. CASE p = n
      BY <1>2, <2>2 DEF KnownThere
    <2>3. CASE p # n /\ q = n
      <3>1. state[p] = "Playing" /\ peer[p] = n => peerLife[p] =< life[n]
        BY DEF IInv, Self
      <3> QED BY <1>2, <1>3, <2>3, <3>1 DEF KnownThere, Holds, PartAt
    <2>4. CASE p # n /\ q # n
      BY <1>1, <1>2, <2>1, <2>4 DEF KnownThere, Holds, PartAt, Sent, Made
    <2> QED BY <2>2, <2>3, <2>4
  <1>6. ASSUME NEW p \in Device, state'[p] = "Ended", reason'[p] = "PeerLeft"
        PROVE  peer'[p] \in Device /\ HasLeft(p, peer[p])'
    <2>1. p # n
      BY <1>2, <1>6
    <2>2. peer[p] \in Device /\ HasLeft(p, peer[p]) /\ PartAt(p)
      BY <1>2, <1>6, <2>1 DEF LeftInv, PartAt
    <2>3. CASE peer[p] = n
      BY <1>2, <1>3, <2>2, <2>3 DEF HasLeft, PartAt
    <2>4. CASE peer[p] # n
      BY <1>2, <2>2, <2>4 DEF HasLeft, PartAt
    <2> QED BY <2>3, <2>4
  <1> QED BY <1>4, <1>5, <1>6 DEF LeftInv

\* matchWith(): the match is not confirmed yet.
LEMMA MatchLeft ==
  ASSUME IInv, IInv', LeftInv, NEW n \in Device, NEW m, Arrives(n, m), state[n] = "Searching",
         NEW name, MatchWith(n, m, name)
  PROVE  LeftInv'
  <1> DEFINE ack == Made(n, m.from, "Ack", 0, <<>>, toss[n], life[n], 1)
  <1>1. /\ state'[n] = "Playing" /\ life' = life /\ ~confirmed'[n]
        /\ \A p \in Device \ {n} : PartAt(p)
    BY DEF MatchWith, PartAt, bornVars, IInv, TypeInv, TypeOK, EndTypes, SeatTypes, TimeTypes
  <1>2. \A k \in net' : k \in net \/ k = ack
    BY DEF MatchWith, After, Sent
  <1>3. ASSUME NEW k \in net' PROVE LastWord(k)'
    <2>1. k.from \in Device
      BY DEF IInv, TypeInv, TypeOK, NetTypes, Packet
    <2>2. CASE k = ack
      BY <2>2 DEF Made, LastWord
    <2>3. CASE k \in net
      BY <1>1, <2>1, <2>3 DEF LeftInv, LastWord, PartAt, Listening
    <2> QED BY <1>2, <2>2, <2>3
  <1>4. ASSUME NEW p \in Device, NEW q \in Device PROVE KnownThere(p, q)'
    <2>1. CASE p = n
      BY <1>1, <2>1 DEF KnownThere
    <2>2. CASE p # n
      BY <1>1, <1>2, <2>2 DEF LeftInv, KnownThere, Holds, PartAt, Made
    <2> QED BY <2>1, <2>2
  <1>5. ASSUME NEW p \in Device, state'[p] = "Ended", reason'[p] = "PeerLeft"
        PROVE  peer'[p] \in Device /\ HasLeft(p, peer[p])'
    <2>1. p # n /\ PartAt(p)
      BY <1>1, <1>5
    <2>2. peer[p] \in Device /\ HasLeft(p, peer[p])
      BY <1>5, <2>1 DEF LeftInv, PartAt
    <2>3. state[n] \in Listening
      BY DEF Listening
    <2> QED BY <1>1, <2>1, <2>2, <2>3 DEF HasLeft, PartAt
  <1> QED BY <1>3, <1>4, <1>5 DEF LeftInv

\* Only a device in its match sends what confirms it, and on an ordered air
\* nothing it sent before is heard after that.
LEMMA Confirmation ==
  ASSUME Ordered, IInv, IInv', UNCHANGED leftVars, NEW n \in Device, NEW m, NEW type,
         FromPeer(n, m, type), Confirms(m), NEW p \in Device,
         NEW new, \A k \in new : k.from = n, net' = After(n, m) \cup Sent(new)
  PROVE  KnownThere(n, p)'
  <1>1. m \in net /\ m.to = n /\ m.from = peer[n] /\ state[n] = "Playing"
        /\ m.type \notin {"Hello", "Join"} /\ m.type = type
    BY DEF FromPeer, Arrives, Confirms
  <1>2. SUFFICES ASSUME Holds(n, p)
                 PROVE  /\ state[p] # "Searching"
                        /\ \A k \in net' : (k.to = n /\ k.from = p /\ k.life = life[p]) => k.phase = 1
    BY DEF KnownThere, Holds, leftVars
  <1>3. p = peer[n] /\ p # n
    BY <1>2 DEF Holds
  <1>4. state[p] # "Searching"
    BY <1>1, <1>2, <1>3, FromHeld
  <1>5. m.life = life[p] /\ m.phase = 1
    <2>1. Sound(m) /\ Timely(m) /\ m.life \in Nat /\ life[p] \in Nat
      BY <1>1 DEF IInv, PacketInv, TypeInv, TypeOK, NetTypes, Packet, BornTypes
    <2> QED BY <1>1, <1>2, <1>3, <2>1 DEF Sound, Timely, Holds
  <1>6. ASSUME NEW k \in net', k.to = n, k.from = p, k.life = life[p] PROVE k.phase = 1
    <2>1. k \in After(n, m)
      BY <1>3, <1>6 DEF Sent
    <2>2. k.phase \in {0, 1}
      BY DEF IInv, TypeInv, TypeOK, NetTypes, Packet
    <2> QED BY <1>1, <1>3, <1>5, <1>6, <2>1, <2>2 DEF After, Older
  <1> QED BY <1>4, <1>6

\* THEY LEFT: a Bye of the life we play, or a Hello, which a device that is in
\* our match never sends, and has not left on the air.
LEMMA DepartureLeft ==
  ASSUME IInv, IInv', LeftInv, NEW n \in Device, NEW m, HearDeparture(n, m)
  PROVE  LeftInv'
  <1> DEFINE p == peer[n]
  <1>1. /\ m \in net /\ m.to = n /\ m.from = p /\ state[n] = "Playing" /\ ProvesLeft(n, m)
        /\ m.type \in {"Bye", "Hello"}
    BY DEF HearDeparture, FromPeer, Arrives
  <1>2. /\ state'[n] = "Ended" /\ life' = life /\ peer' = peer /\ peerLife' = peerLife
        /\ net' \subseteq net /\ \A q \in Device \ {n} : PartAt(q)
    BY DEF HearDeparture, End, Deaf, PartAt, bornVars, seatVars, IInv, TypeInv, TypeOK, EndTypes
  <1>3. p \in Device \ {n} /\ m.life \in Nat /\ life[p] \in Nat /\ peerLife[n] \in Nat
    BY <1>1 DEF IInv, TypeInv, TypeOK, PeerInv, NetTypes, Packet, BornTypes, SeatTypes
  <1>4. Sound(m) /\ Timely(m) /\ LastWord(m) /\ KnownThere(n, p)
    BY <1>1, <1>3 DEF LeftInv, IInv, PacketInv
  <1>5. peerLife[n] =< m.life /\ m.life =< life[p]
    BY <1>1, <1>4 DEF Sound, Timely
  <1>6. life[p] = peerLife[n] => state[p] \notin Listening
    <2> SUFFICES ASSUME life[p] = peerLife[n] PROVE state[p] \notin Listening
      OBVIOUS
    <2>1. m.life = life[p] /\ Holds(n, p)
      BY <1>1, <1>3, <1>5 DEF Holds
    <2>2. CASE m.type = "Bye"
      BY <1>1, <1>4, <2>1, <2>2 DEF LastWord
    <2>3. CASE m.type = "Hello"
      BY <1>1, <1>4, <2>1, <2>3 DEF LastWord, KnownThere, ProvesLeft
    <2> QED BY <1>1, <2>2, <2>3
  <1>7. HasLeft(n, p)
    BY <1>3, <1>5, <1>6 DEF HasLeft
  <1> QED BY <1>2, <1>3, <1>7, LeftGone DEF Listening

LEMMA AppLeft ==
  ASSUME IInv, IInv', LeftInv, NEW n \in Device, App(n)
  PROVE  LeftInv'
  <1> USE DEF leftVars, playVars, sayVars, bornVars, seatVars, endVars
  <1>1. CASE Drop(n)
    <2>1. state'[n] = "Idle" /\ life' = life /\ net' \subseteq net /\ \A p \in Device \ {n} : PartAt(p)
      BY <1>1 DEF Drop, Cleared, Deaf, PartAt, IInv, TypeInv, TypeOK, EndTypes, SeatTypes, TimeTypes
    <2> QED BY <2>1, LeftGone DEF Listening
  <1>2. CASE Leave(n)
    <2>1. /\ state'[n] = "Ended" /\ reason'[n] = "LocalLeft" /\ life' = life
          /\ \A p \in Device \ {n} : PartAt(p)
      BY <1>2 DEF Leave, End, PartAt, IInv, TypeInv, TypeOK, EndTypes
    <2>2. \A m \in net' : m \in net \/ (m.from = n /\ m.type # "Hello" /\ m.phase = 1)
      BY <1>2 DEF Leave, Deaf, Sent, Pkt, Made
    <2> QED BY <2>1, <2>2, LeftGone DEF Listening
  <1>3. CASE Submit(n)
    BY SMTT(30), <1>3, LeftStill, PresentPkt DEF Submit, MaySubmit, Sent, Listening
  <1>4. CASE Announce(n)
    BY <1>4, LeftStill, PresentPkt DEF Announce, Sent, Listening
  <1>5. CASE TakeIncoming(n) \/ TakeAnnouncement(n)
    BY <1>5, LeftStill DEF TakeIncoming, TakeAnnouncement
  <1> QED BY <1>1, <1>2, <1>3, <1>4, <1>5, BeginLeft DEF App

LEMMA TailLeft ==
  ASSUME IInv, IInv', LeftInv, NEW n \in Device, TickTail(n)
  PROVE  LeftInv'
  <1> USE DEF leftVars, playVars, sayVars, bornVars, seatVars, endVars, Listening
  <1>1. CASE Forget(n)
    BY <1>1, LeftStill DEF Forget
  <1>2. CASE HelloAgain(n)
    <2>1. \A m \in HelloTo(n) : Present(m)
      BY <1>2, PresentPkt DEF HelloTo, HelloAgain
    <2> QED BY <1>2, <2>1, LeftStill DEF HelloAgain, Sends, Sent
  <1>3. CASE JoinAgain(n)
    BY <1>3, LeftStill, PresentPkt DEF JoinAgain, Sends, Sent
  <1>4. CASE Silence(n)
    <2>1. /\ state'[n] = "Ended" /\ reason'[n] = "PeerLost" /\ life' = life /\ net' \subseteq net
          /\ \A p \in Device \ {n} : PartAt(p)
      BY <1>4 DEF Silence, End, Deaf, PartAt, IInv, TypeInv, TypeOK, EndTypes
    <2> QED BY <2>1, LeftGone
  <1>5. CASE SayAgain(n)
    BY <1>5, LeftStill, PresentPkt DEF SayAgain, Sends, Sent, SayOf
  <1>6. CASE StateAgain(n)
    BY <1>6, LeftStill, PresentPkt DEF StateAgain, Sends, Sent, StateOf
  <1>7. CASE Heartbeat(n)
    BY <1>7, LeftStill, PresentPkt DEF Heartbeat, Sends, Sent, AckOf
  <1> QED BY <1>1, <1>2, <1>3, <1>4, <1>5, <1>6, <1>7 DEF TickTail

LEMMA ReceiveLeft ==
  ASSUME Ordered, IInv, IInv', LeftInv, NEW n \in Device, NEW m, Receive(n, m)
  PROVE  LeftInv'
  <1> USE DEF leftVars, playVars, sayVars, bornVars, seatVars, endVars
  <1>1. After(n, m) \subseteq net /\ confirmed \in [Device -> BOOLEAN]
    BY DEF After, IInv, TypeInv, TypeOK, TimeTypes
  <1>2. CASE HearSearcher(n, m) \/ Ignore(n, m) \/ HearEarlyHello(n, m)
    BY <1>1, <1>2, LeftStill DEF HearSearcher, Ignore, HearEarlyHello
  <1>3. CASE MatchOnJoin(n, m) \/ MatchOnTraffic(n, m)
    BY <1>3, MatchLeft DEF MatchOnJoin, MatchOnTraffic
  <1>4. CASE HearJoin(n, m)
    <2>1. UNCHANGED leftVars /\ ~Confirms(m) /\ state[n] \in Listening
      BY <1>4 DEF HearJoin, FromPeer, Confirms, Listening
    <2>2. \A p \in Device : confirmed'[p] => confirmed[p]
      BY <1>1, <1>4, <2>1 DEF HearJoin, Confirm
    <2>3. \A k \in net' : k \in net \/ Present(k)
      BY <1>1, <1>4, <2>1, PresentPkt DEF HearJoin, Sent
    <2> QED BY <2>1, <2>2, <2>3, LeftStill
  <1>5. ASSUME NEW type, FromPeer(n, m, type), Confirms(m), UNCHANGED leftVars, Confirm(n, m),
               NEW new, \A k \in new : k.from = n /\ Present(k), net' = After(n, m) \cup Sent(new)
        PROVE  LeftInv'
    <2>1. \A p \in Device : KnownThere(n, p)'
      BY <1>5, Confirmation
    <2>2. \A p \in Device \ {n} : confirmed'[p] => confirmed[p]
      BY <1>1, <1>5 DEF Confirm
    <2>3. \A k \in net' : k \in net \/ Present(k)
      BY <1>1, <1>5 DEF Sent
    <2> QED BY <1>5, <2>1, <2>2, <2>3, LeftStill
  <1>6. CASE HearState(n, m)
    <2>1. FromPeer(n, m, "State") /\ Confirms(m) /\ UNCHANGED leftVars /\ Confirm(n, m)
          /\ state[n] \in Listening
      BY <1>6 DEF HearState, FromPeer, Confirms, Listening
    <2>2. AckOf(n, seqn'[n]).from = n /\ Present(AckOf(n, seqn'[n]))
      BY <2>1, PresentPkt DEF AckOf, Pkt, Made
    <2>3. net' = After(n, m) \cup Sent({AckOf(n, seqn'[n])})
      BY <1>6 DEF HearState
    <2>4. \A k \in {AckOf(n, seqn'[n])} : k.from = n /\ Present(k)
      BY <2>2
    <2> QED BY <1>5, <2>1, <2>3, <2>4
  <1>7. CASE HearSay(n, m)
    <2>1. FromPeer(n, m, "Say") /\ Confirms(m) /\ UNCHANGED leftVars /\ Confirm(n, m)
          /\ state[n] \in Listening
      BY <1>7 DEF HearSay, FromPeer, Confirms, Listening
    <2>2. SayAckOf(n, heardSeq'[n]).from = n /\ Present(SayAckOf(n, heardSeq'[n]))
      BY <2>1, PresentPkt DEF SayAckOf, Pkt, Made
    <2>3. net' = After(n, m) \cup Sent({SayAckOf(n, heardSeq'[n])})
      BY <1>7 DEF HearSay
    <2>4. \A k \in {SayAckOf(n, heardSeq'[n])} : k.from = n /\ Present(k)
      BY <2>2
    <2> QED BY <1>5, <2>1, <2>3, <2>4
  <1>8. CASE HearAck(n, m) \/ HearSayAck(n, m)
    <2>1. PICK type \in {"Ack", "SayAck"} : FromPeer(n, m, type)
      BY <1>8 DEF HearAck, HearSayAck
    <2>2. Confirms(m) /\ UNCHANGED leftVars /\ Confirm(n, m)
      BY <1>8, <2>1 DEF HearAck, HearSayAck, FromPeer, Confirms
    <2>3. net' = After(n, m) \cup Sent({})
      BY <1>8 DEF HearAck, HearSayAck, Sent
    <2> QED BY <1>5, <2>1, <2>2, <2>3
  <1> QED BY <1>2, <1>3, <1>4, <1>6, <1>7, <1>8, DepartureLeft DEF Receive

LEMMA LeftStep ==
  ASSUME Ordered, IInv, IInv', LeftInv, [Next]_vars
  PROVE  LeftInv'
  <1> USE DEF leftVars, playVars, sayVars, bornVars, seatVars, endVars
  <1>1. ASSUME NEW n \in Device, NEW t \in Tracked, Elapse(n, t) PROVE LeftInv'
    BY <1>1, LeftStill DEF Elapse
  <1>2. ASSUME NEW m \in net, Lose(m) PROVE LeftInv'
    BY <1>2, LeftStill DEF Lose
  <1>3. CASE UNCHANGED vars
    BY <1>3, LeftStill DEF vars
  <1> QED BY <1>1, <1>2, <1>3, AppLeft, TailLeft, ReceiveLeft DEF Next

LEMMA LeftStart == Init => LeftInv
  BY DEF Init, LeftInv, KnownThere, Holds

\* THEY LEFT is only ever said of a device that has left the match, however its
\* packets were lost, repeated or delayed, as long as none it sent while it
\* searched arrives after one it sent in the match.
THEOREM LeftIsLeft ==
  ASSUME Ordered
  PROVE  Spec => []DepartureIsReal
  <1>1. Init => IInv /\ LeftInv
    BY InductiveStart, LeftStart
  <1>2. IInv /\ LeftInv /\ [Next]_vars => (IInv /\ LeftInv)'
    BY InductiveStep, LeftStep
  <1>3. IInv /\ LeftInv => DepartureIsReal
    BY DEF LeftInv, HasLeft, DepartureIsReal, Listening
  <1> QED BY <1>1, <1>2, <1>3, PTL DEF Spec

=============================================================================
