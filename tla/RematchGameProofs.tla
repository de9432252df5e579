-------------------------- MODULE RematchGameProofs --------------------------
(***************************************************************************)
(* Proofs about the game two devices play after the first: that it is one  *)
(* game, with two sides to it and a move for one of them, and that its     *)
(* result is counted once on each.                                         *)
(***************************************************************************)
EXTENDS RematchProofs

\* The games that come to both devices by each dealing the same board.
SameDeal == \A s \in Styles : s.opening = "both"

\* Those games between calm players: one answer to a question (Patient), and no
\* tap before what the last one sent has been heard and acted on (Swift).  No
\* code enforces either; see the theorems.
CalmMatch == SameDeal /\ Patient = TRUE /\ Swift = TRUE

------------------------------------------------------------------------------
(* What the operators do to the game.                                       *)

GameOf(d) == <<d.turn, d.seq, d.pending, d.board, d.seat, d.dealt>>

SeatOf(d) == IF GoesFirst(d) THEN 0 ELSE 1

LEMMA SameDealing ==
  ASSUME CalmMatch, style \in Styles
  PROVE  /\ \A d, first : Start(d, first) =
              DealSame([d EXCEPT !.seat = IF first THEN 0 ELSE 1, !.games = @ + 1, !.recorded = FALSE])
         /\ \A d : TakeState(d) =
              IF d.pending = NoBoard THEN d
              ELSE [d EXCEPT !.board = d.pending, !.pending = NoBoard, !.dealt = TRUE]
         /\ \A n, k, starter : Fresh(n, k, starter).deal = <<0, k>>
  <1>1. style.opening = "both"
    BY DEF CalmMatch, SameDeal
  <1>2. ASSUME NEW d, NEW first
        PROVE  Start(d, first) =
                 DealSame([d EXCEPT !.seat = IF first THEN 0 ELSE 1, !.games = @ + 1, !.recorded = FALSE])
    BY <1>1 DEF Start
  <1>3. ASSUME NEW d
        PROVE  TakeState(d) =
                 IF d.pending = NoBoard THEN d
                 ELSE [d EXCEPT !.board = d.pending, !.pending = NoBoard, !.dealt = TRUE]
    BY <1>1 DEF TakeState, NothingToDo
  <1>4. ASSUME NEW n, NEW k, NEW starter
        PROVE  Fresh(n, k, starter).deal = <<0, k>>
    BY <1>1 DEF Fresh
  <1> QED BY <1>2, <1>3, <1>4

LEMMA RematchGame ==
  ASSUME CalmMatch, style \in Styles, NEW d \in Machine
  PROVE  /\ GameOf(StartRematch(d))
              = <<d.turn, d.seq, d.pending, Fresh(d.me, d.games + 1, 0), SeatOf(d), TRUE>>
         /\ StartRematch(d).sent = d.sent
  <1> DEFINE c == [d EXCEPT !.stage = "Live", !.lastStage = "Live", !.asking = FALSE, !.you = "Deciding", !.them = "Deciding"]
             s == [c EXCEPT !.seat = IF GoesFirst(d) THEN 0 ELSE 1, !.games = @ + 1, !.recorded = FALSE]
  <1>1. StartRematch(d) = DealSame(s)
    BY Zenon, SameDealing DEF StartRematch
  <1>2. c \in Machine
    BY ZenonT(40) DEF Machine, Stage
  <1>3. /\ c.turn = d.turn /\ c.seq = d.seq /\ c.pending = d.pending /\ c.sent = d.sent
        /\ c.me = d.me /\ c.games = d.games
    BY DEF Machine
  <1> HIDE DEF c
  <1>4. /\ s.turn = d.turn /\ s.seq = d.seq /\ s.pending = d.pending /\ s.sent = d.sent
        /\ s.me = d.me /\ s.games = d.games + 1 /\ s.seat = SeatOf(d)
    BY <1>2, <1>3 DEF Machine, SeatOf
  <1>5. s \in Machine
    <2>1. (IF GoesFirst(d) THEN 0 ELSE 1) \in {0, 1} /\ c.games + 1 \in Nat
      BY <1>2 DEF Machine
    <2> QED BY ZenonT(40), <1>2, <2>1 DEF Machine
  <1> HIDE DEF s
  <1>6. GameOf(DealSame(s)) = <<s.turn, s.seq, s.pending, Fresh(s.me, s.games, 0), s.seat, TRUE>>
        /\ DealSame(s).sent = s.sent
    BY <1>5 DEF DealSame, GameOf, Machine
  <1> QED BY <1>1, <1>4, <1>6

LEMMA NoteGame ==
  ASSUME CalmMatch, style \in Styles, NEW d \in Machine
  PROVE  /\ HearNote(d).sent = d.sent
         /\ d.note = "again" /\ d.you = "Ready" =>
              GameOf(HearNote(d))
                = <<d.turn, d.seq, d.pending, Fresh(d.me, d.games + 1, 0), SeatOf(d), TRUE>>
         /\ ~(d.note = "again" /\ d.you = "Ready") => GameOf(HearNote(d)) = GameOf(d)
  <1> DEFINE told == [d EXCEPT !.note = "none", !.asking = TRUE]
             ready == [told EXCEPT !.them = "Ready"]
             left == [told EXCEPT !.them = "Left"]
             deciding == [told EXCEPT !.them = "Ready", !.you = "Deciding"]
  <1>1. ready \in Machine
    BY ZenonT(40) DEF Machine
  <1>2. GameOf(left) = GameOf(d) /\ GameOf(deciding) = GameOf(d)
    BY DEF GameOf
  <1>3. left.sent = d.sent /\ deciding.sent = d.sent
    BY DEF GameOf
  <1>4. /\ ready.turn = d.turn /\ ready.seq = d.seq /\ ready.pending = d.pending /\ ready.sent = d.sent
        /\ ready.me = d.me /\ ready.games = d.games /\ ready.session = d.session
    OBVIOUS
  <1>5. SeatOf(ready) = SeatOf(d)
    BY <1>4 DEF SeatOf, GoesFirst, TossAgain, WhoseTurn, YourTurn
  <1>6. d.note \in {"none", "again", "leaving"}
    BY DEF Machine
  <1> HIDE DEF told, ready, left, deciding
  <1>7. HearNote(d) = CASE d.note = "none" -> d
                        [] d.note = "leaving" -> left
                        [] d.note = "again" -> IF Agrees(d) THEN StartRematch(ready) ELSE deciding
    BY Zenon DEF HearNote, told, ready, left, deciding
  <1>8. /\ GameOf(StartRematch(ready))
             = <<d.turn, d.seq, d.pending, Fresh(d.me, d.games + 1, 0), SeatOf(d), TRUE>>
        /\ StartRematch(ready).sent = d.sent
    BY <1>1, <1>4, <1>5, RematchGame
  <1> QED BY <1>2, <1>3, <1>6, <1>7, <1>8 DEF Agrees

\* The pass takes the state that waits, and opens the question.
LEMMA DrivenGame ==
  ASSUME CalmMatch, style \in Styles, NEW d \in Machine, NEW expired \in BOOLEAN
  PROVE  LET h == HearNote(d)
             r == Driven(d, expired)
         IN /\ r.sent = h.sent /\ r.turn = h.turn /\ r.seq = h.seq /\ r.seat = h.seat
            /\ r.pending = NoBoard
            /\ r.board = IF h.pending = NoBoard THEN h.board ELSE h.pending
            /\ h.dealt => r.dealt
  <1> DEFINE h == HearNote(d)
             t == TakeState(h)
             c == EndgameUpdate(t, expired)
             f == Gone(Offer(c))
             r == Driven(d, expired)
  <1>1. h \in Machine
    BY HearNoteType
  <1>2. t = IF h.pending = NoBoard THEN h
            ELSE [h EXCEPT !.board = h.pending, !.pending = NoBoard, !.dealt = TRUE]
    BY Zenon, SameDealing
  <1> HIDE DEF h
  <1>3. /\ t.sent = h.sent /\ t.turn = h.turn /\ t.seq = h.seq /\ t.seat = h.seat /\ t.pending = NoBoard
        /\ t.board = IF h.pending = NoBoard THEN h.board ELSE h.pending
        /\ h.dealt => t.dealt
    BY <1>1, <1>2 DEF Machine
  <1> HIDE DEF t
  <1>4. GameOf(c) = GameOf(t) /\ c.sent = t.sent
    BY DEF EndgameUpdate, Record, GameOf
  <1> HIDE DEF c
  <1>5. GameOf(f) = GameOf(c) /\ f.sent = c.sent
    BY DEF Gone, Offer, GameOf
  <1>6. r = Handover(d, f)
    BY Zenon DEF Driven, r, f, c, t, h
  <1> HIDE DEF f, r
  <1>7. GameOf(r) = GameOf(f) /\ r.sent = f.sent
    BY <1>6 DEF Handover, GameOf
  <1>8. /\ r.sent = h.sent /\ r.turn = h.turn /\ r.seq = h.seq /\ r.seat = h.seat
        /\ r.pending = NoBoard
        /\ r.board = IF h.pending = NoBoard THEN h.board ELSE h.pending
        /\ h.dealt => r.dealt
    BY <1>3, <1>4, <1>5, <1>7 DEF GameOf
  <1> QED BY <1>8 DEF h, r

\* A final board is held up only over a game that is over.
LEMMA DrivenStage ==
  ASSUME style \in Styles, NEW d \in Machine, NEW expired \in BOOLEAN
  PROVE  Driven(d, expired).stage = "Final" => GameOver(Driven(d, expired))
  <1> DEFINE t == TakeState(HearNote(d))
             c == EndgameUpdate(t, expired)
             f == Gone(Offer(c))
             r == Driven(d, expired)
  <1>1. t \in Machine
    BY HearNoteType, TakeStateType
  <1> HIDE DEF t
  <1>2. c.stage = "Final" => GameOver(c)
    BY <1>1 DEF EndgameUpdate, Record, GameOver, Machine
  <1> HIDE DEF c
  <1>3. f.stage = c.stage /\ f.dealt = c.dealt /\ f.board = c.board
    BY DEF Gone, Offer
  <1>4. r = Handover(d, f)
    BY Zenon DEF Driven, r, f, c, t
  <1> HIDE DEF f, r
  <1>5. r.stage = f.stage /\ r.dealt = f.dealt /\ r.board = f.board
    BY <1>4 DEF Handover
  <1> QED BY <1>2, <1>3, <1>5 DEF GameOver, r

LEMMA ProposeGame ==
  ASSUME CalmMatch, style \in Styles, NEW d \in Machine, d.session = "Playing"
  PROVE  /\ Propose(d).sent = Append(d.sent, [kind |-> "Say", seq |-> d.said + 1, load |-> "again"])
         /\ TheyAgreed(d) =>
              GameOf(Propose(d))
                = <<d.turn, d.seq, d.pending, Fresh(d.me, d.games + 1, 0), SeatOf(d), TRUE>>
         /\ ~TheyAgreed(d) => GameOf(Propose(d)) = GameOf(d)
  <1> DEFINE st == IF d.stage = "Final" THEN "Offer" ELSE d.stage
             up == [d EXCEPT !.you = "Ready", !.stage = IF @ = "Final" THEN "Offer" ELSE @]
             asked == Say(up, "again")
             open == [asked EXCEPT !.asking = TRUE, !.them = IF @ \in {"Left", "Lost"} THEN @ ELSE "Deciding"]
  <1>1. st \in Stage /\ up = [d EXCEPT !.you = "Ready", !.stage = st]
    BY DEF Machine, Stage
  <1>2. up.session = "Playing" /\ up.said = d.said /\ up.sent = d.sent /\ GameOf(up) = GameOf(d)
        /\ up.me = d.me /\ up.games = d.games
    BY DEF GameOf
  <1> HIDE DEF st, up
  <1>3. up \in Machine
    BY ZenonT(40), <1>1 DEF Machine
  <1>4. asked \in Machine
    BY <1>3, SayType
  <1>5. /\ asked.sent = Append(d.sent, [kind |-> "Say", seq |-> d.said + 1, load |-> "again"])
        /\ GameOf(asked) = GameOf(up) /\ asked.me = up.me /\ asked.games = up.games
        /\ asked.session = up.session
    BY <1>2, <1>3 DEF Say, Sending, GameOf, Machine
  <1>6. Propose(d) = IF TheyAgreed(d) THEN StartRematch(asked) ELSE open
    BY Zenon DEF Propose, asked, up, open
  <1> HIDE DEF asked
  <1>7. open.sent = asked.sent /\ GameOf(open) = GameOf(asked)
    BY DEF GameOf
  <1>8. SeatOf(asked) = SeatOf(d)
    BY <1>2, <1>5 DEF SeatOf, GoesFirst, TossAgain, WhoseTurn, YourTurn, GameOf
  <1>9. /\ GameOf(StartRematch(asked))
             = <<asked.turn, asked.seq, asked.pending, Fresh(asked.me, asked.games + 1, 0), SeatOf(asked), TRUE>>
        /\ StartRematch(asked).sent = asked.sent
    BY <1>4, RematchGame
  <1>10. /\ asked.turn = d.turn /\ asked.seq = d.seq /\ asked.pending = d.pending
         /\ asked.me = d.me /\ asked.games = d.games /\ GameOf(asked) = GameOf(d)
    BY <1>2, <1>5 DEF GameOf
  <1> HIDE DEF open
  <1>11. CASE TheyAgreed(d)
    <2>1. Propose(d) = StartRematch(asked)
      BY Zenon, <1>6, <1>11
    <2>2. GameOf(Propose(d)) = <<d.turn, d.seq, d.pending, Fresh(d.me, d.games + 1, 0), SeatOf(d), TRUE>>
      BY <1>8, <1>9, <1>10, <2>1
    <2>3. Propose(d).sent = asked.sent
      BY <1>9, <2>1
    <2> QED BY Zenon, <1>5, <1>11, <2>2, <2>3
  <1>12. CASE ~TheyAgreed(d)
    <2>1. Propose(d) = open
      BY Zenon, <1>6, <1>12
    <2>2. GameOf(Propose(d)) = GameOf(d) /\ Propose(d).sent = asked.sent
      BY <1>7, <1>10, <2>1
    <2> QED BY Zenon, <1>5, <1>12, <2>2
  <1> QED BY Zenon, <1>11, <1>12

\* A move in turn goes out with the board it leaves.
LEMMA MovedGame ==
  ASSUME NEW d \in Machine, NEW wins \in BOOLEAN, ~Over(d.board), YourTurn(d),
         d.board.plies + 1 = MaxPlies => wins
  PROVE  LET b == [d.board EXCEPT !.plies = @ + 1, !.turn = 1 - @,
                                  !.winner = IF wins THEN d.board.turn ELSE NoSeat]
         IN /\ b \in GoodBoard /\ b.deal = d.board.deal /\ b.turn = 1 - d.board.turn
            /\ GameOf(Moved(d, wins)) = <<FALSE, d.seq + 1, d.pending, b, d.seat, d.dealt>>
            /\ Moved(d, wins).sent = Append(d.sent, [kind |-> "State", seq |-> d.seq + 1, load |-> b])
  <1> DEFINE b == [d.board EXCEPT !.plies = @ + 1, !.turn = 1 - @,
                                  !.winner = IF wins THEN d.board.turn ELSE NoSeat]
             m == [d EXCEPT !.board = b]
  <1>1. b \in GoodBoard
    BY MovedBoard
  <1>2. b.deal = d.board.deal /\ b.turn = 1 - d.board.turn
    BY DEF Machine, GoodBoard, Boards
  <1>3. Moved(d, wins) = Play(m)
    BY Zenon DEF Moved, m, b
  <1> HIDE DEF b
  <1>4. m \in Machine
    BY <1>1, SetBoard
  <1>5. /\ m.session = d.session /\ m.turn = d.turn /\ m.pending = d.pending /\ m.seq = d.seq
        /\ m.sent = d.sent /\ m.seat = d.seat /\ m.dealt = d.dealt /\ m.board = b
    BY DEF Machine
  <1> HIDE DEF m
  <1>6. YourTurn(m)
    BY <1>5 DEF YourTurn
  <1>7. GameOf(Play(m)) = <<FALSE, m.seq + 1, m.pending, m.board, m.seat, m.dealt>>
        /\ Play(m).sent = Append(m.sent, [kind |-> "State", seq |-> m.seq + 1, load |-> m.board])
    BY <1>4, <1>6 DEF Play, Sending, GameOf, Machine
  <1>8. /\ b \in GoodBoard /\ b.deal = d.board.deal /\ b.turn = 1 - d.board.turn
        /\ GameOf(Moved(d, wins)) = <<FALSE, d.seq + 1, d.pending, b, d.seat, d.dealt>>
        /\ Moved(d, wins).sent = Append(d.sent, [kind |-> "State", seq |-> d.seq + 1, load |-> b])
    BY <1>1, <1>2, <1>3, <1>5, <1>7
  <1> QED BY <1>8 DEF b


------------------------------------------------------------------------------
(* What holds between the two devices of one match.                         *)

InLog(d, kind, seq) == \E i \in DOMAIN d.sent : d.sent[i].kind = kind /\ d.sent[i].seq = seq

\* No state of a device is newer than its own count.
NoNewer(d) == \A i \in DOMAIN d.sent : d.sent[i].kind = "State" => d.sent[i].seq =< d.seq

\* The table a device has set up: the board is of the game it is in, and a coin
\* toss settles every game's seats.
Table(d) ==
  /\ d.dealt /\ d.games >= 1 /\ d.board.deal = <<0, d.games>>
  /\ style.seatBy = "toss" => (d.seat = 0 <=> d.me = Host)
  /\ d.said > 0 => InLog(d, "Say", d.said)
  /\ NoNewer(d)

\* No state of d is under way to e.
Quiet(d, e) == d.seq =< e.seq /\ e.pending = NoBoard

\* What of d's states e has not heard is the board d holds.
Carried(d, e) ==
  /\ d.seq > e.seq => InLog(d, "State", d.seq)
  /\ \A i \in DOMAIN d.sent :
       d.sent[i].kind = "State" /\ d.sent[i].seq > e.seq => d.sent[i].load = d.board

\* There is one turn: d has it, or sends it.
HasTurn(d, e) == d.turn /\ ~e.turn /\ d.seq = e.seq /\ e.pending = NoBoard
Sends(d, e) ==
  /\ ~d.turn /\ ~e.turn /\ d.seq = e.seq + 1
  /\ d.pending = NoBoard /\ e.pending = NoBoard

Newest(d) == IF d.pending = NoBoard THEN d.board ELSE d.pending

\* Two devices in one game: an answer is on its way or has been taken in, and
\* was given with nothing else under way; the seats differ; who has the turn
\* has the other's board, on the table or waiting.
Shared(d, e) ==
  /\ d.you = "Ready" => Quiet(d, e) /\ (Owed(d, e) = 1 \/ e.them = "Ready")
  /\ d.seat # e.seat
  /\ HasTurn(d, e) => e.board = Newest(d)

\* d has begun the next game and e has not: nothing is under way but the answer.
Begun(d, e) ==
  /\ d.you # "Ready" /\ Owed(d, e) = 1
  /\ Quiet(d, e) /\ Quiet(e, d)
  /\ d.board = Fresh(d.me, d.games, 0)
  /\ style.seatBy = "turn" => (d.seat = 0 <=> d.turn)

\* Who has the turn is to move by the rules too, where the turn says who sits
\* where, and who has sent it is not.
Sided(d, e) ==
  style.seatBy = "turn" =>
    /\ HasTurn(d, e) /\ ~Over(Newest(d)) => Newest(d).turn = d.seat
    /\ Sends(d, e) /\ ~Over(d.board) => d.board.turn # d.seat

Sequel(d, e) ==
  /\ Carried(d, e) /\ Carried(e, d)
  /\ HasTurn(d, e) \/ HasTurn(e, d) \/ Sends(d, e) \/ Sends(e, d)
  /\ d.games = e.games => Shared(d, e) /\ Shared(e, d) /\ Sided(d, e) /\ Sided(e, d)
  /\ d.games = e.games + 1 => Begun(d, e)
  /\ e.games = d.games + 1 => Begun(e, d)

SequelInv ==
  \A n, p \in Device : Both(n, p) => Table(dev[n]) /\ Sequel(dev[n], dev[p])

\* The device may tap: what it sent has been heard and acted on.
Heard(d, e) == Quiet(d, e) /\ Owed(d, e) = 0

LEMMA SequelIsSymmetric ==
  ASSUME NEW d, NEW e, Sequel(d, e)
  PROVE  Sequel(e, d)
  BY DEF Sequel

LEMMA CarriedWhenQuiet ==
  ASSUME NEW d \in Machine, NEW e \in Machine, NoNewer(d), d.seq =< e.seq
  PROVE  Carried(d, e)
  <1>1. d.seq \in Nat /\ e.seq \in Nat
    BY DEF Machine
  <1>2. ASSUME NEW i \in DOMAIN d.sent, d.sent[i].kind = "State", d.sent[i].seq > e.seq
        PROVE  FALSE
    <2>1. d.sent[i] \in Message
      BY DEF Machine
    <2>2. d.sent[i].seq \in Nat
      BY <1>2, <2>1 DEF Message
    <2> QED BY <1>1, <1>2, <2>2 DEF NoNewer
  <1> QED BY <1>1, <1>2 DEF Carried

\* A device's log after one more packet.
LEMMA LogAppend ==
  ASSUME NEW d \in Machine, NEW m \in Message
  PROVE  /\ \A i \in DOMAIN d.sent : i \in DOMAIN Append(d.sent, m) /\ Append(d.sent, m)[i] = d.sent[i]
         /\ \E i \in DOMAIN Append(d.sent, m) : Append(d.sent, m)[i] = m
         /\ \A i \in DOMAIN Append(d.sent, m) : i \in DOMAIN d.sent \/ Append(d.sent, m)[i] = m
  <1>1. d.sent \in Seq(Message)
    BY DEF Machine
  <1>2. Len(d.sent) + 1 \in DOMAIN Append(d.sent, m) /\ Append(d.sent, m)[Len(d.sent) + 1] = m
    BY <1>1
  <1>3. ASSUME NEW i \in DOMAIN d.sent
        PROVE  i \in DOMAIN Append(d.sent, m) /\ Append(d.sent, m)[i] = d.sent[i]
    BY <1>1
  <1>4. ASSUME NEW i \in DOMAIN Append(d.sent, m)
        PROVE  i \in DOMAIN d.sent \/ Append(d.sent, m)[i] = m
    BY <1>1
  <1> QED BY <1>2, <1>3, <1>4

\* Whoever starts the next game finds both devices quiet, and both agreed.
LEMMA StartsQuiet ==
  ASSUME NEW d \in Machine, NEW e \in Machine, Pair(d, e), Sequel(d, e), d.games = e.games,
         \/ d.note = "again" /\ d.you = "Ready"
         \/ d.them = "Ready" /\ Heard(d, e)
  PROVE  /\ e.you = "Ready" /\ e.them # "Ready"
         /\ Quiet(d, e) /\ Quiet(e, d)
         /\ d.note = "again" => Owed(d, e) = 1 /\ Owed(e, d) = 1
         /\ d.note # "again" => Owed(d, e) = 0 /\ Owed(e, d) = 0
  <1>0. /\ d.said \in Nat /\ d.noteSeq \in Nat /\ e.said \in Nat /\ e.noteSeq \in Nat
        /\ d.games \in Nat /\ e.games \in Nat
    BY DEF Machine
  <1>1. Level(d, e) /\ Level(e, d) /\ Shared(d, e) /\ Shared(e, d) /\ Asker(d, e) /\ Asker(e, d)
    BY <1>0 DEF Pair, Ahead, Sequel
  <1>2. CASE d.note = "again" /\ d.you = "Ready"
    <2>1. Owed(e, d) >= 1 /\ Owed(e, d) \in Int
      BY <1>0, <1>1, <1>2 DEF Owed, Asker
    <2>2. e.you = "Ready" /\ Owed(e, d) = 1
      BY <1>1, <2>1 DEF Level, Held
    <2>3. e.them # "Ready"
      BY <1>1, <2>2 DEF Asker
    <2>4. Owed(d, e) = 1 /\ Quiet(d, e) /\ Quiet(e, d)
      BY <1>1, <1>2, <2>2, <2>3 DEF Shared
    <2> QED BY <1>2, <2>2, <2>3, <2>4
  <1>3. CASE d.them = "Ready" /\ Heard(d, e)
    <2>1. e.you = "Ready" /\ Owed(e, d) = 0
      BY <1>1, <1>3 DEF Level
    <2>2. Quiet(d, e) /\ Quiet(e, d) /\ Owed(d, e) = 0 /\ e.them # "Ready"
      BY <1>1, <1>3, <2>1 DEF Shared, Heard, Asker
    <2>3. d.note # "again"
      BY <1>0, <1>1, <2>1 DEF Owed, Asker
    <2> QED BY <2>1, <2>2, <2>3
  <1> QED BY <1>2, <1>3


LEMMA FreshSame ==
  ASSUME CalmMatch, style \in Styles, NEW n, NEW p, NEW k
  PROVE  Fresh(n, k, 0) = Fresh(p, k, 0)
  BY DEF CalmMatch, SameDeal, Fresh

LEMMA BoardsDiffer ==
  ASSUME NEW d, Table(d), NEW b, b.deal = d.board.deal
  PROVE  b # NoBoard
  <1>1. NoBoard.deal = <<0, 0>>
    BY DEF NoBoard
  <1>2. b.deal = <<0, d.games>> /\ d.games >= 1
    BY DEF Table
  <1> QED BY <1>1, <1>2

\* d starts the next game: ahead of e when they were in one game, level with it
\* when e was ahead.
LEMMA SequelStarts ==
  ASSUME CalmMatch, style \in Styles, NEW d \in Machine, NEW e \in Machine, NEW r \in Machine,
         d.me # e.me, d.session = "Playing", Table(d), Table(e), Pair(d, e), Sequel(d, e),
         \/ d.note = "again" /\ d.you = "Ready"
         \/ d.them = "Ready" /\ Heard(d, e),
         r.me = d.me, r.you = "Deciding", r.them = "Deciding", r.games = d.games + 1,
         GameOf(r) = <<d.turn, d.seq, d.pending, Fresh(d.me, d.games + 1, 0), SeatOf(d), TRUE>>,
         NoNewer(r), r.said > 0 => InLog(r, "Say", r.said),
         d.games = e.games => Owed(r, e) = 1
  PROVE  Table(r) /\ Sequel(r, e)
  <1>0. /\ d.said \in Nat /\ d.noteSeq \in Nat /\ e.said \in Nat /\ e.noteSeq \in Nat
        /\ d.games \in Nat /\ e.games \in Nat /\ d.seq \in Nat /\ e.seq \in Nat
        /\ d.me \in Device /\ e.me \in Device
    BY DEF Machine
  <1>1. /\ r.turn = d.turn /\ r.seq = d.seq /\ r.pending = d.pending /\ r.seat = SeatOf(d) /\ r.dealt
        /\ r.board = Fresh(d.me, d.games + 1, 0)
    BY DEF GameOf
  <1>2. \/ Quiet(d, e) /\ Quiet(e, d) /\ d.games = e.games
        \/ e.games = d.games + 1 /\ Begun(e, d)
    <2>1. CASE d.games = e.games
      BY <2>1, StartsQuiet
    <2>2. CASE Ahead(e, d)
      BY <2>2 DEF Ahead, Sequel
    <2>3. CASE Ahead(d, e)
      <3>1. d.them # "Ready" /\ d.note # "again"
        BY <1>0, <2>3 DEF Ahead, Pair, Asker, Owed
      <3> QED BY <3>1
    <2> QED BY <2>1, <2>2, <2>3 DEF Pair, Level
  <1>3. Quiet(d, e) /\ Quiet(e, d)
    BY <1>2 DEF Begun
  <1>4. d.seq = e.seq /\ d.pending = NoBoard /\ e.pending = NoBoard
    BY <1>0, <1>3 DEF Quiet
  <1>5. (d.turn /\ ~e.turn) \/ (e.turn /\ ~d.turn)
    BY <1>0, <1>4 DEF Sequel, HasTurn, Sends
  <1>6. HasTurn(r, e) \/ HasTurn(e, r)
    BY <1>1, <1>4, <1>5 DEF HasTurn
  <1>7. Carried(r, e)
    BY <1>0, <1>1, <1>4, CarriedWhenQuiet
  <1>8. Carried(e, r)
    BY <1>1 DEF Sequel, Carried
  <1>9. r.board.deal = <<0, r.games>>
    <2>1. Fresh(d.me, d.games + 1, 0).deal = <<0, d.games + 1>>
      BY DEF CalmMatch, SameDeal, Fresh
    <2> QED BY <1>1, <2>1
  <1>10. style.seatBy = "toss" => (r.seat = 0 <=> r.me = Host)
    BY <1>1 DEF SeatOf, GoesFirst, TossAgain
  <1>11. Table(r)
    BY <1>0, <1>1, <1>9, <1>10 DEF Table
  <1>12. style.seatBy = "turn" => (r.seat = 0 <=> r.turn)
    BY <1>1, <1>4 DEF SeatOf, GoesFirst, WhoseTurn, YourTurn
  <1>13. Quiet(r, e) /\ Quiet(e, r)
    BY <1>1, <1>3 DEF Quiet
  <1>14. CASE d.games = e.games
    <2>1. Owed(r, e) = 1
      BY <1>14
    <2>2. r.board = Fresh(r.me, r.games, 0)
      BY <1>1
    <2>3. Begun(r, e)
      BY <1>12, <1>13, <2>1, <2>2 DEF Begun
    <2>4. r.games = e.games + 1
      BY <1>14
    <2> QED BY <1>0, <1>6, <1>7, <1>8, <1>11, <2>3, <2>4 DEF Sequel
  <1>15. CASE e.games = d.games + 1 /\ Begun(e, d)
    <2>1. r.board = e.board
      BY <1>1, <1>15, FreshSame DEF Begun
    <2>2. Newest(r) = r.board /\ Newest(e) = e.board
      BY <1>1, <1>4 DEF Newest
    <2>3. r.seat # e.seat
      <3>1. CASE style.seatBy = "toss"
        <4>1. (r.seat = 0 <=> r.me = Host) /\ (e.seat = 0 <=> e.me = Host)
          BY <1>10, <3>1 DEF Table
        <4>2. (r.me = Host) # (e.me = Host)
          BY <1>0, PairAssumption
        <4> QED BY <4>1, <4>2
      <3>2. CASE style.seatBy = "turn"
        <4>1. (r.seat = 0 <=> r.turn) /\ (e.seat = 0 <=> e.turn)
          BY <1>12, <1>15, <3>2 DEF Begun
        <4> QED BY <1>1, <1>5, <4>1
      <3>3. style.seatBy \in {"toss", "turn"}
        BY StyleAssumption
      <3> QED BY <3>1, <3>2, <3>3
    <2>4. e.you # "Ready"
      BY <1>15 DEF Begun
    <2>5. Shared(r, e) /\ Shared(e, r)
      BY <2>1, <2>2, <2>3, <2>4 DEF Shared
    <2>6. r.games = e.games
      BY <1>15
    <2>7. Sided(r, e) /\ Sided(e, r)
      <3>1. r.board.turn = 0 /\ ~Sends(r, e) /\ ~Sends(e, r)
        BY <1>1, <1>5 DEF Fresh, Sends
      <3>2. style.seatBy = "turn" => (r.turn => r.seat = 0) /\ (e.turn => e.seat = 0)
        BY <1>12, <1>15 DEF Begun
      <3> QED BY <2>1, <2>2, <3>1, <3>2 DEF Sided, HasTurn
    <2> QED BY <1>0, <1>6, <1>7, <1>8, <1>11, <2>5, <2>6, <2>7 DEF Sequel
  <1> QED BY <1>2, <1>14, <1>15


LEMMA SequelSame ==
  ASSUME NEW d, NEW e, NEW r, Table(d), Sequel(d, e),
         Hand(r) = Hand(d), GameOf(r) = GameOf(d), r.sent = d.sent
  PROVE  Table(r) /\ Sequel(r, e)
  <1>1. /\ r.me = d.me /\ r.you = d.you /\ r.them = d.them /\ r.note = d.note /\ r.noteSeq = d.noteSeq
        /\ r.said = d.said /\ r.games = d.games
    BY DEF Hand
  <1>2. /\ r.turn = d.turn /\ r.seq = d.seq /\ r.pending = d.pending /\ r.board = d.board
        /\ r.seat = d.seat /\ r.dealt = d.dealt
    BY DEF GameOf
  <1>3. Table(r)
    BY <1>1, <1>2 DEF Table, InLog, NoNewer
  <1>4. Carried(r, e) /\ Carried(e, r)
    BY <1>2 DEF Sequel, Carried, InLog
  <1>5. HasTurn(r, e) \/ HasTurn(e, r) \/ Sends(r, e) \/ Sends(e, r)
    BY <1>2 DEF Sequel, HasTurn, Sends
  <1>6. Shared(d, e) /\ Shared(e, d) => Shared(r, e) /\ Shared(e, r)
    BY <1>1, <1>2 DEF Shared, Quiet, Owed, HasTurn, Newest
  <1>7. (Begun(d, e) => Begun(r, e)) /\ (Begun(e, d) => Begun(e, r))
    BY <1>1, <1>2 DEF Begun, Quiet, Owed
  <1>8. Sided(d, e) /\ Sided(e, d) => Sided(r, e) /\ Sided(e, r)
    BY <1>2 DEF Sided, HasTurn, Sends, Newest
  <1> QED BY <1>1, <1>3, <1>4, <1>5, <1>6, <1>7, <1>8 DEF Sequel

LEMMA SequelHearsNote ==
  ASSUME CalmMatch, style \in Styles, NEW d \in Machine, NEW e \in Machine,
         d.me # e.me, d.session = "Playing", Table(d), Table(e), Pair(d, e), Sequel(d, e)
  PROVE  Table(HearNote(d)) /\ Sequel(HearNote(d), e)
  <1> DEFINE r == HearNote(d)
  <1>0. /\ d.said \in Nat /\ d.noteSeq \in Nat /\ e.said \in Nat /\ e.noteSeq \in Nat
        /\ d.games \in Nat /\ e.games \in Nat /\ d.note \in {"none", "again"}
    BY DEF Machine, Pair, Asker
  <1>1. r \in Machine /\ r.sent = d.sent
    BY HearNoteType, NoteGame
  <1>2. CASE d.note = "none"
    BY <1>1, <1>2, NoteHand, NoteGame, SequelSame
  <1>3. CASE d.note = "again" /\ d.you = "Ready"
    <2>1. /\ r.me = d.me /\ r.you = "Deciding" /\ r.them = "Deciding" /\ r.games = d.games + 1
          /\ r.said = d.said
      BY <1>3, NoteHand DEF Hand
    <2>2. GameOf(r) = <<d.turn, d.seq, d.pending, Fresh(d.me, d.games + 1, 0), SeatOf(d), TRUE>>
      BY <1>3, NoteGame
    <2>3. r.seq = d.seq
      BY <2>2 DEF GameOf
    <2>4. NoNewer(r) /\ (r.said > 0 => InLog(r, "Say", r.said))
      BY <1>1, <2>1, <2>3 DEF Table, NoNewer, InLog
    <2>5. Owed(r, e) = Owed(d, e)
      BY <2>1 DEF Owed
    <2>6. d.games = e.games => Owed(d, e) = 1
      BY <1>3, StartsQuiet
    <2> HIDE DEF r
    <2>7. Table(r) /\ Sequel(r, e)
      BY <1>1, <1>3, <2>1, <2>2, <2>4, <2>5, <2>6, SequelStarts
    <2> QED BY <2>7 DEF r
  <1>4. CASE d.note = "again" /\ d.you # "Ready"
    <2>1. /\ r.me = d.me /\ r.you = "Deciding" /\ r.them = "Ready" /\ r.games = d.games
          /\ r.said = d.said /\ r.note = "none" /\ r.noteSeq = d.noteSeq
      BY <1>4, NoteHand DEF Hand
    <2>2. GameOf(r) = GameOf(d)
      BY <1>4, NoteGame
    <2>3. /\ r.turn = d.turn /\ r.seq = d.seq /\ r.pending = d.pending /\ r.board = d.board
          /\ r.seat = d.seat /\ r.dealt = d.dealt
      BY <2>2 DEF GameOf
    <2>4. ~Ahead(e, d) /\ ~Ahead(d, e)
      BY <1>0, <1>4 DEF Pair, Ahead, Owed, Asker
    <2>5. d.games = e.games /\ Shared(d, e) /\ Shared(e, d) /\ Sided(d, e) /\ Sided(e, d)
      BY <2>4 DEF Pair, Level, Sequel
    <2> HIDE DEF r
    <2>6. Table(r)
      BY <1>1, <2>1, <2>3 DEF Table, InLog, NoNewer
    <2>7. Carried(r, e) /\ Carried(e, r)
      BY <1>1, <2>3 DEF Sequel, Carried, InLog
    <2>8. HasTurn(r, e) \/ HasTurn(e, r) \/ Sends(r, e) \/ Sends(e, r)
      BY <2>3 DEF Sequel, HasTurn, Sends
    <2>9. Shared(r, e) /\ Shared(e, r)
      BY <2>1, <2>3, <2>5 DEF Shared, Quiet, HasTurn, Newest
    <2>10. Sided(r, e) /\ Sided(e, r)
      BY <2>3, <2>5 DEF Sided, HasTurn, Sends, Newest
    <2> QED BY <1>0, <2>1, <2>5, <2>6, <2>7, <2>8, <2>9, <2>10 DEF Sequel, r
  <1> QED BY <1>0, <1>2, <1>3, <1>4

LEMMA SequelTakes ==
  ASSUME NEW d \in Machine, NEW e \in Machine, NEW r \in Machine,
         Table(d), Table(e), Pair(d, e), Sequel(d, e),
         r.me = d.me, r.note = d.note, r.noteSeq = d.noteSeq, r.said = d.said, r.games = d.games,
         \/ r.you = d.you /\ r.them = d.them
         \/ r.you = "Deciding" /\ r.them = "Deciding" /\ d.you # "Ready" /\ d.them # "Ready",
         r.sent = d.sent, r.turn = d.turn, r.seq = d.seq, r.seat = d.seat, r.pending = NoBoard,
         r.board = Newest(d), r.dealt
  PROVE  Table(r) /\ Sequel(r, e)
  <1>0. /\ d.games \in Nat /\ e.games \in Nat /\ d.seq \in Nat /\ e.seq \in Nat
    BY DEF Machine
  <1>1. d.games = e.games \/ d.games = e.games + 1 \/ e.games = d.games + 1
    BY DEF Pair, Level, Ahead
  <1>2. d.pending # NoBoard => HasTurn(d, e) /\ d.games = e.games /\ r.board = e.board
    <2>1. d.pending # NoBoard => HasTurn(d, e)
      BY DEF Sequel, HasTurn, Sends
    <2>2. d.pending # NoBoard => d.games = e.games
      BY <1>1 DEF Sequel, Begun, Quiet
    <2> QED BY <2>1, <2>2 DEF Sequel, Shared, Newest
  <1>3. r.board.deal = <<0, r.games>>
    BY <1>2 DEF Table, Newest
  <1>4. Table(r)
    BY <1>3 DEF Table, InLog, NoNewer
  <1>5. Carried(r, e)
    <2>1. CASE d.pending = NoBoard
      BY <2>1 DEF Sequel, Carried, InLog, Newest
    <2>2. CASE d.pending # NoBoard
      BY <1>0, <1>2, <1>4, <2>2, CarriedWhenQuiet DEF HasTurn, Table
    <2> QED BY <2>1, <2>2
  <1>6. Carried(e, r)
    BY DEF Sequel, Carried
  <1>7. HasTurn(r, e) \/ HasTurn(e, r) \/ Sends(r, e) \/ Sends(e, r)
    BY DEF Sequel, HasTurn, Sends
  <1>8. d.games = e.games => Shared(r, e) /\ Shared(e, r) /\ Sided(r, e) /\ Sided(e, r)
    <2>1. d.games = e.games => Shared(d, e) /\ Shared(e, d) /\ Sided(d, e) /\ Sided(e, d)
      BY DEF Sequel
    <2>2. HasTurn(e, d) <=> HasTurn(e, r) /\ d.pending = NoBoard
      BY DEF HasTurn
    <2>3. HasTurn(r, e) <=> HasTurn(d, e)
      BY DEF HasTurn
    <2>4. Newest(r) = Newest(d)
      BY DEF Newest
    <2>5. HasTurn(e, r) => d.pending = NoBoard /\ r.board = d.board
      BY <1>2 DEF HasTurn, Newest
    <2>6. Owed(r, e) = Owed(d, e) /\ Owed(e, r) = Owed(e, d)
      BY DEF Owed
    <2>7. Quiet(r, e) <=> Quiet(d, e)
      BY DEF Quiet
    <2>8. Quiet(e, d) => Quiet(e, r)
      BY DEF Quiet
    <2>9. ASSUME d.games = e.games
          PROVE  Shared(r, e)
      BY <2>1, <2>3, <2>4, <2>6, <2>7, <2>9 DEF Shared
    <2>10. ASSUME d.games = e.games
           PROVE  Shared(e, r)
      BY <2>1, <2>2, <2>5, <2>6, <2>8, <2>10 DEF Shared
    <2>11. Sends(r, e) \/ Sends(e, r) => d.pending = NoBoard /\ r.board = d.board
      BY <1>2 DEF HasTurn, Sends, Newest
    <2>12. (Sends(r, e) => Sends(d, e)) /\ (Sends(e, r) => Sends(e, d))
      BY <2>11 DEF Sends
    <2>13. ASSUME d.games = e.games
           PROVE  Sided(r, e) /\ Sided(e, r)
      <3>1. Sided(r, e)
        <4>1. style.seatBy = "turn" /\ HasTurn(r, e) /\ ~Over(Newest(r)) => Newest(r).turn = r.seat
          BY <2>1, <2>3, <2>4, <2>13 DEF Sided
        <4>2. style.seatBy = "turn" /\ Sends(r, e) /\ ~Over(r.board) => r.board.turn # r.seat
          BY <2>1, <2>11, <2>12, <2>13 DEF Sided
        <4> QED BY <4>1, <4>2 DEF Sided
      <3>2. Sided(e, r)
        BY <2>1, <2>2, <2>5, <2>12, <2>13 DEF Sided
      <3> QED BY <3>1, <3>2
    <2> QED BY <2>9, <2>10, <2>13
  <1>9. d.games = e.games + 1 => Begun(r, e)
    BY DEF Sequel, Begun, Quiet, Owed, Newest
  <1>10. e.games = d.games + 1 => Begun(e, r)
    BY DEF Sequel, Begun, Quiet, Owed
  <1> QED BY <1>4, <1>5, <1>6, <1>7, <1>8, <1>9, <1>10 DEF Sequel


\* A pass with no tap.
LEMMA SequelDriven ==
  ASSUME CalmMatch, style \in Styles, NEW d \in Machine, NEW e \in Machine, NEW expired \in BOOLEAN,
         d.me # e.me, d.session = "Playing", Table(d), Table(e), Pair(d, e), Sequel(d, e)
  PROVE  /\ Table(Driven(d, expired)) /\ Sequel(Driven(d, expired), e)
         /\ Driven(d, expired).seq = d.seq /\ Driven(d, expired).said = d.said
         /\ Driven(d, expired).me = d.me
  <1> DEFINE h == HearNote(d)
             r == Driven(d, expired)
  <1>1. h \in Machine /\ Pair(h, e)
    BY HearNoteType, PairHearsNote
  <1>2. Table(h) /\ Sequel(h, e)
    BY SequelHearsNote
  <1>3. \/ Hand(r) = Hand(h)
        \/ /\ ~h.asking
           /\ Hand(r) = <<h.me, h.session, "Deciding", "Deciding", TRUE,
                          h.note, h.noteSeq, h.said, h.games>>
    BY Zenon, DrivenHand
  <1>4. /\ r.sent = h.sent /\ r.turn = h.turn /\ r.seq = h.seq /\ r.seat = h.seat
        /\ r.pending = NoBoard
        /\ r.board = IF h.pending = NoBoard THEN h.board ELSE h.pending
        /\ h.dealt => r.dealt
    BY Zenon, DrivenGame
  <1>5. r \in Machine
    BY DrivenType
  <1>6. h.seq = d.seq /\ h.said = d.said /\ h.me = d.me
    <2>1. h.seq = d.seq
      BY NoteGame DEF GameOf
    <2>2. h.said = d.said /\ h.me = d.me
      BY NoteHand DEF Hand, Machine
    <2> QED BY <2>1, <2>2
  <1> HIDE DEF h, r
  <1>7. /\ r.me = h.me /\ r.note = h.note /\ r.noteSeq = h.noteSeq /\ r.said = h.said /\ r.games = h.games
        /\ \/ r.you = h.you /\ r.them = h.them
           \/ r.you = "Deciding" /\ r.them = "Deciding" /\ ~h.asking
    BY <1>3 DEF Hand
  <1>8. ~h.asking => h.you # "Ready" /\ h.them # "Ready"
    BY <1>1 DEF Pair, Asker
  <1>9. r.board = Newest(h) /\ r.dealt
    BY <1>2, <1>4 DEF Newest, Table
  <1>10. Table(r) /\ Sequel(r, e)
    BY <1>1, <1>2, <1>4, <1>5, <1>7, <1>8, <1>9, SequelTakes
  <1> QED BY <1>4, <1>6, <1>7, <1>10 DEF r

\* PLAY AGAIN by a device that has been heard.
LEMMA SequelAnswers ==
  ASSUME CalmMatch, style \in Styles, NEW d \in Machine, NEW e \in Machine,
         d.me # e.me, d.session = "Playing", Table(d), Table(e), Pair(d, e), Sequel(d, e),
         Heard(d, e), d.you # "Ready"
  PROVE  Table(Propose(d)) /\ Sequel(Propose(d), e)
  <1> DEFINE r == Propose(d)
             m == [kind |-> "Say", seq |-> d.said + 1, load |-> "again"]
  <1>0. /\ d.said \in Nat /\ d.noteSeq \in Nat /\ e.said \in Nat /\ e.noteSeq \in Nat
        /\ d.games \in Nat /\ e.games \in Nat /\ d.seq \in Nat /\ e.seq \in Nat
        /\ d.them \in {"Deciding", "Ready"}
    BY DEF Machine, Pair, Asker
  <1>1. r \in Machine /\ r.sent = Append(d.sent, m)
    BY ProposeType, ProposeGame
  <1>2. m \in Message /\ m.kind = "Say" /\ m.seq = d.said + 1
    BY <1>0 DEF Message
  <1> HIDE DEF m
  <1>3. InLog(r, "Say", d.said + 1)
    BY <1>1, <1>2, LogAppend DEF InLog
  <1>4. r.seq = d.seq => NoNewer(r)
    BY SMTT(30), <1>1, <1>2, LogAppend DEF Table, NoNewer
  <1>5. CASE TheyAgreed(d)
    <2>1. /\ r.me = d.me /\ r.you = "Deciding" /\ r.them = "Deciding" /\ r.games = d.games + 1
          /\ r.said = d.said + 1 /\ r.note = d.note /\ r.noteSeq = d.noteSeq
      BY <1>5, ProposeHand DEF Hand
    <2>2. GameOf(r) = <<d.turn, d.seq, d.pending, Fresh(d.me, d.games + 1, 0), SeatOf(d), TRUE>>
      BY <1>5, ProposeGame
    <2>3. d.them = "Ready"
      BY <1>5 DEF TheyAgreed
    <2>4. NoNewer(r)
      BY <1>4, <2>2 DEF GameOf
    <2>5. Owed(r, e) = 1
      BY <1>0, <2>1 DEF Heard, Owed
    <2> HIDE DEF r
    <2>6. Table(r) /\ Sequel(r, e)
      BY <1>1, <1>3, <2>1, <2>2, <2>3, <2>4, <2>5, SequelStarts
    <2> QED BY <2>6 DEF r
  <1>6. CASE ~TheyAgreed(d)
    <2>1. /\ r.me = d.me /\ r.you = "Ready" /\ r.them = "Deciding" /\ r.games = d.games
          /\ r.said = d.said + 1 /\ r.note = d.note /\ r.noteSeq = d.noteSeq
      BY <1>0, <1>6, ProposeHand DEF Hand
    <2>2. GameOf(r) = GameOf(d)
      BY <1>6, ProposeGame
    <2>3. /\ r.turn = d.turn /\ r.seq = d.seq /\ r.pending = d.pending /\ r.board = d.board
          /\ r.seat = d.seat /\ r.dealt = d.dealt
      BY <2>2 DEF GameOf
    <2>4. d.them # "Ready"
      BY <1>0, <1>6 DEF TheyAgreed, Pair, Asker
    <2> HIDE DEF r
    <2>5. Table(r)
      BY <1>0, <1>3, <1>4, <2>1, <2>3 DEF Table
    <2>6. Carried(r, e)
      BY <1>0, <1>1, <2>3, <2>5, CarriedWhenQuiet DEF Heard, Quiet, Table
    <2>7. Carried(e, r)
      BY <2>3 DEF Sequel, Carried
    <2>8. HasTurn(r, e) \/ HasTurn(e, r) \/ Sends(r, e) \/ Sends(e, r)
      BY <2>3 DEF Sequel, HasTurn, Sends
    <2>9. ~Ahead(e, d) /\ ~Begun(d, e)
      BY DEF Ahead, Begun, Heard
    <2>10. d.games = e.games /\ Shared(d, e) /\ Shared(e, d) /\ Sided(d, e) /\ Sided(e, d)
      <3>1. d.games = e.games
        BY <2>9 DEF Pair, Level, Ahead, Sequel
      <3> QED BY <3>1 DEF Sequel
    <2>11. Owed(r, e) = 1 /\ Owed(e, r) = Owed(e, d)
      BY <1>0, <2>1 DEF Heard, Owed
    <2>12. (Quiet(d, e) => Quiet(r, e)) /\ (Quiet(e, d) => Quiet(e, r))
      BY <2>3 DEF Quiet
    <2>13. Shared(r, e)
      BY <2>3, <2>10, <2>11, <2>12 DEF Shared, Heard, HasTurn, Newest
    <2>14. Shared(e, r)
      BY <2>3, <2>4, <2>10, <2>11, <2>12 DEF Shared, HasTurn, Newest
    <2>15. Sided(r, e) /\ Sided(e, r)
      BY <2>3, <2>10 DEF Sided, HasTurn, Sends, Newest
    <2> QED BY <1>0, <2>1, <2>5, <2>6, <2>7, <2>8, <2>10, <2>13, <2>14, <2>15 DEF Sequel, r
  <1> QED BY <1>5, <1>6

\* A move by a device that has been heard.
LEMMA SequelMoves ==
  ASSUME NEW d \in Machine, NEW e \in Machine, NEW wins \in BOOLEAN,
         Table(d), Table(e), Pair(d, e), Sequel(d, e), Heard(d, e), ~d.asking,
         YourTurn(d), ~Over(d.board), d.board.plies + 1 = MaxPlies => wins
  PROVE  Table(Moved(d, wins)) /\ Sequel(Moved(d, wins), e)
  <1> DEFINE r == Moved(d, wins)
             b == [d.board EXCEPT !.plies = @ + 1, !.turn = 1 - @,
                                  !.winner = IF wins THEN d.board.turn ELSE NoSeat]
             m == [kind |-> "State", seq |-> d.seq + 1, load |-> b]
  <1>0. /\ d.games \in Nat /\ e.games \in Nat /\ d.seq \in Nat /\ e.seq \in Nat
        /\ d.turn = TRUE /\ d.pending = NoBoard
    BY DEF Machine, YourTurn
  <1>1. /\ b \in GoodBoard /\ b.deal = d.board.deal /\ b.turn = 1 - d.board.turn
        /\ GameOf(r) = <<FALSE, d.seq + 1, d.pending, b, d.seat, d.dealt>>
        /\ r.sent = Append(d.sent, m)
    BY Zenon, MovedGame
  <1>2. r \in Machine /\ Hand(r) = Hand(d)
    BY MovedType, MovedHand
  <1> HIDE DEF r, b
  <1>3. m \in Message /\ m.kind = "State" /\ m.seq = d.seq + 1 /\ m.load = b
    BY <1>0, <1>1 DEF Message
  <1> HIDE DEF m
  <1>4. /\ r.turn = FALSE /\ r.seq = d.seq + 1 /\ r.pending = NoBoard /\ r.board = b
        /\ r.seat = d.seat /\ r.dealt = d.dealt
    BY <1>0, <1>1 DEF GameOf
  <1>5. /\ r.me = d.me /\ r.you = d.you /\ r.them = d.them /\ r.note = d.note /\ r.noteSeq = d.noteSeq
        /\ r.said = d.said /\ r.games = d.games
    BY <1>2 DEF Hand
  <1>6. d.you # "Ready"
    BY DEF Pair, Asker
  <1>7. d.games = e.games /\ Shared(d, e) /\ Shared(e, d) /\ Sided(d, e)
    <2>1. ~Ahead(e, d) /\ ~Begun(d, e)
      BY <1>6 DEF Ahead, Begun, Heard
    <2>2. d.games = e.games
      BY <2>1 DEF Pair, Level, Ahead, Sequel
    <2> QED BY <2>2 DEF Sequel
  <1>8. HasTurn(d, e)
    BY <1>0 DEF Sequel, HasTurn, Sends
  <1>9. Sends(r, e)
    BY <1>0, <1>4, <1>8 DEF HasTurn, Sends
  <1>10. ASSUME NEW i \in DOMAIN r.sent, r.sent[i].kind = "State"
         PROVE  /\ r.sent[i].seq =< r.seq
                /\ r.sent[i].seq > e.seq => r.sent[i].load = b
    <2>1. CASE r.sent[i] = m
      BY <1>0, <1>3, <1>4, <2>1
    <2>2. CASE i \in DOMAIN d.sent
      <3>1. r.sent[i] = d.sent[i] /\ d.sent[i] \in Message
        <4>1. r.sent[i] = d.sent[i]
          BY <1>1, <1>3, <2>2, LogAppend
        <4>2. d.sent \in Seq(Message)
          BY DEF Machine
        <4> QED BY <2>2, <4>1, <4>2
      <3>2. d.sent[i].seq =< d.seq /\ d.sent[i].seq \in Nat
        BY <1>10, <2>2, <3>1 DEF Table, NoNewer, Message
      <3> QED BY <1>0, <1>4, <1>8, <3>1, <3>2 DEF HasTurn
    <2> QED BY <1>1, <1>3, <2>1, <2>2, LogAppend
  <1>11. \A k : InLog(d, "Say", k) => InLog(r, "Say", k)
    BY <1>1, <1>3, LogAppend DEF InLog
  <1>12. Table(r)
    BY <1>1, <1>4, <1>5, <1>10, <1>11 DEF Table, NoNewer
  <1>13. Carried(r, e)
    <2>1. InLog(r, "State", r.seq)
      BY <1>1, <1>3, <1>4, LogAppend DEF InLog
    <2> QED BY <1>4, <1>10, <2>1 DEF Carried
  <1>14. Carried(e, r)
    BY <1>0, <1>2, <1>4, <1>8, CarriedWhenQuiet DEF HasTurn, Table
  <1>15. Shared(r, e)
    BY <1>4, <1>5, <1>6, <1>7 DEF Shared, HasTurn
  <1>16. Shared(e, r)
    <2>1. Owed(e, r) = Owed(e, d)
      BY <1>5 DEF Owed
    <2>2. Quiet(e, r)
      BY <1>0, <1>4, <1>8 DEF Quiet, HasTurn
    <2>3. ~HasTurn(e, r)
      BY <1>8 DEF HasTurn
    <2> QED BY <1>4, <1>5, <1>7, <2>1, <2>2, <2>3 DEF Shared
  <1>17. Sided(r, e) /\ Sided(e, r)
    <2>1. d.board.turn \in {0, 1} /\ Newest(d) = d.board
      BY <1>0 DEF Machine, GoodBoard, Boards, Newest
    <2>2. style.seatBy = "turn" => b.turn # d.seat
      BY <1>1, <1>7, <1>8, <2>1 DEF Sided
    <2>3. ~HasTurn(r, e) /\ ~HasTurn(e, r) /\ ~Sends(e, r)
      BY <1>0, <1>4, <1>9 DEF HasTurn, Sends
    <2> QED BY <1>4, <2>2, <2>3 DEF Sided
  <1> QED BY <1>0, <1>5, <1>7, <1>9, <1>12, <1>13, <1>14, <1>15, <1>16, <1>17 DEF Sequel, r


\* The other's state is heard.
LEMMA SequelHearsState ==
  ASSUME NEW d \in Machine, NEW e \in Machine, NEW r \in Machine, NEW k \in Nat,
         d.seq < k, k =< e.seq,
         r = [d EXCEPT !.pending = e.board, !.seq = k, !.turn = TRUE],
         Table(d), Table(e), Pair(d, e), Sequel(d, e)
  PROVE  Table(r) /\ Sequel(r, e)
  <1>0. /\ d.games \in Nat /\ e.games \in Nat /\ d.seq \in Nat /\ e.seq \in Nat
    BY DEF Machine
  <1>2. Sends(e, d)
    BY <1>0 DEF Sequel, HasTurn, Sends
  <1>3. k = e.seq
    BY <1>0, <1>2 DEF Sends
  <1>4. e.board # NoBoard
    BY BoardsDiffer
  <1>5. /\ r.turn = TRUE /\ r.seq = e.seq /\ r.pending = e.board /\ r.board = d.board /\ r.sent = d.sent
        /\ r.seat = d.seat /\ r.dealt = d.dealt /\ r.me = d.me /\ r.you = d.you /\ r.them = d.them
        /\ r.note = d.note /\ r.noteSeq = d.noteSeq /\ r.said = d.said /\ r.games = d.games
    BY <1>3 DEF Machine
  <1>6. d.games = e.games /\ Shared(d, e) /\ Shared(e, d) /\ Sided(e, d)
    <2>1. ~Begun(d, e) /\ ~Begun(e, d)
      BY <1>0, <1>2 DEF Begun, Quiet, Sends
    <2>2. d.games = e.games
      BY <2>1 DEF Pair, Level, Ahead, Sequel
    <2> QED BY <2>2 DEF Sequel
  <1>7. Table(r)
    <2>1. NoNewer(r)
      <3> SUFFICES ASSUME NEW j \in DOMAIN d.sent, d.sent[j].kind = "State"
                   PROVE  d.sent[j].seq =< e.seq
        BY <1>5 DEF NoNewer
      <3>1. d.sent[j].seq =< d.seq
        BY DEF Table, NoNewer
      <3>2. d.sent[j] \in Message
        <4>1. d.sent \in Seq(Message)
          BY DEF Machine
        <4> QED BY <4>1
      <3>3. d.sent[j].seq \in Nat
        BY <3>2 DEF Message
      <3> QED BY <1>0, <1>2, <3>1, <3>3 DEF Sends
    <2> QED BY <1>5, <2>1 DEF Table, InLog
  <1>8. Carried(r, e) /\ Carried(e, r)
    <2>1. r.seq =< e.seq /\ e.seq =< r.seq
      BY <1>0, <1>5
    <2> QED BY <1>7, <2>1, CarriedWhenQuiet DEF Table
  <1>9. HasTurn(r, e)
    BY <1>2, <1>5 DEF Sends, HasTurn
  <1>10. Quiet(r, e)
    BY <1>0, <1>2, <1>5 DEF Quiet, Sends
  <1>11. Shared(r, e)
    BY <1>4, <1>5, <1>6, <1>10 DEF Shared, Owed, Newest
  <1>12. Shared(e, r)
    <2>1. e.you # "Ready"
      BY <1>0, <1>2, <1>6 DEF Shared, Quiet, Sends
    <2>2. ~HasTurn(e, r)
      BY <1>2 DEF HasTurn, Sends
    <2> QED BY <1>5, <1>6, <2>1, <2>2 DEF Shared
  <1>13. Sided(r, e) /\ Sided(e, r)
    <2>1. Newest(r) = e.board /\ ~Sends(r, e) /\ ~Sends(e, r) /\ ~HasTurn(e, r)
      BY <1>4, <1>5 DEF Newest, Sends, HasTurn
    <2>2. e.board.turn \in {0, 1} /\ d.seat \in {0, 1} /\ e.seat \in {0, 1} /\ d.seat # e.seat
      BY <1>6 DEF Machine, GoodBoard, Boards, Shared
    <2>3. style.seatBy = "turn" /\ ~Over(e.board) => e.board.turn = d.seat
      BY <1>2, <1>6, <2>2 DEF Sided
    <2> QED BY <1>5, <2>1, <2>3 DEF Sided
  <1> QED BY <1>0, <1>5, <1>6, <1>7, <1>8, <1>9, <1>11, <1>12, <1>13 DEF Sequel

\* The other's answer is heard.
LEMMA SequelHearsSay ==
  ASSUME NEW d \in Machine, NEW e \in Machine, NEW r \in Machine, NEW k \in Nat,
         d.noteSeq < k, k =< e.said,
         r = [d EXCEPT !.note = "again", !.noteSeq = k],
         Table(d), Pair(d, e), Sequel(d, e)
  PROVE  Table(r) /\ Sequel(r, e)
  <1>0. /\ d.said \in Nat /\ d.noteSeq \in Nat /\ e.said \in Nat /\ e.noteSeq \in Nat
        /\ d.games \in Nat /\ e.games \in Nat
    BY DEF Machine
  <1>1. /\ r.turn = d.turn /\ r.seq = d.seq /\ r.pending = d.pending /\ r.board = d.board /\ r.sent = d.sent
        /\ r.seat = d.seat /\ r.dealt = d.dealt /\ r.me = d.me /\ r.you = d.you /\ r.them = d.them
        /\ r.note = "again" /\ r.noteSeq = k /\ r.said = d.said /\ r.games = d.games
    BY DEF Machine
  <1>2. Owed(e, d) >= 1 /\ Owed(r, e) = Owed(d, e)
    BY <1>0, <1>1 DEF Owed
  <1>3. Owed(e, d) = 1 => Owed(e, r) = 1
    BY <1>0, <1>1 DEF Owed
  <1>4. Table(r)
    BY <1>1 DEF Table, InLog, NoNewer
  <1>5. Carried(r, e) /\ Carried(e, r)
    BY <1>1 DEF Sequel, Carried, InLog
  <1>6. HasTurn(r, e) \/ HasTurn(e, r) \/ Sends(r, e) \/ Sends(e, r)
    BY <1>1 DEF Sequel, HasTurn, Sends
  <1>7. ~Ahead(d, e)
    BY <1>2 DEF Ahead
  <1>8. d.games = e.games => Shared(r, e) /\ Shared(e, r) /\ Sided(r, e) /\ Sided(e, r)
    <2> SUFFICES ASSUME d.games = e.games
                 PROVE  Shared(r, e) /\ Shared(e, r) /\ Sided(r, e) /\ Sided(e, r)
      OBVIOUS
    <2>1. Level(e, d) /\ Shared(d, e) /\ Shared(e, d) /\ Sided(d, e) /\ Sided(e, d)
      BY <1>0 DEF Pair, Ahead, Sequel
    <2>2. Owed(e, d) = 1
      BY <1>0, <1>2, <2>1 DEF Level, Held, Owed
    <2>3. Shared(r, e)
      BY <1>1, <1>2, <2>1 DEF Shared, Quiet, HasTurn, Newest
    <2>4. Shared(e, r)
      BY <1>1, <1>3, <2>1, <2>2 DEF Shared, Quiet, HasTurn, Newest
    <2>5. Sided(r, e) /\ Sided(e, r)
      BY <1>1, <2>1 DEF Sided, HasTurn, Sends, Newest
    <2> QED BY <2>3, <2>4, <2>5
  <1>9. d.games # e.games + 1
    BY <1>0, <1>7 DEF Pair, Level, Ahead
  <1>10. e.games = d.games + 1 => Begun(e, r)
    BY <1>1, <1>3 DEF Sequel, Begun, Quiet
  <1> QED BY <1>1, <1>4, <1>5, <1>6, <1>8, <1>9, <1>10 DEF Sequel

\* MayTap says of a pair what Heard says of it.
LEMMA TapIsHeard ==
  ASSUME CalmMatch, TypeInv, QuestionInv, SequelInv, NEW n \in Device, NEW p \in Device,
         Both(n, p), MayTap(n)
  PROVE  Heard(dev[n], dev[p])
  <1>1. p = Other(n) /\ dev[p].session = "Playing" /\ Swift
    BY OtherIs DEF Both, CalmMatch, SameDeal
  <1>2. Unheard(n) = {} /\ dev[p].pending = NoBoard /\ dev[p].note = "none"
    BY <1>1 DEF MayTap, Untaken
  <1>3. /\ Table(dev[n]) /\ Sequel(dev[n], dev[p]) /\ Pair(dev[n], dev[p])
    BY DEF SequelInv, QuestionInv
  <1>4. /\ dev[n].seq \in Nat /\ dev[p].seq \in Nat /\ dev[n].said \in Nat /\ dev[p].noteSeq \in Nat
    BY DEF TypeInv, Machine
  <1>5. ASSUME NEW i \in DOMAIN dev[n].sent
        PROVE  /\ ~(dev[n].sent[i].kind = "State" /\ dev[n].sent[i].seq > dev[p].seq)
               /\ ~(dev[n].sent[i].kind = "Say" /\ dev[n].sent[i].seq > dev[p].noteSeq)
    BY <1>1, <1>2 DEF Unheard
  <1>6. dev[n].seq =< dev[p].seq
    BY <1>3, <1>4, <1>5 DEF Sequel, Carried, InLog
  <1>7. dev[n].said =< dev[p].noteSeq
    BY <1>3, <1>4, <1>5 DEF Table, InLog
  <1>8. dev[p].noteSeq =< dev[n].said
    BY <1>3 DEF Pair, Asker
  <1> QED BY <1>2, <1>4, <1>6, <1>7, <1>8 DEF Heard, Quiet, Owed


------------------------------------------------------------------------------
(* The games after the first, step by step.                                 *)

LEMMA SequelStep ==
  ASSUME TypeInv, SequelInv, NEW n \in Device, NEW d \in Machine, Becomes(n, d),
         d.session = "Playing" => dev[n].session = "Playing",
         ASSUME NEW p \in Device, Both(n, p), d.session = "Playing"
         PROVE  Table(d) /\ Sequel(d, dev[p])
  PROVE  SequelInv'
  <1> SUFFICES ASSUME NEW a \in Device, NEW b \in Device, Both(a, b)'
               PROVE  Table(dev[a])' /\ Sequel(dev[a], dev[b])'
    BY DEF SequelInv
  <1>1. /\ dev'[n] = d /\ \A q \in Device : q # n => dev'[q] = dev[q]
        /\ style' = style
    BY DEF Becomes, TypeInv
  <1>2. Both(a, b)
    BY <1>1 DEF Both
  <1>3. CASE a = n
    <2>1. Table(d) /\ Sequel(d, dev[b]) /\ dev'[b] = dev[b]
      BY <1>1, <1>2, <1>3 DEF Both
    <2> QED BY <1>1, <1>3, <2>1 DEF Table, Sequel, Begun, Sided, Fresh
  <1>4. CASE b = n
    <2>1. Table(dev[a]) /\ Sequel(d, dev[a]) /\ dev'[a] = dev[a]
      BY <1>1, <1>2, <1>4 DEF Both, SequelInv
    <2> QED BY <1>1, <1>4, <2>1 DEF Table, Sequel, Begun, Sided, Fresh
  <1>5. CASE a # n /\ b # n
    <2>1. Table(dev[a]) /\ Sequel(dev[a], dev[b]) /\ dev'[a] = dev[a] /\ dev'[b] = dev[b]
      BY <1>1, <1>2, <1>5 DEF SequelInv
    <2> QED BY <1>1, <2>1 DEF Table, Sequel, Begun, Sided, Fresh
  <1> QED BY <1>3, <1>4, <1>5


LEMMA SequelInit ==
  ASSUME CalmMatch
  PROVE  Init => SequelInv
  <1> SUFFICES ASSUME Init, NEW n \in Device, NEW p \in Device, n # p
               PROVE  Table(dev[n]) /\ Sequel(dev[n], dev[p])
    BY DEF SequelInv, Both
  <1>1. ASSUME NEW q \in Device
        PROVE  /\ dev[q].me = q /\ dev[q].turn = (q = Host) /\ dev[q].seq = 0 /\ dev[q].pending = NoBoard
               /\ dev[q].seat = IF q = Host THEN 0 ELSE 1
               /\ dev[q].dealt = TRUE /\ dev[q].board = Fresh(q, 1, 0) /\ dev[q].sent = <<>>
               /\ dev[q].you = "Deciding" /\ dev[q].said = 0 /\ dev[q].games = 1
    <2> DEFINE m == Matched(q)
               s == [m EXCEPT !.seat = IF q = Host THEN 0 ELSE 1, !.games = @ + 1, !.recorded = FALSE]
    <2>1. style \in Styles /\ dev[q] = Start(m, q = Host)
      BY DEF Init
    <2>2. dev[q] = DealSame(s)
      BY Zenon, <2>1, SameDealing
    <2>3. /\ s.me = q /\ s.turn = (q = Host) /\ s.seq = 0 /\ s.pending = NoBoard
          /\ s.seat = IF q = Host THEN 0 ELSE 1
          /\ s.sent = <<>> /\ s.you = "Deciding" /\ s.said = 0 /\ s.games = 1
      BY DEF Matched
    <2>4. "board" \in DOMAIN s /\ "dealt" \in DOMAIN s
      BY DEF Matched
    <2> HIDE DEF s, m
    <2>5. /\ dev[q].me = s.me /\ dev[q].turn = s.turn /\ dev[q].seq = s.seq /\ dev[q].pending = s.pending
          /\ dev[q].seat = s.seat
          /\ dev[q].dealt = TRUE /\ dev[q].board = Fresh(s.me, s.games, 0) /\ dev[q].sent = s.sent
          /\ dev[q].you = s.you /\ dev[q].said = s.said /\ dev[q].games = s.games
      BY <2>2, <2>4 DEF DealSame
    <2> QED BY <2>3, <2>5
  <1>2. style \in Styles
    BY DEF Init
  <1>3. \A q \in Device : Fresh(q, 1, 0) = Fresh(n, 1, 0) /\ Fresh(q, 1, 0).deal = <<0, 1>>
    BY <1>2 DEF CalmMatch, SameDeal, Fresh
  <1>4. ASSUME NEW q \in Device
        PROVE  Table(dev[q])
    <2> DEFINE x == dev[q]
    <2>1. /\ x.me = q /\ x.seq = 0 /\ x.seat = (IF q = Host THEN 0 ELSE 1) /\ x.dealt = TRUE
          /\ x.board = Fresh(q, 1, 0) /\ x.sent = <<>> /\ x.said = 0 /\ x.games = 1
      BY Zenon, <1>1
    <2>2. Fresh(q, 1, 0).deal = <<0, 1>>
      BY <1>3
    <2> HIDE DEF x
    <2>3. DOMAIN x.sent = {}
      BY <2>1
    <2>4. Table(x)
      BY <2>1, <2>2, <2>3 DEF Table, NoNewer
    <2> QED BY <2>4 DEF x
  <1>5. ASSUME NEW a \in Device, NEW b \in Device, a # b
        PROVE  /\ Carried(dev[a], dev[b])
               /\ a = Host => HasTurn(dev[a], dev[b])
               /\ Shared(dev[a], dev[b]) /\ Sided(dev[a], dev[b])
    <2> DEFINE x == dev[a]
               y == dev[b]
    <2>1. /\ x.turn = (a = Host) /\ x.seq = 0 /\ x.pending = NoBoard /\ x.sent = <<>>
          /\ x.seat = (IF a = Host THEN 0 ELSE 1) /\ x.board = Fresh(a, 1, 0) /\ x.you = "Deciding"
      BY Zenon, <1>1
    <2>2. /\ y.turn = (b = Host) /\ y.seq = 0 /\ y.pending = NoBoard
          /\ y.seat = (IF b = Host THEN 0 ELSE 1) /\ y.board = Fresh(b, 1, 0)
      BY Zenon, <1>1
    <2>3. Fresh(a, 1, 0) = Fresh(b, 1, 0)
      BY <1>3
    <2>4. a = Host <=> b # Host
      BY <1>5, PairAssumption
    <2> HIDE DEF x, y
    <2>5. DOMAIN x.sent = {}
      BY <2>1
    <2>6. Carried(x, y)
      BY <2>1, <2>2, <2>5 DEF Carried
    <2>7. a = Host => HasTurn(x, y)
      BY <2>1, <2>2, <2>4 DEF HasTurn
    <2>8. Shared(x, y)
      BY <2>1, <2>2, <2>3, <2>4 DEF Shared, Newest
    <2>9. Sided(x, y)
      <3>1. x.board.turn = 0 /\ ~Sends(x, y)
        BY <2>1, <2>2 DEF Fresh, Sends
      <3> QED BY <2>1, <3>1 DEF Sided, HasTurn, Newest
    <2> QED BY <2>6, <2>7, <2>8, <2>9 DEF x, y
  <1>6. n = Host \/ p = Host
    BY PairAssumption
  <1>7. dev[n].games = 1 /\ dev[p].games = 1
    BY <1>1
  <1> QED BY <1>4, <1>5, <1>6, <1>7 DEF Sequel

LEMMA SequelNext ==
  ASSUME CalmMatch
  PROVE  TypeInv /\ QuestionInv /\ SequelInv /\ [Next]_vars => SequelInv'
  <1> SUFFICES ASSUME TypeInv, QuestionInv, SequelInv, [Next]_vars PROVE SequelInv'
    OBVIOUS
  <1>0. style \in Styles /\ \A q \in Device : dev[q] \in Machine /\ dev[q].me = q
    BY DEF TypeInv
  <1>1. CASE UNCHANGED vars
    BY <1>1 DEF SequelInv, Both, vars, Table, Sequel, Begun, Sided, Fresh
  <1> SUFFICES ASSUME NEW n \in Device,
                      \/ PassIdle(n) \/ PassAsk(n) \/ PassMove(n) \/ PassLeave(n) \/ Paint(n)
                      \/ HearState(n) \/ HearSay(n) \/ HearBye(n) \/ Silence(n)
               PROVE  SequelInv'
    BY <1>1 DEF Next
  <1>2. ASSUME NEW p \in Device, Both(n, p)
        PROVE  /\ dev[n] \in Machine /\ dev[p] \in Machine /\ dev[n].me # dev[p].me
               /\ dev[n].session = "Playing"
               /\ Table(dev[n]) /\ Table(dev[p]) /\ Pair(dev[n], dev[p]) /\ Sequel(dev[n], dev[p])
    BY <1>0, <1>2 DEF Both, QuestionInv, SequelInv
  <1>3. ASSUME NEW expired \in BOOLEAN
        PROVE  /\ Driven(dev[n], expired) \in Machine
               /\ Driven(dev[n], expired).session = dev[n].session
               /\ \A p \in Device : Both(n, p) =>
                    /\ Table(Driven(dev[n], expired)) /\ Sequel(Driven(dev[n], expired), dev[p])
                    /\ Pair(Driven(dev[n], expired), dev[p])
                    /\ Driven(dev[n], expired).me = n
                    /\ Driven(dev[n], expired).seq = dev[n].seq
                    /\ Driven(dev[n], expired).said = dev[n].said
    <2>1. dev[n] \in Machine /\ style \in Styles /\ dev[n].me = n
      BY <1>0
    <2>2. Driven(dev[n], expired) \in Machine /\ Driven(dev[n], expired).session = dev[n].session
      BY Zenon, <2>1, DrivenType, DrivenHand
    <2>3. ASSUME NEW p \in Device, Both(n, p)
          PROVE  /\ Table(Driven(dev[n], expired)) /\ Sequel(Driven(dev[n], expired), dev[p])
                 /\ Pair(Driven(dev[n], expired), dev[p])
                 /\ Driven(dev[n], expired).me = n
                 /\ Driven(dev[n], expired).seq = dev[n].seq
                 /\ Driven(dev[n], expired).said = dev[n].said
      <3>1. /\ dev[p] \in Machine /\ dev[n].me # dev[p].me /\ dev[n].session = "Playing"
            /\ Table(dev[n]) /\ Table(dev[p]) /\ Pair(dev[n], dev[p]) /\ Sequel(dev[n], dev[p])
        BY <1>2, <2>3
      <3>2. Pair(Driven(dev[n], expired), dev[p])
        BY <2>1, <3>1, PairDriven
      <3>3. /\ Table(Driven(dev[n], expired)) /\ Sequel(Driven(dev[n], expired), dev[p])
            /\ Driven(dev[n], expired).seq = dev[n].seq /\ Driven(dev[n], expired).said = dev[n].said
            /\ Driven(dev[n], expired).me = dev[n].me
        BY <2>1, <3>1, SequelDriven
      <3> QED BY <2>1, <3>2, <3>3
    <2> QED BY <2>2, <2>3
  <1>4. CASE PassIdle(n)
    <2>1. PICK expired \in BOOLEAN : Becomes(n, Driven(dev[n], expired))
      BY <1>4 DEF PassIdle
    <2> QED BY Zenon, <1>3, <2>1, SequelStep
  <1> DEFINE d == Driven(dev[n], FALSE)
  <1>5. ASSUME NEW p \in Device, Both(n, p), MayTap(n)
        PROVE  Heard(d, dev[p])
    <2>1. Heard(dev[n], dev[p])
      BY <1>5, TapIsHeard
    <2>2. d.seq = dev[n].seq /\ d.said = dev[n].said
      BY <1>3, <1>5
    <2> HIDE DEF d
    <2> QED BY <2>1, <2>2 DEF Heard, Quiet, Owed
  <1>6. CASE PassAsk(n)
    <2>1. MayAsk(d) /\ Becomes(n, Propose(d)) /\ MayTap(n)
      BY <1>6 DEF PassAsk
    <2>2. d.you # "Ready"
      BY <2>1 DEF MayAsk, CalmMatch, SameDeal
    <2>3. d \in Machine /\ d.session = dev[n].session
      BY <1>3
    <2>4. \A p \in Device : Both(n, p) =>
            Table(d) /\ Sequel(d, dev[p]) /\ Pair(d, dev[p]) /\ d.me = n /\ Heard(d, dev[p])
      BY <1>3, <1>5, <2>1
    <2> HIDE DEF d
    <2>5. Propose(d) \in Machine /\ Propose(d).session = d.session
      BY <1>0, <2>3, ProposeType, ProposeSession
    <2>6. ASSUME NEW p \in Device, Both(n, p)
          PROVE  Table(Propose(d)) /\ Sequel(Propose(d), dev[p])
      <3>1. /\ dev[p] \in Machine /\ d.session = "Playing" /\ Table(dev[p]) /\ dev[p].me = p /\ n # p
        BY <1>0, <1>2, <2>3, <2>6 DEF Both
      <3>2. Table(d) /\ Sequel(d, dev[p]) /\ Pair(d, dev[p]) /\ d.me # dev[p].me /\ Heard(d, dev[p])
        BY <2>4, <2>6, <3>1
      <3> QED BY <1>0, <2>2, <2>3, <3>1, <3>2, SequelAnswers
    <2>7. Propose(d).session = "Playing" => dev[n].session = "Playing"
      BY <2>3, <2>5
    <2> QED BY Zenon, <2>1, <2>5, <2>6, <2>7, SequelStep
  <1>7. CASE PassMove(n)
    <2>1. /\ MayMove(d) /\ MayTap(n)
          /\ \E wins \in IF d.board.plies + 1 = MaxPlies THEN {TRUE} ELSE BOOLEAN :
               Becomes(n, Moved(d, wins))
      BY <1>7 DEF PassMove
    <2>2. PICK wins \in BOOLEAN : (d.board.plies + 1 = MaxPlies => wins) /\ Becomes(n, Moved(d, wins))
      BY <2>1
    <2>3. d \in Machine /\ d.session = dev[n].session /\ ~Over(d.board) /\ YourTurn(d)
      BY <1>3, <2>1 DEF MayMove
    <2>4. \A p \in Device : Both(n, p) =>
            Table(d) /\ Sequel(d, dev[p]) /\ Pair(d, dev[p]) /\ Heard(d, dev[p])
      BY <1>3, <1>5, <2>1
    <2>5. ~d.asking
      <3>1. d.stage = "Final" => GameOver(d)
        BY <1>0, DrivenStage
      <3> HIDE DEF d
      <3>2. d.stage # "Final"
        BY <2>3, <3>1 DEF GameOver
      <3> QED BY <2>1, <3>2 DEF MayMove, OwnsScreen
    <2> HIDE DEF d
    <2>6. Moved(d, wins) \in Machine /\ Hand(Moved(d, wins)) = Hand(d)
      BY <2>2, <2>3, MovedType, MovedHand
    <2>7. Moved(d, wins).session = dev[n].session
      BY <2>3, <2>6 DEF Hand
    <2>8. ASSUME NEW p \in Device, Both(n, p)
          PROVE  Table(Moved(d, wins)) /\ Sequel(Moved(d, wins), dev[p])
      <3>1. dev[p] \in Machine /\ Table(dev[p])
        BY <1>2, <2>8
      <3> QED BY <2>2, <2>3, <2>4, <2>5, <2>8, <3>1, SequelMoves
    <2> QED BY Zenon, <2>2, <2>6, <2>7, <2>8, SequelStep
  <1>8. CASE PassLeave(n)
    <2>1. Becomes(n, LeaveLink(d)) /\ d \in Machine
      BY <1>3, <1>8 DEF PassLeave
    <2> HIDE DEF d
    <2>2. LeaveLink(d) \in Machine /\ LeaveLink(d).session = "Off"
      BY <2>1, LeaveType, LeaveHand
    <2>3. LeaveLink(d).session # "Playing"
      BY <2>2
    <2> QED BY Zenon, <2>1, <2>2, <2>3, SequelStep
  <1>9. CASE Paint(n)
    <2> DEFINE r == [dev[n] EXCEPT !.ready = TRUE]
    <2>1. r \in Machine /\ Becomes(n, r)
      BY <1>0, <1>9, SetReady DEF Paint
    <2>2. Hand(r) = Hand(dev[n]) /\ r.session = dev[n].session
      BY DEF Hand
    <2>3. GameOf(r) = GameOf(dev[n]) /\ r.sent = dev[n].sent
      BY DEF GameOf
    <2> HIDE DEF r
    <2>4. ASSUME NEW p \in Device, Both(n, p)
          PROVE  Table(r) /\ Sequel(r, dev[p])
      BY <1>2, <2>2, <2>3, <2>4, SequelSame
    <2> QED BY Zenon, <2>1, <2>2, <2>4, SequelStep
  <1>10. CASE HearState(n)
    <2>1. PICK i \in DOMAIN dev[Other(n)].sent :
            /\ dev[Other(n)].sent[i].kind = "State" /\ dev[Other(n)].sent[i].seq > dev[n].seq
            /\ Becomes(n, [dev[n] EXCEPT !.pending = dev[Other(n)].sent[i].load,
                                         !.seq = dev[Other(n)].sent[i].seq, !.turn = TRUE])
      BY <1>10 DEF HearState
    <2>2. dev[Other(n)].sent[i].seq \in Nat /\ dev[Other(n)].sent[i].load \in GoodBoard
      BY <2>1, Packet, OtherIs
    <2> DEFINE r == [dev[n] EXCEPT !.pending = dev[Other(n)].sent[i].load,
                                   !.seq = dev[Other(n)].sent[i].seq, !.turn = TRUE]
    <2>3. r \in Machine /\ Becomes(n, r)
      BY <1>0, <2>1, <2>2, SetPending
    <2>4. r.session = dev[n].session
      OBVIOUS
    <2>5. ASSUME NEW p \in Device, Both(n, p)
          PROVE  Table(r) /\ Sequel(r, dev[p])
      <3>1. p = Other(n)
        BY <2>5, OtherIs DEF Both
      <3>2. /\ dev[n] \in Machine /\ dev[p] \in Machine
            /\ Table(dev[n]) /\ Table(dev[p]) /\ Pair(dev[n], dev[p]) /\ Sequel(dev[n], dev[p])
        BY <1>2, <2>5
      <3> DEFINE k == dev[p].sent[i].seq
      <3>3. k \in Nat /\ dev[n].seq \in Nat
        BY <2>2, <3>1, <3>2 DEF Machine
      <3>4. dev[p].sent[i].load = dev[p].board /\ k =< dev[p].seq
        BY <2>1, <3>1, <3>2 DEF Sequel, Carried, Table, NoNewer
      <3>5. dev[n].seq < k
        BY <2>1, <3>1, <3>3
      <3>6. r = [dev[n] EXCEPT !.pending = dev[p].board, !.seq = k, !.turn = TRUE]
        BY Zenon, <3>1, <3>4
      <3> HIDE DEF r, k
      <3> QED BY <2>3, <3>2, <3>3, <3>4, <3>5, <3>6, SequelHearsState
    <2> HIDE DEF r
    <2> QED BY Zenon, <2>3, <2>4, <2>5, SequelStep
  <1>11. CASE HearSay(n)
    <2>1. PICK i \in DOMAIN dev[Other(n)].sent :
            /\ dev[Other(n)].sent[i].kind = "Say" /\ dev[Other(n)].sent[i].seq > dev[n].noteSeq
            /\ Becomes(n, [dev[n] EXCEPT !.note = dev[Other(n)].sent[i].load,
                                         !.noteSeq = dev[Other(n)].sent[i].seq])
      BY <1>11 DEF HearSay
    <2>2. dev[Other(n)].sent[i].seq \in Nat /\ dev[Other(n)].sent[i].load \in {"again", "leaving"}
      BY <2>1, Packet, OtherIs
    <2> DEFINE r == [dev[n] EXCEPT !.note = dev[Other(n)].sent[i].load,
                                   !.noteSeq = dev[Other(n)].sent[i].seq]
    <2>3. r \in Machine /\ Becomes(n, r)
      BY <1>0, <2>1, <2>2, SetNote
    <2>4. r.session = dev[n].session
      OBVIOUS
    <2>5. ASSUME NEW p \in Device, Both(n, p)
          PROVE  Table(r) /\ Sequel(r, dev[p])
      <3>1. p = Other(n) /\ SaysAgain(dev[p])
        BY <2>5, OtherIs DEF QuestionInv, Both
      <3>2. /\ dev[n] \in Machine /\ dev[p] \in Machine
            /\ Table(dev[n]) /\ Pair(dev[n], dev[p]) /\ Sequel(dev[n], dev[p])
        BY <1>2, <2>5
      <3> DEFINE k == dev[p].sent[i].seq
      <3>3. k \in Nat /\ k =< dev[p].said /\ dev[p].sent[i].load = "again"
        BY <2>1, <2>2, <3>1 DEF SaysAgain, AllAgain
      <3>4. dev[n].noteSeq < k
        <4>1. dev[n].noteSeq \in Nat
          BY <3>2 DEF Machine
        <4> QED BY <2>1, <3>1, <3>3, <4>1
      <3>5. r = [dev[n] EXCEPT !.note = "again", !.noteSeq = k]
        BY Zenon, <3>1, <3>3
      <3> HIDE DEF r, k
      <3> QED BY <2>3, <3>2, <3>3, <3>4, <3>5, SequelHearsSay
    <2> HIDE DEF r
    <2> QED BY Zenon, <2>3, <2>4, <2>5, SequelStep
  <1>12. CASE HearBye(n)
    <2> DEFINE r == [dev[n] EXCEPT !.session = "Ended", !.why = "PeerLeft", !.turn = FALSE]
    <2>1. r \in Machine /\ Becomes(n, r)
      BY <1>0, <1>12, SetEnded DEF HearBye
    <2>2. r.session # "Playing"
      BY <1>0 DEF Machine
    <2> HIDE DEF r
    <2> QED BY Zenon, <2>1, <2>2, SequelStep
  <1>13. CASE Silence(n)
    <2> DEFINE r == [dev[n] EXCEPT !.session = "Ended", !.why = "PeerLost", !.turn = FALSE]
    <2>1. r \in Machine /\ Becomes(n, r)
      BY <1>0, <1>13, SetEnded DEF Silence
    <2>2. r.session # "Playing"
      BY <1>0 DEF Machine
    <2> HIDE DEF r
    <2> QED BY Zenon, <2>1, <2>2, SequelStep
  <1> QED BY <1>4, <1>6, <1>7, <1>8, <1>9, <1>10, <1>11, <1>12, <1>13


LEMMA SequelHolds ==
  ASSUME CalmMatch
  PROVE  Spec => [](TypeInv /\ QuestionInv /\ SequelInv)
  <1>1. Init => TypeInv /\ QuestionInv /\ SequelInv
    BY TypeInit, QuestionInit, SequelInit
  <1>2. TypeInv /\ QuestionInv /\ SequelInv /\ [Next]_vars => (TypeInv /\ QuestionInv /\ SequelInv)'
    BY TypeNext, QuestionNext, SequelNext DEF CalmMatch, SameDeal
  <1> QED BY <1>1, <1>2, PTL DEF Spec

\* The theorems below assume of the players what the code leaves to the air: that
\* a tap sends nothing while what the same player sent before is still to be heard
\* and acted on (Swift).  A NEW GAME or PLAY AGAIN that overtakes the move made
\* before it gives both devices the second seat and no game in common: SeatsDiffer,
\* SameGame, NotStuck and CountedOnce are false without it.

\* Between calm players the two devices play different sides in every game of the
\* match, though each works out its own seat from what it holds when it starts
\* (LinkActivity.cpp:203-211).
THEOREM DifferentSides ==
  ASSUME SameDeal, Patient = TRUE, Swift = TRUE
  PROVE  Spec => []SeatsDiffer
  <1>0. CalmMatch
    BY DEF CalmMatch
  <1>1. SequelInv => SeatsDiffer
    BY DEF SequelInv, Sequel, Shared, SeatsDiffer
  <1>2. Spec => [](TypeInv /\ QuestionInv /\ SequelInv)
    BY <1>0, SequelHolds
  <1> QED BY <1>1, <1>2, PTL

\* What a settled pair holds: one turn, nothing under way.
LEMMA SettledTurn ==
  ASSUME TypeInv, SequelInv, NEW n \in Device, NEW p \in Device, Settled(n, p)
  PROVE  /\ dev[n].board = dev[p].board
         /\ dev[n].turn \/ dev[p].turn
         /\ (style.seatBy = "turn" /\ dev[n].turn /\ ~Over(dev[n].board)) => dev[n].board.turn = dev[n].seat
  <1>1. Both(n, p) /\ Both(p, n) /\ p = Other(n) /\ n = Other(p)
    BY OtherIs DEF Settled, Both
  <1>2. /\ Table(dev[n]) /\ Table(dev[p]) /\ Sequel(dev[n], dev[p])
        /\ Shared(dev[n], dev[p]) /\ Shared(dev[p], dev[n]) /\ Sided(dev[n], dev[p])
    BY <1>1 DEF SequelInv, Sequel, Settled
  <1>3. ASSUME NEW a \in Device, NEW b \in Device, b = Other(a), Unheard(a) = {}, Carried(dev[a], dev[b])
        PROVE  ~Sends(dev[a], dev[b])
    <2> SUFFICES ASSUME Sends(dev[a], dev[b]) PROVE FALSE
      OBVIOUS
    <2>0. dev[a].seq \in Nat /\ dev[b].seq \in Nat
      BY DEF TypeInv, Machine
    <2>1. dev[a].seq > dev[b].seq
      BY <2>0 DEF Sends
    <2>2. PICK i \in DOMAIN dev[a].sent : dev[a].sent[i].kind = "State" /\ dev[a].sent[i].seq = dev[a].seq
      BY <1>3, <2>0, <2>1 DEF Carried, InLog
    <2>3. i \in Unheard(a)
      BY <1>3, <2>1, <2>2 DEF Unheard
    <2> QED BY <1>3, <2>3
  <1>4. Unheard(n) = {} /\ Unheard(p) = {} /\ dev[n].pending = NoBoard /\ dev[p].pending = NoBoard
    BY DEF Settled
  <1>5. ~Sends(dev[n], dev[p]) /\ ~Sends(dev[p], dev[n])
    BY <1>1, <1>2, <1>3, <1>4 DEF Sequel
  <1>6. HasTurn(dev[n], dev[p]) \/ HasTurn(dev[p], dev[n])
    BY <1>2, <1>5 DEF Sequel
  <1> QED BY <1>2, <1>4, <1>6 DEF Shared, Sided, Newest, HasTurn

\* In a running game the turn is all it takes to move.
LEMMA SettledMoves ==
  ASSUME CalmMatch, TypeInv, SequelInv, NEW n \in Device, NEW p \in Device, Running(n, p),
         NEW q \in {n, p}, dev[q].turn
  PROVE  MayMove(dev[q])
  <1>1. /\ dev[q].dealt /\ dev[q].session = "Playing" /\ dev[q].pending = NoBoard
        /\ ~dev[q].asking /\ ~GameOver(dev[q]) /\ dev[q].ready
    BY DEF Running, Settled, Both, SequelInv, Table
  <1>2. style.opening = "both"
    BY DEF TypeInv, CalmMatch, SameDeal
  <1> QED BY <1>1, <1>2 DEF MayMove, OwnsScreen, YourTurn, GameOver

\* Between calm players, when nothing is under way and neither is asking, the two
\* boards are one, in every game of the match (LinkActivity.cpp:83-179).
THEOREM OneBoard ==
  ASSUME SameDeal, Patient = TRUE, Swift = TRUE
  PROVE  Spec => []SameGame
  <1>0. CalmMatch
    BY DEF CalmMatch
  <1>1. TypeInv /\ SequelInv => SameGame
    BY SettledTurn DEF SameGame
  <1>2. Spec => [](TypeInv /\ QuestionInv /\ SequelInv)
    BY <1>0, SequelHolds
  <1> QED BY <1>1, <1>2, PTL

\* And one of the two has the move, until the game is over: between calm players
\* no game after the first begins with both waiting for the other
\* (LinkActivity.cpp:203-211, LinkPlay.cpp:124-130).
THEOREM SomebodyHasTheTurn ==
  ASSUME SameDeal, Patient = TRUE, Swift = TRUE
  PROVE  Spec => []OneMayMove
  <1>0. CalmMatch
    BY DEF CalmMatch
  <1>1. TypeInv /\ SequelInv => OneMayMove
    <2> SUFFICES ASSUME TypeInv, SequelInv, NEW n \in Device, NEW p \in Device, Running(n, p)
                 PROVE  MayMove(dev[n]) \/ MayMove(dev[p])
      BY DEF OneMayMove
    <2>1. Settled(n, p) /\ (dev[n].turn \/ dev[p].turn)
      BY SettledTurn DEF Running
    <2>2. ASSUME NEW q \in {n, p}, dev[q].turn
          PROVE  MayMove(dev[q])
      BY <1>0, <2>1, <2>2, SettledMoves
    <2> QED BY <2>1, <2>2
  <1>2. Spec => [](TypeInv /\ QuestionInv /\ SequelInv)
    BY <1>0, SequelHolds
  <1> QED BY <1>1, <1>2, PTL

\* In the games that seat by the turn it is also the move of that device's own
\* side, in every game of a match between calm players
\* (ChessActivity.cpp and the others whose onRematch() asks linkYourTurn()).
THEOREM SomebodyMoves ==
  ASSUME SameDeal, Patient = TRUE, Swift = TRUE, \A s \in Styles : s.seatBy = "turn"
  PROVE  Spec => []NotStuck
  <1>0. CalmMatch
    BY DEF CalmMatch
  <1>1. TypeInv /\ SequelInv => NotStuck
    <2> SUFFICES ASSUME TypeInv, SequelInv, NEW n \in Device, NEW p \in Device, Running(n, p)
                 PROVE  \E q \in {n, p} : MayMove(dev[q]) /\ dev[q].board.turn = dev[q].seat
      BY DEF NotStuck
    <2>1. Settled(n, p) /\ Settled(p, n) /\ style.seatBy = "turn"
      BY DEF Running, Settled, Both, TypeInv
    <2>2. PICK q \in {n, p} : dev[q].turn
      BY <2>1, SettledTurn
    <2>3. MayMove(dev[q]) /\ ~Over(dev[q].board)
      BY <1>0, <2>1, <2>2, SettledMoves DEF MayMove
    <2>4. dev[q].board.turn = dev[q].seat
      BY <2>1, <2>2, <2>3, SettledTurn
    <2> QED BY <2>3, <2>4
  <1>2. Spec => [](TypeInv /\ QuestionInv /\ SequelInv)
    BY <1>0, SequelHolds
  <1> QED BY <1>1, <1>2, PTL

------------------------------------------------------------------------------
(* A finished game is counted once on each device.                          *)

\* What a device says of a game: the results it has counted, and the one its
\* newest board holds.
Outcome(b, s) == [deal |-> b.deal, won |-> b.winner = s]
Counts(d) == {d.tally[i] : i \in DOMAIN d.tally}
Claims(d) == Counts(d) \cup (IF Over(Newest(d)) THEN {Outcome(Newest(d), d.seat)} ELSE {})

\* The other's answer is here: the next pass, or the next tap, may start.
Begins(d) == d.note = "again" \/ d.them = "Ready"

\* One entry for each game at most, and the entry of the game on the board is
\* what the board says.  A state that waits is of the game on the board, which
\* was not over, and no answer came before it.
Own(d) ==
  /\ d.dealt /\ d.games >= 1 /\ d.board.deal = <<0, d.games>>
  /\ \A i \in DOMAIN d.tally : \E k \in 1..d.games : d.tally[i].deal = <<0, k>>
  /\ \A i, j \in DOMAIN d.tally : d.tally[i].deal = d.tally[j].deal => i = j
  /\ d.recorded => Over(d.board)
  /\ \A i \in DOMAIN d.tally :
       d.tally[i].deal = d.board.deal => d.recorded /\ d.tally[i] = Outcome(d.board, d.seat)
  /\ d.pending # NoBoard =>
       /\ d.pending.deal = d.board.deal /\ ~Over(d.board) /\ ~Begins(d)
       /\ d.session = "Playing" => d.turn

\* Two claims about one game: one has won it.
Agreed(d, e) == \A x \in Claims(d), y \in Claims(e) : x.deal = y.deal => x.won # y.won

\* Who has the turn in a game that is not over is the only one who can end it.
Open(d, e) == d.turn /\ ~Over(Newest(d)) => \A x \in Claims(e) : x.deal # d.board.deal

\* The other has no claim about a game that d has still to start.
NoFuture(d, e) == \A x \in Claims(e) : x.deal[2] =< d.games

\* Where a state of e is on its way, the game of d was not over.
Clean(d, e) == Sends(e, d) => ~Over(d.board)

\* No answer of e is on its way to d.
NoCall(d, e) ==
  \A i \in DOMAIN e.sent :
    e.sent[i].kind = "Say" /\ e.sent[i].seq > d.noteSeq => e.sent[i].load # "again"

\* What d may still hear of e, even if e has gone: the board e holds, and no
\* answer behind it.
Coming(d, e) ==
  /\ \A i \in DOMAIN e.sent :
       e.sent[i].kind = "State" /\ e.sent[i].seq > d.seq =>
         e.sent[i].load = e.board /\ e.sent[i].seq =< e.seq
  /\ e.seq > d.seq =>
       /\ e.seq = d.seq + 1 /\ ~d.turn /\ d.pending = NoBoard /\ e.pending = NoBoard
       /\ d.games = e.games /\ d.seat # e.seat /\ ~Over(d.board)
       /\ ~Begins(d) /\ NoCall(d, e) /\ ~(e.note = "again" /\ e.you = "Ready")
  /\ d.pending # NoBoard => NoCall(d, e)

Counted(d, e) ==
  /\ Agreed(d, e)
  /\ d.session = "Playing" => Open(d, e) /\ NoFuture(d, e)
  /\ d.session = "Playing" /\ e.session = "Playing" => Clean(d, e)
  /\ d.session = "Playing" /\ e.session # "Playing" => Coming(d, e)

CountInv ==
  \A n \in Device : Own(dev[n]) /\ \A p \in Device \ {n} : Counted(dev[n], dev[p])

LEMMA FewerClaims ==
  ASSUME NEW d, NEW e, NEW r, Claims(r) \subseteq Claims(d)
  PROVE  /\ Agreed(d, e) => Agreed(r, e)
         /\ Agreed(e, d) => Agreed(e, r)
         /\ Open(e, d) => Open(e, r)
         /\ NoFuture(e, d) => NoFuture(e, r)
  BY DEF Agreed, Open, NoFuture

\* What the operators do to the count.
LEMMA RematchScore ==
  ASSUME CalmMatch, style \in Styles, NEW d \in Machine
  PROVE  StartRematch(d).tally = d.tally /\ StartRematch(d).recorded = FALSE
  <1> DEFINE c == [d EXCEPT !.stage = "Live", !.lastStage = "Live", !.asking = FALSE, !.you = "Deciding", !.them = "Deciding"]
             s == [c EXCEPT !.seat = IF GoesFirst(d) THEN 0 ELSE 1, !.games = @ + 1, !.recorded = FALSE]
  <1>1. StartRematch(d) = DealSame(s)
    BY Zenon, SameDealing DEF StartRematch
  <1>2. s.tally = d.tally /\ s.recorded = FALSE
    BY DEF Machine
  <1> HIDE DEF s
  <1>3. DealSame(s).tally = s.tally /\ DealSame(s).recorded = s.recorded
    BY DEF DealSame
  <1> QED BY <1>1, <1>2, <1>3

LEMMA NoteScore ==
  ASSUME CalmMatch, style \in Styles, NEW d \in Machine
  PROVE  /\ HearNote(d).tally = d.tally
         /\ d.note = "again" /\ d.you = "Ready" => HearNote(d).recorded = FALSE
         /\ ~(d.note = "again" /\ d.you = "Ready") => HearNote(d).recorded = d.recorded
  <1> DEFINE told == [d EXCEPT !.note = "none", !.asking = TRUE]
             ready == [told EXCEPT !.them = "Ready"]
             left == [told EXCEPT !.them = "Left"]
             deciding == [told EXCEPT !.them = "Ready", !.you = "Deciding"]
  <1>1. ready \in Machine
    BY ZenonT(40) DEF Machine
  <1>2. /\ ready.tally = d.tally
        /\ left.tally = d.tally /\ left.recorded = d.recorded
        /\ deciding.tally = d.tally /\ deciding.recorded = d.recorded
    OBVIOUS
  <1>3. d.note \in {"none", "again", "leaving"}
    BY DEF Machine
  <1> HIDE DEF told, ready, left, deciding
  <1>4. HearNote(d) = CASE d.note = "none" -> d
                        [] d.note = "leaving" -> left
                        [] d.note = "again" -> IF Agrees(d) THEN StartRematch(ready) ELSE deciding
    BY Zenon DEF HearNote, told, ready, left, deciding
  <1>5. StartRematch(ready).tally = ready.tally /\ StartRematch(ready).recorded = FALSE
    BY <1>1, RematchScore
  <1> QED BY <1>2, <1>3, <1>4, <1>5 DEF Agrees

\* The pass counts the result of a game that is over, once.
LEMMA DrivenScore ==
  ASSUME CalmMatch, style \in Styles, NEW d \in Machine, NEW expired \in BOOLEAN
  PROVE  LET h == HearNote(d)
             r == Driven(d, expired)
         IN /\ r.note = h.note /\ r.noteSeq = h.noteSeq /\ r.games = h.games
            /\ r.session = "Ended" => r.them # "Ready"
            /\ r.session = "Playing" /\ r.them = "Ready" => h.them = "Ready"
            /\ \/ r.tally = h.tally /\ r.recorded = h.recorded
               \/ /\ ~h.recorded /\ r.recorded = TRUE /\ Over(r.board)
                  /\ r.tally = Append(h.tally, Outcome(r.board, r.seat))
  <1> DEFINE h == HearNote(d)
             t == TakeState(h)
             c == EndgameUpdate(t, expired)
             f == Gone(Offer(c))
             r == Driven(d, expired)
  <1>1. h \in Machine /\ t \in Machine
    BY HearNoteType, TakeStateType
  <1>2. t = IF h.pending = NoBoard THEN h
            ELSE [h EXCEPT !.board = h.pending, !.pending = NoBoard, !.dealt = TRUE]
    BY Zenon, SameDealing
  <1>3. Hand(t) = Hand(h) /\ Hand(c) = Hand(t)
    BY BoardKeepsHand
  <1>4. r = Handover(d, f)
    BY Zenon DEF Driven, r, f, c, t, h
  <1> HIDE DEF h
  <1>5. t.tally = h.tally /\ t.recorded = h.recorded
    BY <1>1, <1>2 DEF Machine
  <1> HIDE DEF t
  <1>6. \/ c.tally = t.tally /\ c.recorded = t.recorded
        \/ /\ ~t.recorded /\ c.recorded = TRUE /\ Over(c.board)
           /\ c.tally = Append(t.tally, Outcome(c.board, c.seat))
    BY <1>1 DEF EndgameUpdate, Record, GameOver, Outcome, Machine
  <1> HIDE DEF c
  <1>7. /\ f.tally = c.tally /\ f.recorded = c.recorded /\ f.board = c.board /\ f.seat = c.seat
        /\ f.note = c.note /\ f.noteSeq = c.noteSeq /\ f.games = c.games /\ f.session = c.session
    BY DEF Gone, Offer
  <1>8. /\ f.session = "Ended" => f.them # "Ready"
        /\ f.session = "Playing" /\ f.them = "Ready" => c.them = "Ready"
    BY DEF Gone, Offer
  <1> HIDE DEF f, r
  <1>9. /\ r.tally = f.tally /\ r.recorded = f.recorded /\ r.board = f.board /\ r.seat = f.seat
        /\ r.note = f.note /\ r.noteSeq = f.noteSeq /\ r.games = f.games /\ r.session = f.session
        /\ r.them = f.them
    BY <1>4 DEF Handover
  <1>10. c.note = h.note /\ c.noteSeq = h.noteSeq /\ c.games = h.games /\ c.them = h.them
    BY <1>3 DEF Hand
  <1>11. /\ r.note = h.note /\ r.noteSeq = h.noteSeq /\ r.games = h.games
         /\ r.session = "Ended" => r.them # "Ready"
         /\ r.session = "Playing" /\ r.them = "Ready" => h.them = "Ready"
    BY <1>7, <1>8, <1>9, <1>10
  <1>12. \/ r.tally = h.tally /\ r.recorded = h.recorded
         \/ /\ ~h.recorded /\ r.recorded = TRUE /\ Over(r.board)
            /\ r.tally = Append(h.tally, Outcome(r.board, r.seat))
    BY <1>5, <1>6, <1>7, <1>9
  <1> QED BY <1>11, <1>12 DEF h, r

LEMMA ProposeScore ==
  ASSUME CalmMatch, style \in Styles, NEW d \in Machine
  PROVE  /\ Propose(d).tally = d.tally
         /\ TheyAgreed(d) => Propose(d).recorded = FALSE
         /\ ~TheyAgreed(d) => Propose(d).recorded = d.recorded
  <1> DEFINE st == IF d.stage = "Final" THEN "Offer" ELSE d.stage
             up == [d EXCEPT !.you = "Ready", !.stage = IF @ = "Final" THEN "Offer" ELSE @]
             asked == Say(up, "again")
             open == [asked EXCEPT !.asking = TRUE, !.them = IF @ \in {"Left", "Lost"} THEN @ ELSE "Deciding"]
  <1>1. st \in Stage /\ up = [d EXCEPT !.you = "Ready", !.stage = st]
    BY DEF Machine, Stage
  <1>2. up.tally = d.tally /\ up.recorded = d.recorded
    OBVIOUS
  <1> HIDE DEF st, up
  <1>3. up \in Machine
    BY ZenonT(40), <1>1 DEF Machine
  <1>4. asked \in Machine
    BY <1>3, SayType
  <1>5. asked.tally = d.tally /\ asked.recorded = d.recorded
    BY <1>2 DEF Say
  <1>6. Propose(d) = IF TheyAgreed(d) THEN StartRematch(asked) ELSE open
    BY Zenon DEF Propose, asked, up, open
  <1> HIDE DEF asked
  <1>7. open.tally = asked.tally /\ open.recorded = asked.recorded
    OBVIOUS
  <1>8. StartRematch(asked).tally = asked.tally /\ StartRematch(asked).recorded = FALSE
    BY <1>4, RematchScore
  <1> HIDE DEF open
  <1> QED BY <1>5, <1>6, <1>7, <1>8

LEMMA ProposeGone ==
  ASSUME style \in Styles, NEW d \in Machine, d.session # "Playing", ~TheyAgreed(d)
  PROVE  LET r == Propose(d)
         IN /\ GameOf(r) = GameOf(d) /\ r.sent = d.sent /\ r.note = d.note /\ r.noteSeq = d.noteSeq
            /\ r.games = d.games /\ r.them # "Ready"
  <1> DEFINE up == [d EXCEPT !.you = "Ready", !.stage = IF @ = "Final" THEN "Offer" ELSE @]
             asked == Say(up, "again")
             open == [asked EXCEPT !.asking = TRUE, !.them = IF @ \in {"Left", "Lost"} THEN @ ELSE "Deciding"]
  <1>1. /\ GameOf(up) = GameOf(d) /\ up.sent = d.sent /\ up.note = d.note /\ up.noteSeq = d.noteSeq
        /\ up.games = d.games /\ up.session = d.session /\ "them" \in DOMAIN up
    BY DEF GameOf, Machine
  <1>2. Propose(d) = open
    BY Zenon DEF Propose, asked, up, open
  <1> HIDE DEF up
  <1>3. asked = up
    BY <1>1 DEF Say
  <1> HIDE DEF asked
  <1>4. /\ GameOf(open) = GameOf(asked) /\ open.sent = asked.sent /\ open.note = asked.note
        /\ open.noteSeq = asked.noteSeq /\ open.games = asked.games
    BY DEF GameOf
  <1>5. open.them # "Ready"
    BY <1>1, <1>3
  <1> HIDE DEF open
  <1> QED BY <1>1, <1>2, <1>3, <1>4, <1>5

LEMMA MovedScore ==
  ASSUME NEW d, NEW wins
  PROVE  Moved(d, wins).tally = d.tally /\ Moved(d, wins).recorded = d.recorded
  BY DEF Moved, Play

LEMMA LeaveScore ==
  ASSUME NEW d \in Machine
  PROVE  LET r == LeaveLink(d)
         IN /\ r.tally = d.tally /\ r.recorded = d.recorded /\ r.games = d.games
            /\ GameOf(r) = <<FALSE, d.seq, NoBoard, d.board, d.seat, d.dealt>>
            /\ r.note = "none"
            /\ \A i \in DOMAIN r.sent : \/ i \in DOMAIN d.sent /\ r.sent[i] = d.sent[i]
                                        \/ r.sent[i].kind = "Bye"
                                        \/ r.sent[i].kind = "Say" /\ r.sent[i].load = "leaving"
  <1> DEFINE say == [kind |-> "Say", seq |-> d.said + 1, load |-> "leaving"]
             bye == [kind |-> "Bye", seq |-> 0, load |-> "bye"]
             s == IF d.asking THEN Say(d, "leaving") ELSE d
             q == Stop(s)
             r == LeaveLink(d)
  <1>1. r = [q EXCEPT !.asking = FALSE, !.stage = "Live", !.pending = NoBoard, !.note = "none", !.turn = FALSE]
    BY Zenon DEF LeaveLink, r, q, s
  <1>2. s \in Machine /\ q \in Machine
    BY SayType, StopType
  <1>3. say \in Message /\ bye \in Message
    BY DEF Machine, Message
  <1>4. /\ s.tally = d.tally /\ s.recorded = d.recorded /\ s.games = d.games /\ GameOf(s) = GameOf(d)
        /\ s.sent = d.sent \/ s.sent = Append(d.sent, say)
    BY DEF Say, Sending, GameOf, Machine
  <1> HIDE DEF s, say
  <1>5. /\ q.tally = s.tally /\ q.recorded = s.recorded /\ q.games = s.games /\ GameOf(q) = GameOf(s)
        /\ q.sent = s.sent \/ q.sent = Append(s.sent, bye)
    BY <1>2 DEF Stop, Sending, GameOf, Machine
  <1> HIDE DEF q, bye
  <1>6. /\ r.tally = q.tally /\ r.recorded = q.recorded /\ r.games = q.games /\ r.sent = q.sent
        /\ GameOf(r) = <<FALSE, q.seq, NoBoard, q.board, q.seat, q.dealt>> /\ r.note = "none"
    BY <1>1, <1>2 DEF GameOf, Machine
  <1> HIDE DEF r
  <1>7. ASSUME NEW i \in DOMAIN s.sent
        PROVE  (i \in DOMAIN d.sent /\ s.sent[i] = d.sent[i]) \/ s.sent[i] = say
    BY <1>3, <1>4, LogAppend
  <1>8. ASSUME NEW i \in DOMAIN r.sent
        PROVE  (i \in DOMAIN s.sent /\ r.sent[i] = s.sent[i]) \/ r.sent[i] = bye
    <2>1. CASE q.sent = s.sent
      BY <1>6, <2>1
    <2>2. CASE q.sent = Append(s.sent, bye)
      <3>1. r.sent = Append(s.sent, bye)
        BY <1>6, <2>2
      <3> QED BY <1>2, <1>3, <3>1, LogAppend
    <2> QED BY <1>5, <2>1, <2>2
  <1>9. say.kind = "Say" /\ say.load = "leaving" /\ bye.kind = "Bye"
    BY DEF say, bye
  <1>10. GameOf(r) = <<FALSE, d.seq, NoBoard, d.board, d.seat, d.dealt>>
    BY <1>4, <1>5, <1>6 DEF GameOf
  <1>11. \A i \in DOMAIN r.sent : \/ i \in DOMAIN d.sent /\ r.sent[i] = d.sent[i]
                                  \/ r.sent[i].kind = "Bye"
                                  \/ r.sent[i].kind = "Say" /\ r.sent[i].load = "leaving"
    BY <1>7, <1>8, <1>9
  <1> QED BY <1>4, <1>5, <1>6, <1>10, <1>11 DEF r

LEMMA InLogType ==
  ASSUME NEW d \in Machine, NEW i \in DOMAIN d.sent
  PROVE  /\ d.sent[i].kind = "State" => d.sent[i].seq \in Nat
         /\ d.sent[i].kind = "Say" => d.sent[i].seq \in Nat /\ d.sent[i].load \in {"again", "leaving"}
  <1>1. d.sent \in Seq(Message)
    BY DEF Machine
  <1>2. d.sent[i] \in Message
    BY <1>1
  <1> QED BY <1>2 DEF Message

LEMMA ClaimType ==
  ASSUME NEW d \in Machine, NEW x \in Claims(d)
  PROVE  x.deal[2] \in Nat
  <1>1. CASE x \in Counts(d)
    <2>1. d.tally \in Seq(Result)
      BY DEF Machine
    <2>2. x \in Result
      BY <1>1, <2>1 DEF Counts
    <2> QED BY <2>2 DEF Result
  <1>2. CASE x = Outcome(Newest(d), d.seat)
    <2>1. Newest(d) \in GoodBoard
      BY DEF Newest, Machine
    <2>2. x.deal = Newest(d).deal
      BY <1>2 DEF Outcome
    <2> QED BY <2>1, <2>2 DEF GoodBoard, Boards
  <1> QED BY <1>1, <1>2 DEF Claims

LEMMA TallyAppend ==
  ASSUME NEW t \in Seq(Result), NEW x \in Result
  PROVE  /\ \A i \in DOMAIN t : i \in DOMAIN Append(t, x) /\ Append(t, x)[i] = t[i]
         /\ \A i \in DOMAIN Append(t, x) :
              \/ i \in DOMAIN t /\ Append(t, x)[i] = t[i]
              \/ i = Len(t) + 1 /\ Append(t, x)[i] = x
  OBVIOUS

------------------------------------------------------------------------------
(* The count, operator by operator.                                         *)

\* A step that leaves the game and the count alone.
LEMMA CountedSame ==
  ASSUME NEW d \in Machine, NEW e \in Machine, NEW r \in Machine,
         Own(d), Counted(d, e), Counted(e, d),
         GameOf(r) = GameOf(d), r.tally = d.tally, r.recorded = d.recorded, r.games = d.games,
         r.session = d.session, r.noteSeq >= d.noteSeq,
         r.pending # NoBoard /\ Begins(r) => Begins(d),
         d.session = "Playing" /\ e.session # "Playing" /\ e.seq > d.seq /\ Begins(r) => Begins(d),
         d.session # "Playing" =>
           r.sent = d.sent /\ (r.note = "again" /\ r.you = "Ready" => d.note = "again" /\ d.you = "Ready")
  PROVE  Own(r) /\ Counted(r, e) /\ Counted(e, r)
  <1>0. d.noteSeq \in Nat /\ r.noteSeq \in Nat
    BY DEF Machine
  <1>1. /\ r.turn = d.turn /\ r.seq = d.seq /\ r.pending = d.pending /\ r.board = d.board
        /\ r.seat = d.seat /\ r.dealt = d.dealt
    BY DEF GameOf
  <1>2. Newest(r) = Newest(d) /\ Claims(r) = Claims(d)
    BY <1>1 DEF Newest, Claims, Counts
  <1>3. Own(r)
    BY <1>1 DEF Own
  <1>4. /\ Agreed(r, e) /\ Agreed(e, r)
        /\ Open(e, d) => Open(e, r)
        /\ NoFuture(e, d) => NoFuture(e, r)
    BY <1>2, FewerClaims DEF Counted
  <1>5. /\ Open(d, e) => Open(r, e)
        /\ NoFuture(d, e) => NoFuture(r, e)
    BY <1>1, <1>2 DEF Open, NoFuture
  <1>6. /\ Clean(d, e) => Clean(r, e)
        /\ Clean(e, d) => Clean(e, r)
    BY <1>1 DEF Clean, Sends
  <1>7. NoCall(d, e) => NoCall(r, e)
    BY <1>0, InLogType DEF NoCall
  <1>8. ASSUME d.session = "Playing", e.session # "Playing"
        PROVE  Coming(r, e)
    <2>1. Coming(d, e)
      BY <1>8 DEF Counted
    <2>2. e.seq > d.seq => ~Begins(r)
      BY <1>8, <2>1 DEF Coming
    <2> QED BY <1>1, <1>7, <2>1, <2>2 DEF Coming
  <1>9. ASSUME e.session = "Playing", d.session # "Playing"
        PROVE  Coming(e, r)
    <2>1. Coming(e, d)
      BY <1>9 DEF Counted
    <2>2. NoCall(e, d) => NoCall(e, r)
      BY <1>9 DEF NoCall
    <2> QED BY <1>1, <1>9, <2>1, <2>2 DEF Coming
  <1>10. Counted(r, e)
    BY <1>4, <1>5, <1>6, <1>8 DEF Counted
  <1>11. Counted(e, r)
    BY <1>4, <1>6, <1>9 DEF Counted
  <1> QED BY <1>3, <1>10, <1>11

\* The next game starts: nobody has a claim about it.
LEMMA CountedStarts ==
  ASSUME CalmMatch, style \in Styles, NEW d \in Machine, NEW e \in Machine, NEW r \in Machine,
         Own(d), Counted(d, e), Counted(e, d),
         \/ d.note = "again" /\ d.you = "Ready"
         \/ d.them = "Ready" /\ d.session = "Playing",
         r.session = d.session, r.games = d.games + 1,
         GameOf(r) = <<d.turn, d.seq, d.pending, Fresh(d.me, d.games + 1, 0), SeatOf(d), TRUE>>,
         r.tally = d.tally, r.recorded = FALSE,
         d.session # "Playing" => r.sent = d.sent
  PROVE  Own(r) /\ Counted(r, e) /\ Counted(e, r)
  <1>0. d.games \in Nat /\ d.seq \in Nat /\ e.seq \in Nat
    BY DEF Machine
  <1>1. /\ r.turn = d.turn /\ r.seq = d.seq /\ r.pending = d.pending /\ r.dealt
        /\ r.board = Fresh(d.me, d.games + 1, 0)
    BY DEF GameOf
  <1>2. d.pending = NoBoard /\ Begins(d)
    BY DEF Own, Begins
  <1>3. r.board.deal = <<0, d.games + 1>> /\ ~Over(r.board)
    <2>1. r.board.deal = <<0, d.games + 1>>
      BY <1>1 DEF CalmMatch, SameDeal, Fresh
    <2>2. r.board.winner = NoSeat
      BY <1>1 DEF Fresh
    <2> QED BY <2>1, <2>2 DEF Over
  <1>4. Newest(r) = r.board /\ Claims(r) \subseteq Claims(d)
    BY <1>1, <1>2, <1>3 DEF Newest, Claims, Counts
  <1>5. Own(r)
    <2>1. \A i \in DOMAIN r.tally : \E k \in 1..d.games : r.tally[i].deal = <<0, k>>
      BY DEF Own
    <2>2. \A i \in DOMAIN r.tally : r.tally[i].deal # r.board.deal
      BY <1>0, <1>3, <2>1
    <2>3. \A i \in DOMAIN r.tally : \E k \in 1..r.games : r.tally[i].deal = <<0, k>>
      BY <1>0, <2>1
    <2>4. \A i, j \in DOMAIN r.tally : r.tally[i].deal = r.tally[j].deal => i = j
      BY DEF Own
    <2> QED BY <1>0, <1>1, <1>2, <1>3, <2>2, <2>3, <2>4 DEF Own
  <1>6. /\ Agreed(r, e) /\ Agreed(e, r)
        /\ Open(e, d) => Open(e, r)
        /\ NoFuture(e, d) => NoFuture(e, r)
    BY <1>4, FewerClaims DEF Counted
  <1>7. ASSUME NoFuture(d, e)
        PROVE  Open(r, e) /\ NoFuture(r, e)
    <2>1. ASSUME NEW x \in Claims(e)
          PROVE  x.deal # r.board.deal /\ x.deal[2] =< r.games
      <3>1. x.deal[2] =< d.games /\ x.deal[2] \in Nat
        BY <1>7, ClaimType DEF NoFuture
      <3>2. r.board.deal[2] = d.games + 1
        BY <1>3
      <3> QED BY <1>0, <3>1, <3>2
    <2> QED BY <2>1 DEF Open, NoFuture
  <1>8. /\ Clean(r, e)
        /\ Clean(e, d) => Clean(e, r)
    BY <1>1, <1>3 DEF Clean, Sends
  <1>9. ASSUME d.session = "Playing", e.session # "Playing"
        PROVE  Coming(r, e)
    <2>1. Coming(d, e)
      BY <1>9 DEF Counted
    <2>2. e.seq =< d.seq
      BY <1>0, <1>2, <2>1 DEF Coming
    <2>3. ASSUME NEW i \in DOMAIN e.sent, e.sent[i].kind = "State", e.sent[i].seq > d.seq
          PROVE  FALSE
      BY <1>0, <2>1, <2>2, <2>3, InLogType DEF Coming
    <2> QED BY <1>0, <1>1, <1>2, <2>2, <2>3 DEF Coming
  <1>10. ASSUME e.session = "Playing", d.session # "Playing"
         PROVE  Coming(e, r)
    <2>1. Coming(e, d)
      BY <1>10 DEF Counted
    <2>2. d.seq =< e.seq
      BY <1>0, <1>10, <2>1 DEF Coming
    <2>3. ASSUME NEW i \in DOMAIN d.sent, d.sent[i].kind = "State", d.sent[i].seq > e.seq
          PROVE  FALSE
      BY <1>0, <2>1, <2>2, <2>3, InLogType DEF Coming
    <2>4. NoCall(e, d) => NoCall(e, r)
      BY <1>10 DEF NoCall
    <2> QED BY <1>0, <1>1, <1>10, <2>1, <2>2, <2>3, <2>4 DEF Coming
  <1>11. Counted(r, e)
    BY <1>6, <1>7, <1>8, <1>9 DEF Counted
  <1>12. Counted(e, r)
    BY <1>6, <1>8, <1>10 DEF Counted
  <1> QED BY <1>5, <1>11, <1>12

\* The rest of a pass: the state that waits is taken, and the result of a game
\* that is over is counted.
LEMMA CountedTakes ==
  ASSUME NEW d \in Machine, NEW e \in Machine, NEW r \in Machine,
         Own(d), Counted(d, e), Counted(e, d), d.note # "again",
         r.session = d.session, r.note = d.note, r.noteSeq = d.noteSeq, r.games = d.games,
         r.session = "Playing" /\ r.them = "Ready" => d.them = "Ready",
         r.sent = d.sent, r.turn = d.turn, r.seq = d.seq, r.seat = d.seat, r.pending = NoBoard,
         r.board = Newest(d), r.dealt,
         \/ r.tally = d.tally /\ r.recorded = d.recorded
         \/ /\ ~d.recorded /\ r.recorded = TRUE /\ Over(r.board)
            /\ r.tally = Append(d.tally, Outcome(r.board, r.seat))
  PROVE  Own(r) /\ Counted(r, e) /\ Counted(e, r)
  <1>0. d.games \in Nat /\ d.seq \in Nat /\ e.seq \in Nat /\ d.tally \in Seq(Result)
    BY DEF Machine
  <1>1. Newest(r) = r.board /\ (d.pending = NoBoard => r.board = d.board)
    BY DEF Newest
  <1>2. r.board.deal = d.board.deal
    BY DEF Own, Newest
  <1>3. d.recorded => d.pending = NoBoard
    BY DEF Own
  <1>4. \A i \in DOMAIN d.tally :
          d.tally[i].deal = d.board.deal => d.recorded /\ d.tally[i] = Outcome(r.board, r.seat)
    BY <1>1, <1>3 DEF Own
  <1> DEFINE x == Outcome(r.board, r.seat)
  <1>5. x \in Result /\ x.deal = r.board.deal
    BY DEF Outcome, Result, Machine, GoodBoard, Boards
  <1> HIDE DEF x
  <1>6. Own(r) /\ Claims(r) \subseteq Claims(d)
    <2>1. CASE r.tally = d.tally /\ r.recorded = d.recorded
      <3>1. \A i \in DOMAIN r.tally :
              r.tally[i].deal = r.board.deal => r.recorded /\ r.tally[i] = Outcome(r.board, r.seat)
        BY <1>2, <1>4, <2>1
      <3>2. r.recorded => Over(r.board)
        BY <1>1, <1>3, <2>1 DEF Own
      <3>3. /\ \A i \in DOMAIN r.tally : \E k \in 1..r.games : r.tally[i].deal = <<0, k>>
            /\ \A i, j \in DOMAIN r.tally : r.tally[i].deal = r.tally[j].deal => i = j
        BY <2>1 DEF Own
      <3>4. Own(r)
        BY <1>2, <3>1, <3>2, <3>3 DEF Own
      <3>5. Claims(r) \subseteq Claims(d)
        BY <1>1, <2>1 DEF Claims, Counts
      <3> QED BY <3>4, <3>5
    <2>2. CASE /\ ~d.recorded /\ r.recorded = TRUE /\ Over(r.board)
               /\ r.tally = Append(d.tally, x)
      <3>1. ASSUME NEW i \in DOMAIN r.tally
            PROVE  \/ i \in DOMAIN d.tally /\ r.tally[i] = d.tally[i] /\ d.tally[i].deal # r.board.deal
                   \/ i = Len(d.tally) + 1 /\ r.tally[i] = x
        <4>1. \/ i \in DOMAIN d.tally /\ r.tally[i] = d.tally[i]
              \/ i = Len(d.tally) + 1 /\ r.tally[i] = x
          BY <1>0, <1>5, <2>2, TallyAppend
        <4> QED BY <1>2, <1>4, <2>2, <4>1
      <3>2. r.board.deal = <<0, d.games>> /\ d.games >= 1
        BY <1>2 DEF Own
      <3>3. \A i \in DOMAIN r.tally : \E k \in 1..r.games : r.tally[i].deal = <<0, k>>
        <4>1. \A i \in DOMAIN d.tally : \E k \in 1..d.games : d.tally[i].deal = <<0, k>>
          BY DEF Own
        <4>2. d.games \in 1..d.games
          BY <1>0, <3>2
        <4> QED BY <1>5, <3>1, <3>2, <4>1, <4>2
      <3>4. ASSUME NEW i \in DOMAIN r.tally, NEW j \in DOMAIN r.tally, r.tally[i].deal = r.tally[j].deal
            PROVE  i = j
        <4>1. \A a, b \in DOMAIN d.tally : d.tally[a].deal = d.tally[b].deal => a = b
          BY DEF Own
        <4> QED BY <1>5, <3>1, <3>4, <4>1
      <3>5. \A i \in DOMAIN r.tally :
              r.tally[i].deal = r.board.deal => r.recorded /\ r.tally[i] = Outcome(r.board, r.seat)
        BY <2>2, <3>1 DEF x
      <3>6. Own(r)
        BY <2>2, <3>2, <3>3, <3>4, <3>5 DEF Own
      <3>7. \A y \in Counts(r) : y \in Counts(d) \/ y = x
        BY <3>1 DEF Counts
      <3>8. x \in Claims(d)
        BY <2>2 DEF Claims, x
      <3>9. Claims(r) \subseteq Claims(d)
        BY <1>1, <3>7, <3>8 DEF Claims, x
      <3> QED BY <3>6, <3>9
    <2> QED BY <2>1, <2>2 DEF x
  <1>7. /\ Agreed(r, e) /\ Agreed(e, r)
        /\ Open(e, d) => Open(e, r)
        /\ NoFuture(e, d) => NoFuture(e, r)
    BY <1>6, FewerClaims DEF Counted
  <1>8. /\ Open(d, e) => Open(r, e)
        /\ NoFuture(d, e) => NoFuture(r, e)
    BY <1>1, <1>2 DEF Open, NoFuture
  <1>9. ASSUME d.session = "Playing", e.session = "Playing"
        PROVE  Clean(r, e) /\ Clean(e, r)
    <2>1. d.pending # NoBoard => d.turn
      BY <1>9 DEF Own
    <2>2. (Sends(e, r) => Sends(e, d) /\ d.pending = NoBoard) /\ (Sends(r, e) => Sends(d, e))
      BY <2>1 DEF Sends
    <2>3. Clean(d, e) /\ Clean(e, d)
      BY <1>9 DEF Counted
    <2> QED BY <1>1, <2>2, <2>3 DEF Clean
  <1>10. ASSUME d.session = "Playing", e.session # "Playing"
         PROVE  Coming(r, e)
    <2>1. Coming(d, e)
      BY <1>10 DEF Counted
    <2>2. NoCall(d, e) => NoCall(r, e)
      BY DEF NoCall
    <2>3. ~Begins(d) => ~Begins(r)
      BY <1>10 DEF Begins
    <2>4. e.seq > r.seq => d.pending = NoBoard /\ r.board = d.board
      BY <1>1, <2>1 DEF Coming
    <2> QED BY <2>1, <2>2, <2>3, <2>4 DEF Coming
  <1>11. ASSUME e.session = "Playing", d.session # "Playing"
         PROVE  Coming(e, r)
    <2>1. Coming(e, d)
      BY <1>11 DEF Counted
    <2>2. NoCall(e, d) => NoCall(e, r)
      BY DEF NoCall
    <2>3. d.seq > e.seq => d.pending = NoBoard /\ r.board = d.board
      BY <1>1, <2>1 DEF Coming
    <2>4. ASSUME NEW i \in DOMAIN d.sent, d.sent[i].kind = "State", d.sent[i].seq > e.seq
          PROVE  d.sent[i].load = r.board /\ d.sent[i].seq =< d.seq
      <3>1. d.sent[i].load = d.board /\ d.sent[i].seq =< d.seq /\ d.sent[i].seq \in Nat
        BY <2>1, <2>4, InLogType DEF Coming
      <3> QED BY <1>0, <2>3, <2>4, <3>1
    <2> QED BY <2>1, <2>2, <2>3, <2>4 DEF Coming
  <1>12. Counted(r, e)
    BY <1>7, <1>8, <1>9, <1>10 DEF Counted
  <1>13. Counted(e, r)
    BY <1>7, <1>9, <1>11 DEF Counted
  <1> QED BY <1>6, <1>12, <1>13

\* A move, which may end the game.
LEMMA CountedMoves ==
  ASSUME NEW d \in Machine, NEW e \in Machine, NEW r \in Machine, NEW b \in GoodBoard,
         Own(d), Counted(d, e), Counted(e, d),
         d.session = "Playing", d.turn, d.pending = NoBoard, ~Over(d.board),
         b.deal = d.board.deal, r.session = "Playing", r.games = d.games,
         GameOf(r) = <<FALSE, d.seq + 1, d.pending, b, d.seat, d.dealt>>,
         r.tally = d.tally, r.recorded = d.recorded,
         e.session = "Playing" => HasTurn(d, e) /\ d.games = e.games /\ e.board = d.board
  PROVE  Own(r) /\ Counted(r, e) /\ Counted(e, r)
  <1>0. d.games \in Nat /\ d.seq \in Nat /\ e.seq \in Nat
    BY DEF Machine
  <1>1. /\ r.turn = FALSE /\ r.seq = d.seq + 1 /\ r.pending = NoBoard /\ r.board = b
        /\ r.seat = d.seat /\ r.dealt = d.dealt
    BY DEF GameOf
  <1>2. Newest(d) = d.board /\ Newest(r) = b
    BY <1>1 DEF Newest
  <1>3. Own(r)
    <2>1. ~d.recorded /\ \A i \in DOMAIN d.tally : d.tally[i].deal # d.board.deal
      BY DEF Own
    <2> QED BY <1>1, <2>1 DEF Own
  <1>4. \A x \in Claims(r) : x \in Claims(d) \/ x.deal = d.board.deal
    BY <1>1, <1>2 DEF Claims, Counts, Outcome
  <1>5. Open(d, e) /\ NoFuture(d, e)
    BY DEF Counted
  <1>6. \A y \in Claims(e) : y.deal # d.board.deal
    BY <1>2, <1>5 DEF Open
  <1>7. Agreed(r, e) /\ Agreed(e, r)
    <2>1. Agreed(d, e) /\ Agreed(e, d)
      BY DEF Counted
    <2> QED BY <1>4, <1>6, <2>1 DEF Agreed
  <1>8. Open(r, e) /\ NoFuture(r, e)
    BY <1>1, <1>5 DEF Open, NoFuture
  <1>9. ASSUME e.session = "Playing"
        PROVE  Open(e, r) /\ NoFuture(e, r) /\ Clean(r, e) /\ Clean(e, r)
    <2>1. HasTurn(d, e) /\ d.games = e.games /\ e.board = d.board /\ NoFuture(e, d)
      BY <1>9 DEF Counted
    <2>2. Open(e, r)
      BY <2>1 DEF HasTurn, Open
    <2>3. NoFuture(e, r)
      <3>1. d.board.deal[2] = e.games
        BY <2>1 DEF Own
      <3>2. e.games =< e.games
        BY <1>0, <2>1
      <3> QED BY <1>4, <2>1, <3>1, <3>2 DEF NoFuture
    <2>4. Clean(r, e)
      BY <1>0, <1>1, <2>1 DEF Clean, Sends, HasTurn
    <2>5. Clean(e, r)
      BY <2>1 DEF Clean
    <2> QED BY <2>2, <2>3, <2>4, <2>5
  <1>10. ASSUME e.session # "Playing"
         PROVE  Coming(r, e)
    <2>1. Coming(d, e)
      BY <1>10 DEF Counted
    <2>2. e.seq =< d.seq
      BY <1>0, <2>1 DEF Coming
    <2>3. ASSUME NEW i \in DOMAIN e.sent, e.sent[i].kind = "State", e.sent[i].seq > r.seq
          PROVE  FALSE
      <3>1. e.sent[i].seq \in Nat
        BY <2>3, InLogType
      <3>2. e.sent[i].seq > d.seq
        BY <1>0, <1>1, <2>3, <3>1
      <3> QED BY <1>0, <2>1, <2>2, <2>3, <3>1, <3>2 DEF Coming
    <2>4. ~(e.seq > r.seq)
      BY <1>0, <1>1, <2>2
    <2> QED BY <1>1, <2>3, <2>4 DEF Coming
  <1> QED BY <1>3, <1>7, <1>8, <1>9, <1>10 DEF Counted

\* A device that is no longer playing: what it sent may still be heard.
LEMMA CountedStops ==
  ASSUME NEW d \in Machine, NEW e \in Machine, NEW r \in Machine,
         Own(d), Counted(d, e), Counted(e, d), e.session = "Playing" => Coming(e, d),
         r.session # "Playing", r.games = d.games, r.tally = d.tally, r.recorded = d.recorded,
         GameOf(r) = <<FALSE, d.seq, d.pending, d.board, d.seat, d.dealt>>,
         r.note = d.note \/ r.note = "none",
         r.pending # NoBoard => r.note = d.note /\ r.them = d.them,
         r.note = d.note => r.you = d.you \/ d.note # "again",
         \A i \in DOMAIN r.sent : \/ i \in DOMAIN d.sent /\ r.sent[i] = d.sent[i]
                                  \/ r.sent[i].kind = "Bye"
                                  \/ r.sent[i].kind = "Say" /\ r.sent[i].load = "leaving"
  PROVE  Own(r) /\ Counted(r, e) /\ Counted(e, r)
  <1>1. /\ r.turn = FALSE /\ r.seq = d.seq /\ r.pending = d.pending /\ r.board = d.board
        /\ r.seat = d.seat /\ r.dealt = d.dealt
    BY DEF GameOf
  <1>2. Newest(r) = Newest(d) /\ Claims(r) = Claims(d)
    BY <1>1 DEF Newest, Claims, Counts
  <1>3. Own(r)
    BY <1>1 DEF Own, Begins
  <1>4. /\ Agreed(r, e) /\ Agreed(e, r)
        /\ Open(e, d) => Open(e, r)
        /\ NoFuture(e, d) => NoFuture(e, r)
    BY <1>2, FewerClaims DEF Counted
  <1>5. ASSUME e.session = "Playing"
        PROVE  Coming(e, r)
    <2>1. Coming(e, d)
      BY <1>5
    <2>2. NoCall(e, d) => NoCall(e, r)
      BY DEF NoCall
    <2>3. ~(d.note = "again" /\ d.you = "Ready") => ~(r.note = "again" /\ r.you = "Ready")
      OBVIOUS
    <2>4. ASSUME NEW i \in DOMAIN r.sent, r.sent[i].kind = "State", r.sent[i].seq > e.seq
          PROVE  r.sent[i].load = r.board /\ r.sent[i].seq =< r.seq
      BY <1>1, <2>1, <2>4 DEF Coming
    <2> QED BY <1>1, <2>1, <2>2, <2>3, <2>4 DEF Coming
  <1> QED BY <1>3, <1>4, <1>5 DEF Counted

\* The other's state is heard: the game it ends is one the other counts too.
LEMMA CountedHears ==
  ASSUME NEW d \in Machine, NEW e \in Machine, NEW r \in Machine, NEW k \in Nat,
         Own(d), Own(e), Counted(d, e), Counted(e, d), Coming(d, e),
         d.session = "Playing", d.seq < k, k =< e.seq, e.session = "Playing" => ~e.turn,
         r = [d EXCEPT !.pending = e.board, !.seq = k, !.turn = TRUE]
  PROVE  Own(r) /\ Counted(r, e) /\ Counted(e, r)
  <1>0. /\ d.games \in Nat /\ d.seq \in Nat /\ e.seq \in Nat /\ d.seat \in {0, 1} /\ e.seat \in {0, 1}
        /\ e.board \in GoodBoard
    BY DEF Machine
  <1>1. /\ r.turn = TRUE /\ r.seq = k /\ r.pending = e.board /\ r.board = d.board
        /\ r.seat = d.seat /\ r.dealt = d.dealt /\ r.session = d.session /\ r.games = d.games
        /\ r.tally = d.tally /\ r.recorded = d.recorded /\ r.note = d.note /\ r.noteSeq = d.noteSeq
        /\ r.them = d.them
    BY DEF Machine
  <1>2. /\ e.seq > d.seq /\ e.seq = d.seq + 1 /\ d.pending = NoBoard /\ e.pending = NoBoard
        /\ d.games = e.games /\ d.seat # e.seat /\ ~Over(d.board) /\ ~Begins(d) /\ NoCall(d, e)
    BY <1>0 DEF Coming
  <1>3. k = e.seq
    BY <1>0, <1>2
  <1>4. e.board.deal = d.board.deal /\ e.board.deal = <<0, d.games>> /\ d.games >= 1
    BY <1>2 DEF Own
  <1>5. e.board # NoBoard
    <2>1. NoBoard.deal[2] = 0
      BY DEF NoBoard
    <2>2. e.board.deal[2] >= 1
      BY <1>4
    <2> QED BY <2>1, <2>2
  <1>6. Newest(r) = e.board /\ Newest(e) = e.board /\ Newest(d) = d.board
    BY <1>1, <1>2, <1>5 DEF Newest
  <1>7. ~Begins(r)
    BY <1>1, <1>2 DEF Begins
  <1>8. Own(r)
    BY <1>1, <1>2, <1>4, <1>7 DEF Own
  <1>9. \A x \in Claims(r) : x \in Claims(d) \/ (Over(e.board) /\ x = Outcome(e.board, d.seat))
    BY <1>1, <1>6 DEF Claims, Counts
  <1>10. \A y \in Claims(e) :
           y.deal = d.board.deal => Over(e.board) /\ y = Outcome(e.board, e.seat)
    <2>1. \A i \in DOMAIN e.tally :
            e.tally[i].deal = d.board.deal => Over(e.board) /\ e.tally[i] = Outcome(e.board, e.seat)
      BY <1>4 DEF Own
    <2> QED BY <1>6, <2>1 DEF Claims, Counts
  <1>11. Over(e.board) => Outcome(e.board, d.seat).won # Outcome(e.board, e.seat).won
    <2>1. Over(e.board) => e.board.winner \in {0, 1}
      BY <1>0 DEF GoodBoard, Boards, Over
    <2>2. /\ Outcome(e.board, d.seat).won = (e.board.winner = d.seat)
          /\ Outcome(e.board, e.seat).won = (e.board.winner = e.seat)
      BY DEF Outcome
    <2>3. Over(e.board) => (e.board.winner = d.seat <=> e.board.winner # e.seat)
      BY <1>0, <1>2, <2>1
    <2> QED BY <2>2, <2>3
  <1>12. Outcome(e.board, d.seat).deal = d.board.deal
    BY <1>4 DEF Outcome
  <1>13. Agreed(r, e) /\ Agreed(e, r)
    <2>1. Agreed(d, e)
      BY DEF Counted
    <2>2. ASSUME NEW x \in Claims(r), NEW y \in Claims(e), x.deal = y.deal
          PROVE  x.won # y.won
      <3>1. CASE x \in Claims(d)
        BY <2>1, <2>2, <3>1 DEF Agreed
      <3>2. CASE Over(e.board) /\ x = Outcome(e.board, d.seat)
        BY <1>10, <1>11, <1>12, <2>2, <3>2
      <3> QED BY <1>9, <3>1, <3>2
    <2> QED BY <2>2 DEF Agreed
  <1>14. Open(r, e) /\ NoFuture(r, e)
    <2>1. NoFuture(d, e)
      BY DEF Counted
    <2> QED BY <1>1, <1>6, <1>10, <2>1 DEF Open, NoFuture
  <1>15. ASSUME e.session = "Playing"
         PROVE  Open(e, r) /\ NoFuture(e, r) /\ Clean(r, e) /\ Clean(e, r)
    <2>1. NoFuture(e, d)
      BY <1>15 DEF Counted
    <2>2. Outcome(e.board, d.seat).deal[2] =< e.games
      <3>1. Outcome(e.board, d.seat).deal = <<0, e.games>> /\ e.games \in Nat
        BY <1>0, <1>2, <1>4, <1>12
      <3> QED BY <3>1
    <2>3. NoFuture(e, r)
      BY <1>9, <2>1, <2>2 DEF NoFuture
    <2>4. Open(e, r)
      BY <1>15 DEF Open
    <2>5. Clean(r, e) /\ Clean(e, r)
      BY <1>1, <1>5 DEF Clean, Sends
    <2> QED BY <2>3, <2>4, <2>5
  <1>16. Coming(r, e)
    <2>1. NoCall(r, e)
      BY <1>1, <1>2 DEF NoCall
    <2>2. ~(e.seq > r.seq)
      BY <1>0, <1>1, <1>3
    <2>3. ASSUME NEW i \in DOMAIN e.sent, e.sent[i].kind = "State", e.sent[i].seq > r.seq
          PROVE  FALSE
      <3>1. e.sent[i].seq \in Nat
        BY <2>3, InLogType
      <3>2. e.sent[i].seq > d.seq
        BY <1>0, <1>1, <2>3, <3>1
      <3>3. e.sent[i].seq =< e.seq
        BY <2>3, <3>2 DEF Coming
      <3> QED BY <1>0, <1>1, <1>3, <2>3, <3>1, <3>3
    <2> QED BY <2>1, <2>2, <2>3 DEF Coming
  <1> QED BY <1>1, <1>8, <1>13, <1>14, <1>15, <1>16 DEF Counted

\* What two devices in a match may still hear of each other.
LEMMA SequelComing ==
  ASSUME NEW d \in Machine, NEW e \in Machine,
         SaysAgain(e), Table(e), Pair(d, e), Sequel(d, e), Clean(d, e)
  PROVE  Coming(d, e)
  <1>0. /\ d.said \in Nat /\ d.noteSeq \in Nat /\ e.said \in Nat /\ e.noteSeq \in Nat
        /\ d.games \in Nat /\ e.games \in Nat /\ d.seq \in Nat /\ e.seq \in Nat
    BY DEF Machine
  <1>1. \A i \in DOMAIN e.sent :
          e.sent[i].kind = "State" /\ e.sent[i].seq > d.seq =>
            e.sent[i].load = e.board /\ e.sent[i].seq =< e.seq
    BY DEF Table, NoNewer, Sequel, Carried
  <1>2. ASSUME ~Quiet(e, d)
        PROVE  /\ d.games = e.games /\ d.seat # e.seat /\ e.you # "Ready" /\ ~Begins(d) /\ NoCall(d, e)
    <2>1. ~Begun(d, e) /\ ~Begun(e, d)
      BY <1>2 DEF Begun
    <2>2. d.games = e.games
      BY <2>1 DEF Pair, Level, Ahead, Sequel
    <2>3. Level(e, d) /\ Shared(d, e) /\ Shared(e, d)
      BY <1>0, <2>2 DEF Pair, Ahead, Sequel
    <2>4. e.you # "Ready" /\ d.seat # e.seat
      BY <1>2, <2>3 DEF Shared
    <2>5. Owed(e, d) =< 0 /\ d.them # "Ready"
      BY <2>3, <2>4 DEF Level, Held
    <2>6. d.noteSeq =< e.said
      BY DEF Pair, Asker
    <2>7. d.note # "again" /\ e.said = d.noteSeq
      BY <1>0, <2>5, <2>6 DEF Owed
    <2>8. NoCall(d, e)
      <3>1. ASSUME NEW i \in DOMAIN e.sent, e.sent[i].kind = "Say", e.sent[i].seq > d.noteSeq
            PROVE  FALSE
        <4>1. e.sent[i].seq =< e.said /\ e.sent[i].seq \in Nat
          BY <3>1, InLogType DEF SaysAgain, AllAgain
        <4> QED BY <1>0, <2>7, <3>1, <4>1
      <3> QED BY <3>1 DEF NoCall
    <2> QED BY <2>2, <2>4, <2>5, <2>7, <2>8 DEF Begins
  <1>3. ASSUME e.seq > d.seq
        PROVE  Sends(e, d) /\ ~Quiet(e, d)
    BY <1>0, <1>3 DEF Sequel, HasTurn, Sends, Quiet
  <1>4. d.pending # NoBoard => ~Quiet(e, d)
    BY DEF Quiet
  <1>5. ASSUME e.seq > d.seq
        PROVE  /\ e.seq = d.seq + 1 /\ ~d.turn /\ d.pending = NoBoard /\ e.pending = NoBoard
               /\ ~Over(d.board)
    BY <1>3, <1>5 DEF Sends, Clean
  <1> QED BY <1>1, <1>2, <1>3, <1>4, <1>5 DEF Coming

------------------------------------------------------------------------------
(* The count, step by step.                                                 *)

\* A pass with no tap.
LEMMA CountedDriven ==
  ASSUME CalmMatch, style \in Styles, NEW d \in Machine, NEW e \in Machine, NEW expired \in BOOLEAN,
         Own(d), Counted(d, e), Counted(e, d), d.session \in {"Playing", "Ended"}
  PROVE  LET r == Driven(d, expired)
         IN /\ Own(r) /\ Counted(r, e) /\ Counted(e, r)
            /\ r.pending = NoBoard /\ r.note = "none" /\ r.session = d.session
            /\ r.session = "Ended" => r.them # "Ready"
  <1> DEFINE h == HearNote(d)
             r == Driven(d, expired)
  <1>1. h \in Machine /\ r \in Machine /\ d.note \in {"none", "again", "leaving"}
    BY HearNoteType, DrivenType DEF Machine
  <1>2. h.sent = d.sent /\ h.tally = d.tally
    BY NoteGame, NoteScore
  <1>3. h.session = d.session /\ h.note = "none" /\ h.noteSeq = d.noteSeq
    BY <1>1, NoteHand DEF Hand
  <1>4. Own(h) /\ Counted(h, e) /\ Counted(e, h)
    <2>1. CASE d.note = "again" /\ d.you = "Ready"
      <3>1. GameOf(h) = <<d.turn, d.seq, d.pending, Fresh(d.me, d.games + 1, 0), SeatOf(d), TRUE>>
        BY <2>1, NoteGame
      <3>2. h.recorded = FALSE
        BY <2>1, NoteScore
      <3>3. h.games = d.games + 1
        BY <2>1, NoteHand DEF Hand
      <3> HIDE DEF h
      <3> QED BY <1>1, <1>2, <1>3, <2>1, <3>1, <3>2, <3>3, CountedStarts
    <2>2. CASE ~(d.note = "again" /\ d.you = "Ready")
      <3>1. GameOf(h) = GameOf(d)
        BY <2>2, NoteGame
      <3>2. h.recorded = d.recorded
        BY <2>2, NoteScore
      <3>3. h.games = d.games
        BY <1>1, <2>2, NoteHand DEF Hand
      <3>4. h.them = "Ready" => d.note = "again" \/ d.them = "Ready"
        BY <1>1, <2>2, NoteHand DEF Hand
      <3>5. h.noteSeq >= d.noteSeq
        BY <1>3 DEF Machine
      <3> HIDE DEF h
      <3>6. Begins(h) => Begins(d)
        BY <1>3, <3>4 DEF Begins
      <3> QED BY <1>1, <1>2, <1>3, <3>1, <3>2, <3>3, <3>5, <3>6, CountedSame
    <2> QED BY <2>1, <2>2
  <1>5. /\ r.sent = h.sent /\ r.turn = h.turn /\ r.seq = h.seq /\ r.seat = h.seat
        /\ r.pending = NoBoard
        /\ r.board = IF h.pending = NoBoard THEN h.board ELSE h.pending
        /\ h.dealt => r.dealt
    BY Zenon, DrivenGame
  <1>6. /\ r.note = h.note /\ r.noteSeq = h.noteSeq /\ r.games = h.games
        /\ r.session = "Ended" => r.them # "Ready"
        /\ r.session = "Playing" /\ r.them = "Ready" => h.them = "Ready"
        /\ \/ r.tally = h.tally /\ r.recorded = h.recorded
           \/ /\ ~h.recorded /\ r.recorded = TRUE /\ Over(r.board)
              /\ r.tally = Append(h.tally, Outcome(r.board, r.seat))
    BY Zenon, DrivenScore
  <1>7. r.session = d.session
    BY Zenon, DrivenHand
  <1> HIDE DEF h, r
  <1>8. r.board = Newest(h) /\ r.dealt
    BY <1>4, <1>5 DEF Newest, Own
  <1>9. Own(r) /\ Counted(r, e) /\ Counted(e, r)
    BY <1>1, <1>3, <1>4, <1>5, <1>6, <1>7, <1>8, CountedTakes
  <1> QED BY <1>3, <1>5, <1>6, <1>7, <1>9 DEF r

\* PLAY AGAIN.
LEMMA CountedAnswers ==
  ASSUME CalmMatch, style \in Styles, NEW d \in Machine, NEW e \in Machine,
         Own(d), Counted(d, e), Counted(e, d), d.session \in {"Playing", "Ended"},
         d.pending = NoBoard, d.note = "none", d.session = "Ended" => d.them # "Ready"
  PROVE  Own(Propose(d)) /\ Counted(Propose(d), e) /\ Counted(e, Propose(d))
  <1> DEFINE r == Propose(d)
  <1>0. d.noteSeq \in Nat
    BY DEF Machine
  <1>1. r \in Machine /\ r.session = d.session /\ r.tally = d.tally
    BY ProposeType, ProposeSession, ProposeScore
  <1>2. CASE TheyAgreed(d)
    <2>1. d.them = "Ready" /\ d.session = "Playing"
      BY <1>2 DEF TheyAgreed
    <2>2. GameOf(r) = <<d.turn, d.seq, d.pending, Fresh(d.me, d.games + 1, 0), SeatOf(d), TRUE>>
      BY <1>2, <2>1, ProposeGame
    <2>3. r.games = d.games + 1
      BY <1>2, <2>1, ProposeHand DEF Hand
    <2>4. r.recorded = FALSE
      BY <1>2, ProposeScore
    <2> HIDE DEF r
    <2>5. Own(r) /\ Counted(r, e) /\ Counted(e, r)
      BY <1>1, <2>1, <2>2, <2>3, <2>4, CountedStarts
    <2> QED BY <2>5 DEF r
  <1>3. CASE ~TheyAgreed(d)
    <2>1. r.recorded = d.recorded
      BY <1>3, ProposeScore
    <2>2. /\ GameOf(r) = GameOf(d) /\ r.games = d.games /\ r.note = d.note /\ r.noteSeq = d.noteSeq
          /\ r.them # "Ready"
          /\ d.session # "Playing" => r.sent = d.sent
      <3>1. CASE d.session = "Playing"
        <4>1. GameOf(r) = GameOf(d)
          BY <1>3, <3>1, ProposeGame
        <4>2. /\ r.games = d.games /\ r.note = d.note /\ r.noteSeq = d.noteSeq
              /\ r.them # "Ready"
          BY <1>3, <3>1, ProposeHand DEF Hand
        <4> QED BY <3>1, <4>1, <4>2
      <3>2. CASE d.session # "Playing"
        BY <1>3, <3>2, ProposeGone
      <3> QED BY <3>1, <3>2
    <2> HIDE DEF r
    <2>3. ~Begins(r) /\ r.noteSeq >= d.noteSeq
      BY <1>0, <2>2 DEF Begins
    <2>4. ~(r.note = "again" /\ r.you = "Ready")
      BY <2>2
    <2>5. Own(r) /\ Counted(r, e) /\ Counted(e, r)
      BY <1>1, <2>1, <2>2, <2>3, <2>4, CountedSame
    <2> QED BY <2>5 DEF r
  <1> QED BY <1>2, <1>3

LEMMA CountStep ==
  ASSUME TypeInv, CountInv, NEW n \in Device, NEW r, Becomes(n, r),
         Own(r),
         ASSUME NEW p \in Device \ {n}
         PROVE  Counted(r, dev[p]) /\ Counted(dev[p], r)
  PROVE  CountInv'
  <1>1. dev'[n] = r /\ \A q \in Device : q # n => dev'[q] = dev[q]
    BY DEF Becomes, TypeInv
  <1>2. ASSUME NEW a \in Device
        PROVE  Own(dev'[a])
    <2>1. CASE a = n
      BY <1>1, <2>1
    <2>2. CASE a # n
      BY <1>1, <2>2 DEF CountInv
    <2> QED BY <2>1, <2>2
  <1>3. ASSUME NEW a \in Device, NEW b \in Device \ {a}
        PROVE  Counted(dev'[a], dev'[b])
    <2>1. CASE a = n
      BY <1>1, <2>1
    <2>2. CASE b = n
      BY <1>1, <2>2
    <2>3. CASE a # n /\ b # n
      BY <1>1, <2>3 DEF CountInv
    <2> QED BY <2>1, <2>2, <2>3
  <1>4. CountInv' = (\A a \in Device : Own(dev'[a]) /\ \A b \in Device \ {a} : Counted(dev'[a], dev'[b]))
    BY DEF CountInv
  <1> QED BY <1>2, <1>3, <1>4

LEMMA CountInit ==
  ASSUME CalmMatch
  PROVE  Init => CountInv
  <1> SUFFICES ASSUME Init PROVE CountInv
    OBVIOUS
  <1>0. style \in Styles /\ TypeInv
    BY TypeInit DEF Init
  <1>1. ASSUME NEW q \in Device
        PROVE  /\ Own(dev[q]) /\ Claims(dev[q]) = {}
               /\ ~Over(dev[q].board)
               /\ dev[q].session = "Playing"
    <2> DEFINE m == Matched(q)
               s == [m EXCEPT !.seat = IF q = Host THEN 0 ELSE 1, !.games = @ + 1, !.recorded = FALSE]
               x == dev[q]
    <2>1. dev[q] = Start(m, q = Host)
      BY DEF Init
    <2>2. dev[q] = DealSame(s)
      BY Zenon, <1>0, <2>1, SameDealing
    <2>3. /\ s.me = q /\ s.games = 1 /\ s.recorded = FALSE /\ s.tally = <<>> /\ s.pending = NoBoard
          /\ s.session = "Playing" /\ "board" \in DOMAIN s /\ "dealt" \in DOMAIN s
      BY DEF Matched
    <2> HIDE DEF s, m
    <2>4. /\ x.board = Fresh(q, 1, 0) /\ x.dealt = TRUE /\ x.games = 1 /\ x.recorded = FALSE
          /\ x.tally = <<>> /\ x.pending = NoBoard /\ x.session = "Playing"
      BY <2>2, <2>3 DEF DealSame
    <2>5. Fresh(q, 1, 0).deal = <<0, 1>> /\ Fresh(q, 1, 0).winner = NoSeat
      BY <1>0 DEF CalmMatch, SameDeal, Fresh
    <2> HIDE DEF x
    <2>6. DOMAIN x.tally = {} /\ ~Over(x.board) /\ Newest(x) = x.board
      BY <2>4, <2>5 DEF Over, Newest
    <2>7. Own(x)
      BY <2>4, <2>5, <2>6 DEF Own
    <2>8. Claims(x) = {}
      BY <2>6 DEF Claims, Counts
    <2> QED BY <2>4, <2>6, <2>7, <2>8 DEF x
  <1>2. ASSUME NEW a \in Device, NEW b \in Device \ {a}
        PROVE  Counted(dev[a], dev[b])
    BY <1>1 DEF Counted, Agreed, Open, NoFuture, Clean
  <1> QED BY <1>1, <1>2 DEF CountInv

\* What a device that plays may still hear of the other, whether the other
\* still plays or not.
LEMMA StillComing ==
  ASSUME TypeInv, QuestionInv, SequelInv, CountInv, NEW n \in Device, NEW p \in Device, n # p,
         dev[n].session = "Playing"
  PROVE  Coming(dev[n], dev[p])
  <1>1. Counted(dev[n], dev[p])
    BY DEF CountInv
  <1>2. CASE dev[p].session # "Playing"
    BY <1>1, <1>2 DEF Counted
  <1>3. CASE dev[p].session = "Playing"
    <2>1. Both(n, p) /\ Both(p, n)
      BY <1>3 DEF Both
    <2>2. /\ SaysAgain(dev[p]) /\ Table(dev[p]) /\ Pair(dev[n], dev[p]) /\ Sequel(dev[n], dev[p])
      BY <2>1 DEF QuestionInv, SequelInv
    <2>3. Clean(dev[n], dev[p])
      BY <1>1, <1>3 DEF Counted
    <2>4. dev[n] \in Machine /\ dev[p] \in Machine
      BY DEF TypeInv
    <2> QED BY <2>2, <2>3, <2>4, SequelComing
  <1> QED BY <1>2, <1>3

\* The pass, before its tap.
LEMMA CountPass ==
  ASSUME CalmMatch, TypeInv, QuestionInv, SequelInv, CountInv, NEW n \in Device,
         NEW expired \in BOOLEAN, dev[n].session # "Off", NEW p \in Device \ {n}
  PROVE  LET d == Driven(dev[n], expired)
             e == dev[p]
         IN /\ d \in Machine /\ d.session \in {"Playing", "Ended"}
            /\ Own(d) /\ Counted(d, e) /\ Counted(e, d)
            /\ d.pending = NoBoard /\ d.note = "none"
            /\ d.session = "Ended" => d.them # "Ready"
            /\ e.session = "Playing" => Coming(e, d)
            /\ d.session = "Playing" /\ e.session = "Playing" =>
                 /\ Pair(d, e) /\ Sequel(d, e)
                 /\ MayTap(n) => Heard(d, e)
  <1> DEFINE c == dev[n]
             d == Driven(c, expired)
             e == dev[p]
  <1>1. /\ style \in Styles /\ c \in Machine /\ e \in Machine /\ c.me # e.me
        /\ c.session \in {"Playing", "Ended"}
    BY DEF TypeInv, Machine
  <1>2. Own(c) /\ Counted(c, e) /\ Counted(e, c)
    BY DEF CountInv
  <1>3. d \in Machine
    BY <1>1, DrivenType
  <1>4. /\ Own(d) /\ Counted(d, e) /\ Counted(e, d)
        /\ d.pending = NoBoard /\ d.note = "none" /\ d.session = c.session
        /\ d.session = "Ended" => d.them # "Ready"
    BY Zenon, <1>1, <1>2, CountedDriven
  <1>5. ASSUME c.session = "Playing", e.session = "Playing"
        PROVE  /\ Pair(d, e) /\ Sequel(d, e) /\ Coming(e, d)
               /\ MayTap(n) => Heard(d, e)
    <2>1. Both(n, p) /\ Both(p, n)
      BY <1>5 DEF Both
    <2>2. /\ Table(c) /\ Table(e) /\ Sequel(c, e) /\ Pair(c, e) /\ SaysAgain(c)
      BY <2>1 DEF SequelInv, QuestionInv
    <2>3. Pair(d, e)
      BY <1>1, <1>5, <2>2, PairDriven
    <2>4. Table(d) /\ Sequel(d, e) /\ d.seq = c.seq /\ d.said = c.said
      BY <1>1, <1>5, <2>2, SequelDriven
    <2>5. SaysAgain(d)
      BY <1>1, <2>2, SaysDriven
    <2>6. MayTap(n) => Heard(c, e)
      BY <2>1, TapIsHeard
    <2> HIDE DEF c, d, e
    <2>7. Clean(e, d)
      BY <1>4, <1>5 DEF Counted
    <2>8. Coming(e, d)
      BY <1>1, <1>3, <2>3, <2>4, <2>5, <2>7, PairIsSymmetric, SequelIsSymmetric, SequelComing
    <2>9. MayTap(n) => Heard(d, e)
      BY <2>4, <2>6 DEF Heard, Quiet, Owed
    <2> QED BY <2>3, <2>4, <2>8, <2>9
  <1>6. e.session = "Playing" => Coming(e, d)
    <2>1. CASE c.session = "Playing"
      BY <1>5, <2>1
    <2>2. CASE c.session # "Playing"
      BY <1>4, <2>2 DEF Counted
    <2> QED BY <2>1, <2>2
  <1> QED BY Zenon, <1>1, <1>3, <1>4, <1>5, <1>6

\* A device that moves and has been heard is the one with the turn.
LEMMA MoverHasTurn ==
  ASSUME NEW d \in Machine, NEW e \in Machine, Pair(d, e), Sequel(d, e), Heard(d, e),
         ~d.asking, YourTurn(d)
  PROVE  HasTurn(d, e) /\ d.games = e.games /\ e.board = d.board
  <1>1. d.turn /\ d.pending = NoBoard /\ d.you # "Ready"
    BY DEF YourTurn, Pair, Asker
  <1>2. HasTurn(d, e)
    BY <1>1 DEF Sequel, HasTurn, Sends
  <1>3. ~Ahead(e, d) /\ ~Begun(d, e)
    BY <1>1 DEF Ahead, Begun, Heard
  <1>4. d.games = e.games
    BY <1>3 DEF Pair, Level, Ahead, Sequel
  <1>5. e.board = d.board
    BY <1>1, <1>2, <1>4 DEF Sequel, Shared, Newest
  <1> QED BY <1>2, <1>4, <1>5

LEMMA CountIdle ==
  ASSUME CalmMatch, TypeInv, QuestionInv, SequelInv, CountInv, NEW n \in Device, PassIdle(n)
  PROVE  CountInv'
  <1>1. PICK expired \in BOOLEAN : Becomes(n, Driven(dev[n], expired))
    BY DEF PassIdle
  <1> DEFINE d == Driven(dev[n], expired)
  <1>2. ASSUME NEW p \in Device \ {n}
        PROVE  Own(d) /\ Counted(d, dev[p]) /\ Counted(dev[p], d)
    BY Zenon, CountPass DEF PassIdle
  <1>3. Own(d)
    BY <1>2, OtherIs
  <1> HIDE DEF d
  <1> QED BY <1>1, <1>2, <1>3, CountStep DEF d

LEMMA CountAsk ==
  ASSUME CalmMatch, TypeInv, QuestionInv, SequelInv, CountInv, NEW n \in Device, PassAsk(n)
  PROVE  CountInv'
  <1> DEFINE d == Driven(dev[n], FALSE)
             r == Propose(d)
  <1>1. Becomes(n, r) /\ style \in Styles
    BY Zenon DEF PassAsk, TypeInv
  <1>2. ASSUME NEW p \in Device \ {n}
        PROVE  Own(r) /\ Counted(r, dev[p]) /\ Counted(dev[p], r)
    <2>1. /\ d \in Machine /\ d.session \in {"Playing", "Ended"}
          /\ Own(d) /\ Counted(d, dev[p]) /\ Counted(dev[p], d)
          /\ d.pending = NoBoard /\ d.note = "none"
          /\ d.session = "Ended" => d.them # "Ready"
      BY Zenon, CountPass DEF PassAsk
    <2>2. dev[p] \in Machine
      BY DEF TypeInv
    <2> HIDE DEF d
    <2> QED BY <1>1, <2>1, <2>2, CountedAnswers
  <1>3. Own(r)
    BY <1>2, OtherIs
  <1> HIDE DEF r
  <1> QED BY <1>1, <1>2, <1>3, CountStep

LEMMA CountMove ==
  ASSUME CalmMatch, TypeInv, QuestionInv, SequelInv, CountInv, NEW n \in Device, PassMove(n)
  PROVE  CountInv'
  <1> DEFINE d == Driven(dev[n], FALSE)
  <1>1. /\ MayMove(d) /\ MayTap(n)
        /\ \E wins \in IF d.board.plies + 1 = MaxPlies THEN {TRUE} ELSE BOOLEAN : Becomes(n, Moved(d, wins))
    BY DEF PassMove
  <1>2. PICK wins \in BOOLEAN : (d.board.plies + 1 = MaxPlies => wins) /\ Becomes(n, Moved(d, wins))
    BY <1>1
  <1> DEFINE r == Moved(d, wins)
             b == [d.board EXCEPT !.plies = @ + 1, !.turn = 1 - @,
                                  !.winner = IF wins THEN d.board.turn ELSE NoSeat]
  <1>3. style \in Styles /\ dev[n] \in Machine
    BY DEF TypeInv
  <1>4. d.stage = "Final" => GameOver(d)
    BY <1>3, DrivenStage
  <1>5. ASSUME NEW p \in Device \ {n}
        PROVE  Own(r) /\ Counted(r, dev[p]) /\ Counted(dev[p], r)
    <2>1. /\ d \in Machine /\ Own(d) /\ Counted(d, dev[p]) /\ Counted(dev[p], d) /\ d.pending = NoBoard
          /\ d.session = "Playing" /\ dev[p].session = "Playing" =>
               Pair(d, dev[p]) /\ Sequel(d, dev[p]) /\ (MayTap(n) => Heard(d, dev[p]))
      BY Zenon, CountPass DEF PassMove
    <2>2. dev[p] \in Machine
      BY DEF TypeInv
    <2> HIDE DEF d
    <2>3. YourTurn(d) /\ ~Over(d.board) /\ ~d.asking
      BY <1>1, <1>4 DEF MayMove, OwnsScreen, GameOver
    <2>4. d.session = "Playing" /\ d.turn
      BY <2>3 DEF YourTurn
    <2>5. /\ b \in GoodBoard /\ b.deal = d.board.deal
          /\ GameOf(r) = <<FALSE, d.seq + 1, d.pending, b, d.seat, d.dealt>>
      BY Zenon, <1>2, <2>1, <2>3, MovedGame
    <2>6. r.tally = d.tally /\ r.recorded = d.recorded
      BY MovedScore
    <2>7. r \in Machine /\ Hand(r) = Hand(d)
      BY <1>2, <2>1, <2>3, MovedType, MovedHand
    <2>8. r.session = "Playing" /\ r.games = d.games
      BY <2>4, <2>7 DEF Hand
    <2>9. dev[p].session = "Playing" => HasTurn(d, dev[p]) /\ d.games = dev[p].games /\ dev[p].board = d.board
      BY <1>1, <2>1, <2>2, <2>3, <2>4, MoverHasTurn
    <2> HIDE DEF r, b
    <2> QED BY <2>1, <2>2, <2>3, <2>4, <2>5, <2>6, <2>7, <2>8, <2>9, CountedMoves
  <1>6. Own(r)
    BY <1>5, OtherIs
  <1> HIDE DEF r
  <1> QED BY <1>2, <1>5, <1>6, CountStep DEF r

LEMMA CountLeave ==
  ASSUME CalmMatch, TypeInv, QuestionInv, SequelInv, CountInv, NEW n \in Device, PassLeave(n)
  PROVE  CountInv'
  <1> DEFINE d == Driven(dev[n], FALSE)
             r == LeaveLink(d)
  <1>1. Becomes(n, r)
    BY Zenon DEF PassLeave
  <1>2. ASSUME NEW p \in Device \ {n}
        PROVE  Own(r) /\ Counted(r, dev[p]) /\ Counted(dev[p], r)
    <2>1. /\ d \in Machine /\ Own(d) /\ Counted(d, dev[p]) /\ Counted(dev[p], d)
          /\ d.pending = NoBoard /\ d.note = "none"
          /\ dev[p].session = "Playing" => Coming(dev[p], d)
      BY Zenon, CountPass DEF PassLeave
    <2>2. dev[p] \in Machine
      BY DEF TypeInv
    <2> HIDE DEF d
    <2>3. /\ r.tally = d.tally /\ r.recorded = d.recorded /\ r.games = d.games
          /\ GameOf(r) = <<FALSE, d.seq, NoBoard, d.board, d.seat, d.dealt>>
          /\ r.note = "none"
          /\ \A i \in DOMAIN r.sent : \/ i \in DOMAIN d.sent /\ r.sent[i] = d.sent[i]
                                      \/ r.sent[i].kind = "Bye"
                                      \/ r.sent[i].kind = "Say" /\ r.sent[i].load = "leaving"
      BY Zenon, <2>1, LeaveScore
    <2>4. r \in Machine /\ r.session # "Playing"
      BY <2>1, LeaveType, LeaveHand
    <2> HIDE DEF r
    <2>5. r.pending = NoBoard
      BY <2>3 DEF GameOf
    <2> QED BY <2>1, <2>2, <2>3, <2>4, <2>5, CountedStops
  <1>3. Own(r)
    BY <1>2, OtherIs
  <1> HIDE DEF r
  <1> QED BY <1>1, <1>2, <1>3, CountStep

LEMMA CountPaint ==
  ASSUME TypeInv, CountInv, NEW n \in Device, Paint(n)
  PROVE  CountInv'
  <1> DEFINE c == dev[n]
             r == [c EXCEPT !.ready = TRUE]
  <1>1. c \in Machine /\ Becomes(n, r)
    BY DEF TypeInv, Paint
  <1>2. r \in Machine
    BY <1>1, SetReady
  <1>3. /\ GameOf(r) = GameOf(c) /\ r.tally = c.tally /\ r.recorded = c.recorded /\ r.games = c.games
        /\ r.session = c.session /\ r.sent = c.sent /\ r.note = c.note /\ r.noteSeq = c.noteSeq
        /\ r.you = c.you /\ r.them = c.them /\ r.pending = c.pending
    BY DEF GameOf
  <1> HIDE DEF r
  <1>4. ASSUME NEW p \in Device \ {n}
        PROVE  Own(r) /\ Counted(r, dev[p]) /\ Counted(dev[p], r)
    <2>1. dev[p] \in Machine /\ Own(c) /\ Counted(c, dev[p]) /\ Counted(dev[p], c)
      BY DEF TypeInv, CountInv
    <2>2. r.noteSeq >= c.noteSeq /\ (Begins(r) => Begins(c))
      BY <1>1, <1>3 DEF Machine, Begins
    <2> HIDE DEF c
    <2> QED BY <1>1, <1>2, <1>3, <2>1, <2>2, CountedSame
  <1>5. Own(r)
    BY <1>4, OtherIs
  <1> QED BY <1>1, <1>4, <1>5, CountStep

LEMMA CountHearsState ==
  ASSUME TypeInv, QuestionInv, SequelInv, CountInv, NEW n \in Device, HearState(n)
  PROVE  CountInv'
  <1> DEFINE c == dev[n]
             e == dev[Other(n)]
  <1>1. PICK i \in DOMAIN e.sent :
          /\ e.sent[i].kind = "State" /\ e.sent[i].seq > c.seq
          /\ Becomes(n, [c EXCEPT !.pending = e.sent[i].load, !.seq = e.sent[i].seq, !.turn = TRUE])
    BY DEF HearState
  <1>2. /\ c \in Machine /\ e \in Machine /\ c.session = "Playing"
        /\ Other(n) \in Device \ {n} /\ \A p \in Device \ {n} : p = Other(n)
    BY OtherIs DEF TypeInv, HearState
  <1>3. Own(c) /\ Own(e) /\ Counted(c, e) /\ Counted(e, c)
    BY <1>2 DEF CountInv
  <1>4. Coming(c, e)
    BY <1>2, StillComing
  <1>5. e.session = "Playing" => Sequel(c, e)
    BY <1>2 DEF SequelInv, Both
  <1> DEFINE k == e.sent[i].seq
             r == [c EXCEPT !.pending = e.board, !.seq = k, !.turn = TRUE]
  <1>6. k \in Nat /\ c.seq < k /\ k =< e.seq /\ e.sent[i].load = e.board
    <2>1. k \in Nat /\ c.seq \in Nat
      BY <1>1, <1>2, InLogType DEF Machine
    <2> QED BY <1>1, <1>4, <2>1 DEF Coming
  <1>7. Becomes(n, r)
    BY Zenon, <1>1, <1>6
  <1>8. r \in Machine
    <2>1. e.board \in GoodBoard
      BY <1>2 DEF Machine
    <2> QED BY <1>2, <1>6, <2>1, SetPending
  <1>9. e.session = "Playing" => ~e.turn
    <2>1. c.seq \in Nat /\ e.seq \in Nat
      BY <1>2 DEF Machine
    <2> HIDE DEF c, e, k, r
    <2> QED BY <1>5, <1>6, <2>1 DEF Sequel, HasTurn, Sends
  <1> DEFINE out == r
  <1>10. Own(out) /\ Counted(out, e) /\ Counted(e, out)
    <2>1. out = [c EXCEPT !.pending = e.board, !.seq = k, !.turn = TRUE] /\ out \in Machine
      BY <1>8
    <2> HIDE DEF c, e, k, r, out
    <2> QED BY <1>2, <1>3, <1>4, <1>6, <1>9, <2>1, CountedHears
  <1>11. ASSUME NEW p \in Device \ {n}
         PROVE  Counted(out, dev[p]) /\ Counted(dev[p], out)
    BY <1>2, <1>10
  <1> HIDE DEF r
  <1> QED BY <1>7, <1>10, <1>11, CountStep

LEMMA CountHearsSay ==
  ASSUME TypeInv, QuestionInv, SequelInv, CountInv, NEW n \in Device, HearSay(n)
  PROVE  CountInv'
  <1> DEFINE c == dev[n]
             e == dev[Other(n)]
  <1>1. PICK i \in DOMAIN e.sent :
          /\ e.sent[i].kind = "Say" /\ e.sent[i].seq > c.noteSeq
          /\ Becomes(n, [c EXCEPT !.note = e.sent[i].load, !.noteSeq = e.sent[i].seq])
    BY DEF HearSay
  <1>2. /\ c \in Machine /\ e \in Machine /\ c.session = "Playing"
        /\ Other(n) \in Device \ {n} /\ \A p \in Device \ {n} : p = Other(n)
    BY OtherIs DEF TypeInv, HearSay
  <1>3. Own(c) /\ Counted(c, e) /\ Counted(e, c)
    BY <1>2 DEF CountInv
  <1>4. Coming(c, e)
    BY <1>2, StillComing
  <1> DEFINE r == [c EXCEPT !.note = e.sent[i].load, !.noteSeq = e.sent[i].seq]
  <1>5. r \in Machine
    <2>1. e.sent[i].seq \in Nat /\ e.sent[i].load \in {"again", "leaving"}
      BY <1>1, <1>2, InLogType
    <2> QED BY <1>2, <2>1, SetNote
  <1>6. r.noteSeq >= c.noteSeq
    <2>1. e.sent[i].seq \in Nat /\ c.noteSeq \in Nat /\ r.noteSeq = e.sent[i].seq
      BY <1>1, <1>2, InLogType DEF Machine
    <2> QED BY <1>1, <2>1
  <1>7. /\ GameOf(r) = GameOf(c) /\ r.tally = c.tally /\ r.recorded = c.recorded /\ r.games = c.games
        /\ r.session = c.session /\ r.them = c.them /\ r.pending = c.pending
        /\ r.note = e.sent[i].load
    BY <1>2 DEF GameOf, Machine
  <1>8. NoCall(c, e) /\ Begins(r) => Begins(c)
    BY <1>1, <1>7 DEF NoCall, Begins
  <1>9. (r.pending # NoBoard \/ e.seq > c.seq) /\ Begins(r) => Begins(c)
    <2> HIDE DEF c, e, r
    <2> QED BY <1>4, <1>7, <1>8 DEF Coming
  <1>10. Own(r) /\ Counted(r, e) /\ Counted(e, r)
    <2>1. Becomes(n, r)
      BY <1>1
    <2> HIDE DEF c, e, r
    <2> QED BY <1>2, <1>3, <1>5, <1>6, <1>7, <1>9, CountedSame
  <1>11. ASSUME NEW p \in Device \ {n}
         PROVE  Counted(r, dev[p]) /\ Counted(dev[p], r)
    BY <1>2, <1>10
  <1>12. Becomes(n, r)
    BY <1>1
  <1> HIDE DEF r
  <1> QED BY <1>10, <1>11, <1>12, CountStep

LEMMA CountEnds ==
  ASSUME TypeInv, QuestionInv, SequelInv, CountInv, NEW n \in Device, HearBye(n) \/ Silence(n)
  PROVE  CountInv'
  <1> DEFINE c == dev[n]
  <1>1. PICK why \in {"PeerLeft", "PeerLost"} :
          Becomes(n, [c EXCEPT !.session = "Ended", !.why = why, !.turn = FALSE])
    BY Zenon DEF HearBye, Silence
  <1> DEFINE r == [c EXCEPT !.session = "Ended", !.why = why, !.turn = FALSE]
  <1>2. c \in Machine /\ c.session = "Playing"
    BY DEF TypeInv, HearBye, Silence
  <1>3. r \in Machine
    BY <1>2, SetEnded
  <1>4. /\ GameOf(r) = <<FALSE, c.seq, c.pending, c.board, c.seat, c.dealt>>
        /\ r.tally = c.tally /\ r.recorded = c.recorded /\ r.games = c.games /\ r.sent = c.sent
        /\ r.session # "Playing" /\ r.note = c.note /\ r.you = c.you /\ r.them = c.them
    BY <1>2 DEF GameOf, Machine
  <1>5. ASSUME NEW p \in Device \ {n}
        PROVE  Own(r) /\ Counted(r, dev[p]) /\ Counted(dev[p], r)
    <2>1. dev[p] \in Machine /\ Own(c) /\ Counted(c, dev[p]) /\ Counted(dev[p], c)
      BY DEF TypeInv, CountInv
    <2>2. dev[p].session = "Playing" => Coming(dev[p], c)
      BY StillComing
    <2> HIDE DEF c, r
    <2> QED BY <1>2, <1>3, <1>4, <2>1, <2>2, CountedStops
  <1>6. Own(r)
    BY <1>5, OtherIs
  <1>7. Becomes(n, r)
    BY <1>1
  <1> HIDE DEF r
  <1> QED BY <1>5, <1>6, <1>7, CountStep

LEMMA CountNext ==
  ASSUME CalmMatch
  PROVE  TypeInv /\ QuestionInv /\ SequelInv /\ CountInv /\ [Next]_vars => CountInv'
  <1> SUFFICES ASSUME TypeInv, QuestionInv, SequelInv, CountInv, [Next]_vars PROVE CountInv'
    OBVIOUS
  <1>1. CASE UNCHANGED vars
    <2>1. dev' = dev
      BY <1>1 DEF vars
    <2> QED BY <2>1 DEF CountInv
  <1>2. CASE Next
    <2>1. PICK n \in Device : \/ PassIdle(n) \/ PassAsk(n) \/ PassMove(n) \/ PassLeave(n) \/ Paint(n)
                              \/ HearState(n) \/ HearSay(n) \/ HearBye(n) \/ Silence(n)
      BY <1>2 DEF Next
    <2> QED BY <2>1, CountIdle, CountAsk, CountMove, CountLeave, CountPaint, CountHearsState,
               CountHearsSay, CountEnds
  <1> QED BY <1>1, <1>2

\* Between calm players a finished game is counted once on each device, and a win
\* on one is a loss on the other, whoever asks, answers, leaves or falls silent
\* (LinkEndgame.h:87-122).  A final move that PLAY AGAIN has overtaken would be
\* taken over the new game's board and counted again there.
THEOREM CountsOnce ==
  ASSUME SameDeal, Patient = TRUE, Swift = TRUE
  PROVE  Spec => []CountedOnce
  <1>0. CalmMatch
    BY DEF CalmMatch
  <1>1. CountInv => CountedOnce
    <2> SUFFICES ASSUME CountInv, NEW n \in Device, NEW p \in Device,
                        NEW i \in DOMAIN dev[n].tally, NEW j \in DOMAIN dev[p].tally,
                        dev[n].tally[i].deal = dev[p].tally[j].deal
                 PROVE  \/ n = p /\ i = j
                        \/ n # p /\ dev[n].tally[i].won # dev[p].tally[j].won
      BY DEF CountedOnce
    <2>1. CASE n = p
      BY <2>1 DEF CountInv, Own
    <2>2. CASE n # p
      <3>1. Agreed(dev[n], dev[p])
        BY <2>2 DEF CountInv, Counted
      <3>2. dev[n].tally[i] \in Claims(dev[n]) /\ dev[p].tally[j] \in Claims(dev[p])
        BY DEF Claims, Counts
      <3> QED BY <2>2, <3>1, <3>2 DEF Agreed
    <2> QED BY <2>1, <2>2
  <1>2. Init => CountInv
    BY <1>0, CountInit
  <1>3. TypeInv /\ QuestionInv /\ SequelInv /\ CountInv /\ [Next]_vars => CountInv'
    BY <1>0, CountNext
  <1>4. Spec => [](TypeInv /\ QuestionInv /\ SequelInv)
    BY <1>0, SequelHolds
  <1> QED BY <1>1, <1>2, <1>3, <1>4, PTL DEF Spec
=============================================================================
