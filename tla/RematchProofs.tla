---------------------------- MODULE RematchProofs ----------------------------
(***************************************************************************)
(* Proofs about the end of a game and the next one, on the two devices of  *)
(* a match.                                                                *)
(***************************************************************************)
EXTENDS RematchProps, TLAPS

------------------------------------------------------------------------------
(* Types. *)

\* A board that nobody has won has a move left.
GoodBoard == {b \in Boards : b.winner = NoSeat => b.plies < MaxPlies}

Message ==
  [kind : {"State"}, seq : Nat, load : GoodBoard]
    \cup [kind : {"Say"}, seq : Nat, load : {"again", "leaving"}]
    \cup [kind : {"Bye"}, seq : Nat, load : {"bye"}]

Result == [deal : (Device \cup {0}) \X Nat, won : BOOLEAN]

Stage == {"Live", "Final", "Offer"}

Machine ==
  [me : Device, session : {"Playing", "Ended", "Off"}, why : {"None", "PeerLeft", "PeerLost"},
   turn : BOOLEAN, seq : Nat, pending : GoodBoard, said : Nat, note : {"none", "again", "leaving"},
   noteSeq : Nat, sent : Seq(Message), asking : BOOLEAN, you : {"Deciding", "Ready"},
   them : {"Deciding", "Ready", "Left", "Lost"}, stage : Stage, ready : BOOLEAN, owned : BOOLEAN,
   lastStage : Stage, board : GoodBoard, dealt : BOOLEAN, seat : {0, 1}, games : Nat,
   recorded : BOOLEAN, tally : Seq(Result)]

TypeInv ==
  /\ style \in Styles
  /\ dev \in [Device -> Machine]
  /\ \A n \in Device : dev[n].me = n

LEMMA NoBoardGood == NoBoard \in GoodBoard
  BY LimitAssumption DEF NoBoard, GoodBoard, Boards, NoSeat

LEMMA FreshGood ==
  ASSUME NEW n \in Device, NEW k \in Nat, NEW starter \in {0, 1}
  PROVE  Fresh(n, k, starter) \in GoodBoard
  BY LimitAssumption DEF Fresh, GoodBoard, Boards, NoSeat

\* The operators of a pass give a device back as they found it; first the
\* single assignments they are made of.
LEMMA SetSent ==
  ASSUME NEW d \in Machine, NEW s \in Seq(Message)
  PROVE  /\ \A k \in Nat : [d EXCEPT !.turn = FALSE, !.seq = k, !.sent = s] \in Machine
         /\ \A k \in Nat : [d EXCEPT !.said = k, !.sent = s] \in Machine
         /\ [d EXCEPT !.session = "Off", !.sent = s] \in Machine
  BY ZenonT(40) DEF Machine

LEMMA SetStage ==
  ASSUME NEW d \in Machine, NEW s \in Stage
  PROVE  [d EXCEPT !.stage = s] \in Machine
  BY ZenonT(40) DEF Machine

LEMMA SetBoard ==
  ASSUME NEW d \in Machine, NEW b \in GoodBoard
  PROVE  /\ [d EXCEPT !.board = b] \in Machine
         /\ [d EXCEPT !.board = b, !.dealt = TRUE] \in Machine
         /\ [d EXCEPT !.board = b, !.dealt = FALSE] \in Machine
  BY ZenonT(40) DEF Machine

LEMMA SetTally ==
  ASSUME NEW d \in Machine, NEW t \in Seq(Result)
  PROVE  [d EXCEPT !.recorded = TRUE, !.tally = t] \in Machine
  BY ZenonT(40) DEF Machine

LEMMA SetAsking ==
  ASSUME NEW d \in Machine, NEW them \in {"Deciding", "Ready", "Left", "Lost"}
  PROVE  /\ [d EXCEPT !.asking = TRUE, !.them = them] \in Machine
         /\ [d EXCEPT !.asking = TRUE, !.you = "Deciding", !.them = "Deciding"] \in Machine
  BY ZenonT(40) DEF Machine

LEMMA SetOwned ==
  ASSUME NEW d \in Machine, NEW o \in BOOLEAN, NEW s \in Stage
  PROVE  [d EXCEPT !.ready = FALSE, !.owned = o, !.lastStage = s] \in Machine
  BY ZenonT(40) DEF Machine

LEMMA SetBack ==
  ASSUME NEW d \in Machine, NEW s \in Stage, NEW b \in GoodBoard
  PROVE  [d EXCEPT !.asking = FALSE, !.stage = s, !.pending = b, !.note = "none", !.turn = FALSE]
           \in Machine
  BY ZenonT(40) DEF Machine

LEMMA SetReady ==
  ASSUME NEW d \in Machine
  PROVE  [d EXCEPT !.ready = TRUE] \in Machine
  BY ZenonT(40) DEF Machine

LEMMA SetPending ==
  ASSUME NEW d \in Machine, NEW b \in GoodBoard, NEW k \in Nat
  PROVE  [d EXCEPT !.pending = b, !.seq = k, !.turn = TRUE] \in Machine
  BY ZenonT(40) DEF Machine

LEMMA SetNote ==
  ASSUME NEW d \in Machine, NEW note \in {"again", "leaving"}, NEW k \in Nat
  PROVE  [d EXCEPT !.note = note, !.noteSeq = k] \in Machine
  BY ZenonT(40) DEF Machine

LEMMA SetEnded ==
  ASSUME NEW d \in Machine, NEW why \in {"PeerLeft", "PeerLost"}
  PROVE  [d EXCEPT !.session = "Ended", !.why = why, !.turn = FALSE] \in Machine
  BY ZenonT(40) DEF Machine

LEMMA PlayType ==
  ASSUME NEW d \in Machine
  PROVE  Play(d) \in Machine
  <1>1. [kind |-> "State", seq |-> d.seq + 1, load |-> d.board] \in Message
    BY DEF Message, Machine
  <1>2. Sending(d, "State", d.seq + 1, d.board) \in Seq(Message) /\ d.seq + 1 \in Nat
    BY <1>1 DEF Sending, Machine
  <1>3. [d EXCEPT !.turn = FALSE, !.seq = d.seq + 1, !.sent = Sending(d, "State", d.seq + 1, d.board)]
          \in Machine
    BY <1>2, SetSent
  <1> QED BY Zenon, <1>3 DEF Play

LEMMA SayType ==
  ASSUME NEW d \in Machine, NEW note \in {"again", "leaving"}
  PROVE  Say(d, note) \in Machine
  <1>1. [kind |-> "Say", seq |-> d.said + 1, load |-> note] \in Message
    BY DEF Message, Machine
  <1>2. Sending(d, "Say", d.said + 1, note) \in Seq(Message) /\ d.said + 1 \in Nat
    BY <1>1 DEF Sending, Machine
  <1>3. [d EXCEPT !.said = d.said + 1, !.sent = Sending(d, "Say", d.said + 1, note)] \in Machine
    BY <1>2, SetSent
  <1> QED BY Zenon, <1>3 DEF Say

LEMMA StopType ==
  ASSUME NEW d \in Machine
  PROVE  Stop(d) \in Machine
  <1>1. [kind |-> "Bye", seq |-> 0, load |-> "bye"] \in Message
    BY DEF Message
  <1>2. Sending(d, "Bye", 0, "bye") \in Seq(Message) /\ d.sent \in Seq(Message)
    BY <1>1 DEF Sending, Machine
  <1>3. (IF d.session = "Playing" THEN Sending(d, "Bye", 0, "bye") ELSE d.sent) \in Seq(Message)
    BY <1>2
  <1> QED BY Zenon, <1>3, SetSent DEF Stop

LEMMA DealSameType ==
  ASSUME NEW d \in Machine
  PROVE  DealSame(d) \in Machine
  <1>1. Fresh(d.me, d.games, 0) \in GoodBoard
    BY FreshGood DEF Machine
  <1> QED BY Zenon, <1>1, SetBoard DEF DealSame

LEMMA StartType ==
  ASSUME NEW d \in Machine, NEW first \in BOOLEAN, style \in Styles
  PROVE  Start(d, first) \in Machine
  <1> DEFINE seated == [d EXCEPT !.seat = IF first THEN 0 ELSE 1, !.games = @ + 1, !.recorded = FALSE]
  <1>1. d.games + 1 \in Nat /\ (IF first THEN 0 ELSE 1) \in {0, 1}
    BY DEF Machine
  <1>2. seated \in Machine
    BY ZenonT(40), <1>1 DEF Machine
  <1> HIDE DEF seated
  <1>3. DealSame(seated) \in Machine /\ DealAndSend(seated, first) \in Machine
    BY <1>2, DealSameType, PlayType DEF DealAndSend
  <1>4. Fresh(seated.me, seated.games, 1) \in GoodBoard
    BY <1>2, FreshGood DEF Machine
  <1>5. [seated EXCEPT !.board = Fresh(seated.me, seated.games, 1), !.dealt = TRUE] \in Machine
    BY <1>2, <1>4, SetBoard
  <1>6. [seated EXCEPT !.board = NoBoard, !.dealt = FALSE] \in Machine
    BY <1>2, NoBoardGood, SetBoard
  <1>7. DealAndPass(seated, first) \in Machine
    BY <1>5, <1>6, PlayType DEF DealAndPass
  <1>8. style.opening \in {"both", "dealer", "pass"}
    BY StyleAssumption
  <1>9. Start(d, first) = CASE style.opening = "both"   -> DealSame(seated)
                            [] style.opening = "dealer" -> DealAndSend(seated, first)
                            [] style.opening = "pass"   -> DealAndPass(seated, first)
    BY ZenonT(40) DEF Start, seated
  <1> QED BY <1>3, <1>7, <1>8, <1>9

LEMMA TakeStateType ==
  ASSUME NEW d \in Machine
  PROVE  TakeState(d) \in Machine
  <1> DEFINE t == [d EXCEPT !.board = d.pending, !.pending = NoBoard, !.dealt = TRUE]
  <1>1. t \in Machine
    BY ZenonT(40), NoBoardGood DEF Machine
  <1>2. Play(t) \in Machine
    BY <1>1, PlayType
  <1> QED BY Zenon, <1>1, <1>2 DEF TakeState

LEMMA RecordType ==
  ASSUME NEW d \in Machine
  PROVE  Record(d) \in Machine
  <1>1. [deal |-> d.board.deal, won |-> d.board.winner = d.seat] \in Result
    BY DEF Machine, GoodBoard, Boards, Result
  <1>2. Append(d.tally, [deal |-> d.board.deal, won |-> d.board.winner = d.seat]) \in Seq(Result)
    BY <1>1 DEF Machine
  <1> QED BY Zenon, <1>2, SetTally DEF Record

LEMMA StartRematchType ==
  ASSUME NEW d \in Machine, style \in Styles
  PROVE  StartRematch(d) \in Machine
  <1>1. [d EXCEPT !.stage = "Live", !.lastStage = "Live", !.asking = FALSE, !.you = "Deciding",
                !.them = "Deciding"] \in Machine
    BY ZenonT(40) DEF Machine, Stage
  <1>2. GoesFirst(d) \in BOOLEAN
    BY DEF GoesFirst, TossAgain, WhoseTurn, YourTurn, Machine
  <1> QED BY <1>1, <1>2, StartType DEF StartRematch

LEMMA HearNoteType ==
  ASSUME NEW d \in Machine, style \in Styles
  PROVE  HearNote(d) \in Machine
  <1> DEFINE told == [d EXCEPT !.note = "none", !.asking = TRUE]
             ready == [told EXCEPT !.them = "Ready"]
             left == [told EXCEPT !.them = "Left"]
             deciding == [told EXCEPT !.them = "Ready", !.you = "Deciding"]
  <1>1. told \in Machine /\ ready \in Machine /\ left \in Machine /\ deciding \in Machine
    BY ZenonT(40) DEF Machine
  <1>2. StartRematch(ready) \in Machine
    BY <1>1, StartRematchType
  <1>3. d.note \in {"none", "again", "leaving"}
    BY DEF Machine
  <1> HIDE DEF told, ready, left, deciding
  <1>4. HearNote(d) = CASE d.note = "none" -> d
                        [] d.note = "leaving" -> left
                        [] d.note = "again" -> IF Agrees(d) THEN StartRematch(ready) ELSE deciding
    BY Zenon DEF HearNote, told, ready, left, deciding
  <1> QED BY <1>1, <1>2, <1>3, <1>4

LEMMA EndgameType ==
  ASSUME NEW d \in Machine, NEW expired \in BOOLEAN
  PROVE  EndgameUpdate(d, expired) \in Machine
  <1>1. Record(d) \in Machine
    BY RecordType
  <1> DEFINE counted == Record(d)
  <1> HIDE DEF counted
  <1>2. counted \in Machine
    BY <1>1 DEF counted
  <1>3. /\ [d EXCEPT !.stage = "Live"] \in Machine
        /\ [d EXCEPT !.stage = "Offer"] \in Machine
        /\ [counted EXCEPT !.stage = "Final"] \in Machine
    BY <1>2, SetStage DEF Stage
  <1>4. EndgameUpdate(d, expired) =
          CASE ~GameOver(d) -> [d EXCEPT !.stage = "Live"]
            [] GameOver(d) /\ d.stage = "Live" -> [counted EXCEPT !.stage = "Final"]
            [] GameOver(d) /\ d.stage = "Final" /\ expired -> [d EXCEPT !.stage = "Offer"]
            [] OTHER -> d
    BY Zenon DEF EndgameUpdate, counted
  <1> QED BY <1>3, <1>4

LEMMA DrivenType ==
  ASSUME NEW d \in Machine, NEW expired \in BOOLEAN, style \in Styles
  PROVE  Driven(d, expired) \in Machine
  <1> DEFINE a == HearNote(d)
             b == TakeState(a)
             c == EndgameUpdate(b, expired)
             e == Offer(c)
             f == Gone(e)
  <1>1. c \in Machine
    BY HearNoteType, TakeStateType, EndgameType
  <1> HIDE DEF c
  <1>2. e \in Machine
    BY Zenon, <1>1, SetAsking DEF Offer
  <1> HIDE DEF e
  <1>3. (IF e.why = "PeerLost" THEN "Lost" ELSE "Left") \in {"Deciding", "Ready", "Left", "Lost"}
    OBVIOUS
  <1>4. f \in Machine
    BY Zenon, <1>2, <1>3, SetAsking DEF Gone
  <1> HIDE DEF f
  <1>5. OwnsScreen(f) \in BOOLEAN /\ f.stage \in Stage
    BY <1>4 DEF OwnsScreen, Machine
  <1>6. Handover(d, f) \in Machine
    BY Zenon, <1>4, <1>5, SetOwned DEF Handover
  <1> QED BY Zenon, <1>6 DEF Driven, c, e, f

LEMMA ProposeType ==
  ASSUME NEW d \in Machine, style \in Styles
  PROVE  Propose(d) \in Machine
  <1> DEFINE up == IF d.stage = "Final" THEN "Offer" ELSE d.stage
             asked == Say([d EXCEPT !.you = "Ready", !.stage = IF @ = "Final" THEN "Offer" ELSE @], "again")
  <1>1. up \in Stage
    BY DEF Machine, Stage
  <1> HIDE DEF up
  <1>2. [d EXCEPT !.you = "Ready", !.stage = up] \in Machine
    BY ZenonT(40), <1>1 DEF Machine
  <1>3. [d EXCEPT !.you = "Ready", !.stage = IF @ = "Final" THEN "Offer" ELSE @]
          = [d EXCEPT !.you = "Ready", !.stage = up]
    BY Zenon DEF up
  <1>4. asked \in Machine
    BY <1>2, <1>3, SayType
  <1> DEFINE t == IF asked.them \in {"Left", "Lost"} THEN asked.them ELSE "Deciding"
  <1> HIDE DEF asked
  <1>5. t \in {"Deciding", "Ready", "Left", "Lost"}
    BY <1>4 DEF Machine
  <1>6. [asked EXCEPT !.asking = TRUE, !.them = t] \in Machine
    BY Zenon, <1>4, <1>5, SetAsking
  <1>7. StartRematch(asked) \in Machine
    BY <1>4, StartRematchType
  <1> QED BY Zenon, <1>6, <1>7 DEF Propose, asked

LEMMA LeaveType ==
  ASSUME NEW d \in Machine
  PROVE  LeaveLink(d) \in Machine
  <1> DEFINE s == Stop(IF d.asking THEN Say(d, "leaving") ELSE d)
  <1>1. Say(d, "leaving") \in Machine
    BY SayType
  <1>2. s \in Machine
    BY <1>1, StopType
  <1> HIDE DEF s
  <1>3. [s EXCEPT !.asking = FALSE, !.stage = "Live", !.pending = NoBoard, !.note = "none",
                  !.turn = FALSE] \in Machine
    BY <1>2, NoBoardGood, SetBack DEF Stage
  <1> QED BY Zenon, <1>3 DEF LeaveLink, s

LEMMA MovedBoard ==
  ASSUME NEW d \in Machine, ~Over(d.board), NEW wins \in BOOLEAN,
         d.board.plies + 1 = MaxPlies => wins
  PROVE  [d.board EXCEPT !.plies = @ + 1, !.turn = 1 - @,
                         !.winner = IF wins THEN d.board.turn ELSE NoSeat] \in GoodBoard
  <1> DEFINE b == [d.board EXCEPT !.plies = @ + 1, !.turn = 1 - @,
                                  !.winner = IF wins THEN d.board.turn ELSE NoSeat]
  <1>1. d.board \in Boards /\ d.board.winner = NoSeat /\ d.board.plies < MaxPlies
    BY DEF Machine, GoodBoard, Over
  <1>2. b \in Boards
    <2>1. d.board.plies + 1 \in 0..MaxPlies /\ 1 - d.board.turn \in {0, 1}
      BY <1>1, LimitAssumption DEF Boards
    <2>2. (IF wins THEN d.board.turn ELSE NoSeat) \in {NoSeat, 0, 1}
      BY <1>1 DEF Boards
    <2> QED BY Zenon, <1>1, <2>1, <2>2 DEF Boards
  <1>3. /\ b.winner = IF wins THEN d.board.turn ELSE NoSeat
        /\ b.plies = d.board.plies + 1
    BY <1>1 DEF Boards
  <1>4. d.board.turn # NoSeat /\ d.board.plies \in Nat
    BY <1>1 DEF Boards, NoSeat
  <1>5. b.winner = NoSeat => b.plies < MaxPlies
    BY <1>1, <1>3, <1>4, LimitAssumption
  <1> QED BY <1>2, <1>5 DEF GoodBoard

LEMMA MovedType ==
  ASSUME NEW d \in Machine, ~Over(d.board), NEW wins \in BOOLEAN,
         d.board.plies + 1 = MaxPlies => wins
  PROVE  Moved(d, wins) \in Machine
  <1> DEFINE b == [d.board EXCEPT !.plies = @ + 1, !.turn = 1 - @,
                                  !.winner = IF wins THEN d.board.turn ELSE NoSeat]
  <1>1. b \in GoodBoard
    BY MovedBoard
  <1> HIDE DEF b
  <1>2. Play([d EXCEPT !.board = b]) \in Machine
    BY <1>1, SetBoard, PlayType
  <1> QED BY Zenon, <1>2 DEF Moved, b

------------------------------------------------------------------------------
LEMMA MatchedType ==
  ASSUME NEW n \in Device
  PROVE  Matched(n) \in Machine
  <1>1. <<>> \in Seq(Message) /\ <<>> \in Seq(Result) /\ (n = Host) \in BOOLEAN
    OBVIOUS
  <1> QED BY <1>1, NoBoardGood DEF Matched, Machine, Stage


------------------------------------------------------------------------------
(* What the operators leave alone.  Hand is a device's part in the question *)
(* ANOTHER GAME?, which playing, taking a state and counting a result do    *)
(* not touch.                                                               *)

Hand(d) == <<d.me, d.session, d.you, d.them, d.asking, d.note, d.noteSeq, d.said, d.games>>

LEMMA BoardKeepsHand ==
  ASSUME NEW d, NEW expired
  PROVE  /\ Hand(Play(d)) = Hand(d)
         /\ Hand(DealSame(d)) = Hand(d)
         /\ Hand(TakeState(d)) = Hand(d)
         /\ Hand(EndgameUpdate(d, expired)) = Hand(d)
         /\ \A was : Hand(Handover(was, d)) = Hand(d)
  <1>1. Hand(Play(d)) = Hand(d)
    BY DEF Play, Hand
  <1>2. Hand(DealSame(d)) = Hand(d)
    BY DEF DealSame, Hand
  <1>3. Hand(TakeState(d)) = Hand(d)
    BY DEF TakeState, Play, Hand
  <1>4. Hand(EndgameUpdate(d, expired)) = Hand(d)
    BY DEF EndgameUpdate, Record, Hand
  <1>5. \A was : Hand(Handover(was, d)) = Hand(d)
    BY DEF Handover, Hand
  <1> QED BY <1>1, <1>2, <1>3, <1>4, <1>5

LEMMA StartHand ==
  ASSUME NEW d \in Machine, NEW first \in BOOLEAN, style \in Styles
  PROVE  Hand(Start(d, first))
           = <<d.me, d.session, d.you, d.them, d.asking, d.note, d.noteSeq, d.said, d.games + 1>>
  <1> DEFINE seated == [d EXCEPT !.seat = IF first THEN 0 ELSE 1, !.games = @ + 1, !.recorded = FALSE]
  <1>1. Hand(seated) = <<d.me, d.session, d.you, d.them, d.asking, d.note, d.noteSeq, d.said, d.games + 1>>
    BY DEF Hand, Machine
  <1> HIDE DEF seated
  <1>2. Hand(DealSame(seated)) = Hand(seated) /\ Hand(DealAndSend(seated, first)) = Hand(seated)
    BY BoardKeepsHand DEF DealAndSend
  <1>3. Hand(DealAndPass(seated, first)) = Hand(seated)
    BY DEF DealAndPass, Play, Hand
  <1>4. style.opening \in {"both", "dealer", "pass"}
    BY StyleAssumption
  <1>5. Start(d, first) = CASE style.opening = "both"   -> DealSame(seated)
                            [] style.opening = "dealer" -> DealAndSend(seated, first)
                            [] style.opening = "pass"   -> DealAndPass(seated, first)
    BY ZenonT(40) DEF Start, seated
  <1> QED BY <1>1, <1>2, <1>3, <1>4, <1>5

LEMMA RematchHand ==
  ASSUME NEW d \in Machine, style \in Styles
  PROVE  Hand(StartRematch(d))
           = <<d.me, d.session, "Deciding", "Deciding", FALSE, d.note, d.noteSeq, d.said, d.games + 1>>
  <1> DEFINE c == [d EXCEPT !.stage = "Live", !.lastStage = "Live", !.asking = FALSE, !.you = "Deciding", !.them = "Deciding"]
  <1>1. c \in Machine
    BY ZenonT(40) DEF Machine, Stage
  <1>2. GoesFirst(d) \in BOOLEAN
    BY DEF GoesFirst, TossAgain, WhoseTurn, YourTurn, Machine
  <1>3. /\ c.me = d.me /\ c.session = d.session /\ c.you = "Deciding" /\ c.them = "Deciding"
        /\ c.asking = FALSE /\ c.note = d.note /\ c.noteSeq = d.noteSeq /\ c.said = d.said
        /\ c.games = d.games
    BY DEF Machine
  <1>4. StartRematch(d) = Start(c, GoesFirst(d))
    BY Zenon DEF StartRematch
  <1> QED BY <1>1, <1>2, <1>3, <1>4, StartHand

\* A note once read is gone; it sets or answers the question.
LEMMA NoteHand ==
  ASSUME NEW d \in Machine, style \in Styles
  PROVE  Hand(HearNote(d))
           = CASE d.note = "none" -> Hand(d)
               [] d.note = "leaving" ->
                    <<d.me, d.session, d.you, "Left", TRUE, "none", d.noteSeq, d.said, d.games>>
               [] d.note = "again" /\ d.you = "Ready" ->
                    <<d.me, d.session, "Deciding", "Deciding", FALSE, "none", d.noteSeq, d.said, d.games + 1>>
               [] d.note = "again" /\ d.you # "Ready" ->
                    <<d.me, d.session, "Deciding", "Ready", TRUE, "none", d.noteSeq, d.said, d.games>>
  <1> DEFINE told == [d EXCEPT !.note = "none", !.asking = TRUE]
             ready == [told EXCEPT !.them = "Ready"]
             left == [told EXCEPT !.them = "Left"]
             deciding == [told EXCEPT !.them = "Ready", !.you = "Deciding"]
  <1>1. ready \in Machine
    BY ZenonT(40) DEF Machine
  <1>2. /\ ready.me = d.me /\ ready.session = d.session /\ ready.note = "none"
        /\ ready.noteSeq = d.noteSeq /\ ready.said = d.said /\ ready.games = d.games
    BY DEF Machine
  <1>3. Hand(left) = <<d.me, d.session, d.you, "Left", TRUE, "none", d.noteSeq, d.said, d.games>>
    BY DEF Hand, Machine
  <1>4. Hand(deciding)
          = <<d.me, d.session, "Deciding", "Ready", TRUE, "none", d.noteSeq, d.said, d.games>>
    BY DEF Hand, Machine
  <1>5. d.note \in {"none", "again", "leaving"}
    BY DEF Machine
  <1> HIDE DEF told, ready, left, deciding
  <1>6. HearNote(d) = CASE d.note = "none" -> d
                        [] d.note = "leaving" -> left
                        [] d.note = "again" -> IF Agrees(d) THEN StartRematch(ready) ELSE deciding
    BY Zenon DEF HearNote, told, ready, left, deciding
  <1>7. Hand(StartRematch(ready))
          = <<d.me, d.session, "Deciding", "Deciding", FALSE, "none", d.noteSeq, d.said, d.games + 1>>
    BY <1>1, <1>2, RematchHand
  <1> QED BY <1>3, <1>4, <1>5, <1>6, <1>7 DEF Agrees

\* The rest of a pass may open the question, and that is all it does to it
\* while the match is on.
LEMMA DrivenHand ==
  ASSUME NEW d \in Machine, NEW expired \in BOOLEAN, style \in Styles
  PROVE  LET h == HearNote(d)
             r == Driven(d, expired)
         IN /\ r.me = d.me /\ r.session = d.session
            /\ d.session = "Playing" =>
                 \/ Hand(r) = Hand(h)
                 \/ /\ ~h.asking
                    /\ Hand(r) = <<h.me, h.session, "Deciding", "Deciding", TRUE,
                                   h.note, h.noteSeq, h.said, h.games>>
  <1> DEFINE h == HearNote(d)
             c == EndgameUpdate(TakeState(h), expired)
             e == Offer(c)
             f == Gone(e)
  <1>1. c \in Machine
    BY HearNoteType, TakeStateType, EndgameType
  <1>2. Hand(c) = Hand(h)
    BY BoardKeepsHand
  <1>3. h.me = d.me /\ h.session = d.session
    BY NoteHand DEF Hand, Machine
  <1> HIDE DEF h, c
  <1>4. \/ Hand(e) = Hand(c)
        \/ /\ ~c.asking
           /\ Hand(e) = <<c.me, c.session, "Deciding", "Deciding", TRUE,
                          c.note, c.noteSeq, c.said, c.games>>
    BY <1>1 DEF Offer, Hand, Machine
  <1>5. e.me = c.me /\ e.session = c.session
    BY DEF Offer
  <1> HIDE DEF e
  <1>6. f.me = e.me /\ f.session = e.session /\ (e.session = "Playing" => f = e)
    BY DEF Gone
  <1>7. Driven(d, expired) = Handover(d, f)
    BY Zenon DEF Driven, f, e, c, h
  <1> HIDE DEF f
  <1>8. Hand(Driven(d, expired)) = Hand(f)
    BY <1>7, BoardKeepsHand
  <1>9. c.me = h.me /\ c.session = h.session /\ c.asking = h.asking /\ c.note = h.note
        /\ c.noteSeq = h.noteSeq /\ c.said = h.said /\ c.games = h.games
    BY <1>2 DEF Hand
  <1>10. Driven(d, expired).me = d.me /\ Driven(d, expired).session = d.session
    BY <1>8, <1>6, <1>5, <1>9, <1>3 DEF Hand
  <1>11. ASSUME d.session = "Playing"
         PROVE  \/ Hand(Driven(d, expired)) = Hand(h)
                \/ /\ ~h.asking
                   /\ Hand(Driven(d, expired)) = <<h.me, h.session, "Deciding", "Deciding", TRUE,
                                   h.note, h.noteSeq, h.said, h.games>>
    <2>1. f = e
      BY <1>11, <1>3, <1>5, <1>6, <1>9
    <2> QED BY <2>1, <1>2, <1>4, <1>8, <1>9
  <1> QED BY <1>10, <1>11 DEF h

\* PLAY AGAIN: the answer is given, and taken up at once where the other's is
\* already here.
LEMMA ProposeHand ==
  ASSUME NEW d \in Machine, style \in Styles, d.session = "Playing"
  PROVE  /\ TheyAgreed(d) =>
              Hand(Propose(d)) = <<d.me, "Playing", "Deciding", "Deciding", FALSE,
                                   d.note, d.noteSeq, d.said + 1, d.games + 1>>
         /\ ~TheyAgreed(d) =>
              Hand(Propose(d)) = <<d.me, "Playing", "Ready",
                                   IF d.them \in {"Left", "Lost"} THEN d.them ELSE "Deciding", TRUE,
                                   d.note, d.noteSeq, d.said + 1, d.games>>
  <1> DEFINE up == [d EXCEPT !.you = "Ready", !.stage = IF @ = "Final" THEN "Offer" ELSE @]
             asked == Say(up, "again")
             st == IF d.stage = "Final" THEN "Offer" ELSE d.stage
  <1>1. st \in Stage /\ up = [d EXCEPT !.you = "Ready", !.stage = st]
    BY DEF Machine, Stage
  <1> HIDE DEF st
  <1>2. [d EXCEPT !.you = "Ready", !.stage = st] \in Machine
    BY ZenonT(40), <1>1 DEF Machine
  <1>3. up \in Machine
    BY <1>1, <1>2
  <1>4. Hand(up) = <<d.me, "Playing", "Ready", d.them, d.asking, d.note, d.noteSeq, d.said, d.games>>
    BY DEF Machine, Hand
  <1> HIDE DEF up
  <1>5. asked \in Machine
    BY <1>3, SayType
  <1>6. Hand(asked)
          = <<d.me, "Playing", "Ready", d.them, d.asking, d.note, d.noteSeq, d.said + 1, d.games>>
    BY <1>3, <1>4 DEF Machine, Hand, Say
  <1>7. Propose(d) = IF TheyAgreed(d) THEN StartRematch(asked)
                     ELSE [asked EXCEPT !.asking = TRUE, !.them = IF @ \in {"Left", "Lost"} THEN @ ELSE "Deciding"]
    BY Zenon DEF Propose, asked, up
  <1> HIDE DEF asked
  <1>8. Hand(StartRematch(asked)) = <<d.me, "Playing", "Deciding", "Deciding", FALSE,
                                   d.note, d.noteSeq, d.said + 1, d.games + 1>>
    BY <1>5, <1>6, RematchHand DEF Hand
  <1>9. Hand([asked EXCEPT !.asking = TRUE, !.them = IF @ \in {"Left", "Lost"} THEN @ ELSE "Deciding"])
          = <<d.me, "Playing", "Ready", IF d.them \in {"Left", "Lost"} THEN d.them ELSE "Deciding", TRUE,
              d.note, d.noteSeq, d.said + 1, d.games>>
    BY <1>5, <1>6 DEF Hand, Machine
  <1>10. CASE TheyAgreed(d)
    <2>1. Propose(d) = StartRematch(asked)
      BY Zenon, <1>7, <1>10
    <2> QED BY Zenon, <1>8, <1>10, <2>1
  <1>11. CASE ~TheyAgreed(d)
    <2>1. Propose(d) = [asked EXCEPT !.asking = TRUE, !.them = IF @ \in {"Left", "Lost"} THEN @ ELSE "Deciding"]
      BY Zenon, <1>7, <1>11
    <2> QED BY Zenon, <1>9, <1>11, <2>1
  <1> QED BY Zenon, <1>10, <1>11

LEMMA ProposeSession ==
  ASSUME NEW d \in Machine, style \in Styles
  PROVE  Propose(d).me = d.me /\ Propose(d).session = d.session
  <1> DEFINE asked == Say([d EXCEPT !.you = "Ready", !.stage = IF @ = "Final" THEN "Offer" ELSE @], "again")
             open == [asked EXCEPT !.asking = TRUE, !.them = IF @ \in {"Left", "Lost"} THEN @ ELSE "Deciding"]
  <1>1. asked.me = d.me /\ open.me = asked.me /\ asked.session = d.session /\ open.session = asked.session
    BY DEF Say
  <1>2. StartRematch(asked).me = asked.me /\ StartRematch(asked).session = asked.session
    <2>1. asked \in Machine
      <3> DEFINE st == IF d.stage = "Final" THEN "Offer" ELSE d.stage
      <3>1. st \in Stage
        BY DEF Machine, Stage
      <3>2. asked = Say([d EXCEPT !.you = "Ready", !.stage = st], "again")
        BY DEF Machine
      <3> HIDE DEF st
      <3>3. [d EXCEPT !.you = "Ready", !.stage = st] \in Machine
        BY ZenonT(40), <3>1 DEF Machine
      <3> QED BY <3>2, <3>3, SayType
    <2> HIDE DEF asked
    <2> QED BY <2>1, RematchHand DEF Hand
  <1>3. Propose(d) = IF TheyAgreed(d) THEN StartRematch(asked) ELSE open
    BY Zenon DEF Propose, asked, open
  <1> HIDE DEF asked, open
  <1> QED BY <1>1, <1>2, <1>3

LEMMA MovedHand ==
  ASSUME NEW d, NEW wins
  PROVE  Hand(Moved(d, wins)) = Hand(d)
  BY DEF Moved, Play, Hand

LEMMA LeaveHand ==
  ASSUME NEW d \in Machine
  PROVE  LeaveLink(d).me = d.me /\ LeaveLink(d).session = "Off"
  BY DEF LeaveLink, Stop, Say, Machine


------------------------------------------------------------------------------
(* Every device's fields keep their types.                                  *)

LEMMA BecomesType ==
  ASSUME TypeInv, NEW n \in Device, NEW d \in Machine, d.me = n, Becomes(n, d)
  PROVE  TypeInv'
  BY DEF TypeInv, Becomes

\* A packet found in the other device's log is a message of its kind.
LEMMA Packet ==
  ASSUME TypeInv, NEW n \in Device, NEW i \in DOMAIN dev[n].sent
  PROVE  /\ dev[n].sent[i] \in Message
         /\ dev[n].sent[i].kind = "State" => dev[n].sent[i].seq \in Nat /\ dev[n].sent[i].load \in GoodBoard
         /\ dev[n].sent[i].kind = "Say" =>
              dev[n].sent[i].seq \in Nat /\ dev[n].sent[i].load \in {"again", "leaving"}
  <1>1. dev[n].sent \in Seq(Message)
    BY DEF TypeInv, Machine
  <1>2. dev[n].sent[i] \in Message
    BY <1>1
  <1> QED BY <1>2 DEF Message

LEMMA OtherIs ==
  ASSUME NEW n \in Device
  PROVE  /\ Other(n) \in Device /\ Other(n) # n
         /\ \A p \in Device : p # n => p = Other(n)
  BY PairAssumption DEF Other

LEMMA TypeInit == Init => TypeInv
  <1> SUFFICES ASSUME Init PROVE TypeInv
    OBVIOUS
  <1>1. style \in Styles
    BY DEF Init
  <1>2. ASSUME NEW n \in Device
        PROVE  Start(Matched(n), n = Host) \in Machine /\ Start(Matched(n), n = Host).me = n
    <2>1. Matched(n) \in Machine /\ Matched(n).me = n
      BY MatchedType DEF Matched
    <2>2. (n = Host) \in BOOLEAN
      OBVIOUS
    <2> QED BY <1>1, <2>1, <2>2, StartType, StartHand DEF Hand
  <1> QED BY <1>1, <1>2 DEF Init, TypeInv

LEMMA TypeNext == TypeInv /\ [Next]_vars => TypeInv'
  <1> SUFFICES ASSUME TypeInv, [Next]_vars PROVE TypeInv'
    OBVIOUS
  <1>0. style \in Styles /\ \A n \in Device : dev[n] \in Machine /\ dev[n].me = n
    BY DEF TypeInv
  <1>1. CASE UNCHANGED vars
    BY <1>1 DEF TypeInv, vars
  <1> SUFFICES ASSUME NEW n \in Device,
                      \/ PassIdle(n) \/ PassAsk(n) \/ PassMove(n) \/ PassLeave(n) \/ Paint(n)
                      \/ HearState(n) \/ HearSay(n) \/ HearBye(n) \/ Silence(n)
               PROVE  TypeInv'
    BY <1>1 DEF Next
  <1>2. ASSUME NEW expired \in BOOLEAN
        PROVE  Driven(dev[n], expired) \in Machine /\ Driven(dev[n], expired).me = n
    <2>1. dev[n] \in Machine /\ style \in Styles /\ dev[n].me = n
      BY <1>0
    <2> QED BY Zenon, <2>1, DrivenType, DrivenHand
  <1>3. CASE PassIdle(n)
    BY <1>2, <1>3, BecomesType DEF PassIdle
  <1>4. CASE PassAsk(n)
    BY <1>0, <1>2, <1>4, ProposeType, ProposeSession, BecomesType DEF PassAsk
  <1>5. CASE PassMove(n)
    <2> DEFINE d == Driven(dev[n], FALSE)
    <2>1. /\ MayMove(d)
          /\ \E wins \in IF d.board.plies + 1 = MaxPlies THEN {TRUE} ELSE BOOLEAN :
               Becomes(n, Moved(d, wins))
      BY <1>5 DEF PassMove
    <2>2. PICK wins \in BOOLEAN : (d.board.plies + 1 = MaxPlies => wins) /\ Becomes(n, Moved(d, wins))
      BY <2>1
    <2>3. d \in Machine /\ d.me = n /\ ~Over(d.board)
      BY <1>2, <2>1 DEF MayMove
    <2> HIDE DEF d
    <2>4. Moved(d, wins) \in Machine /\ Moved(d, wins).me = n
      BY <2>2, <2>3, MovedType, MovedHand DEF Hand
    <2> QED BY <2>2, <2>4, BecomesType
  <1>6. CASE PassLeave(n)
    BY <1>2, <1>6, LeaveType, LeaveHand, BecomesType DEF PassLeave
  <1>7. CASE Paint(n)
    <2>1. [dev[n] EXCEPT !.ready = TRUE] \in Machine
      BY <1>0, SetReady
    <2>2. Becomes(n, [dev[n] EXCEPT !.ready = TRUE])
      BY <1>7 DEF Paint
    <2>3. [dev[n] EXCEPT !.ready = TRUE].me = n
      BY <1>0
    <2> QED BY <2>1, <2>2, <2>3, BecomesType
  <1>8. CASE HearState(n)
    <2>1. PICK i \in DOMAIN dev[Other(n)].sent :
            /\ dev[Other(n)].sent[i].kind = "State"
            /\ Becomes(n, [dev[n] EXCEPT !.pending = dev[Other(n)].sent[i].load,
                                         !.seq = dev[Other(n)].sent[i].seq, !.turn = TRUE])
      BY <1>8 DEF HearState
    <2>2. dev[Other(n)].sent[i].seq \in Nat /\ dev[Other(n)].sent[i].load \in GoodBoard
      BY <2>1, Packet, OtherIs
    <2>3. [dev[n] EXCEPT !.pending = dev[Other(n)].sent[i].load,
                         !.seq = dev[Other(n)].sent[i].seq, !.turn = TRUE] \in Machine
      BY <1>0, <2>2, SetPending
    <2>4. [dev[n] EXCEPT !.pending = dev[Other(n)].sent[i].load,
                         !.seq = dev[Other(n)].sent[i].seq, !.turn = TRUE].me = n
      BY <1>0
    <2> QED BY <2>1, <2>3, <2>4, BecomesType
  <1>9. CASE HearSay(n)
    <2>1. PICK i \in DOMAIN dev[Other(n)].sent :
            /\ dev[Other(n)].sent[i].kind = "Say"
            /\ Becomes(n, [dev[n] EXCEPT !.note = dev[Other(n)].sent[i].load,
                                         !.noteSeq = dev[Other(n)].sent[i].seq])
      BY <1>9 DEF HearSay
    <2>2. /\ dev[Other(n)].sent[i].seq \in Nat
          /\ dev[Other(n)].sent[i].load \in {"again", "leaving"}
      BY <2>1, Packet, OtherIs
    <2>3. [dev[n] EXCEPT !.note = dev[Other(n)].sent[i].load,
                         !.noteSeq = dev[Other(n)].sent[i].seq] \in Machine
      BY <1>0, <2>2, SetNote
    <2>4. [dev[n] EXCEPT !.note = dev[Other(n)].sent[i].load,
                         !.noteSeq = dev[Other(n)].sent[i].seq].me = n
      BY <1>0
    <2> QED BY <2>1, <2>3, <2>4, BecomesType
  <1>10. CASE HearBye(n)
    <2>1. [dev[n] EXCEPT !.session = "Ended", !.why = "PeerLeft", !.turn = FALSE] \in Machine
      BY <1>0, SetEnded
    <2>2. [dev[n] EXCEPT !.session = "Ended", !.why = "PeerLeft", !.turn = FALSE].me = n
      BY <1>0
    <2> QED BY <1>10, <2>1, <2>2, BecomesType DEF HearBye
  <1>11. CASE Silence(n)
    <2>1. [dev[n] EXCEPT !.session = "Ended", !.why = "PeerLost", !.turn = FALSE] \in Machine
      BY <1>0, SetEnded
    <2>2. [dev[n] EXCEPT !.session = "Ended", !.why = "PeerLost", !.turn = FALSE].me = n
      BY <1>0
    <2> QED BY <1>11, <2>1, <2>2, BecomesType DEF Silence
  <1> QED BY <1>3, <1>4, <1>5, <1>6, <1>7, <1>8, <1>9, <1>10, <1>11

\* Whatever the two players tap and whatever is lost, late or repeated, each
\* device holds a board, a seat, a question and a record that the code can be
\* in; for every style of game, with and without the players' habits.
THEOREM Types == Spec => []TypeOK
  <1>1. ASSUME TypeInv PROVE TypeOK
    <2> SUFFICES ASSUME NEW n \in Device PROVE TypeOK!(n)
      BY DEF TypeOK
    <2>1. dev[n] \in Machine /\ dev[n].me = n
      BY <1>1 DEF TypeInv
    <2> DEFINE d == dev[n]
    <2> HIDE DEF d
    <2>2. d \in Machine
      BY <2>1 DEF d
    <2>3. d.session \in {"Playing", "Ended", "Off"} /\ d.why \in {"None", "PeerLeft", "PeerLost"}
      BY <2>2 DEF Machine
    <2>4. {d.turn, d.asking, d.ready, d.owned, d.dealt, d.recorded} \subseteq BOOLEAN
      BY <2>2 DEF Machine
    <2>5. {d.seq, d.said, d.noteSeq, d.games} \subseteq Nat
      BY <2>2 DEF Machine
    <2>6. {d.board, d.pending} \subseteq Boards
      BY <2>2 DEF Machine, GoodBoard
    <2>7. /\ d.note \in {"none", "again", "leaving"} /\ d.you \in {"Deciding", "Ready"}
          /\ d.them \in {"Deciding", "Ready", "Left", "Lost"} /\ d.seat \in {0, 1}
      BY <2>2 DEF Machine
    <2>8. {d.stage, d.lastStage} \subseteq {"Live", "Final", "Offer"}
      BY <2>2 DEF Machine, Stage
    <2> QED BY <2>1, <2>3, <2>4, <2>5, <2>6, <2>7, <2>8 DEF d
  <1> QED BY <1>1, TypeInit, TypeNext, PTL DEF Spec


------------------------------------------------------------------------------
(* Nobody starts another game alone.                                        *)

\* What a device has said is "again", as long as it has not left.
AllAgain(log, said) ==
  \A i \in DOMAIN log : log[i].kind = "Say" => log[i].seq =< said /\ log[i].load = "again"
SaysAgain(d) == AllAgain(d.sent, d.said)

\* The answers of d that e has yet to act on, and the answer d is held to.
Owed(d, e) == (d.said - e.noteSeq) + (IF e.note = "again" THEN 1 ELSE 0)
Held(d) == IF d.you = "Ready" THEN 1 ELSE 0

Asker(d, e) ==
  /\ d.note # "leaving" /\ d.noteSeq =< e.said
  /\ d.you = "Ready" => d.asking /\ d.them # "Ready"
  /\ d.them = "Ready" => d.asking
  /\ d.them \in {"Deciding", "Ready"}

\* In one game: only the answer a device is held to can be under way, and one
\* that has been taken in is one it is held to.
Level(d, e) ==
  /\ d.games = e.games
  /\ Owed(d, e) =< Held(d)
  /\ e.them = "Ready" => d.you = "Ready" /\ Owed(d, e) = 0

\* d has begun the next game: e is held to its own answer, which d has used up,
\* and what d answered is on its way to e.
Ahead(d, e) ==
  /\ d.games = e.games + 1
  /\ e.you = "Ready" /\ Owed(e, d) = 0
  /\ d.them # "Ready" /\ Owed(d, e) =< 1 + Held(d)

Pair(d, e) ==
  /\ Asker(d, e) /\ Asker(e, d)
  /\ (Level(d, e) /\ Level(e, d)) \/ Ahead(d, e) \/ Ahead(e, d)

QuestionInv ==
  \A n, p \in Device : Both(n, p) => SaysAgain(dev[n]) /\ Pair(dev[n], dev[p])

LEMMA PairIsSymmetric ==
  ASSUME NEW d, NEW e, Pair(d, e)
  PROVE  Pair(e, d)
  BY DEF Pair

LEMMA PairOfHands ==
  ASSUME NEW d, NEW e, NEW r, Pair(d, e), Hand(r) = Hand(d)
  PROVE  Pair(r, e)
  BY DEF Pair, Hand, Asker, Level, Ahead, Owed, Held

LEMMA PairHearsNote ==
  ASSUME NEW d \in Machine, NEW e \in Machine, style \in Styles, Pair(d, e)
  PROVE  Pair(HearNote(d), e)
  <1> DEFINE h == HearNote(d)
  <1>0. /\ d.said \in Nat /\ d.noteSeq \in Nat /\ d.games \in Nat /\ d.note \in {"none", "again", "leaving"}
        /\ e.said \in Nat /\ e.noteSeq \in Nat /\ e.games \in Nat /\ d.note # "leaving"
        /\ d.you \in {"Deciding", "Ready"} /\ e.you \in {"Deciding", "Ready"}
    BY DEF Machine, Pair, Asker
  <1>1. CASE d.note = "none"
    BY <1>1, NoteHand, PairOfHands
  <1>2. CASE d.note = "again" /\ d.you = "Ready"
    <2>1. /\ h.you = "Deciding" /\ h.them = "Deciding" /\ h.asking = FALSE /\ h.note = "none"
          /\ h.noteSeq = d.noteSeq /\ h.said = d.said /\ h.games = d.games + 1
      BY <1>2, NoteHand DEF Hand
    <2> HIDE DEF h
    <2>2. Asker(h, e) /\ Asker(e, h)
      BY <2>1 DEF Pair, Asker
    <2>3. CASE Level(d, e) /\ Level(e, d)
      <3>1. Ahead(h, e)
        BY <1>0, <1>2, <2>1, <2>3 DEF Pair, Asker, Level, Ahead, Owed, Held
      <3> QED BY <2>2, <3>1 DEF Pair, h
    <2>4. CASE Ahead(d, e)
      BY <1>0, <1>2, <2>4 DEF Pair, Asker, Ahead, Owed
    <2>5. CASE Ahead(e, d)
      <3>0. Owed(h, e) = Owed(d, e) /\ Owed(e, h) + 1 = Owed(e, d) /\ Owed(e, h) \in Int
        BY <1>0, <1>2, <2>1 DEF Owed
      <3>1. Level(h, e) /\ Level(e, h)
        BY <1>0, <2>1, <2>5, <3>0 DEF Level, Ahead, Held
      <3> QED BY <2>2, <3>1 DEF Pair, h
    <2> QED BY <2>3, <2>4, <2>5 DEF Pair, h
  <1>3. CASE d.note = "again" /\ d.you # "Ready"
    <2>1. /\ h.you = "Deciding" /\ h.them = "Ready" /\ h.asking = TRUE /\ h.note = "none"
          /\ h.noteSeq = d.noteSeq /\ h.said = d.said /\ h.games = d.games
      BY <1>3, NoteHand DEF Hand
    <2> HIDE DEF h
    <2>2. Asker(h, e) /\ Asker(e, h)
      BY <2>1 DEF Pair, Asker
    <2>3. CASE Level(d, e) /\ Level(e, d)
      <3>1. Owed(h, e) = Owed(d, e) /\ Owed(e, h) + 1 = Owed(e, d) /\ Owed(e, h) \in Nat
        <4>1. d.noteSeq =< e.said
          BY DEF Pair, Asker
        <4> QED BY <1>0, <1>3, <2>1, <4>1 DEF Owed
      <3>2. Level(h, e)
        BY <1>0, <1>3, <2>1, <2>3, <3>1 DEF Level, Held
      <3>3. e.you = "Ready" /\ Owed(e, h) = 0
        <4>1. Owed(e, d) =< Held(e)
          BY <2>3 DEF Level
        <4> QED BY <3>1, <4>1 DEF Held
      <3>4. Level(e, h)
        BY <1>0, <2>1, <2>3, <3>1, <3>3 DEF Level, Held
      <3> QED BY <2>2, <3>2, <3>4 DEF Pair, h
    <2>4. CASE Ahead(d, e)
      BY <1>0, <1>3, <2>4 DEF Pair, Asker, Ahead, Owed
    <2>5. CASE Ahead(e, d)
      BY <1>0, <1>3, <2>5 DEF Ahead
    <2> QED BY <2>3, <2>4, <2>5 DEF Pair, h
  <1> QED BY <1>0, <1>1, <1>2, <1>3

LEMMA PairDriven ==
  ASSUME NEW d \in Machine, NEW e \in Machine, NEW expired \in BOOLEAN, style \in Styles,
         Pair(d, e), d.session = "Playing"
  PROVE  Pair(Driven(d, expired), e)
  <1> DEFINE h == HearNote(d)
             r == Driven(d, expired)
  <1>1. h \in Machine /\ Pair(h, e)
    BY HearNoteType, PairHearsNote
  <1>2. \/ Hand(r) = Hand(h)
        \/ /\ ~h.asking
           /\ Hand(r) = <<h.me, h.session, "Deciding", "Deciding", TRUE,
                          h.note, h.noteSeq, h.said, h.games>>
    BY Zenon, DrivenHand
  <1> HIDE DEF h, r
  <1>3. CASE Hand(r) = Hand(h)
    BY <1>1, <1>3, PairOfHands DEF r
  <1>4. CASE ~h.asking /\ Hand(r) = <<h.me, h.session, "Deciding", "Deciding", TRUE,
                                      h.note, h.noteSeq, h.said, h.games>>
    <2>1. /\ r.you = "Deciding" /\ r.them = "Deciding" /\ r.asking = TRUE /\ r.note = h.note
          /\ r.noteSeq = h.noteSeq /\ r.said = h.said /\ r.games = h.games
      BY <1>4 DEF Hand
    <2>2. h.you # "Ready" /\ h.them # "Ready"
      BY <1>1, <1>4 DEF Pair, Asker
    <2>3. Asker(r, e) /\ Asker(e, r)
      BY <1>1, <2>1 DEF Pair, Asker
    <2>4. Level(h, e) => Level(r, e)
      BY <2>1, <2>2 DEF Level, Owed, Held
    <2>5. Level(e, h) => Level(e, r)
      BY <2>1, <2>2 DEF Level, Owed, Held
    <2>6. Ahead(h, e) => Ahead(r, e)
      BY <2>1, <2>2 DEF Ahead, Owed, Held
    <2>7. Ahead(e, h) => Ahead(e, r)
      BY <2>1, <2>2 DEF Ahead, Owed, Held
    <2> QED BY <1>1, <2>3, <2>4, <2>5, <2>6, <2>7 DEF Pair, r
  <1> QED BY <1>2, <1>3, <1>4

LEMMA PairPropose ==
  ASSUME NEW d \in Machine, NEW e \in Machine, style \in Styles,
         Pair(d, e), d.session = "Playing", d.you # "Ready"
  PROVE  Pair(Propose(d), e)
  <1> DEFINE r == Propose(d)
  <1>0. /\ d.said \in Nat /\ d.noteSeq \in Nat /\ d.games \in Nat
        /\ e.said \in Nat /\ e.noteSeq \in Nat /\ e.games \in Nat
        /\ d.them \in {"Deciding", "Ready"} /\ e.noteSeq =< d.said /\ d.note # "leaving"
    BY DEF Machine, Pair, Asker
  <1>1. CASE TheyAgreed(d)
    <2>1. /\ r.you = "Deciding" /\ r.them = "Deciding" /\ r.asking = FALSE /\ r.note = d.note
          /\ r.noteSeq = d.noteSeq /\ r.said = d.said + 1 /\ r.games = d.games + 1
      BY <1>1, ProposeHand DEF Hand
    <2>2. d.them = "Ready"
      BY <1>1 DEF TheyAgreed
    <2> HIDE DEF r
    <2>3. Asker(r, e) /\ Asker(e, r)
      BY <1>0, <2>1 DEF Pair, Asker
    <2>4. CASE Level(d, e) /\ Level(e, d)
      <3>1. Ahead(r, e)
        BY <1>0, <2>1, <2>2, <2>4 DEF Level, Ahead, Owed, Held
      <3> QED BY <2>3, <3>1 DEF Pair, r
    <2>5. ~Ahead(d, e) /\ ~Ahead(e, d)
      BY <2>2 DEF Ahead
    <2> QED BY <2>4, <2>5 DEF Pair, r
  <1>2. CASE ~TheyAgreed(d)
    <2>1. /\ r.you = "Ready" /\ r.them = "Deciding" /\ r.asking = TRUE /\ r.note = d.note
          /\ r.noteSeq = d.noteSeq /\ r.said = d.said + 1 /\ r.games = d.games
      BY <1>0, <1>2, ProposeHand DEF Hand
    <2>2. d.them = "Deciding"
      BY <1>0, <1>2 DEF TheyAgreed, Pair, Asker
    <2> HIDE DEF r
    <2>3. Asker(r, e) /\ Asker(e, r)
      BY <1>0, <2>1 DEF Pair, Asker
    <2>4. CASE Level(d, e) /\ Level(e, d)
      <3>1. Level(r, e) /\ Level(e, r)
        BY <1>0, <2>1, <2>2, <2>4 DEF Level, Owed, Held
      <3> QED BY <2>3, <3>1 DEF Pair, r
    <2>5. CASE Ahead(d, e)
      <3>1. Ahead(r, e)
        BY <1>0, <2>1, <2>5 DEF Ahead, Owed, Held
      <3> QED BY <2>3, <3>1 DEF Pair, r
    <2>6. ~Ahead(e, d)
      BY DEF Ahead
    <2> QED BY <2>4, <2>5, <2>6 DEF Pair, r
  <1> QED BY <1>1, <1>2

LEMMA PairHearsSay ==
  ASSUME NEW d \in Machine, NEW e \in Machine, NEW k \in Nat, NEW r,
         Pair(d, e), d.noteSeq < k, k =< e.said,
         r = [d EXCEPT !.note = "again", !.noteSeq = k]
  PROVE  Pair(r, e)
  <1>0. /\ d.said \in Nat /\ d.noteSeq \in Nat /\ e.said \in Nat /\ e.noteSeq \in Nat
        /\ d.games \in Nat /\ e.games \in Nat
    BY DEF Machine
  <1>1. /\ r.you = d.you /\ r.them = d.them /\ r.asking = d.asking /\ r.note = "again"
        /\ r.noteSeq = k /\ r.said = d.said /\ r.games = d.games
    BY DEF Machine
  <1>2. Asker(r, e) /\ Asker(e, r)
    BY <1>0, <1>1 DEF Pair, Asker
  <1>3. CASE Level(d, e) /\ Level(e, d)
    <2>1. Owed(e, d) >= 1 /\ Owed(e, r) >= 1 /\ Owed(e, r) =< Owed(e, d) /\ Owed(r, e) = Owed(d, e)
      BY <1>0, <1>1 DEF Owed
    <2>2. Held(r) = Held(d) /\ Held(e) \in {0, 1} /\ Owed(e, r) \in Int /\ Owed(e, d) \in Int
      BY <1>0, <1>1 DEF Owed, Held
    <2>3. Level(r, e) /\ Level(e, r)
      BY <1>0, <1>1, <1>3, <2>1, <2>2 DEF Level
    <2> QED BY <1>2, <2>3 DEF Pair
  <1>4. CASE Ahead(d, e)
    BY <1>0, <1>4 DEF Ahead, Owed
  <1>5. CASE Ahead(e, d)
    <2>1. Owed(e, r) =< Owed(e, d) /\ Owed(r, e) = Owed(d, e) /\ Held(e) \in {0, 1}
          /\ Owed(e, r) \in Int /\ Owed(e, d) \in Int
      BY <1>0, <1>1 DEF Owed, Held
    <2>2. Ahead(e, r)
      BY <1>0, <1>1, <1>5, <2>1 DEF Ahead
    <2> QED BY <1>2, <2>2 DEF Pair
  <1> QED BY <1>3, <1>4, <1>5 DEF Pair


\* Nothing but an answer adds to what a device has said.
LEMMA SaysPlay ==
  ASSUME NEW d \in Machine, SaysAgain(d)
  PROVE  SaysAgain(Play(d))
  <1>1. CASE YourTurn(d)
    <2> DEFINE m == [kind |-> "State", seq |-> d.seq + 1, load |-> d.board]
    <2>1. Play(d).sent = Append(d.sent, m) /\ Play(d).said = d.said
      BY <1>1 DEF Play, Sending, Machine
    <2>2. d.sent \in Seq(Message) /\ m \in Message /\ m.kind # "Say"
      BY DEF Machine, Message
    <2> HIDE DEF m
    <2>3. ASSUME NEW i \in DOMAIN Append(d.sent, m), Append(d.sent, m)[i].kind = "Say"
          PROVE  i \in DOMAIN d.sent /\ Append(d.sent, m)[i] = d.sent[i]
      BY <2>2, <2>3
    <2> QED BY <2>1, <2>3 DEF SaysAgain, AllAgain
  <1>2. CASE ~YourTurn(d)
    BY <1>2 DEF Play
  <1> QED BY <1>1, <1>2

LEMMA SaysSay ==
  ASSUME NEW d \in Machine, SaysAgain(d)
  PROVE  SaysAgain(Say(d, "again"))
  <1>1. CASE d.session = "Playing"
    <2> DEFINE m == [kind |-> "Say", seq |-> d.said + 1, load |-> "again"]
    <2>1. Say(d, "again").sent = Append(d.sent, m) /\ Say(d, "again").said = d.said + 1
      BY <1>1 DEF Say, Sending, Machine
    <2>2. d.sent \in Seq(Message) /\ m.seq = d.said + 1 /\ m.load = "again" /\ d.said \in Nat
          /\ m \in Message
      BY DEF Machine, Message
    <2> HIDE DEF m
    <2>3. ASSUME NEW i \in DOMAIN Append(d.sent, m), Append(d.sent, m)[i].kind = "Say"
          PROVE  Append(d.sent, m)[i].seq =< d.said + 1 /\ Append(d.sent, m)[i].load = "again"
      <3>1. CASE i = Len(d.sent) + 1
        BY <2>2, <3>1
      <3>2. CASE i \in DOMAIN d.sent
        <4>1. Append(d.sent, m)[i] = d.sent[i] /\ d.sent[i] \in Message
          BY <2>2, <3>2
        <4>2. d.sent[i].seq \in Nat
          BY <2>3, <4>1 DEF Message
        <4> QED BY <2>2, <2>3, <3>2, <4>1, <4>2 DEF SaysAgain, AllAgain
      <3> QED BY <2>2, <3>1, <3>2
    <2> QED BY <2>1, <2>3 DEF SaysAgain, AllAgain
  <1>2. CASE d.session # "Playing"
    BY <1>2 DEF Say
  <1> QED BY <1>1, <1>2

LEMMA SaysStart ==
  ASSUME NEW d \in Machine, NEW first \in BOOLEAN, style \in Styles, SaysAgain(d)
  PROVE  SaysAgain(Start(d, first))
  <1> DEFINE seated == [d EXCEPT !.seat = IF first THEN 0 ELSE 1, !.games = @ + 1, !.recorded = FALSE]
             passer == [seated EXCEPT !.board = Fresh(seated.me, seated.games, 1), !.dealt = TRUE]
             waiter == [seated EXCEPT !.board = NoBoard, !.dealt = FALSE]
             st == IF first THEN 0 ELSE 1
  <1>1. seated \in Machine
    <2>1. st \in {0, 1} /\ d.games + 1 \in Nat /\ seated = [d EXCEPT !.seat = st, !.games = d.games + 1, !.recorded = FALSE]
      BY DEF Machine
    <2> HIDE DEF st, seated
    <2>2. [d EXCEPT !.seat = st, !.games = d.games + 1, !.recorded = FALSE] \in Machine
      BY ZenonT(40), <2>1 DEF Machine
    <2> QED BY <2>1, <2>2
  <1>2. SaysAgain(seated)
    BY DEF SaysAgain
  <1> HIDE DEF seated
  <1>3. Fresh(seated.me, seated.games, 1) \in GoodBoard
    BY <1>1, FreshGood DEF Machine
  <1>4. passer \in Machine
    BY <1>1, <1>3, SetBoard
  <1>11. SaysAgain(passer) /\ SaysAgain(waiter)
    BY <1>2 DEF SaysAgain
  <1>5. DealSame(seated) \in Machine
    BY <1>1, DealSameType
  <1>10. SaysAgain(DealSame(seated))
    BY <1>2 DEF DealSame, SaysAgain
  <1> HIDE DEF passer, waiter
  <1>6. SaysAgain(DealAndSend(seated, first))
    BY <1>5, <1>10, SaysPlay DEF DealAndSend
  <1>7. SaysAgain(DealAndPass(seated, first))
    <2>1. DealAndPass(seated, first) = IF first THEN Play(passer) ELSE waiter
      BY Zenon DEF DealAndPass, passer, waiter
    <2> QED BY <1>4, <1>11, <2>1, SaysPlay
  <1>8. style.opening \in {"both", "dealer", "pass"}
    BY StyleAssumption
  <1>9. Start(d, first) = CASE style.opening = "both"   -> DealSame(seated)
                            [] style.opening = "dealer" -> DealAndSend(seated, first)
                            [] style.opening = "pass"   -> DealAndPass(seated, first)
    BY ZenonT(40) DEF Start, seated
  <1> QED BY <1>10, <1>6, <1>7, <1>8, <1>9

LEMMA SaysRematch ==
  ASSUME NEW d \in Machine, style \in Styles, SaysAgain(d)
  PROVE  SaysAgain(StartRematch(d))
  <1> DEFINE c == [d EXCEPT !.stage = "Live", !.lastStage = "Live", !.asking = FALSE, !.you = "Deciding", !.them = "Deciding"]
  <1>1. c \in Machine
    BY ZenonT(40) DEF Machine, Stage
  <1>2. GoesFirst(d) \in BOOLEAN
    BY DEF GoesFirst, TossAgain, WhoseTurn, YourTurn, Machine
  <1>3. SaysAgain(c)
    BY DEF SaysAgain
  <1>4. StartRematch(d) = Start(c, GoesFirst(d))
    BY Zenon DEF StartRematch
  <1> QED BY <1>1, <1>2, <1>3, <1>4, SaysStart

LEMMA SaysDriven ==
  ASSUME NEW d \in Machine, NEW expired \in BOOLEAN, style \in Styles, SaysAgain(d)
  PROVE  SaysAgain(Driven(d, expired))
  <1> DEFINE told == [d EXCEPT !.note = "none", !.asking = TRUE]
             ready == [told EXCEPT !.them = "Ready"]
             left == [told EXCEPT !.them = "Left"]
             deciding == [told EXCEPT !.them = "Ready", !.you = "Deciding"]
             h == HearNote(d)
             t == [h EXCEPT !.board = h.pending, !.pending = NoBoard, !.dealt = TRUE]
  <1>1. ready \in Machine
    BY ZenonT(40) DEF Machine
  <1>2. SaysAgain(ready) /\ SaysAgain(left) /\ SaysAgain(deciding)
    BY DEF SaysAgain
  <1>3. d.note \in {"none", "again", "leaving"}
    BY DEF Machine
  <1> HIDE DEF ready, left, deciding
  <1>4. HearNote(d) = CASE d.note = "none" -> d
                        [] d.note = "leaving" -> left
                        [] d.note = "again" -> IF Agrees(d) THEN StartRematch(ready) ELSE deciding
    BY Zenon DEF HearNote, told, ready, left, deciding
  <1>5. SaysAgain(h) /\ h \in Machine
    BY <1>1, <1>2, <1>3, <1>4, SaysRematch, HearNoteType
  <1> HIDE DEF h
  <1>6. t \in Machine
    <2>1. h.pending \in GoodBoard
      BY <1>5 DEF Machine
    <2> QED BY ZenonT(40), <1>5, <2>1, NoBoardGood DEF Machine
  <1>7. SaysAgain(t)
    BY <1>5 DEF SaysAgain
  <1>8. TakeState(h) = IF h.pending = NoBoard THEN h ELSE IF NothingToDo(t) THEN Play(t) ELSE t
    BY Zenon DEF TakeState
  <1> HIDE DEF t
  <1>9. SaysAgain(TakeState(h))
    BY <1>5, <1>6, <1>7, <1>8, SaysPlay
  <1> DEFINE c == TakeState(h)
             r == Driven(d, expired)
  <1>10. r = Handover(d, Gone(Offer(EndgameUpdate(c, expired))))
    BY Zenon DEF Driven, h
  <1> HIDE DEF c, r
  <1>11. \A e : EndgameUpdate(e, expired).sent = e.sent /\ EndgameUpdate(e, expired).said = e.said
    BY DEF EndgameUpdate, Record
  <1>12. \A e : Gone(Offer(e)).sent = e.sent /\ Gone(Offer(e)).said = e.said
    BY DEF Gone, Offer
  <1>13. \A e : Handover(d, e).sent = e.sent /\ Handover(d, e).said = e.said
    BY DEF Handover
  <1>14. r.sent = c.sent /\ r.said = c.said
    BY <1>10, <1>11, <1>12, <1>13
  <1> QED BY <1>9, <1>14 DEF c, r, SaysAgain

LEMMA SaysPropose ==
  ASSUME NEW d \in Machine, style \in Styles, SaysAgain(d)
  PROVE  SaysAgain(Propose(d))
  <1> DEFINE st == IF d.stage = "Final" THEN "Offer" ELSE d.stage
             up == [d EXCEPT !.you = "Ready", !.stage = IF @ = "Final" THEN "Offer" ELSE @]
             asked == Say(up, "again")
             open == [asked EXCEPT !.asking = TRUE, !.them = IF @ \in {"Left", "Lost"} THEN @ ELSE "Deciding"]
  <1>1. st \in Stage /\ up = [d EXCEPT !.you = "Ready", !.stage = st]
    BY DEF Machine, Stage
  <1>2. SaysAgain(up)
    BY DEF SaysAgain
  <1> HIDE DEF st, up
  <1>3. [d EXCEPT !.you = "Ready", !.stage = st] \in Machine
    BY ZenonT(40), <1>1 DEF Machine
  <1>4. asked \in Machine /\ SaysAgain(asked)
    BY <1>1, <1>2, <1>3, SayType, SaysSay
  <1>5. Propose(d) = IF TheyAgreed(d) THEN StartRematch(asked) ELSE open
    BY Zenon DEF Propose, asked, up, open
  <1> HIDE DEF asked
  <1>6. SaysAgain(open) /\ SaysAgain(StartRematch(asked))
    BY <1>4, SaysRematch DEF SaysAgain
  <1> HIDE DEF open
  <1> QED BY Zenon, <1>5, <1>6

LEMMA SaysMoved ==
  ASSUME NEW d \in Machine, NEW wins \in BOOLEAN, SaysAgain(d), ~Over(d.board),
         d.board.plies + 1 = MaxPlies => wins
  PROVE  SaysAgain(Moved(d, wins))
  <1> DEFINE b == [d.board EXCEPT !.plies = @ + 1, !.turn = 1 - @,
                                  !.winner = IF wins THEN d.board.turn ELSE NoSeat]
  <1>1. SaysAgain([d EXCEPT !.board = b])
    BY DEF SaysAgain
  <1>2. b \in GoodBoard
    BY MovedBoard
  <1> HIDE DEF b
  <1>3. [d EXCEPT !.board = b] \in Machine
    BY <1>2, SetBoard
  <1> QED BY <1>1, <1>3, SaysPlay DEF Moved, b


\* One device changes; what the pair relies on is shown for it and the other.
LEMMA QuestionStep ==
  ASSUME TypeInv, QuestionInv, NEW n \in Device, NEW d \in Machine, Becomes(n, d),
         d.session = "Playing" => dev[n].session = "Playing",
         ASSUME NEW p \in Device, Both(n, p), d.session = "Playing"
         PROVE  SaysAgain(d) /\ Pair(d, dev[p])
  PROVE  QuestionInv'
  <1> SUFFICES ASSUME NEW a \in Device, NEW b \in Device, Both(a, b)'
               PROVE  SaysAgain(dev[a])' /\ Pair(dev[a], dev[b])'
    BY DEF QuestionInv
  <1>1. /\ dev'[n] = d /\ \A q \in Device : q # n => dev'[q] = dev[q]
    BY DEF Becomes, TypeInv
  <1>2. Both(a, b)
    BY <1>1 DEF Both
  <1>3. CASE a = n
    BY <1>1, <1>2, <1>3 DEF Both
  <1>4. CASE b = n
    <2>1. Both(n, a) /\ Pair(d, dev[a]) /\ SaysAgain(dev[a])
      BY <1>1, <1>2, <1>4 DEF Both, QuestionInv
    <2>2. Pair(dev[a], d)
      BY <2>1, PairIsSymmetric
    <2> QED BY <1>1, <1>4, <2>1, <2>2 DEF Both
  <1>5. CASE a # n /\ b # n
    BY <1>1, <1>2, <1>5 DEF QuestionInv
  <1> QED BY <1>3, <1>4, <1>5

LEMMA QuestionInit == Init => QuestionInv
  <1> SUFFICES ASSUME Init, NEW n \in Device, NEW p \in Device, Both(n, p)
               PROVE  SaysAgain(dev[n]) /\ Pair(dev[n], dev[p])
    BY DEF QuestionInv
  <1>1. ASSUME NEW q \in Device
        PROVE  /\ dev[q].you = "Deciding" /\ dev[q].them = "Deciding" /\ dev[q].asking = FALSE
               /\ dev[q].note = "none" /\ dev[q].noteSeq = 0 /\ dev[q].said = 0 /\ dev[q].games = 1
               /\ SaysAgain(dev[q])
    <2> DEFINE m == Matched(q)
    <2>1. dev[q] = Start(m, q = Host) /\ style \in Styles /\ (q = Host) \in BOOLEAN
      BY DEF Init
    <2>2. m \in Machine
      BY MatchedType
    <2>3. /\ m.you = "Deciding" /\ m.them = "Deciding" /\ m.asking = FALSE /\ m.note = "none"
          /\ m.noteSeq = 0 /\ m.said = 0 /\ m.games = 0 /\ m.sent = <<>>
      BY DEF Matched
    <2>4. SaysAgain(m)
      BY <2>3 DEF SaysAgain, AllAgain
    <2> HIDE DEF m
    <2>5. SaysAgain(dev[q])
      BY <2>1, <2>2, <2>4, SaysStart
    <2>6. Hand(dev[q]) = <<m.me, m.session, m.you, m.them, m.asking, m.note, m.noteSeq, m.said, m.games + 1>>
      BY <2>1, <2>2, StartHand
    <2>7. /\ dev[q].you = m.you /\ dev[q].them = m.them /\ dev[q].asking = m.asking
          /\ dev[q].note = m.note /\ dev[q].noteSeq = m.noteSeq /\ dev[q].said = m.said
          /\ dev[q].games = m.games + 1
      BY <2>6 DEF Hand
    <2> QED BY <2>3, <2>5, <2>7
  <1>2. Pair(dev[n], dev[p])
    <2>0. \A q \in {n, p} : /\ dev[q].you = "Deciding" /\ dev[q].them = "Deciding" /\ dev[q].note = "none"
                            /\ dev[q].noteSeq = 0 /\ dev[q].said = 0 /\ dev[q].games = 1
      BY Zenon, <1>1
    <2>1. Owed(dev[n], dev[p]) = 0 /\ Owed(dev[p], dev[n]) = 0 /\ Held(dev[n]) = 0 /\ Held(dev[p]) = 0
      BY <2>0 DEF Owed, Held
    <2>2. Level(dev[n], dev[p]) /\ Level(dev[p], dev[n])
      BY <2>0, <2>1 DEF Level
    <2>3. Asker(dev[n], dev[p]) /\ Asker(dev[p], dev[n])
      BY <2>0 DEF Asker
    <2> QED BY <2>2, <2>3 DEF Pair
  <1> QED BY <1>1, <1>2

LEMMA QuestionNext ==
  ASSUME Patient = TRUE
  PROVE  TypeInv /\ QuestionInv /\ [Next]_vars => QuestionInv'
  <1> SUFFICES ASSUME TypeInv, QuestionInv, [Next]_vars PROVE QuestionInv'
    OBVIOUS
  <1>0. style \in Styles /\ \A q \in Device : dev[q] \in Machine /\ dev[q].me = q
    BY DEF TypeInv
  <1>1. CASE UNCHANGED vars
    BY <1>1 DEF QuestionInv, Both, vars
  <1> SUFFICES ASSUME NEW n \in Device,
                      \/ PassIdle(n) \/ PassAsk(n) \/ PassMove(n) \/ PassLeave(n) \/ Paint(n)
                      \/ HearState(n) \/ HearSay(n) \/ HearBye(n) \/ Silence(n)
               PROVE  QuestionInv'
    BY <1>1 DEF Next
  <1>2. ASSUME NEW expired \in BOOLEAN
        PROVE  /\ Driven(dev[n], expired) \in Machine
               /\ Driven(dev[n], expired).session = dev[n].session
               /\ \A p \in Device : Both(n, p) =>
                    SaysAgain(Driven(dev[n], expired)) /\ Pair(Driven(dev[n], expired), dev[p])
    <2>1. dev[n] \in Machine /\ style \in Styles
      BY <1>0
    <2>2. Driven(dev[n], expired) \in Machine /\ Driven(dev[n], expired).session = dev[n].session
      BY Zenon, <2>1, DrivenType, DrivenHand
    <2>3. ASSUME NEW p \in Device, Both(n, p)
          PROVE  SaysAgain(Driven(dev[n], expired)) /\ Pair(Driven(dev[n], expired), dev[p])
      <3>1. SaysAgain(dev[n]) /\ Pair(dev[n], dev[p]) /\ dev[n].session = "Playing" /\ dev[p] \in Machine
        BY <1>0, <2>3 DEF QuestionInv, Both
      <3> QED BY Zenon, <2>1, <3>1, SaysDriven, PairDriven
    <2> QED BY <2>2, <2>3
  <1>3. CASE PassIdle(n)
    <2>1. PICK expired \in BOOLEAN : Becomes(n, Driven(dev[n], expired))
      BY <1>3 DEF PassIdle
    <2> QED BY Zenon, <1>2, <2>1, QuestionStep
  <1> DEFINE d == Driven(dev[n], FALSE)
  <1>4. CASE PassAsk(n)
    <2>1. MayAsk(d) /\ Becomes(n, Propose(d))
      BY <1>4 DEF PassAsk
    <2>2. d.you # "Ready"
      BY <2>1 DEF MayAsk
    <2>3. d \in Machine /\ d.session = dev[n].session
      BY <1>2
    <2>4. \A p \in Device : Both(n, p) => SaysAgain(d) /\ Pair(d, dev[p])
      BY <1>2
    <2> HIDE DEF d
    <2>5. Propose(d) \in Machine
      BY <1>0, <2>3, ProposeType
    <2>6. Propose(d).session = "Playing" => dev[n].session = "Playing"
      <3>1. Propose(d).session = d.session
        BY <1>0, <2>3, ProposeSession
      <3> QED BY <2>3, <3>1
    <2>7. ASSUME NEW p \in Device, Both(n, p)
          PROVE  SaysAgain(Propose(d)) /\ Pair(Propose(d), dev[p])
      <3>1. d.session = "Playing" /\ dev[p] \in Machine /\ SaysAgain(d) /\ Pair(d, dev[p])
        BY <1>0, <2>3, <2>4, <2>7 DEF Both
      <3> QED BY <1>0, <2>2, <2>3, <3>1, SaysPropose, PairPropose
    <2> QED BY Zenon, <2>1, <2>5, <2>6, <2>7, QuestionStep
  <1>5. CASE PassMove(n)
    <2>1. MayMove(d) /\ \E wins \in IF d.board.plies + 1 = MaxPlies THEN {TRUE} ELSE BOOLEAN :
                          Becomes(n, Moved(d, wins))
      BY <1>5 DEF PassMove
    <2>2. PICK wins \in BOOLEAN : (d.board.plies + 1 = MaxPlies => wins) /\ Becomes(n, Moved(d, wins))
      BY <2>1
    <2>3. d \in Machine /\ d.session = dev[n].session /\ ~Over(d.board)
      BY <1>2, <2>1 DEF MayMove
    <2>4. \A p \in Device : Both(n, p) => SaysAgain(d) /\ Pair(d, dev[p])
      BY <1>2
    <2> HIDE DEF d
    <2>5. Moved(d, wins) \in Machine
      BY <2>2, <2>3, MovedType
    <2>6. Hand(Moved(d, wins)) = Hand(d)
      BY MovedHand
    <2>7. Moved(d, wins).session = dev[n].session
      BY <2>3, <2>6 DEF Hand
    <2>8. ASSUME NEW p \in Device, Both(n, p)
          PROVE  SaysAgain(Moved(d, wins)) /\ Pair(Moved(d, wins), dev[p])
      BY <2>2, <2>3, <2>4, <2>6, <2>8, SaysMoved, PairOfHands
    <2> QED BY Zenon, <2>2, <2>5, <2>7, <2>8, QuestionStep
  <1>6. CASE PassLeave(n)
    <2>1. Becomes(n, LeaveLink(d)) /\ d \in Machine
      BY <1>2, <1>6 DEF PassLeave
    <2> HIDE DEF d
    <2>2. LeaveLink(d) \in Machine /\ LeaveLink(d).session = "Off"
      BY <2>1, LeaveType, LeaveHand
    <2>3. LeaveLink(d).session # "Playing"
      BY <2>2
    <2> QED BY Zenon, <2>1, <2>2, <2>3, QuestionStep
  <1>7. CASE Paint(n)
    <2> DEFINE r == [dev[n] EXCEPT !.ready = TRUE]
    <2>1. r \in Machine /\ Becomes(n, r)
      BY <1>0, <1>7, SetReady DEF Paint
    <2>2. Hand(r) = Hand(dev[n]) /\ r.session = dev[n].session
      BY DEF Hand
    <2>3. SaysAgain(r) = SaysAgain(dev[n])
      BY DEF SaysAgain
    <2> HIDE DEF r
    <2>4. ASSUME NEW p \in Device, Both(n, p)
          PROVE  SaysAgain(r) /\ Pair(r, dev[p])
      BY <2>2, <2>3, <2>4, PairOfHands DEF QuestionInv
    <2> QED BY Zenon, <2>1, <2>2, <2>4, QuestionStep
  <1>8. CASE HearState(n)
    <2>1. PICK i \in DOMAIN dev[Other(n)].sent :
            /\ dev[Other(n)].sent[i].kind = "State"
            /\ Becomes(n, [dev[n] EXCEPT !.pending = dev[Other(n)].sent[i].load,
                                         !.seq = dev[Other(n)].sent[i].seq, !.turn = TRUE])
      BY <1>8 DEF HearState
    <2>2. dev[Other(n)].sent[i].seq \in Nat /\ dev[Other(n)].sent[i].load \in GoodBoard
      BY <2>1, Packet, OtherIs
    <2> DEFINE r == [dev[n] EXCEPT !.pending = dev[Other(n)].sent[i].load,
                                   !.seq = dev[Other(n)].sent[i].seq, !.turn = TRUE]
    <2>3. r \in Machine /\ Becomes(n, r)
      BY <1>0, <2>1, <2>2, SetPending
    <2>4. Hand(r) = Hand(dev[n]) /\ r.session = dev[n].session
      BY DEF Hand
    <2>5. SaysAgain(r) = SaysAgain(dev[n])
      BY DEF SaysAgain
    <2> HIDE DEF r
    <2>6. ASSUME NEW p \in Device, Both(n, p)
          PROVE  SaysAgain(r) /\ Pair(r, dev[p])
      BY <2>4, <2>5, <2>6, PairOfHands DEF QuestionInv
    <2> QED BY Zenon, <2>3, <2>4, <2>6, QuestionStep
  <1>9. CASE HearSay(n)
    <2>1. PICK i \in DOMAIN dev[Other(n)].sent :
            /\ dev[n].session = "Playing"
            /\ dev[Other(n)].sent[i].kind = "Say" /\ dev[Other(n)].sent[i].seq > dev[n].noteSeq
            /\ Becomes(n, [dev[n] EXCEPT !.note = dev[Other(n)].sent[i].load,
                                         !.noteSeq = dev[Other(n)].sent[i].seq])
      BY <1>9 DEF HearSay
    <2>2. dev[Other(n)].sent[i].seq \in Nat /\ dev[Other(n)].sent[i].load \in {"again", "leaving"}
      BY <2>1, Packet, OtherIs
    <2> DEFINE r == [dev[n] EXCEPT !.note = dev[Other(n)].sent[i].load,
                                   !.noteSeq = dev[Other(n)].sent[i].seq]
    <2>3. r \in Machine /\ Becomes(n, r)
      BY <1>0, <2>1, <2>2, SetNote
    <2>4. r.session = dev[n].session /\ SaysAgain(r) = SaysAgain(dev[n])
      BY DEF SaysAgain
    <2>5. ASSUME NEW p \in Device, Both(n, p)
          PROVE  SaysAgain(r) /\ Pair(r, dev[p])
      <3>1. p = Other(n) /\ SaysAgain(dev[n]) /\ SaysAgain(dev[p]) /\ Pair(dev[n], dev[p])
        BY <2>5, OtherIs DEF QuestionInv, Both
      <3>2. dev[p].sent[i].load = "again" /\ dev[p].sent[i].seq =< dev[p].said
            /\ dev[n].noteSeq < dev[p].sent[i].seq
        <4>1. dev[n].noteSeq \in Nat /\ dev[p].sent[i].seq \in Nat
          BY <1>0, <2>2, <3>1 DEF Machine
        <4> QED BY <2>1, <3>1, <4>1 DEF SaysAgain, AllAgain
      <3>3. r = [dev[n] EXCEPT !.note = "again", !.noteSeq = dev[p].sent[i].seq]
        BY <3>1, <3>2
      <3>4. dev[p].sent[i].seq \in Nat
        BY <2>2, <3>1
      <3> HIDE DEF r
      <3>5. Pair(r, dev[p])
        <4>1. dev[n] \in Machine /\ dev[p] \in Machine
          BY <1>0, <2>5
        <4> DEFINE k == dev[p].sent[i].seq
        <4>2. k \in Nat /\ dev[n].noteSeq < k /\ k =< dev[p].said /\ r = [dev[n] EXCEPT !.note = "again", !.noteSeq = k]
          BY <3>2, <3>3, <3>4
        <4> HIDE DEF k
        <4> QED BY <3>1, <4>1, <4>2, PairHearsSay
      <3> QED BY <2>4, <3>1, <3>5
    <2> HIDE DEF r
    <2> QED BY Zenon, <2>3, <2>4, <2>5, QuestionStep
  <1>10. CASE HearBye(n)
    <2> DEFINE r == [dev[n] EXCEPT !.session = "Ended", !.why = "PeerLeft", !.turn = FALSE]
    <2>1. r \in Machine /\ Becomes(n, r)
      BY <1>0, <1>10, SetEnded DEF HearBye
    <2>2. r.session # "Playing"
      BY <1>0 DEF Machine
    <2> HIDE DEF r
    <2> QED BY Zenon, <2>1, <2>2, QuestionStep
  <1>11. CASE Silence(n)
    <2> DEFINE r == [dev[n] EXCEPT !.session = "Ended", !.why = "PeerLost", !.turn = FALSE]
    <2>1. r \in Machine /\ Becomes(n, r)
      BY <1>0, <1>11, SetEnded DEF Silence
    <2>2. r.session # "Playing"
      BY <1>0 DEF Machine
    <2> HIDE DEF r
    <2> QED BY Zenon, <2>1, <2>2, QuestionStep
  <1> QED BY <1>3, <1>4, <1>5, <1>6, <1>7, <1>8, <1>9, <1>10, <1>11

\* Nobody starts another game alone, in any style of game and however the
\* packets fall: the device that has started one has an answer of the other's
\* behind it, which the other is still held to.  The one habit it takes is that
\* a player who has answered does not answer again.
THEOREM NobodyAlone ==
  ASSUME Patient = TRUE
  PROVE  Spec => []NobodyRestartsAlone
  <1>1. TypeInv /\ QuestionInv => NobodyRestartsAlone
    <2> SUFFICES ASSUME TypeInv, QuestionInv, NEW n \in Device, NEW p \in Device, Both(n, p),
                        dev[n].games > dev[p].games
                 PROVE  dev[n].games = dev[p].games + 1 /\ dev[p].you = "Ready"
      BY DEF NobodyRestartsAlone
    <2>1. Pair(dev[n], dev[p]) /\ dev[n].games \in Nat /\ dev[p].games \in Nat
      BY DEF QuestionInv, TypeInv, Machine
    <2> QED BY <2>1 DEF Pair, Level, Ahead
  <1>2. Init => TypeInv /\ QuestionInv
    BY TypeInit, QuestionInit
  <1>3. TypeInv /\ QuestionInv /\ [Next]_vars => TypeInv' /\ QuestionInv'
    BY TypeNext, QuestionNext
  <1> QED BY <1>1, <1>2, <1>3, PTL DEF Spec


=============================================================================
