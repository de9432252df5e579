------------------------------ MODULE Rematch ------------------------------
(***************************************************************************)
(* linkplay::LinkActivity, PlayBase and Endgame (src/apps_local/link) on   *)
(* the two devices of one match: the end of a game, the hold of its final  *)
(* board, the question ANOTHER GAME?, its answer over the note channel,    *)
(* and the new game the two devices then set up, each by itself.           *)
(*                                                                         *)
(* The session below is taken by what LinkSession promises: the newest     *)
(* state and the newest note of a device are heard, late or repeated, and  *)
(* an older one is never taken for a newer.  One action is one pass of     *)
(* LinkActivity::loop() with at most one tap, one packet heard by tick(),  *)
(* or one frame reaching the panel.                                        *)
(*                                                                         *)
(* Games differ in two hooks.  seatBy says what onRematch() takes for "who *)
(* goes first": the coin toss of the match (connect four, checkers, hex,   *)
(* go, toy battle, knucklebones, yahtzee) or the turn the session holds    *)
(* (chess, battleship, jaipur, sea salt).  opening says how the new game   *)
(* comes to both: each deals the same board, one deals and sends it with   *)
(* its first move to come, or one deals and passes at once.                *)
(***************************************************************************)
EXTENDS Integers, Sequences

CONSTANTS
  Device,    \* the two devices of the match
  Host,      \* the one that won the toss: goesFirst()
  Styles,    \* the games played: records of seatBy and opening
  MaxPlies,  \* bound: moves of one game; the last one wins it
  MaxGames,  \* bound: games for which a player may ask
  MaxNotes,  \* bound: notes of one device
  Patient,   \* TRUE: a player who has asked does not tap PLAY AGAIN again
  Swift,     \* TRUE: what a tap sends is heard, and acted on, before the same player's next tap
  MidGame    \* TRUE: the game offers NEW GAME on its board (chess, battleship)

ASSUME PairAssumption == (\E a, b \in Device : a # b /\ Device = {a, b}) /\ Host \in Device
ASSUME StyleAssumption ==
  Styles \subseteq [seatBy : {"toss", "turn"}, opening : {"both", "dealer", "pass"}]
ASSUME LimitAssumption == MaxPlies \in Nat \ {0} /\ MaxGames \in Nat \ {0} /\ MaxNotes \in Nat
ASSUME HabitAssumption == {Patient, Swift, MidGame} \subseteq BOOLEAN

VARIABLES
  style,   \* the game both devices run
  dev      \* what each device holds: session, activity and board

vars == <<style, dev>>

Other(n) == CHOOSE p \in Device : p # n
NoSeat == -1                                  \* nobody has won
NoBoard == [deal |-> <<0, 0>>, plies |-> 0, turn |-> 0, winner |-> NoSeat]

\* A board: which deal it is of (who dealt, 0 when both deal the same, and the
\* game of that device's match it is), how far it has come, whose turn the
\* rules say it is, and which side has won.
Fresh(n, k, starter) ==
  [deal |-> <<IF style.opening = "both" THEN 0 ELSE n, k>>, plies |-> 0, turn |-> starter, winner |-> NoSeat]
Over(b) == b.winner # NoSeat

------------------------------------------------------------------------------
(* PlayBase over the session.                                               *)

YourTurn(d) == d.session = "Playing" /\ d.turn /\ d.pending = NoBoard

Sending(d, kind, seq, load) == Append(d.sent, [kind |-> kind, seq |-> seq, load |-> load])

\* play(): refused unless it is this device's turn and their state is taken.
Play(d) ==
  IF YourTurn(d)
  THEN [d EXCEPT !.turn = FALSE, !.seq = @ + 1, !.sent = Sending(d, "State", d.seq + 1, d.board)]
  ELSE d

\* say()
Say(d, note) ==
  IF d.session = "Playing"
  THEN [d EXCEPT !.said = @ + 1, !.sent = Sending(d, "Say", d.said + 1, note)]
  ELSE d

\* stop(): leave() says Bye if there is anybody to say it to.
Stop(d) ==
  [d EXCEPT !.session = "Off",
            !.sent = IF d.session = "Playing" THEN Sending(d, "Bye", 0, "bye") ELSE @]

------------------------------------------------------------------------------
(* The game's hooks.                                                        *)

\* onMatchStart(): both deal the same board; both clear the table and who goes
\* first sends its deal, keeping the first move; or who goes first deals, and
\* passes at once.
DealSame(d)          == [d EXCEPT !.board = Fresh(d.me, d.games, 0), !.dealt = TRUE]
DealAndSend(d, first) == IF first THEN Play(DealSame(d)) ELSE DealSame(d)
DealAndPass(d, first) ==
  IF first THEN Play([d EXCEPT !.board = Fresh(d.me, d.games, 1), !.dealt = TRUE])
           ELSE [d EXCEPT !.board = NoBoard, !.dealt = FALSE]
Start(d, first) ==
  LET seated == [d EXCEPT !.seat = IF first THEN 0 ELSE 1, !.games = @ + 1, !.recorded = FALSE]
  IN CASE style.opening = "both"   -> DealSame(seated)
       [] style.opening = "dealer" -> DealAndSend(seated, first)
       [] style.opening = "pass"   -> DealAndPass(seated, first)

\* onRematch()
TossAgain(d) == d.me = Host
AskerFirst(d) == d.you = "Ready"
WhoseTurn(d) == YourTurn(d)
GoesFirst(d) == IF style.seatBy = "toss" THEN TossAgain(d) ELSE WhoseTurn(d)

\* linkAction(): the transport's turn is ours and the rules have nothing for us.
NothingToDo(d) == style.opening = "dealer" /\ ~Over(d.board) /\ d.board.turn # d.seat

\* takeOpponentState(); where there is nothing to do the state goes straight back.
TakeState(d) ==
  IF d.pending = NoBoard THEN d
  ELSE LET t == [d EXCEPT !.board = d.pending, !.pending = NoBoard, !.dealt = TRUE]
       IN IF NothingToDo(t) THEN Play(t) ELSE t

\* matchGameOver(), and onMatchEnded(): the result is counted for this seat.
GameOver(d) == d.dealt /\ Over(d.board)
Record(d) ==
  IF d.recorded THEN d
  ELSE [d EXCEPT !.recorded = TRUE,
                 !.tally = Append(@, [deal |-> d.board.deal, won |-> d.board.winner = d.seat])]

------------------------------------------------------------------------------
(* LinkActivity and Endgame.                                                *)

\* linkOwnsScreen(): the final board outranks the link layer's screens.
OwnsScreen(d) == d.stage # "Final" /\ (d.session = "Ended" \/ d.asking)

\* startRematch()
StartRematch(d) ==
  Start([d EXCEPT !.stage = "Live", !.lastStage = "Live", !.asking = FALSE, !.you = "Deciding", !.them = "Deciding"],
        GoesFirst(d))

\* The note part of driveLink().
AlwaysAgrees(d) == TRUE
Agrees(d) == d.you = "Ready"
HearNote(d) ==
  LET told == [d EXCEPT !.note = "none", !.asking = TRUE] IN
  CASE d.note = "none" -> d
    [] d.note = "leaving" -> [told EXCEPT !.them = "Left"]
    [] d.note = "again" ->
         IF Agrees(d) THEN StartRematch([told EXCEPT !.them = "Ready"])
                      ELSE [told EXCEPT !.them = "Ready", !.you = "Deciding"]

\* Endgame::update(); expired says whether the hold has run out.
CountWhileOver(d, expired) ==
  CASE ~GameOver(d) -> [d EXCEPT !.stage = "Live"]
    [] GameOver(d) /\ d.stage = "Live" -> [Record(d) EXCEPT !.stage = "Final", !.recorded = FALSE]
    [] GameOver(d) /\ d.stage = "Final" /\ expired -> [d EXCEPT !.stage = "Live"]
    [] OTHER -> d
EndgameUpdate(d, expired) ==
  CASE ~GameOver(d) -> [d EXCEPT !.stage = "Live"]
    [] GameOver(d) /\ d.stage = "Live" -> [Record(d) EXCEPT !.stage = "Final"]
    [] GameOver(d) /\ d.stage = "Final" /\ expired -> [d EXCEPT !.stage = "Offer"]
    [] OTHER -> d

\* A finished game becomes a question once, and an ended match its own answer.
Offer(d) ==
  IF d.stage = "Offer" /\ ~d.asking
  THEN [d EXCEPT !.asking = TRUE, !.you = "Deciding", !.them = "Deciding"] ELSE d
Gone(d) ==
  IF d.session = "Ended"
  THEN [d EXCEPT !.asking = TRUE, !.them = IF d.why = "PeerLost" THEN "Lost" ELSE "Left"] ELSE d

\* The hit table on the panel is void when the screen changes hands.
Handover(was, d) ==
  IF OwnsScreen(d) # was.owned \/ d.stage # was.lastStage
  THEN [d EXCEPT !.ready = FALSE, !.owned = OwnsScreen(d), !.lastStage = d.stage] ELSE d

\* driveLink(), everything after update().
TakenOnBoard(d, expired) ==
  LET t == HearNote(d) IN
  Handover(d, Gone(Offer(EndgameUpdate(IF OwnsScreen(t) THEN t ELSE TakeState(t), expired))))
Driven(d, expired) ==
  Handover(d, Gone(Offer(EndgameUpdate(TakeState(HearNote(d)), expired))))

\* proposeRematch()
AnySeat(d) == d.them = "Ready" \/ d.asking
TheyAgreed(d) == d.asking /\ d.them = "Ready"
Propose(d) ==
  LET asked == Say([d EXCEPT !.you = "Ready", !.stage = IF @ = "Final" THEN "Offer" ELSE @], "again") IN
  IF TheyAgreed(d) THEN StartRematch(asked)
  ELSE [asked EXCEPT !.asking = TRUE, !.them = IF @ \in {"Left", "Lost"} THEN @ ELSE "Deciding"]

\* leaveLink()
LeaveLink(d) ==
  [Stop(IF d.asking THEN Say(d, "leaving") ELSE d)
     EXCEPT !.asking = FALSE, !.stage = "Live", !.pending = NoBoard, !.note = "none", !.turn = FALSE]

------------------------------------------------------------------------------
(* What a player may do with the pass that driveLink() left to a screen.    *)

\* The packets of n that the other has still to hear.
Unheard(n) ==
  LET p == Other(n) IN
  {i \in DOMAIN dev[n].sent :
     LET m == dev[n].sent[i] IN \/ m.kind = "State" /\ m.seq > dev[p].seq
                                \/ m.kind = "Say" /\ m.seq > dev[p].noteSeq}
Untaken(n) == Unheard(n) # {} \/ dev[Other(n)].pending # NoBoard \/ dev[Other(n)].note # "none"
MayTap(n) == Swift => (~Untaken(n) \/ dev[Other(n)].session # "Playing")

\* PLAY AGAIN on the link screen or on the final board, NEW GAME on a board.
MayAsk(d) ==
  /\ d.ready
  /\ \/ OwnsScreen(d) /\ d.asking /\ d.them \notin {"Left", "Lost"}
     \/ ~OwnsScreen(d) /\ (GameOver(d) \/ MidGame)
  /\ Patient => d.you # "Ready"
  /\ d.games < MaxGames /\ d.said < MaxNotes

\* A tap on the board: gameLoop() asks the link for the turn, not the rules;
\* a game that passes asks both.
MovesOn(d) ==
  /\ d.ready /\ ~OwnsScreen(d)
  /\ YourTurn(d) /\ d.dealt
MayMove(d) ==
  /\ d.ready /\ ~OwnsScreen(d)
  /\ YourTurn(d) /\ d.dealt /\ ~Over(d.board)
  /\ style.opening # "both" => d.board.turn = d.seat

WinsQuietly(d, wins) ==
  LET b == [d.board EXCEPT !.plies = @ + 1, !.turn = 1 - @,
                           !.winner = IF wins THEN d.board.turn ELSE NoSeat]
  IN IF wins THEN [d EXCEPT !.board = b] ELSE Play([d EXCEPT !.board = b])
Moved(d, wins) ==
  Play([d EXCEPT !.board = [d.board EXCEPT !.plies = @ + 1, !.turn = 1 - @,
                                           !.winner = IF wins THEN d.board.turn ELSE NoSeat]])

------------------------------------------------------------------------------
Becomes(n, d) == dev' = [dev EXCEPT ![n] = d] /\ UNCHANGED style

\* One pass of loop() with no tap, or with one.
PassIdle(n) ==
  /\ dev[n].session # "Off"
  /\ \E expired \in BOOLEAN : Becomes(n, Driven(dev[n], expired))

PassAsk(n) ==
  /\ dev[n].session # "Off" /\ MayTap(n)
  /\ LET d == Driven(dev[n], FALSE) IN MayAsk(d) /\ Becomes(n, Propose(d))

PassMove(n) ==
  /\ dev[n].session # "Off" /\ MayTap(n)
  /\ LET d == Driven(dev[n], FALSE) IN
     /\ MayMove(d)
     /\ \E wins \in IF d.board.plies + 1 = MaxPlies THEN {TRUE} ELSE BOOLEAN :
          Becomes(n, Moved(d, wins))

PassLeave(n) ==
  /\ dev[n].session # "Off"
  /\ Becomes(n, LeaveLink(Driven(dev[n], FALSE)))

\* A frame reaches the panel, and with it the hit table of its screen.
Paint(n) ==
  /\ dev[n].session # "Off" /\ ~dev[n].ready
  /\ Becomes(n, [dev[n] EXCEPT !.ready = TRUE])

\* tick(): one packet of the other device, of any age.
TurnNotGiven(n) ==
  /\ dev[n].session = "Playing"
  /\ \E i \in DOMAIN dev[Other(n)].sent :
       LET m == dev[Other(n)].sent[i] IN
       /\ m.kind = "State" /\ m.seq > dev[n].seq
       /\ Becomes(n, [dev[n] EXCEPT !.pending = m.load, !.seq = m.seq])
HearState(n) ==
  /\ dev[n].session = "Playing"
  /\ \E i \in DOMAIN dev[Other(n)].sent :
       LET m == dev[Other(n)].sent[i] IN
       /\ m.kind = "State" /\ m.seq > dev[n].seq
       /\ Becomes(n, [dev[n] EXCEPT !.pending = m.load, !.seq = m.seq, !.turn = TRUE])

HearSay(n) ==
  /\ dev[n].session = "Playing"
  /\ \E i \in DOMAIN dev[Other(n)].sent :
       LET m == dev[Other(n)].sent[i] IN
       /\ m.kind = "Say" /\ m.seq > dev[n].noteSeq
       /\ Becomes(n, [dev[n] EXCEPT !.note = m.load, !.noteSeq = m.seq])

HearBye(n) ==
  /\ dev[n].session = "Playing"
  /\ \E i \in DOMAIN dev[Other(n)].sent : dev[Other(n)].sent[i].kind = "Bye"
  /\ Becomes(n, [dev[n] EXCEPT !.session = "Ended", !.why = "PeerLeft", !.turn = FALSE])

\* tick(): nothing heard for too long.
Silence(n) ==
  /\ dev[n].session = "Playing"
  /\ Becomes(n, [dev[n] EXCEPT !.session = "Ended", !.why = "PeerLost", !.turn = FALSE])

\* Both have just been matched: takeMatchStart() in the first pass.
Matched(n) ==
  [me |-> n, session |-> "Playing", why |-> "None", turn |-> n = Host, seq |-> 0,
   pending |-> NoBoard, said |-> 0, note |-> "none", noteSeq |-> 0, sent |-> <<>>,
   asking |-> FALSE, you |-> "Deciding", them |-> "Deciding", stage |-> "Live",
   ready |-> FALSE, owned |-> FALSE, lastStage |-> "Live",
   board |-> NoBoard, dealt |-> FALSE, seat |-> 0, games |-> 0, recorded |-> FALSE, tally |-> <<>>]

Init ==
  /\ style \in Styles
  /\ dev = [n \in Device |-> Start(Matched(n), n = Host)]

Next ==
  \E n \in Device :
    \/ PassIdle(n) \/ PassAsk(n) \/ PassMove(n) \/ PassLeave(n)
    \/ Paint(n) \/ HearState(n) \/ HearSay(n) \/ HearBye(n) \/ Silence(n)

Spec == Init /\ [][Next]_vars
=============================================================================
