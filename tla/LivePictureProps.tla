-------------------------- MODULE LivePictureProps --------------------------
(***************************************************************************)
(* What the person with the reader may rely on.                            *)
(***************************************************************************)
EXTENDS LivePicture

States == [key : 0..MaxPairings, on : BOOLEAN, etag : 0..MaxImages, fails : 0..MaxFails,
           every : MinInterval..MaxInterval, age : 0..Never]
Slots == Images \cup {NoImage, wallpaper, torn}

\* Every variable keeps its type.
TypeOK ==
  /\ sent \in 0..MaxImages /\ {token, pairings} \subseteq 0..MaxPairings
  /\ card \in States /\ work \in States
  /\ slot \in Slots /\ part \in Images \cup {NoImage, torn} /\ panel \in Slots \cup {shuffled, default, ui}
  /\ phase \in {"asleep", "ui", "app", "switch", "timer", "down", "tail"}
  /\ pc \in {"idle", "ask", "got", "move", "save", "name", "copy", "done"}
  /\ {shuffle, marked, brushed, arrived, checkQ, clock, stamped} \subseteq BOOLEAN
  /\ armed \in Nat /\ placed \subseteq (1..MaxPairings) \X Images
  /\ streak \in 0..MaxFails /\ owed \in 0..MaxRetry

\* "A torn picture ... never reaches the glass" (LiveEngine.cpp:221): whatever
\* the network and the power do, the slot and the panel hold whole pictures.
NoTornPicture == slot # torn /\ panel # torn

\* "The ETag is stored ONLY after the image is in place" (LiveEngine.cpp:239):
\* the card never claims an image that was not once put into the slot under
\* this pairing, so no picture is lost to a 304 that was never seen.
ClaimWasPlaced == card.etag # NoImage => <<card.key, card.etag>> \in placed

\* A reader whose card says Live is on, and whose phone has not let it go,
\* never goes to sleep without a timer: nothing else would ever wake it.  (Left
\* out: the sleeps setup() begins by itself, after a press too short or on USB.)
Welcome(st) == eligible(st) /\ st.key = token
TimerKept == (phase = "asleep" /\ Welcome(card) /\ ~brushed) => armed > 0

\* "Live's number wins over the build-time one" (src/main.cpp:445): however the
\* reader came to sleep.
TimerAlwaysKept == (phase = "asleep" /\ Welcome(card)) => armed > 0

\* The backoff holds on the one path that uses it (LiveEngine.cpp:308): after n
\* failures in a row no check that nobody asked for begins before the delay of
\* n failures is over, however often the reader is put to sleep in between.
\* A failure the card refused to remember, or a reset cut short, does not count.
BackoffHolds ==
  [][(pc # "ask" /\ pc' = "ask" /\ phase' # "app") => owed' = 0]_vars

\* What the picker's marker says is what the sleep screen shows
\* (WallpapersActivity.cpp:1815): a marked wallpaper is never an image of Live.
PickerTellsTruth == marked => slot \notin Images

\* The reader's own steps run, and of the attempts to fetch a picture, to clear its
\* place and to rename it not every one is lost.  Nothing is assumed of the person or the phone.
Delivered == PullPicture /\ partIsWholePicture'
Fairness ==
  /\ WF_vars(Check \/ GoesDown \/ TimerDone \/ TimerWake)
  /\ SF_vars(Delivered) /\ SF_vars(CommitRemoves) /\ SF_vars(CommitRenames)
FairSpec == Spec /\ Fairness

\* A sleeping reader that nobody wakes comes to show the newest picture of its
\* phone, whatever fails on the way, unless the phone lets the reader go or the
\* card held the picture already: a failed check is "the correct failure state"
\* (src/main.cpp:414) only because another one follows.
MessageArrives ==
  (phase = "asleep" /\ Welcome(card) /\ sent # NoImage /\ card.etag # sent)
    ~> (panel = sent \/ phase = "ui" \/ brushed \/ (phase = "asleep" /\ ~Welcome(card)))

------------------------------------------------------------------------------
(* The invariants that the proofs use.                                      *)

\* Where a check or a change of the picker can be under way.
FlowInv ==
  /\ phase \in {"ui", "asleep"} => pc = "idle"
  /\ pc = "copy" => phase = "app"

\* A picture on its way to the slot is whole and belongs to a pairing, and
\* what a state claims was placed.
Claims(st) == st.etag # NoImage => <<st.key, st.etag>> \in placed
PictureInv ==
  /\ NoTornPicture
  /\ pc = "got" => part # NoImage
  /\ pc = "move" => part \in Images
  /\ pc \in {"ask", "got", "move"} => paired(work)
  /\ Claims(card) /\ Claims(work)

\* On the way to sleep the memory holds the pairing that the card holds,
\* unless the phone has let the reader go.
Falling == phase \in {"down", "tail", "timer"}
TimerInv ==
  /\ Falling /\ Welcome(card) => work.key = card.key /\ work.on
  /\ TimerKept

IInv == TypeOK /\ FlowInv /\ PictureInv /\ TimerInv

\* A state remembers at least the failures that are owed for.
Owes(st) == streak <= st.fails /\ (owed = 0 \/ owed + st.age <= retryDelay(st.fails))
BackoffInv ==
  /\ pc \notin {"save", "name"} => Owes(card)
  /\ phase \notin {"ui", "asleep"} => Owes(work)
  /\ Falling /\ eligible(card) => eligible(work) \/ owed = 0
  /\ Falling /\ pc \in {"ask", "got", "move"} => eligible(work)
  /\ phase = "asleep" /\ eligible(card) /\ armed > 0 => owed <= armed
=============================================================================
