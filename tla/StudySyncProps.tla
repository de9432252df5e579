--------------------------- MODULE StudySyncProps ---------------------------
(***************************************************************************)
(* What the sync of a Study deck promises: no answer the user gave is lost *)
(* or counted twice, none they took back comes out, and the deck the card  *)
(* is said to hold is the deck it holds.                                   *)
(***************************************************************************)
EXTENDS StudySync

\* Every variable has its type.
TypeOK ==
  /\ log \in Seq(Entry) /\ cards \subseteq Review /\ undo \in Review \cup {None}
  /\ deck \in Folder /\ slipped \in BOOLEAN /\ file \in Bridge /\ mem \in Bridge
  /\ flow \in {"study", "send", "poll", "fetch", "cards", "deck", "meta", "claim"}
  /\ req \in Request /\ reply \in Reply
  /\ journal \in [Review -> {"out", "held", "applied"}] /\ latest \subseteq Review
  /\ job \in [pc : JobState, cards : SUBSET Review, pend : SUBSET Review, made : BOOLEAN]
  /\ mirror \in Collection /\ web \in Collection
  /\ dirty \in BOOLEAN /\ build \subseteq Review
  /\ demand \in {"none", "download", "upload"}
  /\ taken \subseteq Review /\ there \subseteq Review
  /\ blows \in 0..MaxBlows

------------------------------------------------------------------------------
(* Safety *)

\* An answer the service took is in its journal until AnkiWeb has confirmed it,
\* unless its card is gone from the collection (journal.py:1-16,
\* engine.py:16-17).
ReviewsKept == taken \subseteq Held(journal) \cup there \cup Missing

\* What a sync leaves out of the review log it sends, the service has: wherever
\* the log was replaced, the offset in .bridge is not believed
\* (StudyActivity.cpp:2108-2131).
NothingSkipped ==
  \A b \in {file, mem} : \A i \in 1..Offset(b) : ~log[i].void => log[i].id \in taken

\* An answer the user took back never reaches the service: UNDO ends where a
\* sync begins (StudyActivity.cpp:241, 1878-1881).
UndoneStaysOut == \A i \in DOMAIN log : log[i].void => log[i].id \notin taken

\* However often an answer is posted, ingested and applied again, the
\* collection has one row of it, wherever the first import put that row, and no
\* row stands for two answers (deck_to_anki.py:185-205).
AppliedOnce ==
  \A c \in {mirror, web} : \A r \in Review : \A i \in c.rows[r] :
    (\A j \in c.rows[r] : i = j) /\ i \notin Others(c.rows, r)

\* A deck the reader lists and .bridge calls current has all the files of one
\* build, if every file has been replaced since that was last so.  If one was
\* not, nothing the code does tells the mixture from a build
\* (StudyActivity.cpp:2227-2232): see the README.
ClaimIsOnCard == file.build /\ Listed /\ ~slipped => deck = Whole

\* An answer AnkiWeb has comes with the schedule the reader computed for its
\* card (deck_to_anki.py:22-24).  Violated: see the README.
ScheduleGoesAlong == Rows(web) \subseteq web.cards

\* DECKS UP TO DATE is said of a deck that is whole
\* (StudyActivity.cpp:2179-2186).  Violated: see the README.
CurrentIsWhole == flow = "fetch" /\ onCard /\ mem.build => deck = Whole

------------------------------------------------------------------------------
(* Liveness.  The user keeps pressing SYNC and the flow goes on (WF of      *)
(* Reader); the service's threads run (WF of Handler and of Job); a POST    *)
(* tried again and again gets through (SF of Ingest).                       *)
FairSpec == Spec /\ WF_vars(Reader) /\ SF_vars(Ingest) /\ WF_vars(Handler) /\ WF_vars(Job)

\* Unless AnkiWeb goes on asking for a full sync, an answer in the log comes to
\* be in AnkiWeb, or leaves the log (UNDO, a card swapped).
ReviewArrives ==
  <>[](demand = "none") => \A r \in Review \ Missing : r \in Live(log) ~> (r \in there \/ r \notin Live(log))
=============================================================================
