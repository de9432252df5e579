------------------------------ MODULE StudySync ------------------------------
(***************************************************************************)
(* The sync of one Study deck: the reader (src/apps_local/study/           *)
(* StudyActivity.cpp, StudySync.cpp), the sync service it posts to         *)
(* (server/study-bridge/bridge), the service's mirror of the collection    *)
(* and AnkiWeb.                                                            *)
(*                                                                         *)
(* On the reader one action is what runSyncFlow() does between two points  *)
(* where the card, the network or the user can stop it.  On the service    *)
(* the request handler and the job are two threads: one action is what     *)
(* either does up to its next commit.                                      *)
(*                                                                         *)
(* A review is its primary key (the card and the time of the answer), and  *)
(* a card belongs to each review, so that `r is in cards' says that the    *)
(* schedule of r's card reflects the answer.  A byte offset into           *)
(* revlog.dat is a number of records, the hash of its first bytes those    *)
(* records themselves: a log that ends inside a record (persist()          *)
(* overwrites such a tail) is left out.  A build id is TRUE for the newest *)
(* build.                                                                  *)
(*                                                                         *)
(* Operators no action uses (SkipsByOffset, KeepsUndo, ClaimsAtOnce,       *)
(* EverStarted, LastOf, KnowsAtItsTime, AllOfIt) are wrong readings of the *)
(* definition after them, kept to check that the properties tell them      *)
(* apart.                                                                  *)
(***************************************************************************)
EXTENDS Integers, Sequences, FiniteSets

CONSTANTS
  Review,    \* the answers the user may give
  Missing,   \* those whose card may be deleted in Anki
  Watched,   \* those whose card's schedule is followed
  Stamp,     \* the time of each, in whole seconds: the id its row would have
  Faults,    \* what may go wrong
  MaxBlows,  \* bound: how often the world strikes
  None       \* no answer

\* power: the reader's; card: a save of .bridge fails; rename: a file of a deck
\* is not replaced; restore: the user takes the deck off the card or puts an
\* older review log back; net: a request or its answer is lost; revoke: the
\* reader is unpaired; job: a job raises; kill: the service dies; torn: it or
\* its job may die with the mirror just replaced; anki: another client of
\* AnkiWeb forces a full sync.
Fault == {"power", "card", "rename", "restore", "net", "revoke", "job", "kill", "torn", "anki"}

ASSUME ReviewAssumption == Missing \subseteq Review /\ Watched \subseteq Review
ASSUME StampAssumption == Stamp \in [Review -> Nat]
ASSUME FaultAssumption == Faults \subseteq Fault
ASSUME BlowsAssumption == MaxBlows \in Nat
ASSUME NoneAssumption == None \notin Review

VARIABLES
  log,       \* revlog.dat: the answers in order, struck out when undone
  cards,     \* cards.dat: the answers its schedules reflect
  undo,      \* undo_: the answer UNDO would take back
  deck,      \* the files in the deck's folder, and whether of the last build fetched
  slipped,   \* history: a file was not replaced since the folder was last whole
  file,      \* /study/.bridge
  mem,       \* bridge_, while a sync runs
  flow,      \* where runSyncFlow() stands
  req,       \* the POST to the service, unanswered
  reply,     \* the service's answer to it
  journal,   \* journal.db
  latest,    \* devcards/latest.json
  job,       \* the account's newest job
  mirror,    \* collection.anki2 on the service
  dirty,     \* the deck changed in it since the last recorded build
  build,     \* the answers the newest build's cards.dat reflects
  web,       \* the collection on AnkiWeb
  demand,    \* the sync AnkiWeb asks of the mirror
  taken,     \* history: the answers the journal has accepted
  there,     \* history: the answers AnkiWeb has confirmed
  blows      \* how often the world has struck

deviceVars == <<log, cards, undo, deck, slipped, file, mem, flow>>
wireVars   == <<req, reply>>
bridgeVars == <<journal, latest, job, mirror, dirty, build>>
vars == <<deviceVars, wireVars, bridgeVars, web, demand, taken, there, blows>>

------------------------------------------------------------------------------
(* Data *)

Entry == [id : Review, void : BOOLEAN]
Bridge == [token : BOOLEAN, ack : Nat, mark : Seq(Entry), build : BOOLEAN]
Blank == [token |-> FALSE, ack |-> 0, mark |-> <<>>, build |-> FALSE]
File == {"cards", "deck", "meta"}      \* cards.dat, deck.dat, meta.dat
Folder == [File -> {"none", "old", "new"}]
Gone == [f \in File |-> "none"]
Whole == [f \in File |-> "new"]
Request == [at : {"nowhere", "sent", "journaled"}, has : BOOLEAN, off : Nat, tail : Seq(Entry), cards : SUBSET Review]
Reply == [kind : {"none", "failed", "unpaired", "ok"}, has : BOOLEAN, ack : Nat]
Collection == [rows : [Review -> SUBSET Nat], cards : SUBSET Review]      \* rows: their ids
Running == {"start", "pull", "reset", "apply", "mark", "push", "clear", "build", "save"}
JobState == Running \cup {"forgotten", "done", "failed"}

Ids(s) == {s[i].id : i \in DOMAIN s}
Live(s) == {s[i].id : i \in {j \in DOMAIN s : ~s[j].void}}
Rows(c) == {r \in Review : c.rows[r] # {}}
Held(j) == {r \in Review : j[r] # "out"}

NoJob == [pc |-> "forgotten", cards |-> {}, pend |-> {}, made |-> FALSE]
NoReq == [at |-> "nowhere", has |-> FALSE, off |-> 0, tail |-> <<>>, cards |-> {}]
Answered(k) == [kind |-> k, has |-> FALSE, ack |-> 0]
NoReply == Answered("none")
Sending == req.at # "nowhere"

\* An answer is given once: these may still turn up.
Used == Ids(log) \cup taken \cup Ids(req.tail)

\* A fault that costs one of the MaxBlows.
Strikes == blows < MaxBlows /\ blows' = blows + 1

------------------------------------------------------------------------------
(* The reader's card.  Both writes of .bridge, the rename included, may     *)
(* fail; the cut between them is that failure and then Cut.                 *)

Saves(b) == file' \in {b} \cup (IF "card" \in Faults THEN {file, Blank} ELSE {})

SkipsByOffset(b) == IF b.ack <= Len(log) THEN b.ack ELSE 0
\* Where the unsent part of the log starts, given what .bridge says was sent.
Offset(b) ==
  IF b.ack <= Len(log) /\ SubSeq(log, 1, b.ack) = b.mark THEN b.ack ELSE 0

KeepsUndo == flow' = "study" /\ UNCHANGED undo /\ mem' = Blank
\* Every way out of the flow reopens the deck.
Stop == flow' = "study" /\ undo' = None /\ mem' = Blank
StopIn(f) == flow = f /\ Stop /\ UNCHANGED <<log, cards, deck, slipped>>

Openable == \A f \in File : deck[f] # "none"

------------------------------------------------------------------------------
(* Studying *)

grade(r) ==
  /\ flow = "study" /\ Openable
  /\ r \notin Used
  /\ log' = Append(log, [id |-> r, void |-> FALSE])
  /\ cards' = cards \cup ({r} \cap Watched)
  /\ undo' \in {r, None}      \* offered only while another card follows
  /\ UNCHANGED <<deck, slipped, file, mem, flow, wireVars, bridgeVars, web, demand, taken, there, blows>>

undoLast ==
  /\ flow = "study" /\ undo # None
  /\ log' = [i \in DOMAIN log |-> IF log[i].id = undo THEN [log[i] EXCEPT !.void = TRUE] ELSE log[i]]
  /\ cards' = cards \ {undo}
  /\ undo' = None
  /\ UNCHANGED <<deck, slipped, file, mem, flow, wireVars, bridgeVars, web, demand, taken, there, blows>>

\* The folder is taken off the card, or an older copy of it put back.
Remove ==
  /\ Strikes
  /\ "restore" \in Faults /\ flow = "study"
  /\ deck' = Gone /\ log' = <<>> /\ cards' = {} /\ undo' = None
  /\ UNCHANGED <<slipped, file, mem, flow, wireVars, bridgeVars, web, demand, taken, there>>

Restore(k) ==
  /\ Strikes
  /\ "restore" \in Faults /\ flow = "study"
  /\ log' = SubSeq(log, 1, k)
  /\ cards' = cards \ (Ids(log) \ Ids(log'))
  /\ undo' = None
  /\ UNCHANGED <<deck, slipped, file, mem, flow, wireVars, bridgeVars, web, demand, taken, there>>

\* While the files are replaced it may go between a removal and its rename.
Cut ==
  /\ Strikes
  /\ "power" \in Faults
  /\ Stop
  /\ reply' = NoReply
  /\ deck' \in {deck} \cup {[deck EXCEPT ![f] = "none"] : f \in File \cap {flow}}
  /\ UNCHANGED <<log, cards, slipped, file, req, bridgeVars, web, demand, taken, there>>

------------------------------------------------------------------------------
(* The sync on the reader *)

\* runPairing(): the user confirms, and the token is stored or there is none.
Pair ==
  /\ flow = "study" /\ ~file.token
  /\ file' = [Blank EXCEPT !.token = TRUE]
  /\ UNCHANGED <<log, cards, undo, deck, slipped, mem, flow, wireVars, bridgeVars, web, demand, taken, there, blows>>

\* A deck the reader cannot list loses its slot in .bridge, if it ever sent.
Listed == deck["meta"] # "none"
onCard == deck["cards"] # "none"
Loaded == IF Listed \/ file.ack = 0 THEN file ELSE [Blank EXCEPT !.token = TRUE]

\* buildPayloads()
Payload(b) ==
  [at |-> "sent", has |-> TRUE, off |-> Offset(b), tail |-> SubSeq(log, Offset(b) + 1, Len(log)),
   cards |-> IF onCard THEN cards ELSE {}]

\* From loadBridgeState() to the POST of syncStart().  The POST of a flow that
\* was given up is done with by then: the service answers within seconds.
PackAndPost ==
  /\ flow = "study" /\ file.token /\ ~Sending
  /\ mem' = Loaded
  /\ IF Loaded = file THEN UNCHANGED file ELSE Saves(Loaded)
  /\ req' = IF Listed THEN Payload(Loaded) ELSE [NoReq EXCEPT !.at = "sent"]
  /\ reply' = NoReply
  /\ flow' = "send"
  /\ UNCHANGED <<log, cards, undo, deck, slipped, bridgeVars, web, demand, taken, there, blows>>

\* A refusal, a dead connection or, with the POST still on its way, a timeout.
NotSent ==
  /\ StopIn("send")
  /\ \/ reply.kind = "failed" /\ UNCHANGED file
     \/ reply.kind = "unpaired" /\ file' = Blank
     \/ "net" \in Faults /\ Sending /\ UNCHANGED file
  /\ reply' = NoReply
  /\ UNCHANGED <<req, bridgeVars, web, demand, taken, there, blows>>

TakeAck ==
  /\ flow = "send" /\ reply.kind = "ok"
  /\ mem' = IF reply.has
            THEN [mem EXCEPT !.ack = reply.ack, !.mark = SubSeq(log, 1, reply.ack)]
            ELSE mem
  /\ Saves(mem')
  /\ flow' = "poll"
  /\ reply' = NoReply
  /\ UNCHANGED <<log, cards, undo, deck, slipped, req, bridgeVars, web, demand, taken, there, blows>>

\* Back, five blips, an error, a bridge that forgot the job, no such build.
LeavePoll ==
  /\ StopIn("poll")
  /\ IF job.pc = "done" /\ ~job.made THEN Saves(mem) ELSE UNCHANGED file
  /\ UNCHANGED <<wireVars, bridgeVars, web, demand, taken, there, blows>>

SeeDone ==
  /\ flow = "poll" /\ job.pc = "done" /\ job.made
  /\ flow' = "fetch"
  /\ UNCHANGED <<log, cards, undo, deck, slipped, file, mem, wireVars, bridgeVars, web, demand, taken, there, blows>>

------------------------------------------------------------------------------
(* applyManifests() *)

UpToDate ==
  /\ onCard /\ mem.build
  /\ StopIn("fetch")
  /\ Saves(mem)
  /\ UNCHANGED <<wireVars, bridgeVars, web, demand, taken, there, blows>>

FetchFails ==
  /\ ~(onCard /\ mem.build)
  /\ StopIn("fetch")
  /\ UNCHANGED <<file, wireVars, bridgeVars, web, demand, taken, there, blows>>

\* Every file has come as .part.
Older == [f \in File |-> IF deck[f] = "none" THEN "none" ELSE "old"]
ClaimsAtOnce ==
  /\ ~(onCard /\ mem.build)
  /\ flow = "fetch" /\ flow' = "cards"
  /\ deck' = Older
  /\ file' = [mem EXCEPT !.build = TRUE]
  /\ UNCHANGED <<log, cards, undo, slipped, mem, wireVars, bridgeVars, web, demand, taken, there, blows>>
Fetched ==
  /\ ~(onCard /\ mem.build)
  /\ flow = "fetch" /\ flow' = "cards"
  /\ deck' = Older
  /\ UNCHANGED <<log, cards, undo, slipped, file, mem, wireVars, bridgeVars, web, demand, taken, there, blows>>

\* remove() and rename(), in the order of the names.  Either may fail, which
\* leaves the old file or none, and nobody looks.
Replaces(f, next) ==
  /\ flow = f /\ flow' = next
  /\ \/ deck' = [deck EXCEPT ![f] = "new"] /\ UNCHANGED <<slipped, blows>>
     \/ /\ "rename" \in Faults /\ Strikes
        /\ deck' \in {deck, [deck EXCEPT ![f] = "none"]} /\ slipped' = TRUE
  /\ UNCHANGED <<log, undo, file, mem, wireVars, bridgeVars, web, demand, taken, there>>

RenameCards == Replaces("cards", "deck") /\ cards' = IF deck'["cards"] = "new" THEN build ELSE cards
RenameDeck == Replaces("deck", "meta") /\ UNCHANGED cards
RenameMeta == Replaces("meta", "claim") /\ UNCHANGED cards

\* The build is recorded whatever became of the renames.
Claim ==
  /\ flow = "claim" /\ Stop
  /\ slipped' = (slipped /\ deck # Whole)
  /\ Saves([mem EXCEPT !.build = TRUE])
  /\ UNCHANGED <<log, cards, deck, wireVars, bridgeVars, web, demand, taken, there, blows>>

------------------------------------------------------------------------------
(* The service's handler of POST /api/sync *)

\* Journal.ingest(): what is not struck out and not yet there.
Ingest ==
  /\ req.at = "sent"
  /\ journal' = [r \in Review |-> IF r \in Live(req.tail) /\ journal[r] = "out" THEN "held" ELSE journal[r]]
  /\ taken' = taken \cup Live(req.tail)
  /\ req' = [req EXCEPT !.at = "journaled"]
  /\ UNCHANGED <<deviceVars, reply, latest, job, mirror, dirty, build, web, demand, there, blows>>

\* The states of the cards are kept for the job, which is started unless one
\* runs, and the answer goes out; nobody hears it when the flow was given up.
Hear(a) == reply' = IF flow = "send" THEN a ELSE NoReply
LastOf(q) == q.off + Len(q.tail) - 1
AckOf(q) == q.off + Len(q.tail)
EverStarted == job.pc # "forgotten"
Busy == job.pc \in Running
Answer ==
  /\ req.at = "journaled"
  /\ latest' = req.cards
  /\ IF Busy THEN UNCHANGED job ELSE job' = [NoJob EXCEPT !.pc = "start"]
  /\ req' = NoReq
  /\ \/ Hear([kind |-> "ok", has |-> req.has, ack |-> AckOf(req)])
     \/ "net" \in Faults /\ Hear(Answered("failed"))
  /\ UNCHANGED <<deviceVars, journal, mirror, dirty, build, web, demand, taken, there, blows>>

\* The POST is lost, refused for now, or refused for good.
Refuse ==
  /\ req.at = "sent"
  /\ \/ "net" \in Faults /\ Hear(Answered("failed"))
     \/ "revoke" \in Faults /\ Hear(Answered("unpaired"))
  /\ req' = NoReq
  /\ UNCHANGED <<deviceVars, bridgeVars, web, demand, taken, there, blows>>

------------------------------------------------------------------------------
(* The job: engine.sync_cycle() and the builds after it *)

At(pc) == job.pc = pc
Goes(pc) == job' = [job EXCEPT !.pc = pc]

\* A normal sync leaves both sides with what either had.
Merged(c, d) == [rows |-> [r \in Review |-> c.rows[r] \cup d.rows[r]], cards |-> c.cards \cup d.cards]
SyncsNormally ==
  /\ demand = "none"
  /\ mirror' = Merged(mirror, web) /\ web' = Merged(mirror, web)
  /\ dirty' = (dirty \/ Rows(web) # Rows(mirror))
  /\ there' = there \cup Rows(mirror)

ReadCards ==
  /\ At("start")
  /\ job' = [job EXCEPT !.pc = "pull", !.cards = latest]
  /\ UNCHANGED <<deviceVars, wireVars, journal, latest, mirror, dirty, build, web, demand, taken, there, blows>>

PullNormal ==
  /\ At("pull")
  /\ SyncsNormally
  /\ Goes("apply")
  /\ UNCHANGED <<deviceVars, wireVars, journal, latest, build, demand, taken, blows>>

\* full_upload_or_download(upload=False)
Replace ==
  /\ At("pull") /\ demand = "download"
  /\ mirror' = web /\ dirty' = TRUE
  /\ demand' = "none"
  /\ Goes("reset")
  /\ UNCHANGED <<deviceVars, wireVars, journal, latest, build, web, taken, there, blows>>

ResetApplied ==
  /\ At("reset")
  /\ journal' = [r \in Review |-> IF journal[r] = "applied" THEN "held" ELSE journal[r]]
  /\ Goes("apply")
  /\ UNCHANGED <<deviceVars, wireVars, latest, mirror, dirty, build, web, demand, taken, there, blows>>

Unapplied == {r \in Review : journal[r] = "held"}

\* The ids no row of r may have: those of the other answers' rows.
Others(rows, r) == UNION {rows[q] : q \in Review \ {r}}
KnowsAtItsTime(i, r, ids) ==
  LET passed == ids \cup (mirror.rows[r] \ {Stamp[r]}) IN i \notin passed /\ Stamp[r]..(i - 1) \subseteq passed
\* From its own time on the loop walks over other cards' rows, to the first id
\* that is free or has r's row already.  (Two answers of one card are seconds,
\* a thousand ids, apart: no walk meets another row of its own card.)
Walks(i, r, ids) == i \notin ids /\ Stamp[r]..(i - 1) \subseteq ids

\* Where the loop finds or puts the row of each answer in S: it takes them by
\* their times, those of one second in any order, and passes the rows it put.
Orders(S) ==
  {o \in [S -> 1..Cardinality(S)] :
     \A q, r \in S : q # r => o[q] # o[r] /\ (Stamp[q] < Stamp[r] => o[q] < o[r])}
Places(S) ==
  {id \in [S -> UNION {Stamp[r]..(Stamp[r] + Cardinality(Review)) : r \in S}] :
     \E o \in Orders(S) : \A r \in S :
       id[r] >= Stamp[r] /\ Walks(id[r], r, Others(mirror.rows, r) \cup {id[q] : q \in {p \in S : o[p] < o[r]}})}

\* deck_to_anki.apply(): a row for every pending answer that has none and whose
\* card exists, and for their cards the state the reader posted.
apply ==
  /\ At("apply")
  /\ \E lost \in SUBSET (Missing \cap Unapplied) : \E id \in Places(Unapplied \ lost) :
       LET new == {r \in Unapplied \ lost : id[r] \notin mirror.rows[r]} IN
       /\ mirror' = [rows |-> [r \in Review |-> IF r \in new THEN mirror.rows[r] \cup {id[r]} ELSE mirror.rows[r]],
                     cards |-> mirror.cards \cup (new \cap job.cards)]
       /\ dirty' = (dirty \/ new # {})
  /\ job' = [job EXCEPT !.pc = "mark", !.pend = Unapplied, !.cards = {}]
  /\ UNCHANGED <<deviceVars, wireVars, journal, latest, build, web, demand, taken, there, blows>>

MarkApplied ==
  /\ At("mark")
  /\ journal' = [r \in Review |-> IF r \in job.pend /\ journal[r] # "out" THEN "applied" ELSE journal[r]]
  /\ job' = [job EXCEPT !.pc = "push", !.pend = {}]
  /\ UNCHANGED <<deviceVars, wireVars, latest, mirror, dirty, build, web, demand, taken, there, blows>>

Push ==
  /\ At("push")
  /\ SyncsNormally
  /\ Goes("clear")
  /\ UNCHANGED <<deviceVars, wireVars, journal, latest, build, demand, taken, blows>>

\* "Something changed under us mid-cycle": the journal is kept.
PushAnswered ==
  /\ At("push") /\ demand = "download"
  /\ Goes("build")
  /\ UNCHANGED <<deviceVars, wireVars, journal, latest, mirror, dirty, build, web, demand, taken, there, blows>>

AllOfIt == Held(journal)
Pushed == {r \in Review : journal[r] = "applied"}
ClearPushed ==
  /\ At("clear")
  /\ journal' = [r \in Review |-> IF r \in Pushed THEN "out" ELSE journal[r]]
  /\ Goes("build")
  /\ UNCHANGED <<deviceVars, wireVars, latest, mirror, dirty, build, web, demand, taken, there, blows>>

\* A deck that has not changed keeps its build.
KeepBuild ==
  /\ At("build") /\ ~dirty
  /\ job' = [job EXCEPT !.pc = "done", !.made = TRUE]
  /\ UNCHANGED <<deviceVars, wireVars, journal, latest, mirror, dirty, build, web, demand, taken, there, blows>>

\* A new one is nobody's yet.
BuildDeck ==
  /\ At("build") /\ dirty
  /\ build' = mirror.cards
  /\ mem' = [mem EXCEPT !.build = FALSE] /\ file' = [file EXCEPT !.build = FALSE]
  /\ Goes("save")
  /\ UNCHANGED <<log, cards, undo, deck, slipped, flow, wireVars, journal, latest, mirror, dirty, web, demand, taken, there, blows>>

SaveState ==
  /\ At("save")
  /\ dirty' = FALSE
  /\ job' = [job EXCEPT !.pc = "done", !.made = TRUE]
  /\ UNCHANGED <<deviceVars, wireVars, journal, latest, mirror, build, web, demand, taken, there, blows>>

BuildFails ==
  /\ At("build") /\ "job" \in Faults
  /\ job' = [job EXCEPT !.pc = "done", !.made = FALSE]
  /\ UNCHANGED <<deviceVars, wireVars, journal, latest, mirror, dirty, build, web, demand, taken, there, blows>>

\* The account freezes: AnkiWeb wants an upload.
Freeze ==
  /\ job.pc \in {"pull", "push"} /\ demand = "upload"
  /\ job' = [NoJob EXCEPT !.pc = "failed"]
  /\ UNCHANGED <<deviceVars, wireVars, journal, latest, mirror, dirty, build, web, demand, taken, there, blows>>

\* An exception, or AnkiWeb out of reach.
JobFails ==
  /\ Busy /\ "job" \in Faults /\ (At("reset") => "torn" \in Faults)
  /\ Strikes
  /\ job' = [NoJob EXCEPT !.pc = "failed"]
  /\ UNCHANGED <<deviceVars, wireVars, journal, latest, mirror, dirty, build, web, demand, taken, there>>

\* The service restarts: jobs and requests live in memory.
Kill ==
  /\ Strikes
  /\ "kill" \in Faults /\ (At("reset") => "torn" \in Faults)
  /\ job' = NoJob
  /\ req' = NoReq
  /\ IF Sending THEN Hear(Answered("failed")) ELSE UNCHANGED reply
  /\ UNCHANGED <<deviceVars, journal, latest, mirror, dirty, build, web, demand, taken, there>>

------------------------------------------------------------------------------
(* AnkiWeb and its other clients *)

\* What a client that has not synced for a while has of AnkiWeb's rows: a row that
\* was put beside another came after it, and no client deletes single rows.
OlderRows ==
  {keep \in SUBSET Rows(web) :
     \A r \in keep, q \in Review :
       (\E i \in web.rows[r], j \in web.rows[q] : Stamp[r] <= j /\ j < i) => q \in keep}

\* One uploads a collection of its own, which may lack what came from here; or
\* the account is left so that only an upload is on offer.
ForceSync ==
  /\ Strikes
  /\ "anki" \in Faults
  /\ \/ \E keep \in OlderRows :
          /\ web' = [rows |-> [r \in Review |-> IF r \in keep THEN web.rows[r] ELSE {}], cards |-> web.cards \cap keep]
          /\ demand' = "download"
     \/ demand' = "upload" /\ UNCHANGED web
  /\ UNCHANGED <<deviceVars, wireVars, bridgeVars, taken, there>>

------------------------------------------------------------------------------
Empty == [rows |-> [r \in Review |-> {}], cards |-> {}]

\* A paired reader whose deck came with its first sync.
Init ==
  /\ log = <<>> /\ cards = {} /\ undo = None /\ deck = Whole /\ slipped = FALSE
  /\ file = [Blank EXCEPT !.token = TRUE, !.build = TRUE] /\ mem = Blank /\ flow = "study"
  /\ req = NoReq /\ reply = NoReply
  /\ journal = [r \in Review |-> "out"] /\ latest = {} /\ job = NoJob
  /\ mirror = Empty /\ dirty = FALSE /\ build = {}
  /\ web = Empty /\ demand = "none"
  /\ taken = {} /\ there = {} /\ blows = 0

User == (\E r \in Review : grade(r)) \/ undoLast
Reader ==
  \/ Pair \/ PackAndPost \/ NotSent \/ TakeAck \/ LeavePoll \/ SeeDone
  \/ UpToDate \/ FetchFails \/ Fetched \/ RenameCards \/ RenameDeck \/ RenameMeta \/ Claim
Handler == Ingest \/ Answer \/ Refuse
Job ==
  \/ ReadCards \/ PullNormal \/ Replace \/ ResetApplied \/ Freeze \/ apply \/ MarkApplied
  \/ Push \/ PushAnswered \/ ClearPushed \/ KeepBuild \/ BuildDeck \/ SaveState \/ BuildFails
World ==
  \/ Remove \/ (\E k \in 0..(Len(log) - 1) : Restore(k)) \/ Cut
  \/ JobFails \/ Kill \/ ForceSync

Next == User \/ Reader \/ Handler \/ Job \/ World
Spec == Init /\ [][Next]_vars
=============================================================================
