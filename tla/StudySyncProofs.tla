-------------------------- MODULE StudySyncProofs --------------------------
(***************************************************************************)
(* Proofs about the sync of a Study deck, for any answers, any faults and  *)
(* any number of blows.                                                    *)
(***************************************************************************)
EXTENDS StudySyncProps, TLAPS

USE DEF Sending, At, Goes, Strikes, Answered, Hear, AckOf, Replaces

------------------------------------------------------------------------------
(* Data                                                                     *)

LEMMA BridgeFacts ==
  ASSUME NEW b \in Bridge, NEW v \in BOOLEAN
  PROVE  /\ [b EXCEPT !.token = v] \in Bridge /\ [b EXCEPT !.token = v].mark = b.mark
         /\ [b EXCEPT !.token = v].build = b.build
         /\ [b EXCEPT !.build = v] \in Bridge /\ [b EXCEPT !.build = v].mark = b.mark
         /\ [b EXCEPT !.build = v].build = v
  BY DEF Bridge

LEMMA AckFacts ==
  ASSUME NEW b \in Bridge, NEW n \in Nat, NEW s \in Seq(Entry)
  PROVE  /\ [b EXCEPT !.ack = n, !.mark = s] \in Bridge /\ [b EXCEPT !.ack = n, !.mark = s].mark = s
         /\ [b EXCEPT !.ack = n, !.mark = s].build = b.build
  BY DEF Bridge

LEMMA BlankFacts ==
  Blank \in Bridge /\ Blank.mark = <<>> /\ ~Blank.build
  BY DEF Blank, Bridge

LEMMA RequestFacts ==
  ASSUME NEW q \in Request, NEW a \in {"nowhere", "sent", "journaled"}
  PROVE  /\ [q EXCEPT !.at = a] \in Request /\ [q EXCEPT !.at = a].at = a
         /\ [q EXCEPT !.at = a].has = q.has /\ [q EXCEPT !.at = a].off = q.off
         /\ [q EXCEPT !.at = a].tail = q.tail
  BY DEF Request

LEMMA NoReqFacts ==
  NoReq \in Request /\ ~NoReq.has /\ NoReq.tail = <<>> /\ NoReq.at = "nowhere"
  BY DEF NoReq, Request

\* The first records of the log, and those after them.
LEMMA PrefixFacts ==
  ASSUME NEW s \in Seq(Entry), NEW k \in 0..Len(s)
  PROVE  /\ SubSeq(s, 1, k) \in Seq(Entry) /\ Len(SubSeq(s, 1, k)) = k
         /\ \A i \in 1..k : SubSeq(s, 1, k)[i] = s[i]
  OBVIOUS

LEMMA TailFacts ==
  ASSUME NEW s \in Seq(Entry), NEW k \in 0..Len(s)
  PROVE  /\ SubSeq(s, k + 1, Len(s)) \in Seq(Entry) /\ Len(SubSeq(s, k + 1, Len(s))) = Len(s) - k
         /\ \A i \in 1..(Len(s) - k) : SubSeq(s, k + 1, Len(s))[i] = s[k + i]
  OBVIOUS

LEMMA EntryFacts ==
  ASSUME NEW s \in Seq(Entry)
  PROVE  /\ DOMAIN s = 1..Len(s) /\ Len(s) \in Nat
         /\ \A i \in DOMAIN s : s[i] \in Entry /\ s[i].id \in Review /\ s[i].void \in BOOLEAN
         /\ Ids(s) \subseteq Review /\ Live(s) \subseteq Ids(s)
<1>1. DOMAIN s = 1..Len(s) /\ Len(s) \in Nat /\ \A i \in DOMAIN s : s[i] \in Entry
  OBVIOUS
<1> QED
  BY <1>1 DEF Entry, Ids, Live

LEMMA EntryVoid ==
  ASSUME NEW e \in Entry
  PROVE  /\ [e EXCEPT !.void = TRUE] \in Entry /\ [e EXCEPT !.void = TRUE].id = e.id
         /\ [e EXCEPT !.void = TRUE].void
  BY DEF Entry

\* What is left out of a POST is what .bridge has recorded.
LEMMA OffsetFacts ==
  ASSUME log \in Seq(Entry), NEW b \in Bridge
  PROVE  /\ Offset(b) \in 0..Len(log)
         /\ Offset(b) # 0 => SubSeq(log, 1, Offset(b)) = b.mark
<1>1. b.ack \in Nat /\ Len(log) \in Nat
  BY EntryFacts DEF Bridge
<1> QED
  BY <1>1 DEF Offset

LEMMA PayloadFacts ==
  ASSUME log \in Seq(Entry), cards \subseteq Review, NEW b \in Bridge
  PROVE  /\ Payload(b) \in Request /\ Payload(b).has
         /\ Payload(b).at = "sent" /\ Payload(b).off = Offset(b)
         /\ Payload(b).tail = SubSeq(log, Offset(b) + 1, Len(log))
<1>1. Offset(b) \in 0..Len(log) /\ Len(log) \in Nat
  BY OffsetFacts, EntryFacts
<1>2. SubSeq(log, Offset(b) + 1, Len(log)) \in Seq(Entry)
  BY <1>1, TailFacts
<1> QED
  BY <1>1, <1>2 DEF Payload, Request

LEMMA LoadedFacts ==
  ASSUME file \in Bridge
  PROVE  /\ Loaded \in Bridge
         /\ Loaded = file \/ (~Listed /\ Loaded.mark = <<>> /\ ~Loaded.build)
<1>1. /\ [Blank EXCEPT !.token = TRUE] \in Bridge /\ [Blank EXCEPT !.token = TRUE].mark = <<>>
      /\ ~[Blank EXCEPT !.token = TRUE].build
  BY BlankFacts, BridgeFacts
<1> QED
  BY <1>1 DEF Loaded

LEMMA SavesFacts ==
  ASSUME NEW b, Saves(b)
  PROVE  file' = b \/ file' = file \/ file' = Blank
  BY DEF Saves

LEMMA MergedFacts ==
  ASSUME NEW c \in Collection, NEW d \in Collection
  PROVE  /\ Merged(c, d) \in Collection
         /\ \A r \in Review : Merged(c, d).rows[r] = c.rows[r] \cup d.rows[r]
         /\ Rows(c) \subseteq Rows(Merged(c, d))
<1>1. \A r \in Review : c.rows[r] \subseteq Nat /\ d.rows[r] \subseteq Nat
  BY DEF Collection
<1>2. /\ c.cards \cup d.cards \subseteq Review
      /\ [r \in Review |-> c.rows[r] \cup d.rows[r]] \in [Review -> SUBSET Nat]
  BY <1>1 DEF Collection
<1> QED
  BY <1>1, <1>2 DEF Collection, Merged, Rows

\* Of the answers whose rows were found or made at id: those made.
Put(S, id) == {r \in S : id[r] \notin mirror.rows[r]}

\* The row of an answer the job writes is at its own time or after it.
LEMMA PlacesType ==
  ASSUME NEW S \in SUBSET Review, NEW id \in Places(S)
  PROVE  \A r \in S : id[r] \in Int /\ id[r] >= Stamp[r] /\ id[r] \in Nat /\ Stamp[r] \in Nat
<1>1. \A r \in S : Stamp[r] \in Nat
  BY StampAssumption
<1>2. \A r \in S : id[r] \in UNION {Stamp[q]..(Stamp[q] + Cardinality(Review)) : q \in S} /\ id[r] >= Stamp[r]
  BY DEF Places
<1>3. \A r \in S : id[r] \in Int
  BY <1>2
<1> QED
  BY <1>1, <1>2, <1>3

LEMMA ApplyFacts ==
  ASSUME apply
  PROVE  \E S \in SUBSET Unapplied : \E id \in Places(S) :
           /\ Unapplied \ S \subseteq Missing
           /\ mirror'.rows = [r \in Review |-> IF r \in Put(S, id) THEN mirror.rows[r] \cup {id[r]} ELSE mirror.rows[r]]
           /\ mirror' = [rows |-> mirror'.rows, cards |-> mirror.cards \cup (Put(S, id) \cap job.cards)]
           /\ dirty' = (dirty \/ Put(S, id) # {})
<1> DEFINE Made(S, id) ==
      [rows |-> [r \in Review |-> IF r \in Put(S, id) THEN mirror.rows[r] \cup {id[r]} ELSE mirror.rows[r]],
       cards |-> mirror.cards \cup (Put(S, id) \cap job.cards)]
<1>1. PICK lost \in SUBSET (Missing \cap Unapplied) : \E id \in Places(Unapplied \ lost) :
        mirror' = Made(Unapplied \ lost, id) /\ dirty' = (dirty \/ Put(Unapplied \ lost, id) # {})
  BY DEF apply, Put
<1>2. PICK id \in Places(Unapplied \ lost) :
        mirror' = Made(Unapplied \ lost, id) /\ dirty' = (dirty \/ Put(Unapplied \ lost, id) # {})
  BY <1>1
<1>3. Unapplied \ (Unapplied \ lost) \subseteq Missing /\ Unapplied \ lost \in SUBSET Unapplied
  OBVIOUS
<1>4. /\ mirror'.rows = [r \in Review |-> IF r \in Put(Unapplied \ lost, id)
                                          THEN mirror.rows[r] \cup {id[r]} ELSE mirror.rows[r]]
      /\ mirror'.cards = mirror.cards \cup (Put(Unapplied \ lost, id) \cap job.cards)
  BY <1>2
<1> QED
  BY <1>2, <1>3, <1>4

------------------------------------------------------------------------------
(* Types.  That a recorded prefix of the log is a prefix of it rests on     *)
(* what a POST in its flow, and the answer to it, say of the log.           *)

PostInv ==
  /\ flow = "send" /\ Sending /\ req.has =>
       req.off <= Len(log) /\ req.tail = SubSeq(log, req.off + 1, Len(log))
  /\ flow = "send" /\ reply.kind = "ok" /\ reply.has => reply.ack = Len(log)

LogTypes == log \in Seq(Entry) /\ cards \subseteq Review /\ undo \in Review \cup {None}
FlowTypes ==
  /\ deck \in Folder /\ slipped \in BOOLEAN /\ file \in Bridge /\ mem \in Bridge
  /\ flow \in {"study", "send", "poll", "fetch", "cards", "deck", "meta", "claim"}
WireTypes == req \in Request /\ reply \in Reply
JobType == [pc : JobState, cards : SUBSET Review, pend : SUBSET Review, made : BOOLEAN]
BridgeTypes ==
  /\ journal \in [Review -> {"out", "held", "applied"}] /\ latest \subseteq Review
  /\ job \in JobType
  /\ mirror \in Collection /\ dirty \in BOOLEAN /\ build \subseteq Review
WebTypes ==
  /\ web \in Collection /\ demand \in {"none", "download", "upload"}
  /\ taken \subseteq Review /\ there \subseteq Review /\ blows \in 0..MaxBlows

LEMMA TypeParts == TypeOK = (LogTypes /\ FlowTypes /\ WireTypes /\ BridgeTypes /\ WebTypes)
  BY DEF TypeOK, LogTypes, FlowTypes, WireTypes, BridgeTypes, JobType, WebTypes

LEMMA NoJobFacts == NoJob \in JobType /\ NoJob.pc = "forgotten"
  BY DEF NoJob, JobType, JobState

LEMMA JobFacts ==
  ASSUME NEW j \in JobType, NEW pc \in JobState
  PROVE  /\ [j EXCEPT !.pc = pc] \in JobType /\ [j EXCEPT !.pc = pc].pc = pc
  BY DEF JobType

LEMMA EmptyFacts == Empty \in Collection
  BY DEF Empty, Collection

LEMMA LogTypesKept ==
  ASSUME TypeOK, [Next]_vars
  PROVE  LogTypes'
<1> USE TypeParts DEF LogTypes
<1>1. LogTypes /\ BridgeTypes
  OBVIOUS
<1>2. CASE \E r \in Review : grade(r)
  <2>1. PICK r \in Review : grade(r)
    BY <1>2
  <2>2. [id |-> r, void |-> FALSE] \in Entry
    BY DEF Entry
  <2> QED
    BY <1>1, <2>1, <2>2 DEF grade
<1>3. CASE undoLast
  <2>1. \A e \in Entry : [e EXCEPT !.void = TRUE] \in Entry
    BY EntryVoid
  <2> DEFINE Struck(i) == IF log[i].id = undo THEN [log[i] EXCEPT !.void = TRUE] ELSE log[i]
  <2>2. \A i \in 1..Len(log) : Struck(i) \in Entry
    BY <1>1, <2>1, EntryFacts
  <2>3. log' = [i \in 1..Len(log) |-> Struck(i)]
    BY <1>1, <1>3, EntryFacts DEF undoLast
  <2> HIDE DEF Struck
  <2>4. log' \in Seq(Entry)
    BY <1>1, <2>2, <2>3, EntryFacts
  <2> QED
    BY <1>1, <1>3, <2>4 DEF undoLast
<1>4. CASE \E k \in 0..(Len(log) - 1) : Restore(k)
  <2>1. PICK k \in 0..(Len(log) - 1) : Restore(k)
    BY <1>4
  <2>2. SubSeq(log, 1, k) \in Seq(Entry)
    BY <1>1, PrefixFacts, EntryFacts
  <2> QED
    BY <1>1, <2>1, <2>2 DEF Restore
<1>5. CASE Remove
  BY <1>1, <1>5 DEF Remove
<1>6. CASE Cut \/ NotSent \/ LeavePoll \/ UpToDate \/ FetchFails \/ Claim
  BY <1>1, <1>6 DEF Cut, NotSent, LeavePoll, UpToDate, FetchFails, Claim, StopIn, Stop
<1>7. CASE RenameCards
  <2>1. UNCHANGED <<log, undo>> /\ cards' \in {cards, build}
    BY <1>7 DEF RenameCards
  <2> QED
    BY <1>1, <2>1 DEF BridgeTypes
<1>8. CASE UNCHANGED <<log, cards, undo>>
  BY <1>1, <1>8
<1>9. Pair \/ PackAndPost \/ TakeAck \/ SeeDone \/ Fetched \/ RenameDeck \/ RenameMeta
      => UNCHANGED <<log, cards, undo>>
  BY DEF Pair, PackAndPost, TakeAck, SeeDone, Fetched, RenameDeck, RenameMeta
<1>10. Handler \/ Job \/ JobFails \/ Kill \/ ForceSync => UNCHANGED <<log, cards, undo>>
  BY DEF Handler, Ingest, Answer, Refuse, Job, ReadCards, PullNormal, Replace, ResetApplied, Freeze, apply,
         MarkApplied, Push, PushAnswered, ClearPushed, KeepBuild, BuildDeck, SaveState, BuildFails, JobFails,
         Kill, ForceSync, deviceVars
<1> QED
  BY <1>2, <1>3, <1>4, <1>5, <1>6, <1>7, <1>8, <1>9, <1>10
     DEF Next, User, Reader, World, vars, deviceVars

LEMMA FlowTypesKept ==
  ASSUME TypeOK, PostInv, [Next]_vars
  PROVE  FlowTypes'
<1> USE TypeParts DEF FlowTypes
<1>1. FlowTypes /\ LogTypes
  OBVIOUS
<1>2. \A b \in Bridge : Saves(b) => file' \in Bridge
  BY <1>1, SavesFacts, BlankFacts
<1>3. \A b \in Bridge : [b EXCEPT !.token = TRUE] \in Bridge /\ [b EXCEPT !.build = TRUE] \in Bridge
                        /\ [b EXCEPT !.build = FALSE] \in Bridge
  BY BridgeFacts
<1>4. CASE (\E r \in Review : grade(r)) \/ undoLast \/ \E k \in 0..(Len(log) - 1) : Restore(k)
  <2>1. UNCHANGED <<deck, slipped, file, mem, flow>>
    BY <1>4 DEF grade, undoLast, Restore
  <2> QED
    BY <1>1, <2>1
<1>5. CASE Remove
  BY <1>1, <1>5 DEF Remove, Folder, Gone
<1>6. CASE Cut \/ NotSent \/ LeavePoll \/ UpToDate \/ FetchFails \/ Claim
  <2>1. flow' = "study" /\ mem' = Blank /\ (slipped' = slipped \/ slipped' = (slipped /\ deck # Whole))
    BY <1>6 DEF Cut, NotSent, LeavePoll, UpToDate, FetchFails, Claim, StopIn, Stop
  <2>3. deck' = deck \/ \E f \in File : deck' = [deck EXCEPT ![f] = "none"]
    BY <1>6 DEF Cut, NotSent, LeavePoll, UpToDate, FetchFails, Claim, StopIn, Stop
  <2>4. deck' \in Folder /\ slipped' \in BOOLEAN
    BY <1>1, <2>1, <2>3 DEF Folder
  <2>2. file' \in Bridge
    BY <1>1, <1>2, <1>3, <1>6, BlankFacts DEF Cut, NotSent, LeavePoll, UpToDate, FetchFails, Claim
  <2> QED
    BY <1>1, <2>1, <2>2, <2>4, BlankFacts
<1>7. CASE Pair
  BY <1>1, <1>3, <1>7, BlankFacts DEF Pair
<1>8. CASE PackAndPost
  <2>1. Loaded \in Bridge
    BY <1>1, LoadedFacts
  <2>2. mem' = Loaded /\ flow' = "send" /\ UNCHANGED <<deck, slipped>> /\ (file' = file \/ Saves(Loaded))
    BY <1>8 DEF PackAndPost
  <2> QED
    BY <1>1, <1>2, <2>1, <2>2
<1>9. CASE TakeAck
  <2>1. mem' \in Bridge
    <3>1. CASE ~reply.has
      BY <1>1, <1>9, <3>1 DEF TakeAck
    <3>2. CASE reply.has
      <4>1. reply.ack \in 0..Len(log) /\ reply.ack \in Nat
        BY <1>1, <1>9, <3>2, EntryFacts DEF TakeAck, PostInv, LogTypes
      <4>2. SubSeq(log, 1, reply.ack) \in Seq(Entry)
        BY <1>1, <4>1, PrefixFacts DEF LogTypes
      <4>3. [mem EXCEPT !.ack = reply.ack, !.mark = SubSeq(log, 1, reply.ack)] \in Bridge
        BY <1>1, <4>1, <4>2, AckFacts
      <4> QED
        BY <1>9, <3>2, <4>3 DEF TakeAck
    <3> QED
      BY <3>1, <3>2
  <2>2. Saves(mem') /\ UNCHANGED <<deck, slipped>> /\ flow' = "poll"
    BY <1>9 DEF TakeAck
  <2>3. file' = mem' \/ file' = file \/ file' = Blank
    BY <2>2 DEF Saves
  <2> QED
    BY <1>1, <2>1, <2>2, <2>3, BlankFacts
<1>10. CASE SeeDone \/ Fetched \/ RenameCards \/ RenameDeck \/ RenameMeta
  <2>1. UNCHANGED <<file, mem>> /\ flow' \in {"fetch", "cards", "deck", "meta", "claim"} /\ slipped' \in {slipped, TRUE}
    BY <1>10 DEF SeeDone, Fetched, RenameCards, RenameDeck, RenameMeta
  <2>2. deck' \in {deck, Older} \/ \E f \in File : deck' \in {[deck EXCEPT ![f] = "new"], [deck EXCEPT ![f] = "none"]}
    BY <1>10 DEF SeeDone, Fetched, RenameCards, RenameDeck, RenameMeta, File
  <2>3. deck' \in Folder
    BY <1>1, <2>2 DEF Folder, Older
  <2> QED
    BY <1>1, <2>1, <2>3
<1>11. CASE BuildDeck
  BY <1>1, <1>3, <1>11 DEF BuildDeck
<1>12. CASE UNCHANGED <<deck, slipped, file, mem, flow>>
  BY <1>1, <1>12
<1>13. Handler \/ JobFails \/ Kill \/ ForceSync \/ (Job /\ ~BuildDeck) => UNCHANGED <<deck, slipped, file, mem, flow>>
  BY DEF Handler, Ingest, Answer, Refuse, Job, ReadCards, PullNormal, Replace, ResetApplied, Freeze, apply,
         MarkApplied, Push, PushAnswered, ClearPushed, KeepBuild, SaveState, BuildFails, JobFails,
         Kill, ForceSync, deviceVars
<1> QED
  BY <1>4, <1>5, <1>6, <1>7, <1>8, <1>9, <1>10, <1>11, <1>12, <1>13
     DEF Next, User, Reader, World, vars, deviceVars

LEMMA WireTypesKept ==
  ASSUME TypeOK, [Next]_vars
  PROVE  WireTypes'
<1> USE TypeParts DEF WireTypes
<1>1. WireTypes /\ FlowTypes /\ LogTypes
  OBVIOUS
<1>2. NoReq \in Request /\ [NoReq EXCEPT !.at = "sent"] \in Request /\ [req EXCEPT !.at = "journaled"] \in Request
  BY <1>1, NoReqFacts, RequestFacts
<1>3. /\ NoReply \in Reply
      /\ \A k \in {"none", "failed", "unpaired", "ok"} : Answered(k) \in Reply
      /\ [kind |-> "ok", has |-> req.has, ack |-> req.off + Len(req.tail)] \in Reply
  <2>1. req.has \in BOOLEAN /\ req.off \in Nat /\ Len(req.tail) \in Nat
    BY <1>1, EntryFacts DEF Request
  <2> QED
    BY <2>1 DEF NoReply, Reply
<1>4. CASE UNCHANGED wireVars
  BY <1>1, <1>4 DEF wireVars
<1>5. CASE PackAndPost
  <2>1. Loaded \in Bridge /\ Payload(Loaded) \in Request
    BY <1>1, LoadedFacts, PayloadFacts DEF FlowTypes, LogTypes
  <2> QED
    BY <1>2, <1>3, <1>5, <2>1 DEF PackAndPost
<1>6. CASE Cut \/ NotSent \/ TakeAck
  BY <1>1, <1>3, <1>6 DEF Cut, NotSent, TakeAck
<1>7. CASE Ingest
  BY <1>1, <1>2, <1>7 DEF Ingest
<1>8. CASE Answer \/ Refuse \/ Kill
  <2>1. req' = NoReq
    BY <1>8 DEF Answer, Refuse, Kill
  <2>2. \/ reply' \in {reply, NoReply}
        \/ reply' \in {Answered("failed"), Answered("unpaired")}
        \/ reply' = [kind |-> "ok", has |-> req.has, ack |-> req.off + Len(req.tail)]
    BY <1>8 DEF Answer, Refuse, Kill
  <2> QED
    BY <1>1, <1>2, <1>3, <2>1, <2>2
<1>9. User \/ Pair \/ LeavePoll \/ SeeDone \/ UpToDate \/ FetchFails \/ Fetched \/ RenameCards \/ RenameDeck
      \/ RenameMeta \/ Claim => UNCHANGED wireVars
  BY DEF User, grade, undoLast, Pair, LeavePoll, SeeDone, UpToDate, FetchFails, Fetched, RenameCards, RenameDeck,
         RenameMeta, Claim
<1>10. Job \/ Remove \/ (\E k \in 0..(Len(log) - 1) : Restore(k)) \/ JobFails \/ ForceSync => UNCHANGED wireVars
  BY DEF Job, ReadCards, PullNormal, Replace, ResetApplied, Freeze, apply, MarkApplied, Push, PushAnswered,
         ClearPushed, KeepBuild, BuildDeck, SaveState, BuildFails, Remove, Restore, JobFails, ForceSync
<1> QED
  BY <1>4, <1>5, <1>6, <1>7, <1>8, <1>9, <1>10 DEF Next, Reader, Handler, World, vars

LEMMA BridgeTypesKept ==
  ASSUME TypeOK, [Next]_vars
  PROVE  BridgeTypes'
<1> USE TypeParts DEF BridgeTypes
<1>1. BridgeTypes /\ WebTypes /\ WireTypes /\ LogTypes
  OBVIOUS
<1>2. \A pc \in JobState : /\ [job EXCEPT !.pc = pc] \in JobType
                           /\ [NoJob EXCEPT !.pc = pc] \in JobType
  BY <1>1, JobFacts, NoJobFacts
<1>3. Merged(mirror, web) \in Collection
  BY <1>1, MergedFacts DEF WebTypes
<1>4. CASE UNCHANGED bridgeVars
  BY <1>1, <1>4 DEF bridgeVars
<1>5. CASE Ingest
  <2>1. journal' \in [Review -> {"out", "held", "applied"}]
    BY <1>1, <1>5 DEF Ingest
  <2> QED
    BY <1>1, <1>5, <2>1 DEF Ingest
<1>6. CASE Answer
  <2>1. job' = job \/ job' = [NoJob EXCEPT !.pc = "start"]
    BY <1>6 DEF Answer
  <2>2. job' \in JobType
    BY <1>1, <1>2, <2>1 DEF JobState, Running
  <2>3. latest' \subseteq Review
    BY <1>1, <1>6 DEF Answer, WireTypes, Request
  <2> QED
    BY <1>1, <1>6, <2>2, <2>3 DEF Answer
<1>7. CASE ReadCards
  <2>1. job' \in JobType
    BY <1>1, <1>7 DEF ReadCards, JobType, JobState, Running
  <2> QED
    BY <1>1, <1>7, <2>1 DEF ReadCards
<1>8. CASE PullNormal \/ Push
  <2>1. job' \in JobType
    BY <1>2, <1>8 DEF PullNormal, Push, JobState, Running
  <2>2. mirror' \in Collection /\ dirty' \in BOOLEAN
    BY <1>1, <1>3, <1>8 DEF PullNormal, Push, SyncsNormally
  <2> QED
    BY <1>1, <1>8, <2>1, <2>2 DEF PullNormal, Push
<1>9. CASE Replace
  BY <1>1, <1>2, <1>9 DEF Replace, WebTypes, JobState, Running
<1>10. CASE ResetApplied
  <2>1. journal' \in [Review -> {"out", "held", "applied"}]
    BY <1>1, <1>10 DEF ResetApplied
  <2> QED
    BY <1>1, <1>2, <1>10, <2>1 DEF ResetApplied, JobState, Running
<1>11. CASE apply
  <2>1. PICK S \in SUBSET Unapplied : \E id \in Places(S) :
          /\ mirror'.rows = [r \in Review |-> IF r \in Put(S, id) THEN mirror.rows[r] \cup {id[r]} ELSE mirror.rows[r]]
          /\ mirror' = [rows |-> mirror'.rows, cards |-> mirror.cards \cup (Put(S, id) \cap job.cards)]
          /\ dirty' = (dirty \/ Put(S, id) # {})
    BY <1>11, ApplyFacts
  <2>2. PICK id \in Places(S) :
          /\ mirror'.rows = [r \in Review |-> IF r \in Put(S, id) THEN mirror.rows[r] \cup {id[r]} ELSE mirror.rows[r]]
          /\ mirror' = [rows |-> mirror'.rows, cards |-> mirror.cards \cup (Put(S, id) \cap job.cards)]
          /\ dirty' = (dirty \/ Put(S, id) # {})
    BY <2>1
  <2>3. S \subseteq Review /\ Put(S, id) \subseteq Review /\ \A r \in Put(S, id) : id[r] \in Nat
    BY PlacesType DEF Put, Unapplied
  <2>7. mirror.cards \cup (Put(S, id) \cap job.cards) \subseteq Review /\ \A r \in Review : mirror.rows[r] \subseteq Nat
    BY <1>1, <2>3 DEF Collection
  <2>8. mirror'.rows \in [Review -> SUBSET Nat]
    BY <2>2, <2>3, <2>7
  <2>4. mirror' \in Collection
    BY <2>2, <2>7, <2>8 DEF Collection
  <2>5. dirty' \in BOOLEAN
    BY <1>1, <2>2
  <2>6. job' \in JobType
    BY <1>1, <1>11 DEF apply, JobType, JobState, Running, Unapplied
  <2> QED
    BY <1>1, <1>11, <2>4, <2>5, <2>6 DEF apply
<1>12. CASE MarkApplied
  <2>1. journal' \in [Review -> {"out", "held", "applied"}]
    BY <1>1, <1>12 DEF MarkApplied
  <2>2. job' \in JobType
    BY <1>1, <1>12 DEF MarkApplied, JobType, JobState, Running
  <2> QED
    BY <1>1, <1>12, <2>1, <2>2 DEF MarkApplied
<1>13. CASE ClearPushed
  <2>1. journal' \in [Review -> {"out", "held", "applied"}]
    BY <1>1, <1>13 DEF ClearPushed
  <2> QED
    BY <1>1, <1>2, <1>13, <2>1 DEF ClearPushed, JobState, Running
<1>14. CASE PushAnswered
  BY <1>1, <1>2, <1>14 DEF PushAnswered, JobState, Running
<1>15. CASE BuildDeck
  BY <1>1, <1>2, <1>15 DEF BuildDeck, Collection, JobState, Running
<1>16. CASE KeepBuild \/ SaveState \/ BuildFails
  <2>1. job' \in JobType
    BY <1>1, <1>16 DEF KeepBuild, SaveState, BuildFails, JobType, JobState, Running
  <2>2. UNCHANGED <<journal, latest, mirror, build>> /\ dirty' \in BOOLEAN
    BY <1>1, <1>16 DEF KeepBuild, SaveState, BuildFails
  <2> QED
    BY <1>1, <2>1, <2>2
<1>17. CASE Freeze \/ JobFails
  BY <1>1, <1>2, <1>17 DEF Freeze, JobFails, JobState, Running
<1>18. CASE Kill
  BY <1>1, <1>18, NoJobFacts DEF Kill
<1>19. Reader => UNCHANGED bridgeVars
  BY DEF Reader, Pair, PackAndPost, NotSent, TakeAck, LeavePoll, SeeDone, UpToDate, FetchFails, Fetched,
         RenameCards, RenameDeck, RenameMeta, Claim
<1>20. User \/ Refuse \/ Remove \/ (\E k \in 0..(Len(log) - 1) : Restore(k)) \/ Cut \/ ForceSync
       => UNCHANGED bridgeVars
  BY DEF User, grade, undoLast, Refuse, Remove, Restore, Cut, ForceSync
<1> QED
  BY <1>4, <1>5, <1>6, <1>7, <1>8, <1>9, <1>10, <1>11, <1>12, <1>13, <1>14, <1>15, <1>16, <1>17, <1>18, <1>19,
     <1>20 DEF Next, Handler, Job, World, vars

LEMMA WebTypesKept ==
  ASSUME TypeOK, [Next]_vars
  PROVE  WebTypes'
<1> USE TypeParts DEF WebTypes
<1>1. WebTypes /\ BridgeTypes /\ WireTypes
  OBVIOUS
<1>2. CASE UNCHANGED <<web, demand, taken, there, blows>>
  BY <1>1, <1>2
<1>3. CASE Ingest
  <2>1. Live(req.tail) \subseteq Review
    BY <1>1, EntryFacts DEF WireTypes, Request
  <2> QED
    BY <1>1, <1>3, <2>1 DEF Ingest
<1>4. CASE PullNormal \/ Push
  <2>1. web' = Merged(mirror, web) /\ there' = there \cup Rows(mirror)
        /\ UNCHANGED <<demand, taken, blows>>
    BY <1>4 DEF PullNormal, Push, SyncsNormally
  <2>2. web' \in Collection /\ there' \subseteq Review
    BY <1>1, <2>1, MergedFacts DEF BridgeTypes, Rows
  <2> QED
    BY <1>1, <2>1, <2>2
<1>5. CASE Replace
  BY <1>1, <1>5 DEF Replace
<1>6. Strikes => blows' \in 0..MaxBlows
  BY <1>1, BlowsAssumption
<1>7. CASE RenameCards \/ RenameDeck \/ RenameMeta \/ Remove \/ (\E k \in 0..(Len(log) - 1) : Restore(k)) \/ Cut
           \/ JobFails \/ Kill
  <2>1. (Strikes \/ blows' = blows) /\ UNCHANGED <<web, demand, taken, there>>
    BY <1>7 DEF RenameCards, RenameDeck, RenameMeta, Remove, Restore, Cut, JobFails, Kill
  <2> QED
    BY <1>1, <1>6, <2>1
<1>8. CASE ForceSync
  <2>1. Strikes /\ UNCHANGED <<taken, there>>
    BY <1>8 DEF ForceSync
  <2>2. demand' \in {"none", "download", "upload"}
    BY <1>1, <1>8 DEF ForceSync
  <2>3. CASE web' = web
    BY <1>1, <1>6, <2>1, <2>2, <2>3
  <2>4. CASE web' # web
    <3>1. PICK keep \in OlderRows :
            web' = [rows |-> [r \in Review |-> IF r \in keep THEN web.rows[r] ELSE {}], cards |-> web.cards \cap keep]
      BY <1>8, <2>4 DEF ForceSync
    <3>2. web' \in Collection
      BY <1>1, <3>1 DEF Collection
    <3> QED
      BY <1>1, <1>6, <2>1, <2>2, <3>2
  <2> QED
    BY <2>3, <2>4
<1>9. User \/ Answer \/ Refuse \/ (Reader /\ ~RenameCards /\ ~RenameDeck /\ ~RenameMeta)
      => UNCHANGED <<web, demand, taken, there, blows>>
  BY DEF User, grade, undoLast, Reader, Pair, PackAndPost, NotSent, TakeAck, LeavePoll, SeeDone, UpToDate,
         FetchFails, Fetched, Claim, Answer, Refuse
<1>10. ReadCards \/ ResetApplied \/ Freeze \/ apply \/ MarkApplied \/ PushAnswered \/ ClearPushed \/ KeepBuild
       \/ BuildDeck \/ SaveState \/ BuildFails => UNCHANGED <<web, demand, taken, there, blows>>
  BY DEF ReadCards, ResetApplied, Freeze, apply, MarkApplied, PushAnswered, ClearPushed, KeepBuild, BuildDeck,
         SaveState, BuildFails
<1> QED
  BY <1>2, <1>3, <1>4, <1>5, <1>7, <1>8, <1>9, <1>10 DEF Next, Handler, Job, World, vars

\* An answer to a POST speaks of the whole log.
LEMMA PostKept ==
  ASSUME TypeOK, PostInv, [Next]_vars
  PROVE  PostInv'
<1> USE TypeParts DEF PostInv
<1>1. WireTypes /\ FlowTypes /\ LogTypes
  OBVIOUS
<1>2. CASE flow' # "send"
  BY <1>2
<1>3. CASE PackAndPost
  <2>1. Loaded \in Bridge
    BY <1>1, LoadedFacts DEF FlowTypes
  <2>2. /\ log' = log /\ reply' = NoReply
        /\ req' = IF Listed THEN Payload(Loaded) ELSE [NoReq EXCEPT !.at = "sent"]
    BY <1>3 DEF PackAndPost
  <2>3. reply'.kind # "ok"
    BY <2>2 DEF NoReply
  <2>4. CASE Listed
    <3>1. req'.off = Offset(Loaded) /\ req'.tail = SubSeq(log, Offset(Loaded) + 1, Len(log))
      BY <1>1, <2>1, <2>2, <2>4, PayloadFacts DEF LogTypes
    <3>2. Offset(Loaded) <= Len(log)
      BY <1>1, <2>1, OffsetFacts, EntryFacts DEF LogTypes
    <3> QED
      BY <2>2, <2>3, <3>1, <3>2
  <2>5. CASE ~Listed
    <3>1. ~req'.has
      BY <2>2, <2>5, NoReqFacts, RequestFacts
    <3> QED
      BY <2>3, <3>1
  <2> QED
    BY <2>4, <2>5
<1>4. CASE Ingest
  <2>1. UNCHANGED <<log, flow, reply>> /\ Sending
    BY <1>4 DEF Ingest, deviceVars
  <2>2. req'.off = req.off /\ req'.tail = req.tail /\ req'.has = req.has
    BY <1>1, <1>4, RequestFacts DEF Ingest, WireTypes
  <2> QED
    BY <2>1, <2>2
<1>5. CASE (Answer \/ Refuse \/ Kill) /\ flow = "send"
  <2>1. UNCHANGED <<log, flow>> /\ req' = NoReq
    BY <1>5 DEF Answer, Refuse, Kill, deviceVars
  <2>2. CASE reply' = [kind |-> "ok", has |-> req.has, ack |-> req.off + Len(req.tail)] /\ Answer
    <3>1. CASE req.has
      <4>1. req.off \in 0..Len(log) /\ req.tail = SubSeq(log, req.off + 1, Len(log))
        BY <1>1, <1>5, <2>2, <3>1, EntryFacts DEF WireTypes, Request, Answer, LogTypes
      <4>2. Len(req.tail) = Len(log) - req.off /\ Len(log) \in Nat
        BY <1>1, <4>1, TailFacts, EntryFacts DEF LogTypes
      <4>3. reply'.ack = Len(log)
        BY <2>2, <4>1, <4>2
      <4> QED
        BY <2>1, <4>3, NoReqFacts
    <3>2. CASE ~req.has
      BY <2>1, <2>2, <3>2, NoReqFacts
    <3> QED
      BY <3>1, <3>2
  <2>3. CASE reply' = Answered("failed") \/ reply' = Answered("unpaired") \/ reply' = reply
    BY <2>1, <2>3, NoReqFacts
  <2> QED
    BY <1>5, <2>2, <2>3 DEF Answer, Refuse, Kill
<1>6. CASE UNCHANGED <<log, flow, req, reply>>
  BY <1>6
<1>7. User \/ Remove \/ (\E k \in 0..(Len(log) - 1) : Restore(k)) => flow' # "send"
  BY DEF User, grade, undoLast, Remove, Restore
<1>8. Cut \/ (Reader /\ ~PackAndPost /\ ~Pair) => flow' # "send"
  BY DEF Cut, Reader, NotSent, TakeAck, LeavePoll, SeeDone, UpToDate, FetchFails, Fetched, RenameCards, RenameDeck,
         RenameMeta, Claim, StopIn, Stop
<1>9. Pair => flow' # "send"
  BY DEF Pair
<1>10. (Answer \/ Refuse \/ Kill) => flow' = flow
  BY DEF Answer, Refuse, Kill, deviceVars
<1>11. Job \/ JobFails \/ ForceSync => UNCHANGED <<log, flow, req, reply>>
  BY DEF Job, ReadCards, PullNormal, Replace, ResetApplied, Freeze, apply, MarkApplied, Push, PushAnswered,
         ClearPushed, KeepBuild, BuildDeck, SaveState, BuildFails, JobFails, ForceSync, deviceVars, wireVars
<1> QED
  BY <1>2, <1>3, <1>4, <1>5, <1>6, <1>7, <1>8, <1>9, <1>10, <1>11
     DEF Next, Handler, World, vars, deviceVars, wireVars

LEMMA TypesAtInit == Init => TypeOK /\ PostInv
<1> SUFFICES ASSUME Init
             PROVE  TypeOK /\ PostInv
  OBVIOUS
<1>1. LogTypes
  BY DEF Init, LogTypes
<1>2. FlowTypes
  <2>1. [Blank EXCEPT !.token = TRUE] \in Bridge
    BY BlankFacts, BridgeFacts
  <2>2. [Blank EXCEPT !.token = TRUE, !.build = TRUE] \in Bridge
    BY <2>1, BridgeFacts
  <2> QED
    BY <2>2, BlankFacts DEF Init, FlowTypes, Folder, Whole
<1>3. WireTypes /\ reply.kind # "ok" /\ flow = "study"
  BY NoReqFacts DEF Init, WireTypes, NoReply, Reply
<1>4. BridgeTypes
  BY NoJobFacts, EmptyFacts DEF Init, BridgeTypes
<1>5. WebTypes
  BY EmptyFacts, BlowsAssumption DEF Init, WebTypes
<1> QED
  BY <1>1, <1>2, <1>3, <1>4, <1>5, TypeParts DEF PostInv

LEMMA TypesHold == Spec => [](TypeOK /\ PostInv)
<1>1. (LogTypes /\ FlowTypes /\ WireTypes /\ BridgeTypes /\ WebTypes)' => TypeOK'
  BY DEF TypeOK, LogTypes, FlowTypes, WireTypes, BridgeTypes, JobType, WebTypes
<1>2. TypeOK /\ PostInv /\ [Next]_vars => (TypeOK /\ PostInv)'
  BY <1>1, LogTypesKept, FlowTypesKept, WireTypesKept, BridgeTypesKept, WebTypesKept, PostKept
<1> QED
  BY <1>2, TypesAtInit, PTL DEF Spec

\* Every variable keeps its type, the prefix of the log that .bridge records
\* included (StudySync.h:54-79, journal.py:24-43).
THEOREM TypeCorrect == Spec => []TypeOK
  BY TypesHold, PTL

------------------------------------------------------------------------------
(* An answer is always somewhere.  What is marked applied is in the mirror, *)
(* except for the moment in which the mirror has been replaced and the      *)
(* journal does not know: with no fault there, no service dies in it.       *)

KeptInv ==
  /\ ReviewsKept
  /\ At("reset") \/ Pushed \subseteq Rows(mirror) \cup Missing
  /\ At("mark") => job.pend \subseteq Rows(mirror) \cup Missing
  /\ At("clear") => Pushed \subseteq there \cup Missing

LEMMA KeptStep ==
  ASSUME TypeOK, KeptInv, [Next]_vars, "torn" \notin Faults
  PROVE  KeptInv'
<1> USE TypeParts DEF KeptInv, ReviewsKept, Held, Pushed
<1>1. BridgeTypes /\ WebTypes /\ WireTypes
  OBVIOUS
<1> USE DEF BridgeTypes
<1>2. /\ [NoJob EXCEPT !.pc = "start"].pc = "start" /\ [NoJob EXCEPT !.pc = "failed"].pc = "failed"
      /\ NoJob.pc = "forgotten"
  BY JobFacts, NoJobFacts DEF JobState, Running
<1>3. CASE UNCHANGED <<journal, job, mirror, taken, there>>
  BY <1>3 DEF Rows
<1>4. CASE Ingest
  <2>1. UNCHANGED <<job, mirror, there>> /\ taken' = taken \cup Live(req.tail)
    BY <1>4 DEF Ingest
  <2>2. \A r \in Review : /\ r \in Live(req.tail) => journal'[r] # "out"
                          /\ journal'[r] = "out" => journal[r] = "out"
                          /\ journal'[r] = "applied" => journal[r] = "applied"
    BY <1>1, <1>4 DEF Ingest
  <2>3. Live(req.tail) \subseteq Review
    BY <1>1, EntryFacts DEF WireTypes, Request
  <2> QED
    BY <1>1, <2>1, <2>2, <2>3 DEF Rows, WebTypes
<1>5. CASE Answer
  <2>1. /\ UNCHANGED <<journal, mirror, taken, there>>
        /\ (job' = job \/ (~At("reset") /\ job' = [NoJob EXCEPT !.pc = "start"]))
    BY <1>5 DEF Answer, Busy, Running
  <2> QED
    BY <1>1, <1>2, <2>1 DEF Rows
<1>6. CASE ReadCards \/ PushAnswered \/ KeepBuild \/ BuildDeck \/ SaveState \/ BuildFails \/ Freeze
  <2>1. UNCHANGED <<journal, mirror, taken, there>> /\ ~At("reset") /\ job'.pc \notin {"reset", "mark", "clear"}
    BY <1>1, <1>2, <1>6 DEF ReadCards, PushAnswered, KeepBuild, BuildDeck, SaveState, BuildFails, Freeze, JobType
  <2> QED
    BY <1>1, <2>1 DEF Rows
<1>7. CASE JobFails \/ Kill
  <2>1. UNCHANGED <<journal, mirror, taken, there>> /\ ~At("reset") /\ job'.pc \notin {"reset", "mark", "clear"}
    BY <1>1, <1>2, <1>7 DEF JobFails, Kill
  <2> QED
    BY <1>1, <2>1 DEF Rows
<1>8. CASE PullNormal \/ Push
  <2>1. Rows(mirror) \subseteq Rows(mirror') /\ there' = there \cup Rows(mirror)
        /\ UNCHANGED <<journal, taken>>
    BY <1>1, <1>8, MergedFacts DEF PullNormal, Push, SyncsNormally, WebTypes
  <2>2. ~At("reset") /\ job'.pc \notin {"reset", "mark"}
    BY <1>1, <1>8 DEF PullNormal, Push, JobType
  <2> QED
    BY <1>1, <2>1, <2>2 DEF Rows
<1>9. CASE Replace
  <2>1. job'.pc = "reset" /\ UNCHANGED <<journal, taken, there>>
    BY <1>1, <1>9 DEF Replace, JobType
  <2> QED
    BY <1>1, <2>1
<1>10. CASE ResetApplied
  <2>1. job'.pc = "apply" /\ UNCHANGED <<mirror, taken, there>>
    BY <1>1, <1>10 DEF ResetApplied, JobType
  <2>2. \A r \in Review : journal'[r] # "applied" /\ (journal'[r] = "out" => journal[r] = "out")
    BY <1>1, <1>10 DEF ResetApplied
  <2> QED
    BY <1>1, <2>1, <2>2
<1>11. CASE apply
  <2>1. PICK S \in SUBSET Unapplied : \E id \in Places(S) :
          /\ Unapplied \ S \subseteq Missing
          /\ mirror'.rows = [r \in Review |-> IF r \in Put(S, id) THEN mirror.rows[r] \cup {id[r]} ELSE mirror.rows[r]]
    BY <1>11, ApplyFacts
  <2>2. job'.pc = "mark" /\ job'.pend = Unapplied /\ UNCHANGED <<journal, taken, there>> /\ ~At("reset")
    BY <1>1, <1>11 DEF apply, JobType
  <2>3. \A r \in Review : mirror.rows[r] \subseteq mirror'.rows[r] /\ (r \in S => mirror'.rows[r] # {})
    BY <2>1 DEF Put
  <2>4. Rows(mirror) \subseteq Rows(mirror')
    BY <2>3 DEF Rows
  <2>5. Unapplied \subseteq Rows(mirror') \cup Missing
    BY <2>1, <2>3 DEF Rows, Unapplied
  <2> QED
    BY <1>1, <2>2, <2>4, <2>5
<1>12. CASE MarkApplied
  <2>1. job'.pc = "push" /\ UNCHANGED <<mirror, taken, there>> /\ At("mark")
    BY <1>1, <1>12 DEF MarkApplied, JobType
  <2>2. \A r \in Review : /\ journal'[r] = "out" <=> journal[r] = "out"
                          /\ journal'[r] = "applied" => journal[r] = "applied" \/ r \in job.pend
    BY <1>1, <1>12 DEF MarkApplied
  <2> QED
    BY <1>1, <2>1, <2>2 DEF Rows
<1>13. CASE ClearPushed
  <2>1. job'.pc = "build" /\ UNCHANGED <<mirror, taken, there>> /\ At("clear")
    BY <1>1, <1>13 DEF ClearPushed, JobType
  <2>2. \A r \in Review : /\ journal'[r] # "applied"
                          /\ journal'[r] = "out" => journal[r] = "out" \/ r \in Pushed
    BY <1>1, <1>13 DEF ClearPushed
  <2> QED
    BY <1>1, <2>1, <2>2, ReviewAssumption
<1>14. Reader \/ User => UNCHANGED <<journal, job, mirror, taken, there>>
  BY DEF Reader, Pair, PackAndPost, NotSent, TakeAck, LeavePoll, SeeDone, UpToDate, FetchFails, Fetched,
         RenameCards, RenameDeck, RenameMeta, Claim, User, grade, undoLast, bridgeVars
<1>15. Refuse \/ Remove \/ (\E k \in 0..(Len(log) - 1) : Restore(k)) \/ Cut \/ ForceSync
       => UNCHANGED <<journal, job, mirror, taken, there>>
  BY DEF Refuse, Remove, Restore, Cut, ForceSync, bridgeVars
<1> QED
  BY <1>3, <1>4, <1>5, <1>6, <1>7, <1>8, <1>9, <1>10, <1>11, <1>12, <1>13, <1>14, <1>15
     DEF Next, Handler, Job, World, vars, bridgeVars

\* Where no service dies with its mirror just replaced, an answer the journal
\* has accepted is in it until AnkiWeb has confirmed it, whatever is posted,
\* synced, forced or cut short (journal.py:1-16, engine.py:101-164).
THEOREM NoReviewIsLost ==
  ASSUME "torn" \notin Faults
  PROVE  Spec => []ReviewsKept
<1>1. Init => KeptInv
  BY DEF Init, KeptInv, ReviewsKept, Pushed, NoJob
<1>2. TypeOK /\ KeptInv /\ [Next]_vars => KeptInv'
  BY KeptStep
<1>3. KeptInv => ReviewsKept
  BY DEF KeptInv
<1> QED
  BY <1>1, <1>2, <1>3, TypeCorrect, PTL DEF Spec

------------------------------------------------------------------------------
(* An answer taken back stays on the reader: it is in the log once, and     *)
(* while it can be taken back no POST that could bring it out is under way. *)

UndoneInv ==
  /\ UndoneStaysOut
  /\ \A i, j \in DOMAIN log : log[i].id = log[j].id => i = j
  /\ \A i \in DOMAIN log, j \in DOMAIN req.tail :
       log[i].void /\ ~req.tail[j].void => log[i].id # req.tail[j].id
  /\ flow = "study" /\ undo # None => undo \notin taken \cup Ids(req.tail)

LEMMA UndoneStep ==
  ASSUME TypeOK, UndoneInv, [Next]_vars
  PROVE  UndoneInv'
<1> USE TypeParts DEF UndoneInv, UndoneStaysOut
<1>1. LogTypes /\ WireTypes /\ FlowTypes
  OBVIOUS
<1>2. /\ log \in Seq(Entry) /\ req.tail \in Seq(Entry)
      /\ DOMAIN log = 1..Len(log) /\ Len(log) \in Nat
      /\ \A i \in DOMAIN log : log[i] \in Entry
      /\ NoReq.tail = <<>>
  BY <1>1, EntryFacts, NoReqFacts DEF LogTypes, WireTypes, Request
<1>3. CASE UNCHANGED <<log, undo, flow, req, taken>>
  BY <1>3
<1>4. CASE \E r \in Review : grade(r)
  <2>1. PICK r \in Review : grade(r)
    BY <1>4
  <2>2. /\ log' = Append(log, [id |-> r, void |-> FALSE]) /\ undo' \in {r, None}
        /\ UNCHANGED <<flow, req, taken>> /\ r \notin Ids(log) /\ r \notin taken \cup Ids(req.tail)
    BY <2>1 DEF grade, Used, wireVars
  <2>3. /\ DOMAIN log' = 1..(Len(log) + 1)
        /\ \A i \in 1..Len(log) : log'[i] = log[i]
        /\ log'[Len(log) + 1] = [id |-> r, void |-> FALSE]
    BY <1>2, <2>2
  <2>4. \A i \in DOMAIN log : log[i].id # r
    BY <2>2 DEF Ids
  <2>5. \A i, j \in DOMAIN log' : log'[i].id = log'[j].id => i = j
    BY <1>2, <2>3, <2>4
  <2>6. \A i \in DOMAIN log' : log'[i].void => i \in DOMAIN log /\ log'[i] = log[i]
    BY <1>2, <2>3
  <2> QED
    BY <2>2, <2>5, <2>6
<1>5. CASE undoLast
  <2>1. /\ log' = [i \in DOMAIN log |-> IF log[i].id = undo THEN [log[i] EXCEPT !.void = TRUE] ELSE log[i]]
        /\ undo' = None /\ undo \notin taken \cup Ids(req.tail)
        /\ UNCHANGED <<flow, req, taken>>
    BY <1>5 DEF undoLast, wireVars
  <2>2. /\ DOMAIN log' = DOMAIN log
        /\ \A i \in DOMAIN log : log'[i].id = log[i].id /\ (log[i].id # undo => log'[i] = log[i])
    BY <1>2, <2>1, EntryVoid
  <2>3. \A i \in DOMAIN log' : log'[i].void => log[i].void \/ log'[i].id = undo
    BY <2>2
  <2>4. \A j \in DOMAIN req.tail : req.tail[j].id # undo
    BY <2>1 DEF Ids
  <2>5. \A i \in DOMAIN log' : log'[i].void => log'[i].id \notin taken
    BY <2>1, <2>2, <2>3
  <2>6. \A i \in DOMAIN log', j \in DOMAIN req.tail :
          log'[i].void /\ ~req.tail[j].void => log'[i].id # req.tail[j].id
    BY <2>2, <2>3, <2>4
  <2> QED
    BY <2>1, <2>2, <2>5, <2>6
<1>6. CASE Remove \/ \E k \in 0..(Len(log) - 1) : Restore(k)
  <2>1. UNCHANGED <<req, taken>> /\ undo' = None
    BY <1>6 DEF Remove, Restore, wireVars
  <2>2. CASE Remove
    BY <2>1, <2>2 DEF Remove
  <2>3. CASE \E k \in 0..(Len(log) - 1) : Restore(k)
    <3>1. PICK k \in 0..(Len(log) - 1) : log' = SubSeq(log, 1, k)
      BY <2>3 DEF Restore
    <3>2. DOMAIN log' \subseteq DOMAIN log /\ \A i \in DOMAIN log' : log'[i] = log[i]
      BY <1>2, <3>1, PrefixFacts, EntryFacts
    <3> QED
      BY <2>1, <3>2
  <2> QED
    BY <1>6, <2>2, <2>3
<1>7. CASE Cut \/ NotSent \/ LeavePoll \/ UpToDate \/ FetchFails \/ Claim
  <2>1. log' = log /\ undo' = None /\ UNCHANGED <<req, taken>>
    BY <1>7 DEF Cut, NotSent, LeavePoll, UpToDate, FetchFails, Claim, StopIn, Stop, wireVars
  <2> QED
    BY <2>1
<1>8. CASE PackAndPost
  <2>1. log' = log /\ taken' = taken /\ flow' = "send"
        /\ req' = IF Listed THEN Payload(Loaded) ELSE [NoReq EXCEPT !.at = "sent"]
    BY <1>8 DEF PackAndPost
  <2>2. CASE Listed
    <3>1. Loaded \in Bridge
      BY <1>1, LoadedFacts DEF FlowTypes
    <3>2. Offset(Loaded) \in 0..Len(log) /\ req'.tail = SubSeq(log, Offset(Loaded) + 1, Len(log))
      BY <1>1, <1>2, <2>1, <2>2, <3>1, OffsetFacts, PayloadFacts DEF LogTypes
    <3>3. \A j \in DOMAIN req'.tail : \E i \in DOMAIN log : req'.tail[j] = log[i]
      <4>1. /\ DOMAIN req'.tail = 1..(Len(log) - Offset(Loaded))
            /\ \A j \in DOMAIN req'.tail : req'.tail[j] = log[Offset(Loaded) + j]
        BY <1>2, <3>2, TailFacts, EntryFacts
      <4>2. \A j \in DOMAIN req'.tail : Offset(Loaded) + j \in DOMAIN log
        BY <1>2, <3>2, <4>1
      <4> QED
        BY <4>1, <4>2
    <3> QED
      BY <2>1, <3>3
  <2>3. CASE ~Listed
    <3>1. req'.tail = <<>>
      BY <2>1, <2>3, NoReqFacts, RequestFacts
    <3> QED
      BY <2>1, <3>1
  <2> QED
    BY <2>2, <2>3
<1>9. CASE Ingest
  <2>1. req'.tail = req.tail
    BY <1>1, <1>9, RequestFacts DEF Ingest, WireTypes
  <2>2. UNCHANGED <<log, undo, flow>> /\ taken' = taken \cup Live(req.tail)
    BY <1>9 DEF Ingest, deviceVars
  <2>3. \A i \in DOMAIN log : log[i].void => log[i].id \notin Live(req.tail)
    BY DEF Live
  <2>4. Live(req.tail) \subseteq Ids(req.tail)
    BY <1>2, EntryFacts
  <2> QED
    BY <2>1, <2>2, <2>3, <2>4
<1>10. CASE Answer \/ Refuse \/ Kill
  <2>1. req'.tail = <<>> /\ UNCHANGED <<log, undo, flow, taken>>
    BY <1>2, <1>10 DEF Answer, Refuse, Kill, deviceVars
  <2> QED
    BY <2>1 DEF Ids
<1>11. CASE TakeAck \/ SeeDone \/ Fetched \/ RenameCards \/ RenameDeck \/ RenameMeta
  <2>1. UNCHANGED <<log, req, taken>> /\ flow' # "study"
    BY <1>11 DEF TakeAck, SeeDone, Fetched, RenameCards, RenameDeck, RenameMeta, wireVars
  <2> QED
    BY <2>1
<1>12. Pair \/ Job \/ JobFails \/ ForceSync => UNCHANGED <<log, undo, flow, req, taken>>
  BY DEF Pair, Job, ReadCards, PullNormal, Replace, ResetApplied, Freeze, apply, MarkApplied, Push, PushAnswered,
         ClearPushed, KeepBuild, BuildDeck, SaveState, BuildFails, JobFails, ForceSync, deviceVars, wireVars
<1> QED
  BY <1>3, <1>4, <1>5, <1>6, <1>7, <1>8, <1>9, <1>10, <1>11, <1>12
     DEF Next, User, Reader, Handler, World, vars, deviceVars, wireVars

\* UNDO is over before an answer can go out: whatever the order of answers,
\* syncs, cuts and late POSTs, one taken back on the reader is not in the
\* journal (StudyActivity.cpp:241, 1878-1881).
THEOREM NothingUndoneGoesOut == Spec => []UndoneStaysOut
<1>1. Init => UndoneInv
  BY DEF Init, UndoneInv, UndoneStaysOut
<1>2. TypeOK /\ UndoneInv /\ [Next]_vars => UndoneInv'
  BY UndoneStep
<1>3. UndoneInv => UndoneStaysOut
  BY DEF UndoneInv
<1> QED
  BY <1>1, <1>2, <1>3, TypeCorrect, PTL DEF Spec

------------------------------------------------------------------------------
(* What is left out of a POST the service has: a recorded prefix holds no   *)
(* answer it lacks, nor does what a POST leaves out or, once journaled, the *)
(* log it was cut from.                                                     *)

\* The first k records of s, but for those struck out, are answers in t.
Accepted(s, k, t) == \A i \in 1..k : ~s[i].void => s[i].id \in t

SentInv ==
  /\ Accepted(file.mark, Len(file.mark), taken) /\ Accepted(mem.mark, Len(mem.mark), taken)
  /\ flow = "send" /\ req.at = "sent" /\ req.has => Accepted(log, req.off, taken)
  /\ flow = "send" /\ req.at = "journaled" /\ req.has => Accepted(log, Len(log), taken)
  /\ flow = "send" /\ reply.kind = "ok" /\ reply.has => Accepted(log, Len(log), taken)

LEMMA AcceptedGrows ==
  ASSUME NEW s, NEW k, NEW t, NEW u, t \subseteq u, Accepted(s, k, t)
  PROVE  Accepted(s, k, u)
  BY DEF Accepted

LEMMA NothingAccepted ==
  ASSUME NEW s, s = <<>>, NEW t
  PROVE  Accepted(s, Len(s), t)
  BY DEF Accepted

\* A prefix the reader believes was sent, was.
LEMMA BelievedFacts ==
  ASSUME log \in Seq(Entry), NEW b \in Bridge, NEW t, Accepted(b.mark, Len(b.mark), t)
  PROVE  Offset(b) \in 0..Len(log) /\ Accepted(log, Offset(b), t)
<1>1. Len(log) \in Nat
  BY EntryFacts
<1>2. Offset(b) \in 0..Len(log)
  BY <1>1, OffsetFacts
<1>3. CASE Offset(b) = 0
  BY <1>2, <1>3 DEF Accepted
<1>4. CASE Offset(b) # 0
  <2>1. b.mark = SubSeq(log, 1, Offset(b))
    BY <1>4, OffsetFacts
  <2>2. Len(b.mark) = Offset(b) /\ \A i \in 1..Offset(b) : b.mark[i] = log[i]
    BY <1>2, <2>1, PrefixFacts
  <2> QED
    BY <1>2, <2>2 DEF Accepted
<1> QED
  BY <1>3, <1>4

\* The journal takes the tail that completes the log.
LEMMA TailAccepted ==
  ASSUME NEW s \in Seq(Entry), NEW k \in 0..Len(s), NEW t, Accepted(s, k, t)
  PROVE  Accepted(s, Len(s), t \cup Live(SubSeq(s, k + 1, Len(s))))
<1> DEFINE tail == SubSeq(s, k + 1, Len(s))
<1>1. tail \in Seq(Entry) /\ Len(tail) = Len(s) - k /\ \A i \in 1..(Len(s) - k) : tail[i] = s[k + i]
  BY TailFacts
<1>2. DOMAIN tail = 1..(Len(s) - k) /\ Len(s) \in Nat
  BY <1>1, EntryFacts
<1> HIDE DEF tail
<1>3. SUFFICES ASSUME NEW i \in 1..Len(s), ~s[i].void, i > k
               PROVE  s[i].id \in Live(tail)
  BY <1>2 DEF Accepted, tail
<1>4. i - k \in DOMAIN tail /\ tail[i - k] = s[i]
  BY <1>1, <1>2, <1>3
<1> QED
  BY <1>3, <1>4 DEF Live

LEMMA SentStep ==
  ASSUME TypeOK, PostInv, SentInv, [Next]_vars
  PROVE  SentInv'
<1> USE TypeParts DEF SentInv
<1>1. LogTypes /\ WireTypes /\ FlowTypes /\ WebTypes
  OBVIOUS
<1>2. /\ log \in Seq(Entry) /\ Len(log) \in Nat /\ file \in Bridge /\ mem \in Bridge
      /\ Accepted(Blank.mark, Len(Blank.mark), taken)
  BY <1>1, EntryFacts, BlankFacts, NothingAccepted DEF LogTypes, FlowTypes
<1>3. CASE UNCHANGED <<log, file, mem, flow, req, reply, taken>>
  BY <1>3
<1>4. CASE (\E r \in Review : grade(r)) \/ undoLast \/ Remove \/ \E k \in 0..(Len(log) - 1) : Restore(k)
  <2>1. UNCHANGED <<file, mem, taken>> /\ flow' = "study"
    BY <1>4 DEF grade, undoLast, Remove, Restore
  <2> QED
    BY <2>1
<1>5. CASE Cut \/ NotSent \/ LeavePoll \/ UpToDate \/ FetchFails
  <2>1. mem' = Blank /\ taken' = taken /\ flow' = "study"
    BY <1>5 DEF Cut, NotSent, LeavePoll, UpToDate, FetchFails, StopIn, Stop
  <2>2. file' \in {file, mem, Blank}
    BY <1>5 DEF Cut, NotSent, LeavePoll, UpToDate, FetchFails, Saves
  <2> QED
    BY <1>2, <2>1, <2>2
<1>6. CASE Claim
  <2>1. mem' = Blank /\ taken' = taken /\ flow' = "study"
    BY <1>6 DEF Claim, StopIn, Stop
  <2>2. [mem EXCEPT !.build = TRUE].mark = mem.mark
    BY <1>2, BridgeFacts
  <2>3. file' \in {[mem EXCEPT !.build = TRUE], file, Blank}
    BY <1>6 DEF Claim, Saves
  <2> QED
    BY <1>2, <2>1, <2>2, <2>3
<1>7. CASE Pair
  <2>1. [Blank EXCEPT !.token = TRUE].mark = Blank.mark
    BY BlankFacts, BridgeFacts
  <2> QED
    BY <1>2, <1>7, <2>1 DEF Pair
<1>8. CASE PackAndPost
  <2>1. Loaded \in Bridge /\ Accepted(Loaded.mark, Len(Loaded.mark), taken)
    BY <1>2, LoadedFacts, NothingAccepted
  <2>2. /\ mem' = Loaded /\ file' \in {file, Loaded, Blank} /\ UNCHANGED <<log, taken>>
        /\ reply' = NoReply /\ req' = IF Listed THEN Payload(Loaded) ELSE [NoReq EXCEPT !.at = "sent"]
    BY <1>8 DEF PackAndPost, Saves
  <2>3. Accepted(file'.mark, Len(file'.mark), taken) /\ reply'.kind # "ok"
    BY <1>2, <2>1, <2>2 DEF NoReply
  <2>4. CASE Listed
    <3>1. req'.at = "sent" /\ req'.off = Offset(Loaded)
      BY <1>1, <2>1, <2>2, <2>4, PayloadFacts DEF LogTypes
    <3>2. Accepted(log, Offset(Loaded), taken)
      BY <1>2, <2>1, BelievedFacts
    <3> QED
      BY <2>1, <2>2, <2>3, <3>1, <3>2
  <2>5. CASE ~Listed
    <3>1. ~req'.has
      BY <2>2, <2>5, NoReqFacts, RequestFacts
    <3> QED
      BY <2>1, <2>2, <2>3, <3>1
  <2> QED
    BY <2>4, <2>5
<1>9. CASE TakeAck
  <2>1. /\ flow = "send" /\ reply.kind = "ok" /\ flow' = "poll" /\ UNCHANGED <<log, taken>>
        /\ Saves(mem')
        /\ mem' = IF reply.has
                  THEN [mem EXCEPT !.ack = reply.ack, !.mark = SubSeq(log, 1, reply.ack)]
                  ELSE mem
    BY <1>9 DEF TakeAck
  <2>2. Accepted(mem'.mark, Len(mem'.mark), taken)
    <3>1. CASE ~reply.has
      BY <2>1, <3>1
    <3>2. CASE reply.has
      <4>1. reply.ack = Len(log) /\ reply.ack \in Nat /\ Accepted(log, Len(log), taken)
        BY <1>2, <2>1, <3>2 DEF PostInv
      <4>2. SubSeq(log, 1, reply.ack) \in Seq(Entry) /\ Len(SubSeq(log, 1, reply.ack)) = Len(log)
            /\ \A i \in 1..Len(log) : SubSeq(log, 1, reply.ack)[i] = log[i]
        BY <1>2, <4>1, PrefixFacts
      <4>3. mem'.mark = SubSeq(log, 1, reply.ack)
        BY <1>2, <2>1, <3>2, <4>1, <4>2, AckFacts
      <4> QED
        BY <4>1, <4>2, <4>3 DEF Accepted
    <3> QED
      BY <3>1, <3>2
  <2>3. file' = mem' \/ file' = file \/ file' = Blank
    BY <2>1 DEF Saves
  <2> QED
    BY <1>2, <2>1, <2>2, <2>3
<1>10. CASE SeeDone \/ Fetched \/ RenameCards \/ RenameDeck \/ RenameMeta
  <2>1. UNCHANGED <<file, mem, taken>> /\ flow' # "send"
    BY <1>10 DEF SeeDone, Fetched, RenameCards, RenameDeck, RenameMeta
  <2> QED
    BY <2>1
<1>11. CASE Ingest
  <2>1. /\ UNCHANGED <<log, file, mem, flow, reply>> /\ taken' = taken \cup Live(req.tail)
        /\ req.at = "sent" /\ req' = [req EXCEPT !.at = "journaled"]
    BY <1>11 DEF Ingest, deviceVars
  <2>2. req'.at = "journaled" /\ req'.has = req.has
    BY <1>1, <2>1, RequestFacts DEF WireTypes
  <2>3. /\ Accepted(file.mark, Len(file.mark), taken') /\ Accepted(mem.mark, Len(mem.mark), taken')
        /\ flow = "send" /\ reply.kind = "ok" /\ reply.has => Accepted(log, Len(log), taken')
    BY <2>1, AcceptedGrows
  <2>4. flow = "send" /\ req.has => Accepted(log, Len(log), taken')
    <3>1. SUFFICES ASSUME flow = "send", req.has
                   PROVE  Accepted(log, Len(log), taken')
      OBVIOUS
    <3>2. req.off \in 0..Len(log) /\ req.tail = SubSeq(log, req.off + 1, Len(log))
          /\ Accepted(log, req.off, taken)
      BY <1>1, <1>2, <2>1, <3>1 DEF PostInv, WireTypes, Request
    <3> QED
      BY <1>2, <2>1, <3>2, TailAccepted
  <2> QED
    BY <2>1, <2>2, <2>3, <2>4
<1>12. CASE Answer \/ Refuse \/ Kill
  <2>1. UNCHANGED <<log, file, mem, flow, taken>> /\ req' = NoReq
    BY <1>12 DEF Answer, Refuse, Kill, deviceVars
  <2>2. reply' = reply \/ reply'.kind # "ok"
        \/ (req.at = "journaled" /\ (reply'.has => req.has))
    BY <1>12 DEF Answer, Refuse, Kill, NoReply
  <2>3. flow = "send" /\ reply'.kind = "ok" /\ reply'.has => Accepted(log, Len(log), taken)
    BY <2>2
  <2> QED
    BY <2>1, <2>3, NoReqFacts
<1>13. CASE BuildDeck
  <2>1. UNCHANGED <<log, flow, req, reply, taken>>
        /\ mem' = [mem EXCEPT !.build = FALSE] /\ file' = [file EXCEPT !.build = FALSE]
    BY <1>13 DEF BuildDeck, wireVars
  <2>2. mem'.mark = mem.mark /\ file'.mark = file.mark
    BY <1>2, <2>1, BridgeFacts
  <2> QED
    BY <2>1, <2>2
<1>14. JobFails \/ ForceSync \/ (Job /\ ~BuildDeck) => UNCHANGED <<log, file, mem, flow, req, reply, taken>>
  BY DEF Job, ReadCards, PullNormal, Replace, ResetApplied, Freeze, apply, MarkApplied, Push, PushAnswered,
         ClearPushed, KeepBuild, SaveState, BuildFails, JobFails, ForceSync, deviceVars, wireVars
<1> QED
  BY <1>3, <1>4, <1>5, <1>6, <1>7, <1>8, <1>9, <1>10, <1>11, <1>12, <1>13, <1>14
     DEF Next, User, Reader, Handler, World, vars, deviceVars, wireVars

\* Whatever becomes of the log, the offset in .bridge, of its saves and of the
\* POSTs, an answer the reader will not send again is one the journal has
\* accepted (StudyActivity.cpp:2108-2131, app.py:598-615).
THEOREM NothingIsSkipped == Spec => []NothingSkipped
<1>1. Init => SentInv
  <2>1. [Blank EXCEPT !.token = TRUE] \in Bridge /\ [Blank EXCEPT !.token = TRUE].mark = <<>>
    BY BlankFacts, BridgeFacts
  <2>2. [Blank EXCEPT !.token = TRUE, !.build = TRUE].mark = <<>>
    BY <2>1, BridgeFacts
  <2> QED
    BY <2>2, BlankFacts, NothingAccepted DEF Init, SentInv
<1>2. TypeOK /\ PostInv /\ SentInv /\ [Next]_vars => SentInv'
  BY SentStep
<1>3. TypeOK /\ SentInv => NothingSkipped
  <2>1. SUFFICES ASSUME TypeOK, SentInv, NEW b \in {file, mem}
                 PROVE  \A i \in 1..Offset(b) : ~log[i].void => log[i].id \in taken
    BY DEF NothingSkipped
  <2>2. log \in Seq(Entry) /\ b \in Bridge /\ Accepted(b.mark, Len(b.mark), taken)
    BY <2>1 DEF TypeOK, SentInv
  <2>3. Accepted(log, Offset(b), taken)
    BY <2>2, BelievedFacts
  <2> QED
    BY <2>3 DEF Accepted
<1> QED
  BY <1>1, <1>2, <1>3, TypesHold, PTL DEF Spec


------------------------------------------------------------------------------
(* What .bridge calls current is whole: the files are replaced only while   *)
(* neither copy of .bridge says so of a deck the reader can list, and what  *)
(* a rename leaves behind is remembered in `slipped'.                       *)

DeckInv ==
  /\ ClaimIsOnCard
  /\ mem.build /\ Listed /\ ~slipped => deck = Whole
  /\ flow \in {"send", "poll", "fetch"} /\ Listed /\ file.build => mem.build
  /\ flow \in File => deck["meta"] # "new"
  /\ flow \in {"deck", "meta"} /\ ~slipped => deck["cards"] = "new"
  /\ flow = "meta" /\ ~slipped => deck["deck"] = "new"
  /\ flow = "claim" /\ ~slipped => deck = Whole

LEMMA FolderFacts ==
  ASSUME NEW d \in Folder
  PROVE  /\ d = Whole <=> d["cards"] = "new" /\ d["deck"] = "new" /\ d["meta"] = "new"
         /\ \A f \in File, v \in {"none", "new"} : \A g \in File :
              [d EXCEPT ![f] = v][g] = IF g = f THEN v ELSE d[g]
<1>1. d = [f \in File |-> d[f]]
  BY DEF Folder
<1> QED
  BY <1>1 DEF Folder, Whole, File

LEMMA DeckStep ==
  ASSUME TypeOK, DeckInv, [Next]_vars
  PROVE  DeckInv'
<1> USE TypeParts DEF DeckInv, ClaimIsOnCard, Listed
<1>1. FlowTypes /\ file \in Bridge /\ mem \in Bridge /\ deck \in Folder /\ slipped \in BOOLEAN
  BY DEF FlowTypes
<1>2. ~Blank.build
  BY BlankFacts
<1>3. CASE UNCHANGED <<deck, slipped, file, mem, flow>>
  BY <1>3
<1>4. CASE (\E r \in Review : grade(r)) \/ undoLast \/ (\E k \in 0..(Len(log) - 1) : Restore(k)) \/ Remove
  <2>1. UNCHANGED <<slipped, file, mem, flow>> /\ flow = "study" /\ (deck' = deck \/ deck'["meta"] = "none")
    BY <1>4 DEF grade, undoLast, Restore, Remove, Gone, File
  <2> QED
    BY <2>1 DEF File
<1>5. CASE NotSent \/ LeavePoll \/ UpToDate \/ FetchFails
  <2>1. UNCHANGED <<deck, slipped>> /\ mem' = Blank /\ flow' = "study" /\ file' \in {file, mem, Blank}
    BY <1>5 DEF NotSent, LeavePoll, UpToDate, FetchFails, StopIn, Stop, Saves
  <2> QED
    BY <1>2, <2>1 DEF File
<1>17. CASE Cut
  <2>1. UNCHANGED <<slipped, file>> /\ mem' = Blank /\ flow' = "study"
        /\ (deck' = deck \/ \E f \in File : f = flow /\ deck' = [deck EXCEPT ![f] = "none"])
    BY <1>17 DEF Cut, Stop
  <2>2. CASE deck' = deck
    BY <1>2, <2>1, <2>2 DEF File
  <2>3. CASE \E f \in File : f = flow /\ deck' = [deck EXCEPT ![f] = "none"]
    <3>1. flow \in File /\ "meta" \in File /\ (deck'["meta"] = "none" \/ deck'["meta"] = deck["meta"])
      BY <1>1, <2>3, FolderFacts DEF File
    <3>2. ~(file.build /\ deck["meta"] # "none" /\ ~slipped)
      BY <1>1, <3>1, FolderFacts
    <3> QED
      BY <1>2, <2>1, <3>1, <3>2 DEF File
  <2> QED
    BY <2>1, <2>2, <2>3
<1>6. CASE Claim
  <2>1. deck' = deck /\ mem' = Blank /\ flow' = "study" /\ flow = "claim" /\ slipped' = (slipped /\ deck # Whole)
    BY <1>6 DEF Claim, Stop
  <2> QED
    BY <1>2, <2>1 DEF File
<1>7. CASE Pair
  <2>1. ~[Blank EXCEPT !.token = TRUE].build
    BY BlankFacts, BridgeFacts
  <2> QED
    BY <1>7, <2>1 DEF Pair
<1>8. CASE PackAndPost
  <2>1. /\ UNCHANGED <<deck, slipped>> /\ flow' = "send" /\ mem' = Loaded
        /\ file' \in {file, Loaded, Blank}
    BY <1>8 DEF PackAndPost, Saves
  <2>2. Loaded = file \/ (~Listed /\ ~Loaded.build)
    BY <1>1, LoadedFacts
  <2> QED
    BY <1>2, <2>1, <2>2 DEF File
<1>9. CASE TakeAck
  <2>1. /\ UNCHANGED <<deck, slipped>> /\ flow = "send" /\ flow' = "poll" /\ Saves(mem')
        /\ mem' = IF reply.has
                  THEN [mem EXCEPT !.ack = reply.ack, !.mark = SubSeq(log, 1, reply.ack)]
                  ELSE mem
    BY <1>9 DEF TakeAck
  <2>2. mem'.build = mem.build
    <3>1. [mem EXCEPT !.ack = reply.ack, !.mark = SubSeq(log, 1, reply.ack)].build = mem.build
      BY <1>1 DEF Bridge
    <3> QED
      BY <2>1, <3>1
  <2>3. file' = mem' \/ file' = file \/ file' = Blank
    BY <2>1 DEF Saves
  <2> QED
    BY <1>2, <2>1, <2>2, <2>3 DEF File
<1>10. CASE SeeDone
  BY <1>10 DEF SeeDone, File
<1>11. CASE Fetched
  <2>1. /\ UNCHANGED <<slipped, file, mem>> /\ flow = "fetch" /\ flow' = "cards" /\ ~(onCard /\ mem.build)
        /\ deck' = Older
    BY <1>11 DEF Fetched
  <2>2. deck'["meta"] # "new" /\ (deck'["meta"] = "none" <=> deck["meta"] = "none")
    BY <2>1 DEF Older, File
  <2>3. deck = Whole => onCard
    BY <1>1, FolderFacts DEF onCard
  <2>4. ~(mem.build /\ deck["meta"] # "none" /\ ~slipped) /\ ~(file.build /\ deck["meta"] # "none" /\ ~slipped)
    BY <2>1, <2>3
  <2> QED
    BY <2>1, <2>2, <2>4 DEF File
<1>12. CASE RenameCards \/ RenameDeck \/ RenameMeta
  <2>1. /\ UNCHANGED <<file, mem>> /\ flow \in File
        /\ flow' = IF flow = "cards" THEN "deck" ELSE IF flow = "deck" THEN "meta" ELSE "claim"
        /\ \/ deck' = [deck EXCEPT ![flow] = "new"] /\ slipped' = slipped
           \/ (deck' = deck \/ deck' = [deck EXCEPT ![flow] = "none"]) /\ slipped' = TRUE
    BY <1>12 DEF RenameCards, RenameDeck, RenameMeta, File
  <2>2. /\ ~(mem.build /\ deck["meta"] # "none" /\ ~slipped) /\ ~(file.build /\ deck["meta"] # "none" /\ ~slipped)
        /\ deck["meta"] # "new"
    BY <1>1, <2>1, FolderFacts
  <2>3. CASE slipped' = TRUE
    <3>1. \A f \in File : deck'[f] = deck[f] \/ deck'[f] = "none" \/ f = flow
      BY <1>1, <2>1, FolderFacts DEF File
    <3>2. flow' \in File => deck'["meta"] # "new"
      BY <2>1, <2>2, <3>1 DEF File
    <3> QED
      BY <2>1, <2>3, <3>2 DEF File
  <2>4. CASE deck' = [deck EXCEPT ![flow] = "new"] /\ slipped' = slipped
    <3>1. deck' \in Folder /\ \A g \in File : deck'[g] = IF g = flow THEN "new" ELSE deck[g]
      BY <1>1, <2>1, <2>4, FolderFacts DEF Folder
    <3>2. CASE flow = "cards"
      BY <2>1, <2>2, <2>4, <3>1, <3>2 DEF File
    <3>3. CASE flow = "deck"
      BY <2>1, <2>2, <2>4, <3>1, <3>3 DEF File
    <3>4. CASE flow = "meta"
      <4>1. ~slipped => deck' = Whole
        BY <2>1, <3>1, <3>4, FolderFacts DEF File
      <4> QED
        BY <2>1, <2>4, <3>4, <4>1 DEF File
    <3> QED
      BY <2>1, <3>2, <3>3, <3>4 DEF File
  <2> QED
    BY <2>1, <2>3, <2>4
<1>15. CASE BuildDeck
  <2>1. ~[mem EXCEPT !.build = FALSE].build /\ ~[file EXCEPT !.build = FALSE].build
    BY <1>1, BridgeFacts
  <2> QED
    BY <1>15, <2>1 DEF BuildDeck
<1>16. Handler \/ JobFails \/ Kill \/ ForceSync \/ (Job /\ ~BuildDeck)
       => UNCHANGED <<deck, slipped, file, mem, flow>>
  BY DEF Handler, Ingest, Answer, Refuse, Job, ReadCards, PullNormal, Replace, ResetApplied, Freeze, apply,
         MarkApplied, Push, PushAnswered, ClearPushed, KeepBuild, SaveState, BuildFails, JobFails,
         Kill, ForceSync, deviceVars
<1> QED
  BY <1>3, <1>4, <1>5, <1>6, <1>7, <1>8, <1>9, <1>10, <1>11, <1>12, <1>15, <1>16, <1>17
     DEF Next, User, Reader, World, vars, deviceVars

\* A deck the reader lists and .bridge calls current has all its files, though
\* they are replaced one by one, the power may go between any two of them and any
\* save of .bridge may fail, unless a rename has failed since it was last whole:
\* the code does not look at what a rename returns (StudyActivity.cpp:2185-2232),
\* and the theorem says that nothing else makes a mixture current.
THEOREM WhatIsClaimedIsThere == Spec => []ClaimIsOnCard
<1>1. Init => DeckInv
  BY BlankFacts DEF Init, DeckInv, ClaimIsOnCard, File
<1>2. TypeOK /\ DeckInv /\ [Next]_vars => DeckInv'
  BY DeckStep
<1>3. DeckInv => ClaimIsOnCard
  BY DEF DeckInv
<1> QED
  BY <1>1, <1>2, <1>3, TypeCorrect, PTL DEF Spec

------------------------------------------------------------------------------
(* The loop that writes an answer's row starts at the answer's time and     *)
(* walks over the rows of others.  It comes back to the row it wrote        *)
(* because every id it walked over then is still some other row's, which    *)
(* the mirror keeps and a client's older copy has as well.                  *)

RowsInv(c) ==
  \A r \in Review : \A i \in c.rows[r] :
    /\ \A j \in c.rows[r] : i = j
    /\ i \notin Others(c.rows, r)
    /\ i >= Stamp[r] /\ Stamp[r]..(i - 1) \subseteq Others(c.rows, r)

AppliedInv ==
  /\ RowsInv(mirror) /\ RowsInv(web)
  /\ demand = "none" => \A r \in Review : web.rows[r] \subseteq mirror.rows[r]

LEMMA SameRows ==
  ASSUME NEW c, NEW d, RowsInv(c), \A r \in Review : d.rows[r] = c.rows[r]
  PROVE  RowsInv(d)
  BY DEF RowsInv, Others

\* The loop finds the row an answer has, and puts the others where nobody's is.
LEMMA PlacesFacts ==
  ASSUME mirror \in Collection, RowsInv(mirror), NEW S \in SUBSET Review, NEW id \in Places(S)
  PROVE  /\ \A r \in S : id[r] \in Nat /\ id[r] >= Stamp[r]
         /\ \A r \in S : \A i \in mirror.rows[r] : i = id[r]
         /\ \A q, r \in S : q # r => id[q] # id[r]
         /\ \A q \in S, r \in Review : q # r => id[q] \notin mirror.rows[r]
         /\ \A r \in S : \A k \in Stamp[r]..(id[r] - 1) :
              k \in Others(mirror.rows, r) \/ \E q \in S \ {r} : k = id[q]
<1>1. PICK o \in Orders(S) : \A r \in S :
        Walks(id[r], r, Others(mirror.rows, r) \cup {id[q] : q \in {p \in S : o[p] < o[r]}})
  BY DEF Places
<1>2. \A r \in S : /\ id[r] \notin Others(mirror.rows, r)
                   /\ \A q \in S : o[q] < o[r] => id[r] # id[q]
                   /\ \A k \in Stamp[r]..(id[r] - 1) :
                        k \in Others(mirror.rows, r) \/ \E q \in S : o[q] < o[r] /\ k = id[q]
  BY <1>1 DEF Walks
<1>3. \A r \in S : id[r] \in Nat /\ id[r] >= Stamp[r] /\ Stamp[r] \in Nat
  BY PlacesType
<1>4. \A q, r \in S : o[q] \in Int /\ (q # r => o[q] # o[r])
  BY DEF Orders
<1>5. \A q, r \in S : q # r => id[q] # id[r]
  BY <1>2, <1>4
<1>6. \A q \in S, r \in Review : q # r => id[q] \notin mirror.rows[r]
  BY <1>2 DEF Others
<1>7. \A r \in S : \A k \in Stamp[r]..(id[r] - 1) :
        k \in Others(mirror.rows, r) \/ \E q \in S \ {r} : k = id[q]
  BY <1>2, <1>4
<1>8. ASSUME NEW r \in S, NEW i \in mirror.rows[r]
      PROVE  i = id[r]
  <2>1. i \in Nat /\ i >= Stamp[r] /\ i \notin Others(mirror.rows, r)
        /\ Stamp[r]..(i - 1) \subseteq Others(mirror.rows, r)
    BY DEF Collection, RowsInv
  <2>2. ~(id[r] < i)
    BY <1>2, <1>3, <2>1
  <2>3. ~(i < id[r])
    <3>1. SUFFICES ASSUME i < id[r]
                   PROVE  FALSE
      OBVIOUS
    <3>2. i \in Stamp[r]..(id[r] - 1)
      BY <1>3, <2>1, <3>1
    <3>3. PICK q \in S \ {r} : i = id[q]
      BY <1>7, <2>1, <3>2
    <3> QED
      BY <1>6, <3>3
  <2> QED
    BY <1>3, <2>1, <2>2, <2>3
<1> QED
  BY <1>3, <1>5, <1>6, <1>7, <1>8

LEMMA ApplyStep ==
  ASSUME TypeOK, AppliedInv, apply
  PROVE  RowsInv(mirror') /\ \A r \in Review : mirror.rows[r] \subseteq mirror'.rows[r]
<1>1. mirror \in Collection /\ RowsInv(mirror)
  BY DEF TypeOK, AppliedInv
<1>2. PICK S \in SUBSET Unapplied : \E id \in Places(S) :
        mirror'.rows = [r \in Review |-> IF r \in Put(S, id) THEN mirror.rows[r] \cup {id[r]} ELSE mirror.rows[r]]
  BY ApplyFacts
<1>3. PICK id \in Places(S) :
        mirror'.rows = [r \in Review |-> IF r \in Put(S, id) THEN mirror.rows[r] \cup {id[r]} ELSE mirror.rows[r]]
  BY <1>2
<1> DEFINE new == mirror'.rows
<1>4. S \subseteq Review /\ Put(S, id) \subseteq S
  BY DEF Unapplied, Put
<1>5. /\ \A r \in S : id[r] \in Nat /\ id[r] >= Stamp[r]
      /\ \A r \in S : \A i \in mirror.rows[r] : i = id[r]
      /\ \A q, r \in S : q # r => id[q] # id[r]
      /\ \A q \in S, r \in Review : q # r => id[q] \notin mirror.rows[r]
      /\ \A r \in S : \A k \in Stamp[r]..(id[r] - 1) :
           k \in Others(mirror.rows, r) \/ \E q \in S \ {r} : k = id[q]
  BY <1>1, <1>4, PlacesFacts
<1>6. \A r \in Put(S, id) : new[r] = {id[r]}
  BY <1>3, <1>4, <1>5 DEF Put
<1>7. \A r \in Review \ Put(S, id) : new[r] = mirror.rows[r]
  BY <1>3
<1>8. \A r \in S : id[r] \in new[r]
  BY <1>4, <1>6, <1>7 DEF Put
<1>9. \A r \in Review : mirror.rows[r] \subseteq new[r]
  BY <1>3
<1> HIDE DEF new
<1>10. \A r \in Review : Others(mirror.rows, r) \subseteq Others(new, r)
  BY <1>9 DEF Others
<1>11. ASSUME NEW r \in Review, NEW i \in new[r]
       PROVE  /\ \A j \in new[r] : i = j
              /\ i \notin Others(new, r)
              /\ i >= Stamp[r] /\ Stamp[r]..(i - 1) \subseteq Others(new, r)
  <2>1. CASE r \in Put(S, id)
    <3>1. i = id[r] /\ \A j \in new[r] : i = j
      BY <1>6, <2>1
    <3>2. ASSUME NEW q \in Review \ {r}
          PROVE  i \notin new[q]
      BY <1>4, <1>5, <1>6, <1>7, <2>1, <3>1
    <3>3. ASSUME NEW k \in Stamp[r]..(i - 1)
          PROVE  k \in Others(new, r)
      <4>1. k \in Others(mirror.rows, r) \/ \E q \in S \ {r} : k = id[q]
        BY <1>4, <1>5, <2>1, <3>1
      <4> QED
        BY <1>4, <1>8, <1>10, <4>1 DEF Others
    <3> QED
      BY <1>4, <1>5, <2>1, <3>1, <3>2, <3>3 DEF Others
  <2>2. CASE r \notin Put(S, id)
    <3>1. i \in mirror.rows[r] /\ new[r] = mirror.rows[r]
      BY <1>7, <2>2
    <3>2. ASSUME NEW q \in Review \ {r}
          PROVE  i \notin new[q]
      <4>1. i \notin mirror.rows[q]
        BY <1>1, <3>1 DEF RowsInv, Others
      <4> QED
        BY <1>4, <1>5, <1>6, <1>7, <3>1, <4>1
    <3>3. /\ \A j \in mirror.rows[r] : i = j
          /\ i >= Stamp[r] /\ Stamp[r]..(i - 1) \subseteq Others(mirror.rows, r)
      BY <1>1, <3>1 DEF RowsInv
    <3> QED
      BY <1>10, <3>1, <3>2, <3>3 DEF Others
  <2> QED
    BY <2>1, <2>2
<1> QED
  BY <1>9, <1>11 DEF RowsInv, new

LEMMA AppliedStep ==
  ASSUME TypeOK, AppliedInv, [Next]_vars
  PROVE  AppliedInv'
<1>1. mirror \in Collection /\ web \in Collection /\ RowsInv(mirror) /\ RowsInv(web)
  BY DEF TypeOK, AppliedInv
<1>2. CASE UNCHANGED <<mirror, web, demand>>
  BY <1>2 DEF AppliedInv, RowsInv, Others
<1>3. CASE PullNormal \/ Push
  <2>1. mirror' = Merged(mirror, web) /\ web' = Merged(mirror, web) /\ demand = "none"
    BY <1>3 DEF PullNormal, Push, SyncsNormally
  <2>4. \A r \in Review : Merged(mirror, web).rows[r] = mirror.rows[r] \cup web.rows[r]
    BY <1>1, MergedFacts
  <2>5. \A r \in Review : web.rows[r] \subseteq mirror.rows[r]
    BY <2>1 DEF AppliedInv
  <2>2. \A r \in Review : Merged(mirror, web).rows[r] = mirror.rows[r]
    BY <2>4, <2>5
  <2>3. RowsInv(Merged(mirror, web))
    BY <1>1, <2>2, SameRows
  <2> QED
    BY <2>1, <2>3 DEF AppliedInv, RowsInv, Others
<1>4. CASE Replace
  <2>1. mirror' = web /\ web' = web
    BY <1>4 DEF Replace
  <2> QED
    BY <1>1, <2>1 DEF AppliedInv, RowsInv, Others
<1>5. CASE apply
  <2>1. RowsInv(mirror') /\ \A r \in Review : mirror.rows[r] \subseteq mirror'.rows[r]
    BY <1>5, ApplyStep
  <2>2. UNCHANGED <<web, demand>>
    BY <1>5 DEF apply
  <2> QED
    BY <1>1, <2>1, <2>2 DEF AppliedInv, RowsInv, Others
<1>6. CASE ForceSync
  <2>1. mirror' = mirror /\ demand' # "none"
    BY <1>6 DEF ForceSync, bridgeVars
  <2>2. CASE web' = web
    BY <1>1, <2>1, <2>2 DEF AppliedInv, RowsInv, Others
  <2>3. CASE web' # web
    <3>1. PICK keep \in OlderRows :
            web' = [rows |-> [r \in Review |-> IF r \in keep THEN web.rows[r] ELSE {}], cards |-> web.cards \cap keep]
      BY <1>6, <2>3 DEF ForceSync
    <3>2. \A r \in Review : web'.rows[r] = IF r \in keep THEN web.rows[r] ELSE {}
      BY <3>1
    <3>3. ASSUME NEW r \in Review, NEW i \in web'.rows[r]
          PROVE  /\ \A j \in web'.rows[r] : i = j
                 /\ i \notin Others(web'.rows, r)
                 /\ i >= Stamp[r] /\ Stamp[r]..(i - 1) \subseteq Others(web'.rows, r)
      <4>1. r \in keep /\ i \in web.rows[r] /\ web'.rows[r] = web.rows[r] /\ i \in Nat /\ Stamp[r] \in Nat
        BY <1>1, <3>2, StampAssumption DEF Collection
      <4>2. /\ \A j \in web.rows[r] : i = j
            /\ i \notin Others(web.rows, r)
            /\ i >= Stamp[r] /\ Stamp[r]..(i - 1) \subseteq Others(web.rows, r)
        BY <1>1, <4>1 DEF RowsInv
      <4>3. i \notin Others(web'.rows, r)
        BY <3>2, <4>2 DEF Others
      <4>4. ASSUME NEW k \in Stamp[r]..(i - 1)
            PROVE  k \in Others(web'.rows, r)
        <5>1. PICK q \in Review \ {r} : k \in web.rows[q]
          BY <4>2 DEF Others
        <5>2. Stamp[r] <= k /\ k < i
          BY <4>1
        <5>3. q \in keep
          BY <4>1, <5>1, <5>2 DEF OlderRows
        <5> QED
          BY <3>2, <5>1, <5>3 DEF Others
      <4> QED
        BY <4>1, <4>2, <4>3, <4>4
    <3>4. RowsInv(web')
      BY <3>3 DEF RowsInv
    <3>5. RowsInv(mirror')
      BY <1>1, <2>1
    <3> QED
      BY <2>1, <3>4, <3>5 DEF AppliedInv, RowsInv, Others
  <2> QED
    BY <2>2, <2>3
<1>7. User \/ Reader \/ Handler => UNCHANGED <<mirror, web, demand>>
  BY DEF User, grade, undoLast, Reader, Pair, PackAndPost, NotSent, TakeAck, LeavePoll, SeeDone, UpToDate,
         FetchFails, Fetched, RenameCards, RenameDeck, RenameMeta, Claim, Handler, Ingest, Answer, Refuse,
         bridgeVars
<1>8. ReadCards \/ ResetApplied \/ Freeze \/ MarkApplied \/ PushAnswered \/ ClearPushed \/ KeepBuild \/ BuildDeck
      \/ SaveState \/ BuildFails => UNCHANGED <<mirror, web, demand>>
  BY DEF ReadCards, ResetApplied, Freeze, MarkApplied, PushAnswered, ClearPushed, KeepBuild, BuildDeck,
         SaveState, BuildFails
<1>9. Remove \/ (\E k \in 0..(Len(log) - 1) : Restore(k)) \/ Cut \/ JobFails \/ Kill
      => UNCHANGED <<mirror, web, demand>>
  BY DEF Remove, Restore, Cut, JobFails, Kill, bridgeVars
<1> QED
  BY <1>2, <1>3, <1>4, <1>5, <1>6, <1>7, <1>8, <1>9 DEF Next, Job, World, vars, bridgeVars

\* However often an answer is posted, journaled again and applied again, and
\* however many answers fell in its second, the mirror and AnkiWeb have one row
\* of it and no row of two answers: the loop that looks for a free id from the
\* answer's time on finds the row it put before (deck_to_anki.py:185-205).  It
\* rests on OlderRows: no client deletes single rows of the review log.
THEOREM NothingCountsTwice == Spec => []AppliedOnce
<1>1. Init => AppliedInv
  <2>1. \A r \in Review : Empty.rows[r] = {}
    BY DEF Empty
  <2>2. Init => mirror = Empty /\ web = Empty
    BY DEF Init
  <2> QED
    BY <2>1, <2>2 DEF AppliedInv, RowsInv
<1>2. TypeOK /\ AppliedInv /\ [Next]_vars => AppliedInv'
  BY AppliedStep
<1>3. AppliedInv => AppliedOnce
  BY DEF AppliedInv, RowsInv, AppliedOnce
<1> QED
  BY <1>1, <1>2, <1>3, TypeCorrect, PTL DEF Spec

=============================================================================
