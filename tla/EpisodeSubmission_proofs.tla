---------------------- MODULE EpisodeSubmission_proofs ----------------------
(***************************************************************************)
(* The safety theorems of EpisodeSubmission, for any number of concurrent  *)
(* saves, users and redeliveries and for every combination of faults.      *)
(*                                                                         *)
(* To the pipeline's invariant they add two facts on the requests: a       *)
(* request past its reservation owns the content, which nothing gives back *)
(* on this path, and a duplicate that takes the ledger's word for a        *)
(* processed content finds it readable until it has answered.              *)
(***************************************************************************)
EXTENDS EpisodeSubmission, ContentPipeline_proofs

\* A request past its reservation owns the content.
OwnerSteps == {"reserved", "created", "updated"}

RequestOwns == \A s \in Saves : req[s].pc \in OwnerSteps => ledger.job = s

\* A request that knows the content to be processed is right.
KnownIsReadable ==
    \A s \in Saves : req[s].pc = "known" => req[s].seen.job \in Saves /\ Readable

RequestInv == ReqTypeOK /\ RequestOwns /\ KnownIsReadable

IInv == PipelineInv /\ RequestInv

-----------------------------------------------------------------------------
(* What a move of one request preserves                                    *)

ReqRecords == [pc : Steps, seen : Entries(Saves)]

\* The request s moves to record r, and the content is not given back.
LEMMA RequestMoves ==
    ASSUME IInv, NEW s \in Saves, NEW r \in ReqRecords,
           req' = [req EXCEPT ![s] = r],
           transcripts' = transcripts,
           ledger'.job = ledger.job \/ ledger.job = NoJob,
           r.pc \in OwnerSteps => ledger'.job = s,
           r.pc = "known" => r.seen.job \in Saves /\ Readable
    PROVE  RequestInv'
<1>1. /\ req' \in [Saves -> ReqRecords]
      /\ req'[s] = r
      /\ \A i \in Saves : i # s => req'[i] = req[i]
  BY DEF IInv, RequestInv, ReqTypeOK, ReqRecords
<1>2. Readable => Readable'
  BY SavesAssumption DEF IInv, PipelineInv, PipelineTypeOK, Readable
<1>3. ReqTypeOK' /\ RequestOwns'
  BY <1>1, SavesAssumption DEF IInv, RequestInv, ReqTypeOK, ReqRecords, RequestOwns
<1>4. KnownIsReadable'
  BY <1>1, <1>2 DEF IInv, RequestInv, KnownIsReadable
<1>. QED  BY <1>3, <1>4 DEF RequestInv

\* The request goes on from one step to the next.
LEMMA GotoKeeps ==
    ASSUME IInv, NEW s \in Saves, NEW pc \in Steps \ {"known"}, Goto(s, pc),
           transcripts' = transcripts,
           ledger'.job = ledger.job \/ ledger.job = NoJob,
           pc \in OwnerSteps => ledger'.job = s
    PROVE  RequestInv'
<1>. DEFINE r == [req[s] EXCEPT !.pc = pc]
<1>1. r \in ReqRecords /\ r.pc = pc
  BY DEF IInv, RequestInv, ReqTypeOK, ReqRecords
<1>2. req' = [req EXCEPT ![s] = r]
  BY DEF Goto
<1>. HIDE DEF r
<1>. QED  BY <1>1, <1>2, RequestMoves

\* The request answers, or raises.
LEMMA FinishKeeps ==
    ASSUME IInv, NEW s \in Saves, NEW pc \in {"done", "error"}, Finish(s, pc),
           transcripts' = transcripts, ledger'.job = ledger.job
    PROVE  RequestInv'
<1>. DEFINE r == [NoRequest EXCEPT !.pc = pc]
<1>1. r \in ReqRecords /\ r.pc = pc
  BY DEF NoRequest, ReqRecords, Absent, Entries, LedgerStatuses, Steps
<1>2. req' = [req EXCEPT ![s] = r]
  BY DEF Finish
<1>. HIDE DEF r
<1>. QED  BY <1>1, <1>2, RequestMoves DEF OwnerSteps

\* A watcher is added for a save that has its job.
LEMMA WatcherAdded ==
    ASSUME PipelineInv, NEW s \in Saves, AddWatcher(s)
    PROVE  Keeps
<1>. DEFINE u == UserOf[s]
            row == [status |-> "pending", job |-> s]
            Rows == [status : WatcherStatuses, job : Saves \cup {NoJob}]
<1>1. UNCHANGED <<source, ledger, jobs, rows, transcripts, task, events>>
  BY DEF AddWatcher, store
<1>2. watchers \in [Users -> Rows] /\ row \in Rows /\ u \in Users
  BY UserOfAssumption DEF PipelineInv, PipelineTypeOK, WatcherStatuses
<1>3. /\ watchers' \in [Users -> Rows]
      /\ \A v \in Users : \/ watchers'[v] = watchers[v]
                          \/ watchers'[v].status = "pending" /\ watchers'[v].job = s
  BY <1>2 DEF AddWatcher
<1>4. WatchersHaveJobs'
  <2>1. Watching \subseteq Watching'
    BY <1>3 DEF Watching
  <2>. QED  BY <1>1, <1>3, <2>1 DEF PipelineInv, WatchersHaveJobs
<1>5. PipelineTypeOK'
  BY <1>1, <1>3 DEF PipelineInv, PipelineTypeOK
<1>6. /\ LedgerNamesItsJob' /\ WorkIsOwned' /\ StoredTextIsOwned'
      /\ TextBeforeNews' /\ NewsIsTrue' /\ NoForeignPointer'
  BY <1>1 DEF PipelineInv, LedgerNamesItsJob, WorkIsOwned, StoredTextIsOwned,
              TextBeforeNews, NewsIsTrue, Readable, NoForeignPointer
<1>. QED  BY <1>1, <1>4, <1>5, <1>6, RowsOnlyShow DEF PipelineInv, Keeps, KeepsOutcome

-----------------------------------------------------------------------------
(* Every step keeps the invariant                                          *)

\* The row, and what a duplicate reads and answers.
LEMMA DuplicateStepKeeps ==
    ASSUME IInv, NEW s \in Saves,
           SaveRow(s) \/ ReadLedger(s) \/ FinalizeDuplicate(s)
           \/ CreateWatcherJob(s) \/ AddWatcher(s)
    PROVE  Keeps /\ RequestInv'
<1>. USE DEF At, Steps, OwnerSteps
<1>i. PipelineInv /\ PipelineTypeOK /\ rows[s] \in [status : RowStatuses, lastJob : Saves \cup {NoJob}]
  BY DEF IInv, PipelineInv, PipelineTypeOK
<1>p. rows[s].lastJob # NoJob => UserOf[rows[s].lastJob] = UserOf[s]
  BY <1>i DEF PipelineInv, NoForeignPointer
<1>1. CASE SaveRow(s)
  <2>. DEFINE row == [rows[s] EXCEPT !.status = "pending"]
  <2>1. /\ row \in [status : RowStatuses, lastJob : Saves \cup {NoJob}]
        /\ row.status = "pending" /\ row.lastJob = rows[s].lastJob
    BY <1>i DEF RowStatuses
  <2>2. rows' = [rows EXCEPT ![s] = row]
    BY <1>1 DEF SaveRow
  <2>. HIDE DEF row
  <2>3. Keeps
    BY <1>1, <1>i, <1>p, <2>1, <2>2, RowWritten, ZenonT(60) DEF SaveRow
  <2>4. RequestInv'
    BY <1>1, GotoKeeps DEF SaveRow
  <2>. QED  BY <2>3, <2>4
<1>2. CASE ReadLedger(s)
  <2>. DEFINE pc == IF ledger.status = "processed" /\ ledger.job # NoJob
                    THEN "known" ELSE "unprocessed"
              r == [req[s] EXCEPT !.pc = pc, !.seen = ledger]
  <2>1. r \in ReqRecords /\ r.pc = pc /\ r.seen = ledger
    BY <1>i DEF PipelineTypeOK, IInv, RequestInv, ReqTypeOK, ReqRecords
  <2>2. r.pc = "known" => r.seen.job \in Saves /\ Readable
    BY <1>i, <2>1 DEF PipelineInv, NewsIsTrue, PipelineTypeOK, Entries
  <2>3. req' = [req EXCEPT ![s] = r]
    BY <1>2 DEF ReadLedger
  <2>4. r.pc \notin OwnerSteps /\ UNCHANGED <<ledger, transcripts>>
    BY <1>2, <2>1 DEF ReadLedger, pipelineVars
  <2>. HIDE DEF r
  <2>5. RequestInv'
    BY <2>1, <2>2, <2>3, <2>4, RequestMoves
  <2>. QED  BY <1>2, <1>i, <2>5, NothingWritten DEF ReadLedger
<1>3. CASE FinalizeDuplicate(s)
  <2>1. req[s].seen.job \in Saves /\ Readable
    BY <1>3 DEF FinalizeDuplicate, IInv, RequestInv, KnownIsReadable
  <2>2. PICK jobRead \in BOOLEAN :
           rows' = [rows EXCEPT ![s] =
               [status  |-> "ready",
                lastJob |-> IF jobRead /\ UserOf[req[s].seen.job] = UserOf[s]
                            THEN req[s].seen.job ELSE @.lastJob]]
    BY <1>3 DEF FinalizeDuplicate
  <2>. DEFINE row == [status  |-> "ready",
                      lastJob |-> IF jobRead /\ UserOf[req[s].seen.job] = UserOf[s]
                                  THEN req[s].seen.job ELSE rows[s].lastJob]
  <2>3. /\ row \in [status : RowStatuses, lastJob : Saves \cup {NoJob}]
        /\ row.lastJob # NoJob => UserOf[row.lastJob] = UserOf[s]
    BY <1>i, <1>p, <2>1 DEF RowStatuses
  <2>4. rows' = [rows EXCEPT ![s] = row]
    BY <2>2
  <2>. HIDE DEF row
  <2>5. Keeps
    BY <1>3, <1>i, <2>1, <2>3, <2>4, RowWritten DEF FinalizeDuplicate
  <2>6. RequestInv'
    BY <1>3, FinishKeeps DEF FinalizeDuplicate
  <2>. QED  BY <2>5, <2>6
<1>4. CASE CreateWatcherJob(s)
  <2>1. Keeps
    BY <1>4, <1>i, JobWritten DEF CreateWatcherJob, JobStatuses
  <2>2. RequestInv'
    BY <1>4, GotoKeeps DEF CreateWatcherJob
  <2>. QED  BY <2>1, <2>2
<1>5. CASE AddWatcher(s)
  <2>1. RequestInv'
    BY <1>5, FinishKeeps DEF AddWatcher, store
  <2>. QED  BY <1>5, <1>i, <2>1, WatcherAdded
<1>. QED  BY <1>1, <1>2, <1>3, <1>4, <1>5

\* The reservation and what its winner does.
LEMMA OwnerStepKeeps ==
    ASSUME IInv, NEW s \in Saves,
           ReserveContent(s) \/ CreateJob(s) \/ UpdateJob(s) \/ EnqueueWork(s)
           \/ RequestRaises(s)
    PROVE  Keeps /\ RequestInv'
<1>. USE DEF At, Steps, OwnerSteps
<1>i. PipelineInv /\ "pending" \in JobStatuses
  BY DEF IInv, JobStatuses
<1>o. req[s].pc \in OwnerSteps => ledger.job = s
  BY DEF IInv, RequestInv, RequestOwns
<1>1. CASE ReserveContent(s)
  <2>1. /\ Keeps
        /\ IF CanReserve(ledger) THEN ledger.job = NoJob /\ ledger'.job = s
                                 ELSE ledger' = ledger
    BY <1>1, <1>i, ContentReserved DEF ReserveContent
  <2>2. RequestInv'
    BY <1>1, <2>1, GotoKeeps DEF ReserveContent
  <2>. QED  BY <2>1, <2>2
<1>2. CASE CreateJob(s) \/ UpdateJob(s)
  <2>1. Keeps
    BY <1>2, <1>i, JobWritten DEF CreateJob, UpdateJob
  <2>2. RequestInv'
    BY <1>2, <1>o, GotoKeeps DEF CreateJob, UpdateJob
  <2>. QED  BY <2>1, <2>2
<1>3. CASE EnqueueWork(s)
  <2>1. Keeps
    BY <1>3, <1>i, <1>o, WorkQueued DEF EnqueueWork, store
  <2>2. RequestInv'
    BY <1>3, FinishKeeps DEF EnqueueWork, store
  <2>. QED  BY <2>1, <2>2
<1>4. CASE RequestRaises(s)
  <2>1. RequestInv'
    BY <1>4, FinishKeeps DEF RequestRaises, pipelineVars
  <2>. QED  BY <1>4, <1>i, <2>1, NothingWritten DEF RequestRaises
<1>. QED  BY <1>1, <1>2, <1>3, <1>4

\* A pipeline step takes nothing from the requests.
LEMMA PipelineLeavesRequests ==
    ASSUME IInv, NEW j \in Saves, LeavesRequests(j)
    PROVE  RequestInv'
<1>1. Readable => Readable'
  BY DEF LeavesRequests, Readable
<1>. QED  BY <1>1 DEF IInv, RequestInv, ReqTypeOK, RequestOwns, KnownIsReadable, LeavesRequests

-----------------------------------------------------------------------------
(* The theorems                                                            *)

\* The inductive invariant holds at first, where the promise starts too ...
THEOREM Initially == Init => IInv /\ Promise!Init
<1>. SUFFICES ASSUME Init PROVE IInv /\ Promise!Init
  OBVIOUS
<1>1. PipelineInv /\ Promise!Init
  BY PipelineStarts, PromiseStarts DEF Init
<1>2. RequestInv
  BY DEF Init, NoRequest, Absent, RequestInv, ReqTypeOK, RequestOwns, KnownIsReadable,
         OwnerSteps, Steps, Entries, LedgerStatuses
<1>. QED  BY <1>1, <1>2 DEF IInv

\* ... every step keeps it, the recorded outcomes and the library's promise ...
THEOREM EveryStepKeeps == IInv /\ [Next]_episodeVars => Keeps /\ IInv'
<1>. SUFFICES ASSUME IInv, [Next]_episodeVars PROVE Keeps /\ RequestInv'
  BY DEF Keeps, IInv
<1>1. ASSUME NEW s \in Saves, RequestStep(s) PROVE Keeps /\ RequestInv'
  BY <1>1, DuplicateStepKeeps, OwnerStepKeeps DEF RequestStep
<1>2. ASSUME NEW s \in Saves, PipelineStep(s) PROVE Keeps /\ RequestInv'
  BY <1>2, PipelineKeeps, PipelineLeavesRequests DEF IInv
<1>3. CASE UNCHANGED episodeVars
  <2>1. Keeps
    BY <1>3, NothingWritten DEF IInv, episodeVars
  <2>2. RequestInv'
    BY <1>3 DEF IInv, RequestInv, ReqTypeOK, RequestOwns, KnownIsReadable, Readable,
                episodeVars, pipelineVars
  <2>. QED  BY <2>1, <2>2
<1>. QED  BY <1>1, <1>2, <1>3 DEF Next

\* ... so it always holds.
THEOREM Invariance == Spec => []IInv
<1>1. IInv /\ [Next]_episodeVars => IInv'
  BY EveryStepKeeps
<1>2. Init => IInv
  BY Initially
<1>. QED  BY <1>1, <1>2, PTL DEF Spec

\* Type correctness of the episode path.
THEOREM TypesAreCorrect == Spec => []TypeOK
<1>1. IInv => TypeOK
  BY DEF IInv, PipelineInv, RequestInv, TypeOK
<1>. QED  BY <1>1, Invariance, PTL

\* One job of an episode at most is ever handed to the transcription worker,
\* whatever the races of submit_media_for_user and its ambiguous sends.
THEOREM OnlyOneJobProcesses == Spec => []OneJobProcesses
<1>1. IInv => OneJobProcesses
  BY DEF IInv, PipelineInv, WorkIsOwned, OneJobProcesses
<1>. QED  BY <1>1, Invariance, PTL

\* The text of an episode always belongs to the job the ledger names.
THEOREM StoredTextKeepsOwner == Spec => []StoredTextIsOwned
<1>1. IInv => StoredTextIsOwned
  BY DEF IInv, PipelineInv
<1>. QED  BY <1>1, Invariance, PTL

\* A completed job, the owner's or a watcher's, has a readable text behind it.
THEOREM CompletedJobsAreReadable == Spec => []CompletedIsReadable
<1>1. IInv => CompletedIsReadable
  BY DEF IInv, PipelineInv, NewsIsTrue, Readable, CompletedIsReadable
<1>. QED  BY <1>1, Invariance, PTL

\* No library row points at the job of another user, although the watchers of
\* an episode belong to several.
THEOREM PointersStayOwn == Spec => []NoForeignPointer
<1>1. IInv => NoForeignPointer
  BY DEF IInv, PipelineInv
<1>. QED  BY <1>1, Invariance, PTL

\* The ledger of an episode never takes back an outcome.
THEOREM OutcomesAreKept == Spec => SettledEntryIsKept
<1>1. IInv /\ [Next]_episodeVars =>
         [ledger.status \in Outcomes =>
             ledger'.status \in Outcomes /\ ledger'.job = ledger.job]_ledger
  BY EveryStepKeeps DEF Keeps, KeepsOutcome
<1>. QED  BY <1>1, Invariance, PTL DEF Spec, SettledEntryIsKept

\* The episode path implements the library's promise, as the URL path does.
THEOREM PromiseIsKept == Spec => KeepsPromise
<1>1. Init => Promise!Init
  BY Initially
<1>2. IInv /\ [Next]_episodeVars => [Promise!Next]_Promise!promiseVars
  BY EveryStepKeeps DEF Keeps
<1>. QED  BY <1>1, <1>2, Invariance, PTL DEF Spec, KeepsPromise, Promise!Spec
=============================================================================
