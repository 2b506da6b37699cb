------------------------ MODULE UrlSubmission_proofs ------------------------
(***************************************************************************)
(* The safety theorems of UrlSubmission, for any number of concurrent      *)
(* requests, users and redeliveries and for every combination of faults.   *)
(*                                                                         *)
(* The inductive invariant joins the pipeline's with four facts on the     *)
(* requests: who may still release or fail the content, what cannot have   *)
(* happened to a content that is about to be given back, and that what a   *)
(* duplicate has read about the owner stays true while it is used.         *)
(***************************************************************************)
EXTENDS UrlSubmission, ContentPipeline_proofs

OwnerSteps ==
    {"reserved", "releasing", "created", "stored", "completed", "permanent",
     "transient", "refused", "refusalTold", "failing", "failed"}
DuplicateSteps == {"duplicate", "loaded", "resolved"}
\* Where a request stands once it may have handed the content on.
HandedOn == {"failing", "failed", "done", "error"}

\* A request past its reservation owns the content.
RequestOwns == \A s \in Saves : req[s].pc \in OwnerSteps => ledger.job = s

\* Work and texts exist only for requests that can no longer release.
NothingToWithdraw ==
    \A s \in Saves :
        /\ task[s].phase # "none" => req[s].pc \in HandedOn
        /\ s \in transcripts => req[s].pc \in HandedOn \cup {"stored", "completed"}
        /\ req[s].pc \in {"stored", "completed"} => s \in transcripts

\* A duplicate looks at an entry that names a job ...
SeenNamesItsJob ==
    \A s \in Saves :
        req[s].pc \in DuplicateSteps =>
            req[s].seen.status # "absent" /\ req[s].seen.job \in Saves

\* ... and good news it has read cannot become wrong before it is used.
SeenIsTrue ==
    \A s \in Saves :
        req[s].seen.status = "processed" \/ req[s].content = "completed" => Readable

RequestInv ==
    /\ ReqTypeOK
    /\ RequestOwns
    /\ NothingToWithdraw
    /\ SeenNamesItsJob
    /\ SeenIsTrue

IInv == PipelineInv /\ RequestInv

-----------------------------------------------------------------------------
(* What a move of one request preserves                                    *)

ReqRecords == [pc : Steps, seen : Entries(Saves), content : JobStatuses \cup {"unread"}]

\* The request s moves to record r: the invariant asks of the step only what r
\* says of s, and that it takes nothing from the other requests.
LEMMA RequestMoves ==
    ASSUME IInv, NEW s \in Saves, NEW r \in ReqRecords,
           req' = [req EXCEPT ![s] = r],
           \A i \in Saves : i # s /\ ledger.job = i => ledger'.job = i,
           \A i \in Saves : i # s => task'[i] = task[i],
           \A i \in Saves : i # s => (i \in transcripts' <=> i \in transcripts),
           Readable => Readable',
           r.pc \in OwnerSteps => ledger'.job = s,
           task'[s].phase # "none" => r.pc \in HandedOn,
           s \in transcripts' => r.pc \in HandedOn \cup {"stored", "completed"},
           r.pc \in {"stored", "completed"} => s \in transcripts',
           r.pc \in DuplicateSteps => r.seen.status # "absent" /\ r.seen.job \in Saves,
           r.seen.status = "processed" \/ r.content = "completed" => Readable'
    PROVE  RequestInv'
<1>1. req \in [Saves -> ReqRecords]
  BY DEF IInv, RequestInv, ReqTypeOK, ReqRecords
<1>2. /\ req' \in [Saves -> ReqRecords]
      /\ req'[s] = r
      /\ \A i \in Saves : i # s => req'[i] = req[i]
  BY <1>1
<1>3. ReqTypeOK' /\ RequestOwns'
  BY <1>2 DEF IInv, RequestInv, ReqTypeOK, ReqRecords, RequestOwns
<1>4. NothingToWithdraw'
  BY <1>2 DEF IInv, RequestInv, NothingToWithdraw
<1>5. SeenNamesItsJob' /\ SeenIsTrue'
  BY <1>2 DEF IInv, RequestInv, SeenNamesItsJob, SeenIsTrue
<1>. QED  BY <1>3, <1>4, <1>5 DEF RequestInv

\* The frequent case: the request reads, or writes a row, a job or an event.
LEMMA RequestMovesOn ==
    ASSUME IInv, NEW s \in Saves, NEW r \in ReqRecords,
           req' = [req EXCEPT ![s] = r],
           ledger'.job = ledger.job, UNCHANGED <<task, transcripts>>,
           r.pc \in OwnerSteps => req[s].pc \in OwnerSteps,
           task[s].phase # "none" => r.pc \in HandedOn,
           s \in transcripts => r.pc \in HandedOn \cup {"stored", "completed"},
           r.pc \in {"stored", "completed"} => s \in transcripts,
           r.pc \in DuplicateSteps => r.seen.status # "absent" /\ r.seen.job \in Saves,
           r.seen.status = "processed" \/ r.content = "completed" => Readable
    PROVE  RequestInv'
<1>1. r.pc \in OwnerSteps => ledger'.job = s
  BY DEF IInv, RequestInv, RequestOwns
<1>2. Readable' <=> Readable
  BY DEF Readable
<1>. QED  BY <1>1, <1>2, RequestMoves

LEMMA GotoEffect ==
    ASSUME ReqTypeOK, NEW s \in Saves, NEW pc \in Steps, Goto(s, pc)
    PROVE  \E r \in ReqRecords :
              /\ req' = [req EXCEPT ![s] = r]
              /\ r.pc = pc /\ r.seen = req[s].seen /\ r.content = req[s].content
<1>. DEFINE r == [req[s] EXCEPT !.pc = pc]
<1>1. r \in ReqRecords /\ r.pc = pc /\ r.seen = req[s].seen /\ r.content = req[s].content
  BY DEF ReqTypeOK, ReqRecords
<1>2. req' = [req EXCEPT ![s] = r]
  BY DEF Goto
<1>. QED  BY <1>1, <1>2

LEMMA FinishEffect ==
    ASSUME NEW s \in Saves, NEW pc \in {"done", "error", "released"}, Finish(s, pc)
    PROVE  \E r \in ReqRecords :
              /\ req' = [req EXCEPT ![s] = r]
              /\ r.pc = pc /\ r.seen = Absent /\ r.content = "unread"
<1>. DEFINE r == [NoRequest EXCEPT !.pc = pc]
<1>1. r \in ReqRecords /\ r.pc = pc /\ r.seen = Absent /\ r.content = "unread"
  BY DEF NoRequest, ReqRecords, Absent, Entries, LedgerStatuses, Steps
<1>2. req' = [req EXCEPT ![s] = r]
  BY DEF Finish
<1>. QED  BY <1>1, <1>2

\* A request that goes on from pc to pc2 or ends there.
LEMMA GotoKeeps ==
    ASSUME IInv, NEW s \in Saves, NEW pc \in Steps, Goto(s, pc),
           ledger'.job = ledger.job, UNCHANGED <<task, transcripts>>,
           pc \in OwnerSteps => req[s].pc \in OwnerSteps,
           req[s].pc \in HandedOn => pc \in HandedOn,
           req[s].pc \in {"stored", "completed"} => pc \in HandedOn \cup {"stored", "completed"},
           pc \in {"stored", "completed"} => s \in transcripts,
           pc \in DuplicateSteps => req[s].pc \in DuplicateSteps
    PROVE  RequestInv'
<1>1. PICK r \in ReqRecords :
         /\ req' = [req EXCEPT ![s] = r]
         /\ r.pc = pc /\ r.seen = req[s].seen /\ r.content = req[s].content
  BY GotoEffect DEF IInv, RequestInv
<1>2. /\ task[s].phase # "none" => pc \in HandedOn
      /\ s \in transcripts => pc \in HandedOn \cup {"stored", "completed"}
  BY DEF IInv, RequestInv, NothingToWithdraw
<1>3. pc \in DuplicateSteps => r.seen.status # "absent" /\ r.seen.job \in Saves
  BY <1>1 DEF IInv, RequestInv, SeenNamesItsJob
<1>4. r.seen.status = "processed" \/ r.content = "completed" => Readable
  BY <1>1 DEF IInv, RequestInv, SeenIsTrue
<1>. QED  BY <1>1, <1>2, <1>3, <1>4, RequestMovesOn

LEMMA FinishKeeps ==
    ASSUME IInv, NEW s \in Saves, NEW pc \in {"done", "error"}, Finish(s, pc),
           ledger'.job = ledger.job, UNCHANGED <<task, transcripts>>
    PROVE  RequestInv'
<1>1. PICK r \in ReqRecords :
         /\ req' = [req EXCEPT ![s] = r]
         /\ r.pc = pc /\ r.seen = Absent /\ r.content = "unread"
  BY FinishEffect
<1>2. /\ r.pc \in HandedOn
      /\ r.pc \notin OwnerSteps \cup DuplicateSteps \cup {"stored", "completed"}
  BY <1>1 DEF OwnerSteps, DuplicateSteps, HandedOn
<1>3. r.seen.status # "processed" /\ r.content # "completed"
  BY <1>1 DEF Absent
<1>. QED  BY <1>1, <1>2, <1>3, RequestMovesOn

-----------------------------------------------------------------------------
(* One lemma per kind of request step                                      *)

\* Row, ledger reads, and the answer to a duplicate.
LEMMA DuplicateStepKeeps ==
    ASSUME IInv, NEW s \in Saves,
           \/ SaveRow(s) \/ CheckLedger(s) \/ RereadLedger(s)
           \/ LoadContentJob(s) \/ ReconcileLedger(s) \/ FinalizeDuplicate(s)
    PROVE  Keeps /\ RequestInv'
<1>. USE DEF At
<1>i. PipelineInv /\ PipelineTypeOK /\ ReqTypeOK
  BY DEF IInv, PipelineInv, RequestInv
<1>t. req[s] \in ReqRecords /\ ledger \in Entries(Saves)
  BY <1>i DEF ReqTypeOK, ReqRecords, PipelineTypeOK
<1>h. req[s].pc \notin HandedOn \cup {"stored", "completed"}
          => task[s].phase = "none" /\ s \notin transcripts
  BY DEF IInv, RequestInv, NothingToWithdraw
<1>r. req[s].pc \in DuplicateSteps =>
         /\ req[s].seen.status # "absent" /\ req[s].seen.job \in Saves
         /\ req[s].seen.status = "processed" \/ req[s].content = "completed" => Readable
  BY DEF IInv, RequestInv, SeenNamesItsJob, SeenIsTrue
<1>1. CASE SaveRow(s)
  <2>1. PICK row \in [status : RowStatuses, lastJob : Saves \cup {NoJob}] :
           /\ rows' = [rows EXCEPT ![s] = row]
           /\ row.status = "pending" /\ row.lastJob = rows[s].lastJob
    <3>. DEFINE row == [rows[s] EXCEPT !.status = "pending"]
    <3>1. rows[s] \in [status : RowStatuses, lastJob : Saves \cup {NoJob}]
      BY <1>i DEF PipelineTypeOK
    <3>2. row \in [status : RowStatuses, lastJob : Saves \cup {NoJob}]
      BY <3>1 DEF RowStatuses
    <3>3. row.status = "pending" /\ row.lastJob = rows[s].lastJob
      BY <3>1
    <3>4. rows' = [rows EXCEPT ![s] = row]
      BY <1>1 DEF SaveRow
    <3>. QED  BY <3>2, <3>3, <3>4
  <2>2. Keeps
    <3>1. row.lastJob # NoJob => UserOf[row.lastJob] = UserOf[s]
      BY <1>i, <2>1 DEF PipelineInv, NoForeignPointer
    <3>2. row.status # "ready"
      BY <2>1
    <3>3. UNCHANGED <<source, ledger, jobs, transcripts, task, events, watchers>>
      BY <1>1 DEF SaveRow
    <3>. QED  BY <1>i, <2>1, <3>1, <3>2, <3>3, RowWritten
  <2>3. RequestInv'
    BY <1>1, GotoKeeps DEF SaveRow, Steps, OwnerSteps, HandedOn, DuplicateSteps
  <2>. QED  BY <2>2, <2>3
<1>2. CASE CheckLedger(s) \/ RereadLedger(s)
  <2>1. Keeps
    BY <1>2, <1>i, NothingWritten DEF CheckLedger, RereadLedger
  <2>2. UNCHANGED <<ledger, task, transcripts>>
    BY <1>2 DEF CheckLedger, RereadLedger, pipelineVars
  <2>3. CASE Goto(s, "fresh") /\ req[s].pc = "saved"
    BY <2>1, <2>2, <2>3, GotoKeeps DEF Steps, OwnerSteps, HandedOn, DuplicateSteps
  <2>4. CASE Finish(s, "error")
    BY <2>1, <2>2, <2>4, FinishKeeps
  <2>5. CASE /\ ledger.status # "absent" /\ req[s].pc \in {"saved", "lost"}
             /\ req' = [req EXCEPT
                           ![s] = [@ EXCEPT !.pc = "duplicate", !.seen = ledger]]
    <3>. DEFINE r == [req[s] EXCEPT !.pc = "duplicate", !.seen = ledger]
    <3>1. r \in ReqRecords /\ r.pc = "duplicate" /\ r.seen = ledger /\ r.content = req[s].content
      BY <1>t DEF ReqRecords, Steps
    <3>2. req' = [req EXCEPT ![s] = r]
      BY <2>5
    <3>3. r.seen.status # "absent" /\ r.seen.job \in Saves
      BY <1>i, <1>t, <2>5, <3>1 DEF PipelineInv, LedgerNamesItsJob, Entries
    <3>4. r.seen.status = "processed" \/ r.content = "completed" => Readable
      BY <1>i, <3>1 DEF PipelineInv, NewsIsTrue, IInv, RequestInv, SeenIsTrue
    <3>5. task[s].phase = "none" /\ s \notin transcripts
      BY <1>h, <2>5 DEF HandedOn
    <3>6. r.pc \notin OwnerSteps \cup {"stored", "completed"}
      BY <3>1 DEF OwnerSteps
    <3>. HIDE DEF r
    <3>. QED  BY <2>1, <2>2, <3>1, <3>2, <3>3, <3>4, <3>5, <3>6, RequestMovesOn
  <2>6. ledger.job # NoJob => ledger.status # "absent"
    BY <1>i DEF PipelineInv, LedgerNamesItsJob
  <2>. QED  BY <1>2, <2>1, <2>3, <2>4, <2>5, <2>6 DEF CheckLedger, RereadLedger
<1>3. CASE LoadContentJob(s)
  <2>1. Keeps
    BY <1>3, <1>i, NothingWritten DEF LoadContentJob
  <2>2. UNCHANGED <<ledger, task, transcripts>>
    BY <1>3 DEF LoadContentJob, pipelineVars
  <2>3. PICK content \in {jobs[req[s].seen.job], "unread"} :
           req' = [req EXCEPT ![s] = [@ EXCEPT !.pc = "loaded", !.content = content]]
    BY <1>3 DEF LoadContentJob
  <2>4. req[s].pc \in DuplicateSteps
    BY <1>3 DEF LoadContentJob, DuplicateSteps
  <2>5. content \in JobStatuses \cup {"unread"} /\ (content = "completed" => Readable)
    BY <1>i, <1>r, <2>3, <2>4 DEF PipelineTypeOK, PipelineInv, NewsIsTrue
  <2>. DEFINE r == [req[s] EXCEPT !.pc = "loaded", !.content = content]
  <2>6. r \in ReqRecords /\ r.pc = "loaded" /\ r.seen = req[s].seen /\ r.content = content
    BY <1>t, <2>5 DEF ReqRecords, Steps
  <2>7. req' = [req EXCEPT ![s] = r]
    BY <2>3
  <2>8. task[s].phase = "none" /\ s \notin transcripts
    BY <1>3, <1>h DEF LoadContentJob, HandedOn
  <2>9. r.pc \notin OwnerSteps \cup {"stored", "completed"}
    BY <2>6 DEF OwnerSteps
  <2>10. /\ r.seen.status # "absent" /\ r.seen.job \in Saves
         /\ r.seen.status = "processed" \/ r.content = "completed" => Readable
    BY <1>r, <2>4, <2>5, <2>6
  <2>. HIDE DEF r
  <2>11. RequestInv'
    BY <2>2, <2>6, <2>7, <2>8, <2>9, <2>10, RequestMovesOn
  <2>. QED  BY <2>1, <2>11
<1>4. CASE ReconcileLedger(s)
  <2>1. req[s].pc \in DuplicateSteps
    BY <1>4 DEF ReconcileLedger, DuplicateSteps
  <2>2. Keeps /\ ledger'.job = ledger.job
    <3>1. CASE ledger' = ledger
      BY <1>4, <1>i, <3>1, NothingWritten DEF ReconcileLedger, pipelineVars
    <3>2. CASE Stranded(req[s]) /\ ledger' # ledger
      <4>. DEFINE outcome == IF req[s].content = "completed" THEN "processed" ELSE "failed"
      <4>1. outcome \in Outcomes /\ ledger' = RecordTerminal(ledger, req[s].seen.job, outcome)
        BY <1>4, <3>2 DEF ReconcileLedger, Outcomes
      <4>2. outcome = "processed" => Readable
        BY <1>r, <2>1
      <4>. HIDE DEF outcome
      <4>. QED  BY <1>4, <1>i, <1>r, <2>1, <4>1, <4>2, OutcomeRecorded DEF ReconcileLedger
    <3>. QED  BY <1>4, <3>1, <3>2 DEF ReconcileLedger
  <2>3. RequestInv'
    BY <1>4, <2>1, <2>2, GotoKeeps
       DEF ReconcileLedger, Steps, OwnerSteps, HandedOn, DuplicateSteps
  <2>. QED  BY <2>2, <2>3
<1>5. CASE FinalizeDuplicate(s)
  <2>. DEFINE r == req[s]
              owned == r.content \notin {"unread", "none"} /\ UserOf[r.seen.job] = UserOf[s]
              row == [status |-> DuplicateStatus(r),
                      lastJob |-> IF owned THEN r.seen.job ELSE rows[s].lastJob]
  <2>1. req[s].pc \in DuplicateSteps
    BY <1>5 DEF FinalizeDuplicate, DuplicateSteps
  <2>2. DuplicateStatus(r) \in RowStatuses /\ (DuplicateStatus(r) = "ready" => Readable)
    <3>1. r.content \in JobStatuses =>
             /\ LibraryStatus(r.content) \in RowStatuses
             /\ LibraryStatus(r.content) = "ready" => r.content = "completed"
      BY LibraryStatusRange
    <3>2. r.seen.status \in LedgerStatuses /\ r.content \in JobStatuses \cup {"unread"}
      BY <1>t DEF ReqRecords, Entries
    <3>. HIDE DEF r
    <3>. QED  BY <1>r, <2>1, <3>1, <3>2
              DEF r, DuplicateStatus, RowStatuses, LedgerStatuses, Outcomes
  <2>3. row \in [status : RowStatuses, lastJob : Saves \cup {NoJob}]
    BY <1>i, <1>r, <2>1, <2>2 DEF PipelineTypeOK
  <2>4. row.lastJob # NoJob => UserOf[row.lastJob] = UserOf[s]
    BY <1>i DEF PipelineInv, NoForeignPointer
  <2>5. row.status = "ready" => Readable
    BY <2>2
  <2>6. rows' = [rows EXCEPT ![s] = row]
    BY <1>5 DEF FinalizeDuplicate
  <2>. HIDE DEF row
  <2>7. Keeps
    BY <1>5, <1>i, <2>3, <2>4, <2>5, <2>6, RowWritten DEF FinalizeDuplicate
  <2>8. RequestInv'
    BY <1>5, FinishKeeps DEF FinalizeDuplicate
  <2>. QED  BY <2>7, <2>8
<1>. QED  BY <1>1, <1>2, <1>3, <1>4, <1>5

\* Steps of the owner, and of any request that ends or fails, in which the
\* request only writes its job, sends its event or records its own outcome.
LEMMA OwnerStepKeeps ==
    ASSUME IInv, NEW s \in Saves,
           \/ CreateJob(s) \/ RefuseByQuota(s) \/ TellRefusal(s) \/ RecordRefusal(s)
           \/ CompleteInline(s) \/ AnnounceInline(s) \/ FailUnreadable(s)
           \/ ReportUnreadable(s) \/ RequestRaises(s) \/ FailJob(s)
           \/ RecordFailure(s) \/ CleanupRaises(s)
    PROVE  Keeps /\ RequestInv'
<1>. USE DEF At, Steps, OwnerSteps, HandedOn, DuplicateSteps
<1>i. PipelineInv
  BY DEF IInv
<1>s. req[s].pc \in {"stored", "completed"} => s \in transcripts
  BY DEF IInv, RequestInv, NothingToWithdraw
<1>k. {"success", "failure"} \subseteq EventKinds /\ {"pending", "completed", "failed"} \subseteq JobStatuses
  BY DEF EventKinds, JobStatuses
<1>1. CASE CreateJob(s)
  <2>1. Keeps
    BY <1>1, <1>i, <1>k, JobWritten DEF CreateJob
  <2>2. RequestInv'
    BY <1>1, GotoKeeps DEF CreateJob
  <2>. QED  BY <2>1, <2>2
<1>2. CASE RefuseByQuota(s)
  <2>1. Keeps
    BY <1>2, <1>i, <1>k, JobWritten, NothingWritten DEF RefuseByQuota, pipelineVars
  <2>2. RequestInv'
    BY <1>2, GotoKeeps DEF RefuseByQuota
  <2>. QED  BY <2>1, <2>2
<1>3. CASE TellRefusal(s)
  <2>1. Keeps
    BY <1>3, <1>i, <1>k, EventSent, NothingWritten DEF TellRefusal, pipelineVars, store
  <2>2. RequestInv'
    BY <1>3, GotoKeeps DEF TellRefusal, store
  <2>. QED  BY <2>1, <2>2
<1>4. CASE RecordRefusal(s) \/ RecordFailure(s)
  <2>1. ledger' = RecordTerminal(ledger, s, "failed") /\ "failed" \in Outcomes
    BY <1>4 DEF RecordRefusal, RecordFailure, Outcomes
  <2>2. Keeps /\ ledger'.job = ledger.job
    BY <1>4, <1>i, <2>1, OutcomeRecorded DEF RecordRefusal, RecordFailure
  <2>3. RequestInv'
    BY <1>4, <2>2, FinishKeeps DEF RecordRefusal, RecordFailure
  <2>. QED  BY <2>2, <2>3
<1>5. CASE CompleteInline(s)
  <2>1. Keeps
    BY <1>5, <1>i, <1>k, <1>s, JobWritten DEF CompleteInline
  <2>2. RequestInv'
    BY <1>5, <1>s, GotoKeeps DEF CompleteInline
  <2>. QED  BY <2>1, <2>2
<1>6. CASE AnnounceInline(s) \/ ReportUnreadable(s)
  <2>1. Keeps
    BY <1>6, <1>i, <1>k, <1>s, EventSent DEF AnnounceInline, ReportUnreadable, store
  <2>2. RequestInv'
    BY <1>6, GotoKeeps, FinishKeeps DEF AnnounceInline, ReportUnreadable, AfterSend, store
  <2>. QED  BY <2>1, <2>2
<1>7. CASE FailUnreadable(s)
  <2>1. Keeps
    BY <1>7, <1>i, <1>k, JobWritten DEF FailUnreadable
  <2>2. RequestInv'
    BY <1>7, GotoKeeps DEF FailUnreadable
  <2>. QED  BY <2>1, <2>2
<1>8. CASE RequestRaises(s)
  <2>1. Keeps
    BY <1>8, <1>i, NothingWritten DEF RequestRaises
  <2>2. RequestInv'
    BY <1>8, GotoKeeps, FinishKeeps DEF RequestRaises, JobCreated, pipelineVars
  <2>. QED  BY <2>1, <2>2
<1>9. CASE FailJob(s)
  <2>1. Keeps
    BY <1>9, <1>i, <1>k, JobWritten DEF FailJob
  <2>2. RequestInv'
    BY <1>9, GotoKeeps DEF FailJob
  <2>. QED  BY <2>1, <2>2
<1>10. CASE CleanupRaises(s)
  <2>1. Keeps
    BY <1>10, <1>i, NothingWritten DEF CleanupRaises
  <2>2. RequestInv'
    BY <1>10, FinishKeeps DEF CleanupRaises, pipelineVars
  <2>. QED  BY <2>1, <2>2
<1>. QED  BY <1>1, <1>2, <1>3, <1>4, <1>5, <1>6, <1>7, <1>8, <1>9, <1>10

\* Winning the reservation: nobody owned the content, nothing of it exists.
LEMMA ReserveKeeps ==
    ASSUME IInv, NEW s \in Saves, ReserveContent(s)
    PROVE  Keeps /\ RequestInv'
<1>. USE DEF At, Steps, OwnerSteps, HandedOn, DuplicateSteps
<1>1. /\ Keeps
      /\ IF CanReserve(ledger) THEN ledger.job = NoJob /\ ledger'.job = s
                               ELSE ledger' = ledger
  BY ContentReserved DEF IInv, ReserveContent
<1>2. CASE ~CanReserve(ledger)
  <2>1. RequestInv'
    BY <1>1, <1>2, GotoKeeps DEF ReserveContent
  <2>. QED  BY <1>1, <2>1
<1>3. CASE CanReserve(ledger)
  <2>1. PICK r \in ReqRecords :
           /\ req' = [req EXCEPT ![s] = r]
           /\ r.pc = "reserved" /\ r.seen = req[s].seen /\ r.content = req[s].content
    BY <1>3, GotoEffect DEF ReserveContent, IInv, RequestInv
  <2>2. transcripts = {} /\ ~Readable
    BY <1>1, <1>3, SavesAssumption
       DEF IInv, PipelineInv, PipelineTypeOK, StoredTextIsOwned, Readable
  <2>3. task[s].phase = "none"
    BY DEF IInv, RequestInv, NothingToWithdraw, ReserveContent
  <2>4. ~(r.seen.status = "processed" \/ r.content = "completed")
    BY <2>1, <2>2 DEF IInv, RequestInv, SeenIsTrue
  <2>5. RequestInv'
    BY <1>1, <1>3, <2>1, <2>2, <2>3, <2>4, SavesAssumption, RequestMoves
       DEF ReserveContent
  <2>. QED  BY <1>1, <2>5
<1>. QED  BY <1>2, <1>3

\* Giving the content back: nothing of it can be read, and no request has read
\* anything else.
LEMMA ReleaseKeeps ==
    ASSUME IInv, NEW s \in Saves, ReleaseAfterOutage(s) \/ ReleaseReservation(s)
    PROVE  Keeps /\ RequestInv'
<1>. USE DEF At, Steps, OwnerSteps, HandedOn, DuplicateSteps
<1>1. task[s].phase = "none" /\ s \notin transcripts
  BY DEF IInv, RequestInv, NothingToWithdraw, ReleaseAfterOutage, ReleaseReservation
<1>2. Keeps /\ (ledger' = ledger \/ (ledger.job = s /\ ~Readable))
  BY <1>1, ContentReleased DEF IInv, ReleaseAfterOutage, ReleaseReservation
<1>3. PICK r \in ReqRecords :
         /\ req' = [req EXCEPT ![s] = r]
         /\ r.pc \in {"released", "error"} /\ r.seen = Absent /\ r.content = "unread"
  BY FinishEffect DEF ReleaseAfterOutage, ReleaseReservation
<1>4. /\ r.pc \notin OwnerSteps \cup DuplicateSteps \cup {"stored", "completed"}
      /\ r.seen.status # "processed" /\ r.content # "completed"
  BY <1>3 DEF Absent
<1>5. UNCHANGED <<task, transcripts>>
  BY DEF ReleaseAfterOutage, ReleaseReservation
<1>6. Readable => Readable'
  BY <1>2, <1>5 DEF Readable
<1>7. RequestInv'
  BY <1>1, <1>2, <1>3, <1>4, <1>5, <1>6, RequestMoves
<1>. QED  BY <1>2, <1>7

\* Handing the content to a worker, or storing its text at once.
LEMMA HandOnKeeps ==
    ASSUME IInv, NEW s \in Saves, EnqueueWork(s) \/ StoreText(s)
    PROVE  Keeps /\ RequestInv'
<1>. USE DEF At, Steps, OwnerSteps, HandedOn, DuplicateSteps
<1>1. ledger.job = s /\ req[s].pc = "created" /\ UNCHANGED ledger
  BY DEF IInv, RequestInv, RequestOwns, EnqueueWork, StoreText, store
<1>2. task[s].phase = "none" /\ s \notin transcripts
  BY <1>1 DEF IInv, RequestInv, NothingToWithdraw
<1>3. CASE EnqueueWork(s)
  <2>1. Keeps
    BY <1>1, <1>3, WorkQueued DEF IInv, EnqueueWork, store
  <2>2. /\ transcripts' = transcripts
        /\ \A i \in Saves : i # s => task'[i] = task[i]
    BY <1>3 DEF EnqueueWork, store, IInv, PipelineInv, PipelineTypeOK
  <2>3. PICK r \in ReqRecords :
           /\ req' = [req EXCEPT ![s] = r]
           /\ r.pc \in {"done", "failing"}
           /\ \/ r.seen = req[s].seen /\ r.content = req[s].content
              \/ r.seen = Absent /\ r.content = "unread"
    BY <1>3, GotoEffect, FinishEffect DEF EnqueueWork, AfterSend, IInv, RequestInv
  <2>4. r.seen.status = "processed" \/ r.content = "completed" => Readable
    BY <2>3 DEF IInv, RequestInv, SeenIsTrue, Absent
  <2>5. Readable' <=> Readable
    BY <1>1, <2>2 DEF Readable
  <2>6. RequestInv'
    BY <1>1, <1>2, <2>2, <2>3, <2>4, <2>5, RequestMoves
  <2>. QED  BY <2>1, <2>6
<1>4. CASE StoreText(s)
  <2>1. Keeps
    BY <1>1, <1>4, TextStored DEF IInv, StoreText
  <2>2. transcripts' = transcripts \cup {s} /\ task' = task
    BY <1>4 DEF StoreText
  <2>3. PICK r \in ReqRecords :
           /\ req' = [req EXCEPT ![s] = r]
           /\ r.pc = "stored" /\ r.seen = req[s].seen /\ r.content = req[s].content
    BY <1>4, GotoEffect DEF StoreText, IInv, RequestInv
  <2>4. Readable'
    BY <1>1, <2>2 DEF Readable
  <2>5. RequestInv'
    BY <1>1, <1>2, <2>2, <2>3, <2>4, RequestMoves
  <2>. QED  BY <2>1, <2>5
<1>. QED  BY <1>3, <1>4

\* A pipeline step takes nothing from the requests.
LEMMA PipelineLeavesRequests ==
    ASSUME IInv, NEW j \in Saves, LeavesRequests(j)
    PROVE  RequestInv'
<1>1. Readable => Readable'
  BY DEF LeavesRequests, Readable
<1>2. j \in transcripts' /\ j \notin transcripts => req[j].pc \in HandedOn
  BY DEF IInv, RequestInv, NothingToWithdraw, LeavesRequests
<1>3. NothingToWithdraw'
  BY <1>2 DEF IInv, RequestInv, NothingToWithdraw, LeavesRequests
<1>. QED  BY <1>1, <1>3 DEF IInv, RequestInv, ReqTypeOK, RequestOwns, SeenNamesItsJob,
                            SeenIsTrue, LeavesRequests

-----------------------------------------------------------------------------
(* The theorems                                                            *)

\* The empty system fits the invariant and starts the promise.
THEOREM Initially == Init => IInv /\ Promise!Init
<1>. SUFFICES ASSUME Init PROVE IInv /\ Promise!Init
  OBVIOUS
<1>1. PipelineInv /\ Promise!Init
  BY PipelineStarts, PromiseStarts DEF Init
<1>2. RequestInv
  BY DEF Init, PipelineInit, NoRequest, Absent, RequestInv, ReqTypeOK, RequestOwns,
         NothingToWithdraw, SeenNamesItsJob, SeenIsTrue, OwnerSteps, DuplicateSteps,
         HandedOn, Steps, Entries, LedgerStatuses
<1>. QED  BY <1>1, <1>2 DEF IInv

\* Every step keeps the inductive invariant, the recorded outcomes and the
\* library's promise.
THEOREM EveryStepKeeps == IInv /\ [Next]_urlVars => Keeps /\ IInv'
<1>. SUFFICES ASSUME IInv, [Next]_urlVars PROVE Keeps /\ RequestInv'
  BY DEF Keeps, IInv
<1>1. ASSUME NEW s \in Saves, RequestStep(s) PROVE Keeps /\ RequestInv'
  BY <1>1, DuplicateStepKeeps, OwnerStepKeeps, ReserveKeeps, ReleaseKeeps, HandOnKeeps
     DEF RequestStep
<1>2. ASSUME NEW s \in Saves, PipelineStep(s) PROVE Keeps /\ RequestInv'
  BY <1>2, PipelineKeeps, PipelineLeavesRequests DEF IInv
<1>3. CASE UNCHANGED urlVars
  <2>1. Keeps
    BY <1>3, NothingWritten DEF IInv, urlVars
  <2>2. RequestInv'
    BY <1>3 DEF IInv, RequestInv, ReqTypeOK, RequestOwns, NothingToWithdraw,
                SeenNamesItsJob, SeenIsTrue, Readable, urlVars, pipelineVars
  <2>. QED  BY <2>1, <2>2
<1>. QED  BY <1>1, <1>2, <1>3 DEF Next

\* The invariant holds of every behaviour of Spec.
THEOREM Invariance == Spec => []IInv
<1>1. Init => IInv
  BY Initially
<1>2. IInv /\ [Next]_urlVars => IInv'
  BY EveryStepKeeps
<1>. QED  BY <1>1, <1>2, PTL DEF Spec

\* Type correctness of the whole submission path.
THEOREM TypesAreCorrect == Spec => []TypeOK
<1>1. IInv => TypeOK
  BY DEF IInv, PipelineInv, RequestInv, TypeOK
<1>. QED  BY <1>1, Invariance, PTL

\* Deduplication pays once: no interleaving of requests, ambiguous sends and
\* releases puts two jobs of one content before the workers (submit, 550-1065).
THEOREM OnlyOneJobProcesses == Spec => []OneJobProcesses
<1>1. IInv => OneJobProcesses
  BY DEF IInv, PipelineInv, WorkIsOwned, OneJobProcesses
<1>. QED  BY <1>1, Invariance, PTL

\* A stored transcript belongs to the job the ledger names, for ever.
THEOREM StoredTextKeepsOwner == Spec => []StoredTextIsOwned
<1>1. IInv => StoredTextIsOwned
  BY DEF IInv, PipelineInv
<1>. QED  BY <1>1, Invariance, PTL

\* A completed job always has a readable text behind it.
THEOREM CompletedJobsAreReadable == Spec => []CompletedIsReadable
<1>1. IInv => CompletedIsReadable
  BY DEF IInv, PipelineInv, NewsIsTrue, Readable, CompletedIsReadable
<1>. QED  BY <1>1, Invariance, PTL

\* No library row ever points at another user's job.
THEOREM PointersStayOwn == Spec => []NoForeignPointer
<1>1. IInv => NoForeignPointer
  BY DEF IInv, PipelineInv
<1>. QED  BY <1>1, Invariance, PTL

\* The ledger never takes back an outcome.
THEOREM OutcomesAreKept == Spec => SettledEntryIsKept
<1>1. IInv /\ [Next]_urlVars =>
         [ledger.status \in Outcomes =>
             ledger'.status \in Outcomes /\ ledger'.job = ledger.job]_ledger
  BY EveryStepKeeps DEF Keeps, KeepsOutcome
<1>. QED  BY <1>1, Invariance, PTL DEF Spec, SettledEntryIsKept

\* The submission path implements the library's promise.
THEOREM PromiseIsKept == Spec => KeepsPromise
<1>1. Init => Promise!Init
  BY Initially
<1>2. IInv /\ [Next]_urlVars => [Promise!Next]_Promise!promiseVars
  BY EveryStepKeeps DEF Keeps
<1>. QED  BY <1>1, <1>2, Invariance, PTL DEF Spec, KeepsPromise, Promise!Spec
=============================================================================
