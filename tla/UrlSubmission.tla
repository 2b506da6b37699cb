--------------------------- MODULE UrlSubmission ---------------------------
(***************************************************************************)
(* Saves made through a URL or shared content:                             *)
(* ProcessingJobSubmissionOrchestrator.submit, over the content pipeline.  *)
(*                                                                         *)
(* Requests of different users for the same content run at the same time;  *)
(* each action is one remote call of the request, with the code up to the  *)
(* next one.  The library row is written first, so a request that fails    *)
(* later leaves it behind.                                                 *)
(***************************************************************************)
EXTENDS ContentPipeline

urlVars == <<pipelineVars, req>>

\* seen    - the ledger entry the duplicate check read
\* content - the status of the job that entry points at: "unread" when the
\*           read failed, "none" when the job does not exist
Steps ==
    {"idle", "saved", "fresh", "lost", "duplicate", "loaded", "resolved",
     "reserved", "releasing", "created", "stored", "completed", "permanent",
     "transient", "refused", "refusalTold", "failing", "failed",
     "done", "released", "error"}

ReqTypeOK ==
    req \in [Saves -> [pc : Steps, seen : Entries(Saves),
                       content : JobStatuses \cup {"unread"}]]

NoRequest == [pc |-> "idle", seen |-> Absent, content |-> "unread"]

TypeOK == PipelineTypeOK /\ ReqTypeOK

Init ==
    /\ PipelineInit
    /\ req = [s \in Saves |-> NoRequest]

At(s, pc) == req[s].pc = pc
Goto(s, pc) == req' = [req EXCEPT ![s].pc = pc]
\* The request answers; what it had read is forgotten.
Finish(s, pc) == req' = [req EXCEPT ![s] = [NoRequest EXCEPT !.pc = pc]]

-----------------------------------------------------------------------------
(* Row first, then the ledger                                              *)

\* save_media_for_user
SaveRow(s) ==
    /\ At(s, "idle")
    /\ rows' = [rows EXCEPT ![s].status = "pending"]
    /\ Goto(s, "saved")
    /\ UNCHANGED <<source, ledger, jobs, transcripts, task, events, watchers>>

\* already_processed, before the reservation.
CheckLedger(s) ==
    /\ At(s, "saved")
    /\ IF ledger.job # NoJob
       THEN req' = [req EXCEPT ![s] = [@ EXCEPT !.pc = "duplicate", !.seen = ledger]]
       ELSE Goto(s, "fresh")
    /\ UNCHANGED pipelineVars

\* reserve_or_skip
ReserveContent(s) ==
    /\ At(s, "fresh")
    /\ ledger' = Reserve(ledger, s)
    /\ Goto(s, IF CanReserve(ledger) THEN "reserved" ELSE "lost")
    /\ UNCHANGED <<source, jobs, rows, transcripts, task, events, watchers>>

\* Another request won: the ledger is read again.  An entry released in the
\* meantime makes the request fail.
RereadLedger(s) ==
    /\ At(s, "lost")
    /\ IF ledger.status # "absent"
       THEN req' = [req EXCEPT ![s] = [@ EXCEPT !.pc = "duplicate", !.seen = ledger]]
       ELSE Finish(s, "error")
    /\ UNCHANGED pipelineVars

-----------------------------------------------------------------------------
(* A save of content another job owns                                      *)

\* _load_content_job never raises: a failed read is no information.
LoadContentJob(s) ==
    /\ At(s, "duplicate")
    /\ \E content \in {jobs[req[s].seen.job]}
                      \cup (IF "request" \in Faults THEN {"unread"} ELSE {}) :
          req' = [req EXCEPT ![s] = [@ EXCEPT !.pc = "loaded", !.content = content]]
    /\ UNCHANGED pipelineVars

\* A reserved entry whose job is over is closed on the way, best effort.
Stranded(r) == r.seen.status = "reserved" /\ r.content \in {"completed", "failed"}

ReconcileLedger(s) ==
    /\ At(s, "loaded")
    /\ \/ ledger' = IF Stranded(req[s])
                    THEN RecordTerminal(ledger, req[s].seen.job,
                             IF req[s].content = "completed" THEN "processed" ELSE "failed")
                    ELSE ledger
       \/ "request" \in Faults /\ Stranded(req[s]) /\ UNCHANGED ledger
    /\ Goto(s, "resolved")
    /\ UNCHANGED <<source, jobs, rows, transcripts, task, events, watchers>>

\* Mutant of DuplicateStatus: a job that could not be read passes for a ready one.
OptimisticStatus(r) ==
    IF r.seen.status = "failed" \/ r.content = "none" THEN "failed"
    ELSE IF r.seen.status = "processed" \/ r.content = "unread" THEN "ready"
    ELSE LibraryStatus(r.content)

\* _resolve_duplicate_status and _library_status_from_duplicate
DuplicateStatus(r) ==
    IF r.seen.status # "reserved"
    THEN IF r.seen.status = "failed" THEN "failed" ELSE "ready"
    ELSE CASE r.content = "unread" -> "pending"
           [] r.content = "none"   -> "failed"
           [] OTHER                -> LibraryStatus(r.content)

\* finalize_deduplicated_save: the row takes the status that was resolved,
\* and the job id when the job was read and belongs to the same user.
FinalizeDuplicate(s) ==
    LET r == req[s]
        owned == r.content \notin {"unread", "none"} /\ UserOf[r.seen.job] = UserOf[s]
    IN  /\ At(s, "resolved")
        /\ rows' = [rows EXCEPT ![s] =
                       [status  |-> DuplicateStatus(r),
                        lastJob |-> IF owned THEN r.seen.job ELSE @.lastJob]]
        /\ Finish(s, "done")
        /\ UNCHANGED <<source, ledger, jobs, transcripts, task, events, watchers>>

-----------------------------------------------------------------------------
(* The save that owns the content                                          *)

CreateJob(s) ==
    /\ At(s, "reserved")
    /\ WriteJob(s, "pending")
    /\ Goto(s, "created")
    /\ UNCHANGED <<source, ledger, transcripts, task, events, watchers>>

\* A send may raise although the queue took the message.
AfterSend(s) ==
    \/ Finish(s, "done")
    \/ "request" \in Faults /\ Goto(s, "failing")

\* The worker message: to the X queue, or to Deepgram once the audio gate let
\* the save through.
EnqueueWork(s) ==
    /\ At(s, "created")
    /\ source \in {"x", "audio"}
    /\ task' = [task EXCEPT ![s] = [phase |-> "queued", receives |-> 0]]
    /\ AfterSend(s)
    /\ UNCHANGED <<source, store, events, watchers>>

\* The audio gate refuses: the job is marked failed (best effort), the failure
\* event is sent (best effort), the ledger is closed by the request itself.
RefuseByQuota(s) ==
    /\ At(s, "created")
    /\ source = "audio"
    /\ \/ WriteJob(s, "failed")
       \/ "request" \in Faults /\ UNCHANGED <<jobs, rows>>
    /\ Goto(s, "refused")
    /\ UNCHANGED <<source, ledger, transcripts, task, events, watchers>>

TellRefusal(s) ==
    /\ At(s, "refused")
    /\ \/ Publish(s, "failure")
       \/ "request" \in Faults /\ UNCHANGED events
    /\ Goto(s, "refusalTold")
    /\ UNCHANGED <<source, store, task, watchers>>

RecordRefusal(s) ==
    /\ At(s, "refusalTold")
    /\ ledger' = RecordTerminal(ledger, s, "failed")
    /\ Finish(s, "done")
    /\ UNCHANGED <<source, jobs, rows, transcripts, task, events, watchers>>

\* Text already in hand: transcript, job, event, in this order.
StoreText(s) ==
    /\ At(s, "created")
    /\ source = "inline"
    /\ transcripts' = transcripts \cup {s}
    /\ Goto(s, "stored")
    /\ UNCHANGED <<source, ledger, jobs, rows, task, events, watchers>>

CompleteInline(s) ==
    /\ At(s, "stored")
    /\ WriteJob(s, "completed")
    /\ Goto(s, "completed")
    /\ UNCHANGED <<source, ledger, transcripts, task, events, watchers>>

AnnounceInline(s) ==
    /\ At(s, "completed")
    /\ Publish(s, "success")
    /\ AfterSend(s)
    /\ UNCHANGED <<source, store, task, watchers>>

\* _fail_unreadable_article: an outage and a verdict on the page both fail the
\* job; whether the fetch was retryable depends on the page's answer.
FailUnreadable(s) ==
    /\ At(s, "created")
    /\ source = "page"
    /\ WriteJob(s, "failed")
    /\ \E cause \in {"transient", "permanent"} : Goto(s, cause)
    /\ UNCHANGED <<source, ledger, transcripts, task, events, watchers>>

\* An outage gives the content back, so that the next save reads the page again.
ReleaseAfterOutage(s) ==
    /\ At(s, "transient")
    /\ ledger' = Release(ledger, s)
    /\ Finish(s, "released")
    /\ UNCHANGED <<source, jobs, rows, transcripts, task, events, watchers>>

ReportUnreadable(s) ==
    /\ At(s, "permanent")
    /\ Publish(s, "failure")
    /\ AfterSend(s)
    /\ UNCHANGED <<source, store, task, watchers>>

-----------------------------------------------------------------------------
(* Exceptions of the request                                               *)

JobCreated == {"created", "stored", "completed", "permanent", "transient",
               "refusalTold"}

\* Some call raised: with a job, the job is failed; with a reservation only,
\* the reservation is released; before that nothing is undone.
RequestRaises(s) ==
    /\ "request" \in Faults
    /\ \/ req[s].pc \in JobCreated /\ Goto(s, "failing")
       \/ At(s, "reserved") /\ Goto(s, "releasing")
       \/ /\ req[s].pc \in {"saved", "fresh", "lost", "duplicate", "loaded", "resolved"}
          /\ Finish(s, "error")
    /\ UNCHANGED pipelineVars

FailJob(s) ==
    /\ At(s, "failing")
    /\ WriteJob(s, "failed")
    /\ Goto(s, "failed")
    /\ UNCHANGED <<source, ledger, transcripts, task, events, watchers>>

\* Mutant of RecordFailure: the content is given back instead of closed.
ReleaseFailure(s) ==
    /\ At(s, "failed")
    /\ ledger' = Release(ledger, s)
    /\ Finish(s, "error")
    /\ UNCHANGED <<source, jobs, rows, transcripts, task, events, watchers>>

RecordFailure(s) ==
    /\ At(s, "failed")
    /\ ledger' = RecordTerminal(ledger, s, "failed")
    /\ Finish(s, "error")
    /\ UNCHANGED <<source, jobs, rows, transcripts, task, events, watchers>>

ReleaseReservation(s) ==
    /\ At(s, "releasing")
    /\ ledger' = Release(ledger, s)
    /\ Finish(s, "error")
    /\ UNCHANGED <<source, jobs, rows, transcripts, task, events, watchers>>

\* The clean-up raises too, or the function is killed: it is logged at most.
CleanupRaises(s) ==
    /\ "request" \in Faults
    /\ req[s].pc \in {"failing", "failed", "releasing"}
    /\ Finish(s, "error")
    /\ UNCHANGED pipelineVars

-----------------------------------------------------------------------------
RequestStep(s) ==
    \/ SaveRow(s) \/ CheckLedger(s) \/ ReserveContent(s) \/ RereadLedger(s)
    \/ LoadContentJob(s) \/ ReconcileLedger(s) \/ FinalizeDuplicate(s)
    \/ CreateJob(s) \/ EnqueueWork(s)
    \/ RefuseByQuota(s) \/ TellRefusal(s) \/ RecordRefusal(s)
    \/ StoreText(s) \/ CompleteInline(s) \/ AnnounceInline(s)
    \/ FailUnreadable(s) \/ ReleaseAfterOutage(s) \/ ReportUnreadable(s)
    \/ RequestRaises(s) \/ FailJob(s) \/ RecordFailure(s)
    \/ ReleaseReservation(s) \/ CleanupRaises(s)

Next == \E s \in Saves : RequestStep(s) \/ PipelineStep(s)

Spec == Init /\ [][Next]_urlVars

\* A request runs to its answer once it has started, and SQS keeps delivering
\* what is queued; nobody is obliged to make a save.
FairSpec ==
    /\ Spec
    /\ \A s \in Saves :
          /\ WF_urlVars(RequestStep(s) /\ ~At(s, "idle"))
          /\ WF_urlVars(WorkerStep(s))
          /\ WF_urlVars(ConsumerStep(s))
-----------------------------------------------------------------------------
(* Properties                                                              *)

\* A reservation does not stay open: the request, the worker's last attempt or
\* the completion event closes it or gives it back (FairSpec, with workers that
\* fail and messages delivered twice, while reporting a failure works).
ReservationCloses == ledger.status = "reserved" ~> ledger.status # "reserved"

\* A job the X worker or the request processes always comes to rest in a terminal
\* status, also when the worker fails and a handled message comes back to reopen
\* the job (mark_extracting has no guard); only Deepgram's jobs may not.
ReadingSettles ==
    \A s \in Saves :
        source # "audio" /\ jobs[s] # "none" ~> [](jobs[s] \in {"completed", "failed"})

\* A deduplicated save answered as pending relies on "the worker mirror refreshes
\* the row either way" (orchestrators.py:148): with no failure at all its row
\* ends ready or failed.  Refuted by the run url_stale_answer: the mirror's last
\* refresh may come before the save's own, older answer.
AnsweredSaveSettles ==
    \A s \in Saves :
        At(s, "done") ~> rows[s].status \in {"ready", "failed"}
=============================================================================
