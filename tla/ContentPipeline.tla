-------------------------- MODULE ContentPipeline --------------------------
(***************************************************************************)
(* What happens to one content once a job has been created for it: the     *)
(* worker that reads or transcribes it, the completion event it publishes, *)
(* and the consumer of that event.  The two submission paths                *)
(* (UrlSubmission, EpisodeSubmission) extend this module with the requests *)
(* that create jobs and send messages.                                     *)
(*                                                                         *)
(* A save is one submission by one user.  It names its library row, the    *)
(* processing job it would create and the transcript object of that job    *)
(* (<job>.txt): the code gives each save one of each.                      *)
(***************************************************************************)
EXTENDS MediaLedger, Naturals, FiniteSets

CONSTANTS
    Saves,         \* the submissions of this content
    Users,
    UserOf,        \* the user who makes a save
    MaxReceives,   \* maxReceiveCount of the queues = the workers' max retries
    Faults         \* which calls may fail, see FaultKinds

\* request    - a call made by a submission request raises
\* worker     - a call made by a worker raises, the message is redelivered
\* reporting  - the call that reports a worker's final failure raises too
\* consumer   - a call made by the completion consumer fails
\* mirror     - a library row misses a status mirror (a swallowed write
\*              error, or a save the media_key index does not list yet)
\* redelivery - a message handled to the end is delivered once more
FaultKinds ==
    {"request", "worker", "reporting", "consumer", "mirror", "redelivery"}

ASSUME SavesAssumption == NoJob \notin Saves
ASSUME UserOfAssumption == UserOf \in [Saves -> Users]
ASSUME MaxReceivesAssumption == MaxReceives \in Nat \ {0}
ASSUME FaultsAssumption == Faults \subseteq FaultKinds

VARIABLES
    source,        \* how the text of this content is obtained
    ledger,        \* the entry of media_idempotence
    jobs,          \* status of each row of processing_jobs, "none" if no row
    rows,          \* status and last_job_id of each row of user_media
    transcripts,   \* the jobs whose transcript object is in S3
    task,          \* the worker message of each job
    events,        \* the completion event of each job and outcome
    watchers,      \* the media_watchers row of each user
    req            \* where each submission request stands: given its values
                   \* by the submission modules, untouched here

store == <<ledger, jobs, rows, transcripts>>
pipelineVars == <<source, ledger, jobs, rows, transcripts, task, events, watchers>>

-----------------------------------------------------------------------------
(* Data                                                                    *)

\* x      - a worker reads the text itself (x_ingestion_worker)
\* audio  - the Deepgram worker transcribes it
\* inline - the request already holds the text (shared text, native
\*          transcript, readable article)
\* page   - an article whose page could not be read
Sources == {"x", "audio", "inline", "page"}

JobStatuses ==
    {"none", "pending", "extracting", "transcribing", "completed", "failed"}
RowStatuses == {"none", "pending", "processing", "ready", "failed"}
TaskPhases ==
    {"none", "queued", "received", "calling", "stored", "located",
     "announced", "completed", "failing", "gone"}
Handling == TaskPhases \ {"none", "queued", "gone"}
EventKinds == {"success", "failure"}
EventPhases == {"none", "queued", "listed", "closed"}
WatcherStatuses == {"none", "pending", "completed", "failed"}

\* again: another message with the same news was sent while one is handled.
NoEvent == [phase |-> "none", receives |-> 0, todo |-> {}, again |-> FALSE]
NewEvent == [NoEvent EXCEPT !.phase = "queued"]

PipelineTypeOK ==
    /\ source \in Sources
    /\ ledger \in Entries(Saves)
    /\ jobs \in [Saves -> JobStatuses]
    /\ rows \in [Saves -> [status : RowStatuses, lastJob : Saves \cup {NoJob}]]
    /\ transcripts \subseteq Saves
    /\ task \in [Saves -> [phase : TaskPhases, receives : 0..MaxReceives]]
    /\ events \in [Saves -> [EventKinds ->
          [phase : EventPhases, receives : 0..MaxReceives,
           todo : SUBSET Users, again : BOOLEAN]]]
    /\ watchers \in [Users -> [status : WatcherStatuses, job : Saves \cup {NoJob}]]

PipelineInit ==
    /\ source \in Sources
    /\ ledger = Absent
    /\ jobs = [s \in Saves |-> "none"]
    /\ rows = [s \in Saves |-> [status |-> "none", lastJob |-> NoJob]]
    /\ transcripts = {}
    /\ task = [s \in Saves |-> [phase |-> "none", receives |-> 0]]
    /\ events = [s \in Saves |-> [k \in EventKinds |-> NoEvent]]
    /\ watchers = [u \in Users |-> [status |-> "none", job |-> NoJob]]

-----------------------------------------------------------------------------
(* Job writes and their mirror                                             *)

\* Mutant of LibraryStatus: the job's own status reaches the row.
UnmappedStatus(jobStatus) == jobStatus

\* map_job_status
LibraryStatus(jobStatus) ==
    CASE jobStatus = "pending"   -> "pending"
      [] jobStatus = "completed" -> "ready"
      [] jobStatus = "failed"    -> "failed"
      [] OTHER                   -> "processing"

\* Mutant of MirroredRow: the job id reaches the rows of every user.
MirroredEverywhere(row, s, j, jobStatus) ==
    [status |-> LibraryStatus(jobStatus), lastJob |-> j]

\* mirror_job on one row: the status always, the job id on the rows of the
\* job's own user only.
MirroredRow(row, s, j, jobStatus) ==
    [status  |-> LibraryStatus(jobStatus),
     lastJob |-> IF UserOf[s] = UserOf[j] THEN j ELSE row.lastJob]

Saved == {s \in Saves : rows[s].status # "none"}

\* create_processing_job / update_processing_job: the job row has no guard on
\* its former status, and every save of the content is then refreshed.
WriteJob(j, jobStatus) ==
    /\ jobs' = [jobs EXCEPT ![j] = jobStatus]
    /\ \E refreshed \in (IF "mirror" \in Faults THEN SUBSET Saved ELSE {Saved}) :
          rows' = [s \in Saves |->
                      IF s \in refreshed
                      THEN MirroredRow(rows[s], s, j, jobStatus)
                      ELSE rows[s]]

\* sqs.send_message on the completion queue.  The events of one job and one
\* outcome all carry the same news: one that is still queued absorbs the next,
\* one that is being handled is followed by it.
Publish(j, kind) ==
    events' = [events EXCEPT ![j][kind] =
                  IF @.phase \in {"none", "queued"} THEN NewEvent
                  ELSE [@ EXCEPT !.again = TRUE]]

\* What is left in the queue once a message is consumed.
Following(event) == IF event.again THEN NewEvent ELSE NoEvent

-----------------------------------------------------------------------------
(* The worker message of a job                                             *)

Enter(j, phase) == task' = [task EXCEPT ![j].phase = phase]

\* The queue no longer holds the message.
Leave(j) == task' = [task EXCEPT ![j] = [phase |-> "gone", receives |-> 0]]

\* The handler returned: the message is deleted, or delivered once more.
Acknowledge(j) ==
    \/ Leave(j)
    \/ /\ "redelivery" \in Faults
       /\ task[j].receives < MaxReceives
       /\ Enter(j, "queued")

\* The handler raised: the message becomes visible again until its receive
\* count reaches the redrive limit, then it moves to the dead-letter queue.
Return(j) ==
    IF task[j].receives < MaxReceives THEN Enter(j, "queued") ELSE Leave(j)

Receive(j) ==
    /\ task[j].phase = "queued"
    /\ task[j].receives < MaxReceives
    /\ task' = [task EXCEPT ![j] = [phase |-> "received", receives |-> @.receives + 1]]
    /\ UNCHANGED <<req, source, store, events, watchers>>

\* The first write of both workers: whatever the job had reached before.
StartWork(j) ==
    /\ task[j].phase = "received"
    /\ WriteJob(j, IF source = "audio" THEN "transcribing" ELSE "extracting")
    /\ Enter(j, "calling")
    /\ UNCHANGED <<req, source, ledger, transcripts, events, watchers>>

\* The provider answered and the transcript object is uploaded.
StoreTranscript(j) ==
    /\ task[j].phase = "calling"
    /\ transcripts' = transcripts \cup {j}
    /\ Enter(j, "stored")
    /\ UNCHANGED <<req, source, ledger, jobs, rows, events, watchers>>

-----------------------------------------------------------------------------
(* Deepgram worker                                                         *)

\* The transcript's location is saved while the job still transcribes.
RecordLocation(j) ==
    /\ source = "audio"
    /\ task[j].phase = "stored"
    /\ WriteJob(j, "transcribing")
    /\ Enter(j, "located")
    /\ UNCHANGED <<req, source, ledger, transcripts, events, watchers>>

\* The success event leaves before the job is completed.
AnnounceTranscript(j) ==
    /\ source = "audio"
    /\ task[j].phase = "located"
    /\ Publish(j, "success")
    /\ Enter(j, "announced")
    /\ UNCHANGED <<req, source, store, watchers>>

CompleteTranscription(j) ==
    /\ source = "audio"
    /\ task[j].phase = "announced"
    /\ WriteJob(j, "completed")
    /\ Enter(j, "completed")
    /\ UNCHANGED <<req, source, ledger, transcripts, events, watchers>>

\* The second event (episode_completed) is best effort.
AnnounceForWatchers(j) ==
    /\ source = "audio"
    /\ task[j].phase = "completed"
    /\ \/ Publish(j, "success")
       \/ "worker" \in Faults /\ UNCHANGED events
    /\ Acknowledge(j)
    /\ UNCHANGED <<req, source, store, watchers>>

\* A non-retryable refusal of the provider: the failure event is published,
\* the message is consumed, and the job is left as it stands.
TranscriptionRefused(j) ==
    /\ source = "audio"
    /\ "worker" \in Faults
    /\ task[j].phase = "calling"
    /\ Publish(j, "failure")
    /\ Acknowledge(j)
    /\ UNCHANGED <<req, source, store, watchers>>

\* Mutant of TranscriptionRaises: the last receive is counted one too late.
TranscriptionNeverReports(j) ==
    /\ source = "audio"
    /\ "worker" \in Faults
    /\ task[j].phase \in Handling
    /\ \/ /\ task[j].receives > MaxReceives
          /\ Publish(j, "failure")
       \/ UNCHANGED events
    /\ Return(j)
    /\ UNCHANGED <<req, source, store, watchers>>

\* Any other exception: the last receive publishes the failure event, which
\* may fail in turn, and the exception propagates.
TranscriptionRaises(j) ==
    /\ source = "audio"
    /\ "worker" \in Faults
    /\ task[j].phase \in Handling
    /\ \/ /\ task[j].receives >= MaxReceives
          /\ Publish(j, "failure")
       \/ /\ task[j].receives < MaxReceives \/ "reporting" \in Faults
          /\ UNCHANGED events
    /\ Return(j)
    /\ UNCHANGED <<req, source, store, watchers>>

-----------------------------------------------------------------------------
(* X worker: it completes the job before it publishes                      *)

\* Mutant of CompleteReading: the job may be completed before the upload.
CompleteUnstored(j) ==
    /\ source = "x"
    /\ task[j].phase \in {"calling", "stored"}
    /\ WriteJob(j, "completed")
    /\ Enter(j, "completed")
    /\ UNCHANGED <<req, source, ledger, transcripts, events, watchers>>

CompleteReading(j) ==
    /\ source = "x"
    /\ task[j].phase = "stored"
    /\ WriteJob(j, "completed")
    /\ Enter(j, "completed")
    /\ UNCHANGED <<req, source, ledger, transcripts, events, watchers>>

AnnounceReading(j) ==
    /\ source = "x"
    /\ task[j].phase = "completed"
    /\ Publish(j, "success")
    /\ Acknowledge(j)
    /\ UNCHANGED <<req, source, store, watchers>>

\* A retryable or unexpected error before the last receive; on the last one
\* only when the failure cannot even be written to the job.
ReadingRaises(j) ==
    /\ source = "x"
    /\ "worker" \in Faults
    /\ task[j].phase \in Handling \ {"failing"}
    /\ task[j].receives < MaxReceives \/ "reporting" \in Faults
    /\ Return(j)
    /\ UNCHANGED <<req, source, store, events, watchers>>

\* Mutant of ReadingGivesUp: the job is not marked failed.
GivesUpSilently(j) ==
    /\ source = "x"
    /\ "worker" \in Faults
    /\ task[j].phase \in Handling \ {"failing"}
    /\ task[j].phase \in {"received", "calling"} \/ task[j].receives >= MaxReceives
    /\ Enter(j, "failing")
    /\ UNCHANGED <<req, source, store, events, watchers>>

\* A non-retryable error of the lookup, or any error on the last receive: the
\* job is marked failed ...
ReadingGivesUp(j) ==
    /\ source = "x"
    /\ "worker" \in Faults
    /\ task[j].phase \in Handling \ {"failing"}
    /\ task[j].phase \in {"received", "calling"} \/ task[j].receives >= MaxReceives
    /\ WriteJob(j, "failed")
    /\ Enter(j, "failing")
    /\ UNCHANGED <<req, source, ledger, transcripts, events, watchers>>

\* ... and then the failure event is published.
ReportReadingFailure(j) ==
    /\ source = "x"
    /\ task[j].phase = "failing"
    /\ Publish(j, "failure")
    /\ Acknowledge(j)
    /\ UNCHANGED <<req, source, store, watchers>>

\* Reporting the failure fails as well: nothing more than a redelivery.
ReadingReportRaises(j) ==
    /\ source = "x"
    /\ "reporting" \in Faults
    /\ task[j].phase = "failing"
    /\ Return(j)
    /\ UNCHANGED <<req, source, store, events, watchers>>

-----------------------------------------------------------------------------
(* Completion consumer (media_completed_worker.process_event)              *)

Watching == {u \in Users : watchers[u].status # "none"}

\* The watchers are listed before the ledger is closed; an unreadable table
\* reads as no watcher.
ListWatchers(j, kind) ==
    /\ events[j][kind].phase = "queued"
    /\ events[j][kind].receives < MaxReceives
    /\ \E listed \in (IF "consumer" \in Faults THEN {Watching, {}} ELSE {Watching}) :
          events' = [events EXCEPT ![j][kind] =
                        [phase |-> "listed", receives |-> @.receives + 1,
                         todo |-> listed, again |-> @.again]]
    /\ UNCHANGED <<req, source, store, task, watchers>>

CloseLedger(j, kind) ==
    /\ events[j][kind].phase = "listed"
    /\ ledger' = RecordTerminal(ledger, j,
                     IF kind = "success" THEN "processed" ELSE "failed")
    /\ events' = [events EXCEPT ![j][kind].phase = "closed"]
    /\ UNCHANGED <<req, source, jobs, rows, transcripts, task, watchers>>

\* A ledger that cannot be closed, or a function killed in the loop, leaves the
\* event to its redelivery.
ConsumerRaises(j, kind) ==
    /\ "consumer" \in Faults
    /\ events[j][kind].phase \in {"listed", "closed"}
    /\ events' = [events EXCEPT ![j][kind] =
                     IF @.receives < MaxReceives
                     THEN [@ EXCEPT !.phase = "queued", !.todo = {}]
                     ELSE Following(@)]
    /\ UNCHANGED <<req, source, store, task, watchers>>

\* Marking a watcher completed falls back on marking it failed; when no mark
\* can be written the error is logged.
MarkWatcher(u, mark) ==
    \E status \in {mark} \cup (IF "consumer" \in Faults
                               THEN {"failed", watchers[u].status} ELSE {}) :
        watchers' = [watchers EXCEPT ![u].status = status]

\* The loop is done with a watcher.
Served(event, u) == [event EXCEPT !.todo = @ \ {u}]

\* One turn of the fan-out loop of a success: the watcher's job is completed
\* (a failure of that write is swallowed), then the watcher row.
CompleteWatcher(j, u) ==
    /\ events[j]["success"].phase = "closed"
    /\ u \in events[j]["success"].todo
    /\ \/ WriteJob(watchers[u].job, "completed")
       \/ "consumer" \in Faults /\ UNCHANGED <<jobs, rows>>
    /\ MarkWatcher(u, "completed")
    /\ events' = [events EXCEPT ![j]["success"] = Served(@, u)]
    /\ UNCHANGED <<req, source, ledger, transcripts, task>>

\* One turn of the loop of a failure: only the watcher row is touched.
FailWatcher(j, u) ==
    /\ events[j]["failure"].phase = "closed"
    /\ u \in events[j]["failure"].todo
    /\ MarkWatcher(u, "failed")
    /\ events' = [events EXCEPT ![j]["failure"] = Served(@, u)]
    /\ UNCHANGED <<req, source, store, task>>

EventHandled(j, kind) ==
    /\ events[j][kind].phase = "closed"
    /\ events[j][kind].todo = {}
    /\ \/ events' = [events EXCEPT ![j][kind] = Following(@)]
       \/ /\ "redelivery" \in Faults
          /\ events[j][kind].receives < MaxReceives
          /\ events' = [events EXCEPT ![j][kind].phase = "queued"]
    /\ UNCHANGED <<req, source, store, task, watchers>>

-----------------------------------------------------------------------------
WorkerStep(j) ==
    \/ Receive(j) \/ StartWork(j) \/ StoreTranscript(j)
    \/ RecordLocation(j) \/ AnnounceTranscript(j) \/ CompleteTranscription(j)
    \/ AnnounceForWatchers(j) \/ TranscriptionRefused(j) \/ TranscriptionRaises(j)
    \/ CompleteReading(j) \/ AnnounceReading(j) \/ ReadingRaises(j)
    \/ ReadingGivesUp(j) \/ ReportReadingFailure(j) \/ ReadingReportRaises(j)

ConsumerStep(j) ==
    \/ \E kind \in EventKinds :
          \/ ListWatchers(j, kind) \/ CloseLedger(j, kind)
          \/ ConsumerRaises(j, kind) \/ EventHandled(j, kind)
    \/ \E u \in Users : CompleteWatcher(j, u) \/ FailWatcher(j, u)

PipelineStep(j) == WorkerStep(j) \/ ConsumerStep(j)
-----------------------------------------------------------------------------
(* What both submission paths keep                                         *)

\* Deduplication pays once: at most one job of the content is ever handed to a
\* worker, whatever the races on the reservation and the ambiguous sends
\* (reserve_or_skip and release_reservation around submit).
OneJobProcesses ==
    \A i, j \in Saves :
        task[i].phase # "none" /\ task[j].phase # "none" => i = j

\* A row's last_job_id always names a job of the row's own user: neither the
\* mirror's fan-out nor a deduplicated save leaks a foreign job id.
NoForeignPointer ==
    \A s \in Saves :
        rows[s].lastJob # NoJob => UserOf[rows[s].lastJob] = UserOf[s]

\* A content whose text is stored is never given back for a second paid run:
\* its entry names the job that stored it.
StoredTextIsOwned == \A j \in transcripts : ledger.job = j

\* A job that says completed, the owner's or a watcher's, has a readable text
\* behind it: the ledger names a job whose transcript is stored, whatever event
\* was late or doubled (mark_completed in the workers and the consumer).
CompletedIsReadable ==
    \A j \in Saves : jobs[j] = "completed" => ledger.job \in transcripts

\* A ledger entry that recorded an outcome keeps an outcome, of the same job:
\* no late release, reservation or event of another job reopens it.
SettledEntryIsKept ==
    [][ledger.status \in Outcomes =>
          ledger'.status \in Outcomes /\ ledger'.job = ledger.job]_ledger

\* The library's promise, read off the tables: the entry's job is the owner,
\* the transcripts in S3 are the stored texts, a row shows its status.
Promise == INSTANCE LibraryPromise WITH
              NoOwner <- NoJob,
              Shown   <- RowStatuses,
              owner   <- ledger.job,
              stored  <- transcripts,
              shown   <- [s \in Saves |-> rows[s].status]

\* Every behaviour of the submissions, the workers and the consumer is one the
\* library promises: a row is ready only with a readable transcript behind it,
\* and neither a release nor another save takes that transcript's owner away.
KeepsPromise == Promise!Spec
=============================================================================
