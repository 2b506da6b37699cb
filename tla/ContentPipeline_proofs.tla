----------------------- MODULE ContentPipeline_proofs -----------------------
(***************************************************************************)
(* What every step of the workers and of the completion consumer           *)
(* preserves, for any number of saves, users, redeliveries and for every   *)
(* combination of faults.  The proofs of the submission paths rest on it.  *)
(***************************************************************************)
EXTENDS ContentPipeline, TLAPS

\* The text of the content can be read: its owner's transcript is stored.
Readable == ledger.job \in transcripts

\* An entry names a job exactly when there is one.
LedgerNamesItsJob == ledger.status = "absent" <=> ledger.job = NoJob

\* A message in a worker's queue or hands belongs to the entry's job.
WorkIsOwned == \A j \in Saves : task[j].phase # "none" => ledger.job = j

\* The transcript is stored before anything says so.
TextBeforeNews ==
    \A j \in Saves :
        /\ task[j].phase \in {"stored", "located", "announced", "completed"}
              => j \in transcripts
        /\ events[j]["success"].phase # "none" => j \in transcripts

\* Whatever tells a reader that the content is there tells the truth.
NewsIsTrue ==
    /\ ledger.status = "processed" => Readable
    /\ \A j \in Saves : jobs[j] = "completed" => Readable
    /\ \A s \in Saves : rows[s].status = "ready" => Readable

\* A watcher that is listed has a job of its own.
WatchersHaveJobs ==
    /\ \A u \in Users : watchers[u].status # "none" => watchers[u].job \in Saves
    /\ \A j \in Saves, k \in EventKinds : events[j][k].todo \subseteq Watching

PipelineInv ==
    /\ PipelineTypeOK
    /\ LedgerNamesItsJob
    /\ WorkIsOwned
    /\ StoredTextIsOwned
    /\ TextBeforeNews
    /\ NewsIsTrue
    /\ WatchersHaveJobs
    /\ NoForeignPointer

-----------------------------------------------------------------------------
(* The writes the actions are made of                                      *)

\* A status that is not "completed" never shows a row as ready.
LEMMA LibraryStatusRange ==
    ASSUME NEW st \in JobStatuses
    PROVE  /\ LibraryStatus(st) \in RowStatuses
           /\ LibraryStatus(st) = "ready" => st = "completed"
  BY DEF LibraryStatus, JobStatuses, RowStatuses

\* A job write keeps the types, changes one job, turns rows ready only when it
\* writes "completed", and leaves no foreign pointer.
LEMMA WriteJobEffect ==
    ASSUME PipelineTypeOK, NoForeignPointer,
           NEW j \in Saves, NEW st \in JobStatuses, WriteJob(j, st)
    PROVE  /\ jobs' \in [Saves -> JobStatuses]
           /\ rows' \in [Saves -> [status : RowStatuses, lastJob : Saves \cup {NoJob}]]
           /\ \A i \in Saves : jobs'[i] = "completed" => jobs[i] = "completed" \/ st = "completed"
           /\ \A s \in Saves : rows'[s].status = "ready" => rows[s].status = "ready" \/ st = "completed"
           /\ NoForeignPointer'
<1>1. PICK refreshed \in SUBSET Saved :
         rows' = [s \in Saves |-> IF s \in refreshed THEN MirroredRow(rows[s], s, j, st)
                                                     ELSE rows[s]]
  BY DEF WriteJob
<1>2. jobs' = [jobs EXCEPT ![j] = st]
  BY DEF WriteJob
<1>3. \A s \in Saves :
         /\ MirroredRow(rows[s], s, j, st) \in [status : RowStatuses, lastJob : Saves \cup {NoJob}]
         /\ MirroredRow(rows[s], s, j, st).status = "ready" => st = "completed"
         /\ MirroredRow(rows[s], s, j, st).lastJob # NoJob
               => UserOf[MirroredRow(rows[s], s, j, st).lastJob] = UserOf[s]
  BY LibraryStatusRange DEF MirroredRow, PipelineTypeOK, NoForeignPointer
<1>4. rows' \in [Saves -> [status : RowStatuses, lastJob : Saves \cup {NoJob}]]
  BY <1>1, <1>3 DEF PipelineTypeOK
<1>5. \A s \in Saves : rows'[s].status = "ready" => rows[s].status = "ready" \/ st = "completed"
  BY <1>1, <1>3
<1>6. NoForeignPointer'
  BY <1>1, <1>3 DEF NoForeignPointer
<1>7. /\ jobs' \in [Saves -> JobStatuses]
      /\ \A i \in Saves : jobs'[i] = "completed" => jobs[i] = "completed" \/ st = "completed"
  BY <1>2 DEF PipelineTypeOK
<1>. QED  BY <1>4, <1>5, <1>6, <1>7

EventRecords ==
    [phase : EventPhases, receives : 0..MaxReceives, todo : SUBSET Users, again : BOOLEAN]

LEMMA NoEventTyped == NoEvent \in EventRecords /\ NewEvent \in EventRecords
<1>1. 0 \in 0..MaxReceives
  BY MaxReceivesAssumption
<1>2. NoEvent \in EventRecords
  BY <1>1 DEF NoEvent, EventRecords, EventPhases
<1>3. NewEvent \in EventRecords
  BY <1>2 DEF NewEvent, EventRecords, EventPhases
<1>. QED  BY <1>2, <1>3

\* A sent event keeps the types, touches one event only, and lists nobody.
LEMMA PublishEffect ==
    ASSUME PipelineTypeOK, NEW j \in Saves, NEW k \in EventKinds, Publish(j, k)
    PROVE  /\ events' \in [Saves -> [EventKinds -> EventRecords]]
           /\ \A i \in Saves, l \in EventKinds :
                 /\ events'[i][l].phase # "none" => events[i][l].phase # "none" \/ (i = j /\ l = k)
                 /\ events'[i][l].todo \subseteq events[i][l].todo
<1>. DEFINE e == events[j][k]
            f == IF e.phase \in {"none", "queued"} THEN NewEvent
                 ELSE [e EXCEPT !.again = TRUE]
<1>1. events' = [events EXCEPT ![j][k] = f]
  BY DEF Publish
<1>2. events \in [Saves -> [EventKinds -> EventRecords]]
  BY DEF PipelineTypeOK, EventRecords
<1>3. e \in EventRecords
  BY <1>2
<1>4. /\ f \in EventRecords
      /\ f.todo \subseteq e.todo
  BY <1>3, NoEventTyped DEF EventRecords, NewEvent, NoEvent
<1>. HIDE DEF f
<1>. QED  BY <1>1, <1>2, <1>4

TaskRecords == [phase : TaskPhases, receives : 0..MaxReceives]
TextPhases == {"stored", "located", "announced", "completed"}

\* Moving a message changes the task of its own job only.
LEMMA EnterEffect ==
    ASSUME PipelineTypeOK, NEW j \in Saves, NEW phase \in TaskPhases, Enter(j, phase)
    PROVE  /\ task' \in [Saves -> TaskRecords]
           /\ \A i \in Saves : i # j => task'[i] = task[i]
           /\ task'[j].phase = phase
  BY DEF Enter, PipelineTypeOK, TaskRecords

LEMMA LeaveEffect ==
    ASSUME PipelineTypeOK, NEW j \in Saves, Leave(j)
    PROVE  /\ task' \in [Saves -> TaskRecords]
           /\ \A i \in Saves : i # j => task'[i] = task[i]
           /\ task'[j].phase = "gone"
<1>1. 0 \in 0..MaxReceives
  BY MaxReceivesAssumption
<1>. QED  BY <1>1 DEF Leave, PipelineTypeOK, TaskRecords, TaskPhases

\* A handled or a returned message is queued again or gone.
LEMMA SettleEffect ==
    ASSUME PipelineTypeOK, NEW j \in Saves, Acknowledge(j) \/ Return(j)
    PROVE  /\ task' \in [Saves -> TaskRecords]
           /\ \A i \in Saves : i # j => task'[i] = task[i]
           /\ task'[j].phase \in {"queued", "gone"}
<1>1. CASE Leave(j)
  BY <1>1, LeaveEffect
<1>2. CASE Enter(j, "queued")
  BY <1>2, EnterEffect DEF TaskPhases
<1>. QED  BY <1>1, <1>2 DEF Acknowledge, Return

-----------------------------------------------------------------------------
(* Steps of a worker                                                       *)

\* What a pipeline step leaves to the submissions: their requests, the owner of
\* the content, the messages that exist; only a worked job gains a transcript.
LeavesRequests(j) ==
    /\ req' = req
    /\ ledger'.job = ledger.job
    /\ \/ transcripts' = transcripts
       \/ /\ transcripts' = transcripts \cup {j}
          /\ task[j].phase # "none"
          /\ rows' = rows
    /\ \A i \in Saves : task'[i].phase # "none" <=> task[i].phase # "none"

\* An entry with an outcome keeps one, of the same job.
KeepsOutcome ==
    ledger.status \in Outcomes =>
        ledger'.status \in Outcomes /\ ledger'.job = ledger.job

\* A worker that moves its own message, may write its own job and may send its
\* own events keeps the invariant, if the transcript comes before the news.
LEMMA WorkerMove ==
    ASSUME PipelineInv, NEW j \in Saves,
           task' \in [Saves -> TaskRecords],
           \A i \in Saves : i # j => task'[i] = task[i],
           task[j].phase # "none", task'[j].phase # "none",
           task'[j].phase \in TextPhases => j \in transcripts,
           \/ UNCHANGED <<jobs, rows>>
           \/ \E st \in JobStatuses :
                 WriteJob(j, st) /\ (st = "completed" => j \in transcripts),
           \/ UNCHANGED events
           \/ \E k \in EventKinds :
                 Publish(j, k) /\ (k = "success" => j \in transcripts),
           UNCHANGED <<req, source, ledger, transcripts, watchers>>
    PROVE  PipelineInv' /\ LeavesRequests(j) /\ KeepsOutcome
<1>1. ledger.job = j
  BY DEF PipelineInv, WorkIsOwned
<1>2. /\ jobs' \in [Saves -> JobStatuses]
      /\ rows' \in [Saves -> [status : RowStatuses, lastJob : Saves \cup {NoJob}]]
      /\ \A i \in Saves : jobs'[i] = "completed" => Readable
      /\ \A s \in Saves : rows'[s].status = "ready" => Readable
      /\ NoForeignPointer'
  <2>1. CASE UNCHANGED <<jobs, rows>>
    BY <2>1 DEF PipelineInv, PipelineTypeOK, NewsIsTrue, NoForeignPointer
  <2>2. CASE \E st \in JobStatuses :
                WriteJob(j, st) /\ (st = "completed" => j \in transcripts)
    <3>1. PICK st \in JobStatuses :
                WriteJob(j, st) /\ (st = "completed" => j \in transcripts)
      BY <2>2
    <3>. QED  BY <3>1, <1>1, WriteJobEffect DEF PipelineInv, NewsIsTrue, Readable
  <2>. QED  BY <2>1, <2>2
<1>3. /\ events' \in [Saves -> [EventKinds -> EventRecords]]
      /\ \A i \in Saves : events'[i]["success"].phase # "none" => i \in transcripts
      /\ \A i \in Saves, l \in EventKinds : events'[i][l].todo \subseteq Watching
  <2>1. CASE UNCHANGED events
    BY <2>1 DEF PipelineInv, PipelineTypeOK, TextBeforeNews, WatchersHaveJobs,
                EventRecords, EventKinds
  <2>2. CASE \E k \in EventKinds :
                Publish(j, k) /\ (k = "success" => j \in transcripts)
    <3>1. PICK k \in EventKinds :
                Publish(j, k) /\ (k = "success" => j \in transcripts)
      BY <2>2
    <3>2. /\ events' \in [Saves -> [EventKinds -> EventRecords]]
          /\ \A i \in Saves, l \in EventKinds :
                /\ events'[i][l].phase # "none" => events[i][l].phase # "none" \/ (i = j /\ l = k)
                /\ events'[i][l].todo \subseteq events[i][l].todo
      BY <3>1, PublishEffect DEF PipelineInv
    <3>3. "success" \in EventKinds
      BY DEF EventKinds
    <3>. QED  BY <3>1, <3>2, <3>3 DEF PipelineInv, TextBeforeNews, WatchersHaveJobs
  <2>. QED  BY <2>1, <2>2
<1>4. PipelineTypeOK'
  BY <1>2, <1>3 DEF PipelineInv, PipelineTypeOK, EventRecords, TaskRecords
<1>5. WorkIsOwned' /\ TextBeforeNews'
  BY <1>1, <1>3 DEF PipelineInv, WorkIsOwned, TextBeforeNews, TextPhases
<1>6. NewsIsTrue' /\ LedgerNamesItsJob' /\ StoredTextIsOwned'
  BY <1>2 DEF PipelineInv, NewsIsTrue, Readable, LedgerNamesItsJob, StoredTextIsOwned
<1>7. WatchersHaveJobs'
  BY <1>3 DEF PipelineInv, WatchersHaveJobs, Watching
<1>8. LeavesRequests(j) /\ KeepsOutcome
  BY DEF LeavesRequests, KeepsOutcome
<1>. QED  BY <1>2, <1>4, <1>5, <1>6, <1>7, <1>8 DEF PipelineInv

\* Storing the transcript is the one step that makes the content readable.
LEMMA StoreTranscriptKeeps ==
    ASSUME PipelineInv, NEW j \in Saves, StoreTranscript(j)
    PROVE  PipelineInv' /\ LeavesRequests(j) /\ KeepsOutcome
<1>1. ledger.job = j
  BY DEF PipelineInv, WorkIsOwned, StoreTranscript
<1>2. /\ task' \in [Saves -> TaskRecords]
      /\ \A i \in Saves : i # j => task'[i] = task[i]
      /\ task'[j].phase = "stored"
  BY EnterEffect DEF StoreTranscript, PipelineInv, TaskPhases
<1>3. transcripts' = transcripts \cup {j}
  BY DEF StoreTranscript
<1>4. UNCHANGED <<req, source, ledger, jobs, rows, events, watchers>>
  BY DEF StoreTranscript
<1>5. PipelineTypeOK'
  BY <1>2, <1>3, <1>4 DEF PipelineInv, PipelineTypeOK, TaskRecords
<1>6. WorkIsOwned' /\ TextBeforeNews' /\ StoredTextIsOwned'
  BY <1>1, <1>2, <1>3, <1>4
     DEF PipelineInv, WorkIsOwned, TextBeforeNews, StoredTextIsOwned
<1>7. NewsIsTrue' /\ LedgerNamesItsJob' /\ NoForeignPointer'
  BY <1>3, <1>4
     DEF PipelineInv, NewsIsTrue, Readable, LedgerNamesItsJob, NoForeignPointer
<1>8. WatchersHaveJobs'
  BY <1>4 DEF PipelineInv, WatchersHaveJobs, Watching
<1>9. task[j].phase # "none"
  BY DEF StoreTranscript
<1>10. LeavesRequests(j) /\ KeepsOutcome
  BY <1>2, <1>3, <1>4, <1>9 DEF LeavesRequests, KeepsOutcome
<1>. QED  BY <1>5, <1>6, <1>7, <1>8, <1>10 DEF PipelineInv

LEMMA WorkerStepKeeps ==
    ASSUME PipelineInv, NEW j \in Saves, WorkerStep(j)
    PROVE  PipelineInv' /\ LeavesRequests(j) /\ KeepsOutcome
<1>. USE DEF TextPhases, TaskPhases, JobStatuses, EventKinds, Handling, store
<1>t. PipelineTypeOK /\ task[j] \in TaskRecords
  BY DEF PipelineInv, PipelineTypeOK, TaskRecords
<1>s. task[j].phase \in TextPhases => j \in transcripts
  BY DEF PipelineInv, TextBeforeNews
<1>1. CASE Receive(j)
  <2>1. /\ task' \in [Saves -> TaskRecords]
        /\ \A i \in Saves : i # j => task'[i] = task[i]
        /\ task'[j].phase = "received"
    <3>1. task[j].receives + 1 \in 0..MaxReceives
      BY <1>1, <1>t, MaxReceivesAssumption DEF Receive, TaskRecords
    <3>. QED  BY <1>1, <1>t, <3>1 DEF Receive, PipelineTypeOK, TaskRecords
  <2>. QED  BY <1>1, <2>1, WorkerMove DEF Receive
<1>2. CASE StartWork(j)
  BY <1>2, <1>t, EnterEffect, WorkerMove DEF StartWork
<1>3. CASE StoreTranscript(j)
  BY <1>3, StoreTranscriptKeeps
<1>4. CASE RecordLocation(j)
  BY <1>4, <1>t, <1>s, EnterEffect, WorkerMove DEF RecordLocation
<1>5. CASE AnnounceTranscript(j)
  BY <1>5, <1>t, <1>s, EnterEffect, WorkerMove DEF AnnounceTranscript
<1>6. CASE CompleteTranscription(j)
  BY <1>6, <1>t, <1>s, EnterEffect, WorkerMove DEF CompleteTranscription
<1>7. CASE AnnounceForWatchers(j)
  BY <1>7, <1>t, <1>s, SettleEffect, WorkerMove DEF AnnounceForWatchers
<1>8. CASE TranscriptionRefused(j)
  BY <1>8, <1>t, SettleEffect, WorkerMove DEF TranscriptionRefused
<1>9. CASE TranscriptionRaises(j)
  BY <1>9, <1>t, SettleEffect, WorkerMove DEF TranscriptionRaises
<1>10. CASE CompleteReading(j)
  BY <1>10, <1>t, <1>s, EnterEffect, WorkerMove DEF CompleteReading
<1>11. CASE AnnounceReading(j)
  BY <1>11, <1>t, <1>s, SettleEffect, WorkerMove DEF AnnounceReading
<1>12. CASE ReadingRaises(j)
  BY <1>12, <1>t, SettleEffect, WorkerMove DEF ReadingRaises
<1>13. CASE ReadingGivesUp(j)
  BY <1>13, <1>t, EnterEffect, WorkerMove DEF ReadingGivesUp
<1>14. CASE ReportReadingFailure(j)
  BY <1>14, <1>t, SettleEffect, WorkerMove DEF ReportReadingFailure
<1>15. CASE ReadingReportRaises(j)
  BY <1>15, <1>t, SettleEffect, WorkerMove DEF ReadingReportRaises
<1>. QED
  BY <1>1, <1>2, <1>3, <1>4, <1>5, <1>6, <1>7, <1>8, <1>9, <1>10, <1>11, <1>12,
     <1>13, <1>14, <1>15 DEF WorkerStep

-----------------------------------------------------------------------------
(* Steps of the completion consumer                                        *)

LEMMA EventUpdate ==
    ASSUME NEW before \in [Saves -> [EventKinds -> EventRecords]], NEW after,
           NEW j \in Saves, NEW k \in EventKinds, NEW e \in EventRecords,
           after = [before EXCEPT ![j][k] = e]
    PROVE  /\ after \in [Saves -> [EventKinds -> EventRecords]]
           /\ \A i \in Saves, l \in EventKinds :
                 after[i][l] = IF i = j /\ l = k THEN e ELSE before[i][l]
  OBVIOUS

\* A step on one event that stays the same news, lists only watchers, and moves
\* nothing else.
LEMMA EventMove ==
    ASSUME PipelineInv, NEW j \in Saves, NEW k \in EventKinds, NEW e \in EventRecords,
           events' = [events EXCEPT ![j][k] = e],
           events[j][k].phase # "none", e.todo \subseteq Watching,
           UNCHANGED <<req, source, ledger, jobs, rows, transcripts, task, watchers>>
    PROVE  PipelineInv' /\ LeavesRequests(j) /\ KeepsOutcome
<1>1. events \in [Saves -> [EventKinds -> EventRecords]]
  BY DEF PipelineInv, PipelineTypeOK, EventRecords
<1>2. events' \in [Saves -> [EventKinds -> EventRecords]]
  BY <1>1
<1>3. \A i \in Saves, l \in EventKinds :
         events'[i][l] = IF i = j /\ l = k THEN e ELSE events[i][l]
  BY <1>1
<1>4. "success" \in EventKinds
  BY DEF EventKinds
<1>5. PipelineTypeOK'
  BY <1>2 DEF PipelineInv, PipelineTypeOK, EventRecords
<1>6. TextBeforeNews' /\ WatchersHaveJobs'
  BY <1>3, <1>4 DEF PipelineInv, TextBeforeNews, WatchersHaveJobs, Watching
<1>7. /\ LedgerNamesItsJob' /\ WorkIsOwned' /\ StoredTextIsOwned'
      /\ NewsIsTrue' /\ NoForeignPointer'
  BY DEF PipelineInv, LedgerNamesItsJob, WorkIsOwned, StoredTextIsOwned,
         NewsIsTrue, Readable, NoForeignPointer
<1>8. LeavesRequests(j) /\ KeepsOutcome
  BY DEF LeavesRequests, KeepsOutcome
<1>. QED  BY <1>5, <1>6, <1>7, <1>8 DEF PipelineInv

\* The three steps that touch nothing but the event.
LEMMA EventStepKeeps ==
    ASSUME PipelineInv, NEW j \in Saves, NEW k \in EventKinds,
           ListWatchers(j, k) \/ ConsumerRaises(j, k) \/ EventHandled(j, k)
    PROVE  PipelineInv' /\ LeavesRequests(j) /\ KeepsOutcome
<1>. USE DEF EventRecords, EventPhases, store
<1>e. events[j][k] \in EventRecords /\ events[j][k].todo \subseteq Watching
  BY DEF PipelineInv, PipelineTypeOK, WatchersHaveJobs
<1>n. /\ Following(events[j][k]) \in EventRecords
      /\ Following(events[j][k]).todo \subseteq Watching
  BY NoEventTyped DEF Following, NoEvent, NewEvent
<1>w. Watching \subseteq Users
  BY DEF Watching
<1>1. CASE ListWatchers(j, k)
  <2>. DEFINE e(listed) == [phase |-> "listed", receives |-> events[j][k].receives + 1,
                            todo |-> listed, again |-> events[j][k].again]
  <2>1. PICK listed \in {Watching, {}} : events' = [events EXCEPT ![j][k] = e(listed)]
    BY <1>1 DEF ListWatchers
  <2>2. events[j][k].receives + 1 \in 0..MaxReceives
    BY <1>1, <1>e, MaxReceivesAssumption DEF ListWatchers
  <2>3. e(listed) \in EventRecords /\ e(listed).todo \subseteq Watching
    BY <1>e, <1>w, <2>1, <2>2
  <2>. HIDE DEF e
  <2>. QED  BY <1>1, <2>1, <2>3, EventMove DEF ListWatchers
<1>2. CASE ConsumerRaises(j, k)
  <2>. DEFINE e == IF events[j][k].receives < MaxReceives
                   THEN [events[j][k] EXCEPT !.phase = "queued", !.todo = {}]
                   ELSE Following(events[j][k])
  <2>1. e \in EventRecords /\ e.todo \subseteq Watching
    BY <1>e, <1>n
  <2>2. events' = [events EXCEPT ![j][k] = e]
    BY <1>2 DEF ConsumerRaises
  <2>. HIDE DEF e
  <2>. QED  BY <1>2, <2>1, <2>2, EventMove DEF ConsumerRaises
<1>3. CASE EventHandled(j, k)
  <2>1. CASE events' = [events EXCEPT ![j][k] = Following(@)]
    BY <1>3, <2>1, <1>n, EventMove DEF EventHandled
  <2>2. CASE events' = [events EXCEPT ![j][k].phase = "queued"]
    <3>. DEFINE e == [events[j][k] EXCEPT !.phase = "queued"]
    <3>1. e \in EventRecords /\ e.todo \subseteq Watching
      BY <1>e
    <3>2. events' = [events EXCEPT ![j][k] = e]
      BY <2>2
    <3>. HIDE DEF e
    <3>. QED  BY <1>3, <3>1, <3>2, EventMove DEF EventHandled
  <2>. QED  BY <1>3, <2>1, <2>2 DEF EventHandled
<1>. QED  BY <1>1, <1>2, <1>3

\* Closing the ledger: the outcome goes to the owner's entry or nowhere, and
\* "processed" goes there only with a transcript.
LEMMA CloseLedgerKeeps ==
    ASSUME PipelineInv, NEW j \in Saves, NEW k \in EventKinds, CloseLedger(j, k)
    PROVE  PipelineInv' /\ LeavesRequests(j) /\ KeepsOutcome
<1>. DEFINE outcome == IF k = "success" THEN "processed" ELSE "failed"
<1>1. ledger' = RecordTerminal(ledger, j, outcome) /\ outcome \in Outcomes
  BY DEF CloseLedger, Outcomes
<1>2. UNCHANGED <<req, source, jobs, rows, transcripts, task, watchers>>
  BY DEF CloseLedger
<1>3. k = "success" => j \in transcripts
  BY DEF PipelineInv, TextBeforeNews, CloseLedger
<1>4. /\ ledger \in Entries(Saves)
      /\ ledger' \in Entries(Saves)
      /\ ledger'.job = ledger.job
      /\ LedgerNamesItsJob'
      /\ ledger'.status = "processed" => ledger.status = "processed" \/ ledger.job \in transcripts
      /\ KeepsOutcome
  BY <1>1, <1>3, SavesAssumption
     DEF PipelineInv, PipelineTypeOK, LedgerNamesItsJob, RecordTerminal, MayRecord,
         Entries, LedgerStatuses, Outcomes, KeepsOutcome
<1>5. PICK e \in EventRecords :
         /\ events' = [events EXCEPT ![j][k] = e]
         /\ e.todo = events[j][k].todo
  <2>1. events[j][k] \in EventRecords
    BY DEF PipelineInv, PipelineTypeOK, EventRecords
  <2>2. [events[j][k] EXCEPT !.phase = "closed"] \in EventRecords
    BY <2>1 DEF EventRecords, EventPhases
  <2>3. [events[j][k] EXCEPT !.phase = "closed"].todo = events[j][k].todo
    BY <2>1 DEF EventRecords
  <2>4. events' = [events EXCEPT ![j][k] = [events[j][k] EXCEPT !.phase = "closed"]]
    BY DEF CloseLedger
  <2>. QED  BY <2>2, <2>3, <2>4
<1>6. events \in [Saves -> [EventKinds -> EventRecords]]
  BY DEF PipelineInv, PipelineTypeOK, EventRecords
<1>7. /\ events' \in [Saves -> [EventKinds -> EventRecords]]
      /\ \A i \in Saves, l \in EventKinds :
            events'[i][l] = IF i = j /\ l = k THEN e ELSE events[i][l]
  BY <1>5, <1>6
<1>8. PipelineTypeOK'
  BY <1>2, <1>4, <1>7 DEF PipelineInv, PipelineTypeOK, EventRecords
<1>9. TextBeforeNews' /\ WatchersHaveJobs'
  <2>1. "success" \in EventKinds
    BY DEF EventKinds
  <2>. QED  BY <1>2, <1>3, <1>5, <1>7, <2>1
            DEF PipelineInv, TextBeforeNews, WatchersHaveJobs, Watching
<1>10. WorkIsOwned' /\ StoredTextIsOwned' /\ NewsIsTrue' /\ NoForeignPointer'
  BY <1>2, <1>4 DEF PipelineInv, WorkIsOwned, StoredTextIsOwned, NewsIsTrue,
                    Readable, NoForeignPointer
<1>11. LeavesRequests(j)
  BY <1>2, <1>4 DEF LeavesRequests
<1>. QED  BY <1>4, <1>8, <1>9, <1>10, <1>11 DEF PipelineInv

\* A turn of the fan-out loop: a watcher is marked, its job may be completed by
\* a success, and the event has one watcher less to serve.
LEMMA WatcherMove ==
    ASSUME PipelineInv, NEW j \in Saves, NEW k \in EventKinds, NEW u \in Users,
           NEW mark \in {"completed", "failed"},
           u \in events[j][k].todo, MarkWatcher(u, mark),
           events' = [events EXCEPT ![j][k] = Served(@, u)],
           \/ UNCHANGED <<jobs, rows>>
           \/ WriteJob(watchers[u].job, "completed") /\ j \in transcripts,
           UNCHANGED <<req, source, ledger, transcripts, task>>
    PROVE  PipelineInv' /\ LeavesRequests(j) /\ KeepsOutcome
<1>1. watchers[u].status # "none" /\ watchers[u].job \in Saves
  BY DEF PipelineInv, WatchersHaveJobs, Watching
<1>2. /\ watchers' \in [Users -> [status : WatcherStatuses, job : Saves \cup {NoJob}]]
      /\ \A v \in Users : /\ watchers'[v].job = watchers[v].job
                          /\ watchers'[v].status # "none" <=> watchers[v].status # "none"
  <2>1. PICK status \in {mark, "failed", watchers[u].status} :
           watchers' = [watchers EXCEPT ![u].status = status]
    BY DEF MarkWatcher
  <2>. QED  BY <1>1, <2>1 DEF PipelineInv, PipelineTypeOK, WatcherStatuses
<1>3. Watching' = Watching
  BY <1>2 DEF Watching
<1>4. /\ jobs' \in [Saves -> JobStatuses]
      /\ rows' \in [Saves -> [status : RowStatuses, lastJob : Saves \cup {NoJob}]]
      /\ \A i \in Saves : jobs'[i] = "completed" => Readable
      /\ \A s \in Saves : rows'[s].status = "ready" => Readable
      /\ NoForeignPointer'
  <2>1. CASE UNCHANGED <<jobs, rows>>
    BY <2>1 DEF PipelineInv, PipelineTypeOK, NewsIsTrue, NoForeignPointer
  <2>2. CASE WriteJob(watchers[u].job, "completed") /\ j \in transcripts
    <3>1. Readable
      BY <2>2 DEF PipelineInv, StoredTextIsOwned, Readable
    <3>2. "completed" \in JobStatuses
      BY DEF JobStatuses
    <3>. QED  BY <1>1, <2>2, <3>1, <3>2, WriteJobEffect DEF PipelineInv
  <2>. QED  BY <2>1, <2>2
<1>5. /\ events' \in [Saves -> [EventKinds -> EventRecords]]
      /\ \A i \in Saves, l \in EventKinds :
            /\ events'[i][l].phase = events[i][l].phase
            /\ events'[i][l].todo \subseteq events[i][l].todo
  <2>1. events \in [Saves -> [EventKinds -> EventRecords]]
    BY DEF PipelineInv, PipelineTypeOK, EventRecords
  <2>2. /\ Served(events[j][k], u) \in EventRecords
        /\ Served(events[j][k], u).phase = events[j][k].phase
        /\ Served(events[j][k], u).todo \subseteq events[j][k].todo
    BY <2>1 DEF Served, EventRecords
  <2>3. /\ events' \in [Saves -> [EventKinds -> EventRecords]]
        /\ \A i \in Saves, l \in EventKinds :
              events'[i][l] = IF i = j /\ l = k THEN Served(events[j][k], u) ELSE events[i][l]
    BY <2>1, <2>2, EventUpdate
  <2>. QED  BY <2>2, <2>3
<1>6. PipelineTypeOK'
  BY <1>2, <1>4, <1>5 DEF PipelineInv, PipelineTypeOK, EventRecords
<1>7. TextBeforeNews' /\ WatchersHaveJobs'
  <2>1. "success" \in EventKinds
    BY DEF EventKinds
  <2>2. TextBeforeNews'
    BY <1>5, <2>1 DEF PipelineInv, TextBeforeNews
  <2>3. \A v \in Users : watchers'[v].status # "none" => watchers'[v].job \in Saves
    BY <1>2 DEF PipelineInv, WatchersHaveJobs
  <2>4. \A i \in Saves, l \in EventKinds : events'[i][l].todo \subseteq Watching'
    BY <1>3, <1>5 DEF PipelineInv, WatchersHaveJobs
  <2>. QED  BY <2>2, <2>3, <2>4 DEF WatchersHaveJobs
<1>8. LedgerNamesItsJob' /\ WorkIsOwned' /\ StoredTextIsOwned' /\ NewsIsTrue'
  BY <1>4 DEF PipelineInv, LedgerNamesItsJob, WorkIsOwned, StoredTextIsOwned,
              NewsIsTrue, Readable
<1>9. LeavesRequests(j) /\ KeepsOutcome
  BY DEF LeavesRequests, KeepsOutcome
<1>. QED  BY <1>4, <1>6, <1>7, <1>8, <1>9 DEF PipelineInv

LEMMA ConsumerStepKeeps ==
    ASSUME PipelineInv, NEW j \in Saves, ConsumerStep(j)
    PROVE  PipelineInv' /\ LeavesRequests(j) /\ KeepsOutcome
<1>. USE DEF EventKinds, store
<1>1. CASE \E k \in EventKinds :
              ListWatchers(j, k) \/ ConsumerRaises(j, k) \/ EventHandled(j, k)
  BY <1>1, EventStepKeeps
<1>2. CASE \E k \in EventKinds : CloseLedger(j, k)
  BY <1>2, CloseLedgerKeeps
<1>3. CASE \E u \in Users : CompleteWatcher(j, u)
  <2>1. PICK u \in Users : CompleteWatcher(j, u)
    BY <1>3
  <2>2. j \in transcripts
    BY <2>1 DEF PipelineInv, TextBeforeNews, CompleteWatcher
  <2>. QED  BY <2>1, <2>2, WatcherMove DEF CompleteWatcher
<1>4. CASE \E u \in Users : FailWatcher(j, u)
  BY <1>4, WatcherMove DEF FailWatcher
<1>. QED  BY <1>1, <1>2, <1>3, <1>4 DEF ConsumerStep

\* Every step of the pipeline keeps its invariant, and outcomes that the ledger
\* has recorded.
THEOREM PipelineStepKeeps ==
    ASSUME PipelineInv, NEW j \in Saves, PipelineStep(j)
    PROVE  PipelineInv' /\ LeavesRequests(j) /\ KeepsOutcome
  BY WorkerStepKeeps, ConsumerStepKeeps DEF PipelineStep

\* The initial tables are empty.
LEMMA PipelineStarts == PipelineInit => PipelineInv
<1>. SUFFICES ASSUME PipelineInit PROVE PipelineInv
  OBVIOUS
<1>1. NoEvent \in EventRecords /\ 0 \in 0..MaxReceives
  BY NoEventTyped, MaxReceivesAssumption
<1>2. PipelineTypeOK
  BY <1>1 DEF PipelineInit, PipelineTypeOK, Absent, Entries, LedgerStatuses,
              JobStatuses, RowStatuses, TaskPhases, WatcherStatuses, EventRecords
<1>3. LedgerNamesItsJob /\ WorkIsOwned /\ StoredTextIsOwned
  BY DEF PipelineInit, Absent, LedgerNamesItsJob, WorkIsOwned, StoredTextIsOwned
<1>4. TextBeforeNews /\ NewsIsTrue /\ NoForeignPointer
  BY DEF PipelineInit, Absent, TextBeforeNews, NewsIsTrue, NoForeignPointer,
         NoEvent, EventKinds
<1>5. WatchersHaveJobs
  BY DEF PipelineInit, WatchersHaveJobs, NoEvent
<1>. QED  BY <1>2, <1>3, <1>4, <1>5 DEF PipelineInv

-----------------------------------------------------------------------------
(* Refinement of the library's promise                                     *)

LEMMA PromiseStarts == PipelineInit => Promise!Init
  BY DEF PipelineInit, Promise!Init, Absent

\* Rows that change while the owner and the texts stay are a Show.
LEMMA RowsOnlyShow ==
    ASSUME PipelineInv', UNCHANGED transcripts, ledger'.job = ledger.job
    PROVE  Promise!Next
<1>1. Promise!Show
  BY DEF PipelineInv, PipelineTypeOK, NewsIsTrue, Readable, Promise!Show, Promise!Readable
<1>. QED  BY <1>1 DEF Promise!Next

\* A pipeline step shows rows or stores the owner's text.
LEMMA PipelineStepPromised ==
    ASSUME PipelineInv, PipelineInv', NEW j \in Saves, LeavesRequests(j)
    PROVE  Promise!Next
<1>1. CASE transcripts' = transcripts
  BY <1>1, RowsOnlyShow DEF LeavesRequests
<1>2. CASE transcripts' = transcripts \cup {j} /\ task[j].phase # "none" /\ rows' = rows
  <2>1. ledger.job = j
    BY <1>2 DEF PipelineInv, WorkIsOwned
  <2>2. Promise!StoreText
    BY <1>2, <2>1, SavesAssumption DEF LeavesRequests, Promise!StoreText
  <2>. QED  BY <2>2 DEF Promise!Next
<1>. QED  BY <1>1, <1>2 DEF LeavesRequests

-----------------------------------------------------------------------------
(* The writes of a submission                                              *)

\* A step that keeps the invariant, the recorded outcomes and the promise.
Keeps ==
    /\ PipelineInv'
    /\ KeepsOutcome
    /\ Promise!Next \/ UNCHANGED Promise!promiseVars

LEMMA PipelineKeeps ==
    ASSUME PipelineInv, NEW j \in Saves, PipelineStep(j)
    PROVE  Keeps /\ LeavesRequests(j)
  BY PipelineStepKeeps, PipelineStepPromised DEF Keeps

LEMMA NothingWritten ==
    ASSUME PipelineInv, UNCHANGED pipelineVars
    PROVE  Keeps
<1>1. PipelineInv'
  BY DEF PipelineInv, pipelineVars, PipelineTypeOK, LedgerNamesItsJob, WorkIsOwned,
         StoredTextIsOwned, TextBeforeNews, NewsIsTrue, Readable, WatchersHaveJobs,
         Watching, NoForeignPointer
<1>. QED  BY <1>1 DEF pipelineVars, Keeps, KeepsOutcome, Promise!promiseVars

LEMMA RowWritten ==
    ASSUME PipelineInv, NEW s \in Saves,
           NEW row \in [status : RowStatuses, lastJob : Saves \cup {NoJob}],
           row.status = "ready" => Readable,
           row.lastJob # NoJob => UserOf[row.lastJob] = UserOf[s],
           rows' = [rows EXCEPT ![s] = row],
           UNCHANGED <<source, ledger, jobs, transcripts, task, events, watchers>>
    PROVE  Keeps
<1>1. PipelineTypeOK' /\ NewsIsTrue' /\ NoForeignPointer'
  BY DEF PipelineInv, PipelineTypeOK, NewsIsTrue, Readable, NoForeignPointer
<1>2. /\ LedgerNamesItsJob' /\ WorkIsOwned' /\ StoredTextIsOwned'
      /\ TextBeforeNews' /\ WatchersHaveJobs'
  BY DEF PipelineInv, LedgerNamesItsJob, WorkIsOwned, StoredTextIsOwned,
         TextBeforeNews, WatchersHaveJobs, Watching
<1>. QED  BY <1>1, <1>2, RowsOnlyShow DEF PipelineInv, Keeps, KeepsOutcome

LEMMA JobWritten ==
    ASSUME PipelineInv, NEW s \in Saves, NEW st \in JobStatuses, WriteJob(s, st),
           st = "completed" => s \in transcripts,
           UNCHANGED <<source, ledger, transcripts, task, events, watchers>>
    PROVE  Keeps
<1>1. /\ jobs' \in [Saves -> JobStatuses]
      /\ rows' \in [Saves -> [status : RowStatuses, lastJob : Saves \cup {NoJob}]]
      /\ \A i \in Saves : jobs'[i] = "completed" => Readable
      /\ \A i \in Saves : rows'[i].status = "ready" => Readable
      /\ NoForeignPointer'
  BY WriteJobEffect DEF PipelineInv, NewsIsTrue, Readable, StoredTextIsOwned
<1>2. PipelineTypeOK' /\ NewsIsTrue'
  BY <1>1 DEF PipelineInv, PipelineTypeOK, NewsIsTrue, Readable
<1>3. /\ LedgerNamesItsJob' /\ WorkIsOwned' /\ StoredTextIsOwned'
      /\ TextBeforeNews' /\ WatchersHaveJobs'
  BY DEF PipelineInv, LedgerNamesItsJob, WorkIsOwned, StoredTextIsOwned,
         TextBeforeNews, WatchersHaveJobs, Watching
<1>. QED  BY <1>1, <1>2, <1>3, RowsOnlyShow DEF PipelineInv, Keeps, KeepsOutcome

LEMMA EventSent ==
    ASSUME PipelineInv, NEW s \in Saves, NEW k \in EventKinds, Publish(s, k),
           k = "success" => s \in transcripts,
           UNCHANGED <<source, ledger, jobs, rows, transcripts, task, watchers>>
    PROVE  Keeps
<1>1. "success" \in EventKinds
  BY DEF EventKinds
<1>2. /\ events' \in [Saves -> [EventKinds -> EventRecords]]
      /\ \A i \in Saves : events'[i]["success"].phase # "none" => i \in transcripts
      /\ \A i \in Saves, l \in EventKinds : events'[i][l].todo \subseteq Watching
  <2>1. /\ events' \in [Saves -> [EventKinds -> EventRecords]]
        /\ \A i \in Saves, l \in EventKinds :
              /\ events'[i][l].phase # "none" => events[i][l].phase # "none" \/ (i = s /\ l = k)
              /\ events'[i][l].todo \subseteq events[i][l].todo
    BY PublishEffect DEF PipelineInv
  <2>. QED  BY <1>1, <2>1 DEF PipelineInv, TextBeforeNews, WatchersHaveJobs
<1>3. PipelineTypeOK'
  BY <1>2 DEF PipelineInv, PipelineTypeOK, EventRecords
<1>4. TextBeforeNews' /\ WatchersHaveJobs'
  BY <1>2 DEF PipelineInv, TextBeforeNews, WatchersHaveJobs, Watching
<1>5. /\ LedgerNamesItsJob' /\ WorkIsOwned' /\ StoredTextIsOwned'
      /\ NewsIsTrue' /\ NoForeignPointer'
  BY DEF PipelineInv, LedgerNamesItsJob, WorkIsOwned, StoredTextIsOwned,
         NewsIsTrue, Readable, NoForeignPointer
<1>. QED  BY <1>3, <1>4, <1>5, RowsOnlyShow DEF PipelineInv, Keeps, KeepsOutcome

LEMMA WorkQueued ==
    ASSUME PipelineInv, NEW s \in Saves, ledger.job = s,
           task' = [task EXCEPT ![s] = [phase |-> "queued", receives |-> 0]],
           UNCHANGED <<source, ledger, jobs, rows, transcripts, events, watchers>>
    PROVE  Keeps
<1>1. 0 \in 0..MaxReceives
  BY MaxReceivesAssumption
<1>2. PipelineTypeOK' /\ WorkIsOwned' /\ TextBeforeNews'
  BY <1>1 DEF PipelineInv, PipelineTypeOK, TaskPhases, WorkIsOwned, TextBeforeNews
<1>3. /\ LedgerNamesItsJob' /\ StoredTextIsOwned' /\ NewsIsTrue'
      /\ WatchersHaveJobs' /\ NoForeignPointer'
  BY DEF PipelineInv, LedgerNamesItsJob, StoredTextIsOwned, NewsIsTrue, Readable,
         WatchersHaveJobs, Watching, NoForeignPointer
<1>. QED  BY <1>2, <1>3, RowsOnlyShow DEF PipelineInv, Keeps, KeepsOutcome

LEMMA TextStored ==
    ASSUME PipelineInv, NEW s \in Saves, ledger.job = s,
           transcripts' = transcripts \cup {s},
           UNCHANGED <<source, ledger, jobs, rows, task, events, watchers>>
    PROVE  Keeps
<1>1. PipelineTypeOK' /\ StoredTextIsOwned' /\ TextBeforeNews' /\ NewsIsTrue'
  BY DEF PipelineInv, PipelineTypeOK, StoredTextIsOwned, TextBeforeNews, NewsIsTrue, Readable
<1>2. LedgerNamesItsJob' /\ WorkIsOwned' /\ WatchersHaveJobs' /\ NoForeignPointer'
  BY DEF PipelineInv, LedgerNamesItsJob, WorkIsOwned, WatchersHaveJobs, Watching,
         NoForeignPointer
<1>3. Promise!StoreText
  BY SavesAssumption DEF Promise!StoreText
<1>. QED  BY <1>1, <1>2, <1>3 DEF PipelineInv, Keeps, KeepsOutcome, Promise!Next

\* What only the ledger's status or owner could disturb.
LEMMA LedgerFrame ==
    ASSUME PipelineInv, ledger' \in Entries(Saves),
           UNCHANGED <<source, jobs, rows, transcripts, task, events, watchers>>
    PROVE  PipelineTypeOK' /\ TextBeforeNews' /\ WatchersHaveJobs' /\ NoForeignPointer'
  BY DEF PipelineInv, PipelineTypeOK, TextBeforeNews, WatchersHaveJobs, Watching,
         NoForeignPointer

LEMMA OutcomeRecorded ==
    ASSUME PipelineInv, NEW j \in Saves, NEW outcome \in Outcomes,
           ledger' = RecordTerminal(ledger, j, outcome),
           outcome = "processed" /\ ledger.job = j => Readable,
           UNCHANGED <<source, jobs, rows, transcripts, task, events, watchers>>
    PROVE  Keeps /\ ledger'.job = ledger.job
<1>1. /\ ledger' \in Entries(Saves)
      /\ ledger'.job = ledger.job
      /\ LedgerNamesItsJob'
      /\ ledger'.status = "processed" => Readable
      /\ KeepsOutcome
  BY SavesAssumption
     DEF PipelineInv, PipelineTypeOK, LedgerNamesItsJob, NewsIsTrue, RecordTerminal,
         MayRecord, Entries, LedgerStatuses, Outcomes, KeepsOutcome
<1>2. WorkIsOwned' /\ StoredTextIsOwned' /\ NewsIsTrue'
  BY <1>1 DEF PipelineInv, WorkIsOwned, StoredTextIsOwned, NewsIsTrue, Readable
<1>3. PipelineInv'
  BY <1>1, <1>2, LedgerFrame DEF PipelineInv
<1>. QED  BY <1>1, <1>3, RowsOnlyShow DEF Keeps

LEMMA ContentReserved ==
    ASSUME PipelineInv, NEW s \in Saves, ledger' = Reserve(ledger, s),
           UNCHANGED <<source, jobs, rows, transcripts, task, events, watchers>>
    PROVE  /\ Keeps
           /\ IF CanReserve(ledger) THEN ledger.job = NoJob /\ ledger'.job = s
                                    ELSE ledger' = ledger
<1>1. CASE ~CanReserve(ledger)
  BY <1>1, NothingWritten DEF Reserve, pipelineVars
<1>2. CASE CanReserve(ledger)
  <2>1. ledger.job = NoJob /\ ledger' = [status |-> "reserved", job |-> s]
    BY <1>2 DEF PipelineInv, LedgerNamesItsJob, CanReserve, Reserve
  <2>2. /\ ledger' \in Entries(Saves)
        /\ LedgerNamesItsJob'
        /\ KeepsOutcome
    BY <1>2, <2>1, SavesAssumption
       DEF Entries, LedgerStatuses, LedgerNamesItsJob, KeepsOutcome, CanReserve, Outcomes
  <2>3. ~Readable /\ transcripts = {}
    BY <2>1, SavesAssumption DEF PipelineInv, PipelineTypeOK, StoredTextIsOwned, Readable
  <2>4. WorkIsOwned' /\ StoredTextIsOwned' /\ NewsIsTrue'
    BY <2>1, <2>3, SavesAssumption
       DEF PipelineInv, WorkIsOwned, StoredTextIsOwned, NewsIsTrue, Readable
  <2>5. PipelineInv'
    BY <2>2, <2>4, LedgerFrame DEF PipelineInv
  <2>6. Promise!Claim(s)
    BY <2>1 DEF Promise!Claim
  <2>. QED  BY <1>2, <2>1, <2>2, <2>5, <2>6 DEF Keeps, Promise!Next
<1>. QED  BY <1>1, <1>2

LEMMA ContentReleased ==
    ASSUME PipelineInv, NEW s \in Saves, ledger' = Release(ledger, s),
           task[s].phase = "none", s \notin transcripts,
           UNCHANGED <<source, jobs, rows, transcripts, task, events, watchers>>
    PROVE  /\ Keeps
           /\ ledger' = ledger \/ (ledger.job = s /\ ~Readable)
<1>1. CASE ~MayRelease(ledger, s)
  BY <1>1, NothingWritten DEF Release, pipelineVars
<1>2. CASE MayRelease(ledger, s)
  <2>1. ledger.job = s /\ ledger.status = "reserved" /\ ledger' = Absent
    BY <1>2 DEF MayRelease, Release
  <2>2. /\ ledger' \in Entries(Saves)
        /\ LedgerNamesItsJob'
        /\ KeepsOutcome
    BY <2>1 DEF Entries, LedgerStatuses, LedgerNamesItsJob, Absent, KeepsOutcome, Outcomes
  <2>3. ~Readable /\ transcripts = {}
    BY <2>1 DEF PipelineInv, PipelineTypeOK, StoredTextIsOwned, Readable
  <2>4. WorkIsOwned' /\ StoredTextIsOwned' /\ NewsIsTrue'
    BY <2>1, <2>3 DEF PipelineInv, WorkIsOwned, StoredTextIsOwned, NewsIsTrue, Readable, Absent
  <2>5. PipelineInv'
    BY <2>2, <2>4, LedgerFrame DEF PipelineInv
  <2>6. Promise!Withdraw
    BY <2>1, <2>3, SavesAssumption
       DEF Promise!Withdraw, Promise!Readable, PipelineInv, NewsIsTrue, Readable, Absent
  <2>. QED  BY <2>1, <2>2, <2>3, <2>5, <2>6 DEF Keeps, Promise!Next
<1>. QED  BY <1>1, <1>2
=============================================================================
