------------------------- MODULE EpisodeSubmission -------------------------
(***************************************************************************)
(* Saves of a podcast episode: media_submission.submit_media_for_user,     *)
(* over the content pipeline.  A save that finds the episode owned but not *)
(* processed creates a job of its own and watches the owner's.  Nothing is *)
(* undone when a call raises.                                              *)
(***************************************************************************)
EXTENDS ContentPipeline

episodeVars == <<pipelineVars, req>>

Steps == {"idle", "saved", "lost", "known", "unprocessed", "watching",
          "reserved", "created", "updated", "done", "error"}

\* seen - the ledger entry read after the lost reservation
ReqTypeOK == req \in [Saves -> [pc : Steps, seen : Entries(Saves)]]

NoRequest == [pc |-> "idle", seen |-> Absent]

TypeOK == PipelineTypeOK /\ ReqTypeOK

Init ==
    /\ PipelineInit
    /\ source = "audio"
    /\ req = [s \in Saves |-> NoRequest]

At(s, pc) == req[s].pc = pc
Goto(s, pc) == req' = [req EXCEPT ![s].pc = pc]
\* The submission answers; what it had read is forgotten.
Finish(s, pc) == req' = [req EXCEPT ![s] = [NoRequest EXCEPT !.pc = pc]]

-----------------------------------------------------------------------------
\* save_media_for_user, once the quota let the save through.
SaveRow(s) ==
    /\ At(s, "idle")
    /\ rows' = [rows EXCEPT ![s].status = "pending"]
    /\ Goto(s, "saved")
    /\ UNCHANGED <<source, ledger, jobs, transcripts, task, events, watchers>>

\* reserve_or_skip comes first on this path.
ReserveContent(s) ==
    /\ At(s, "saved")
    /\ ledger' = Reserve(ledger, s)
    /\ Goto(s, IF CanReserve(ledger) THEN "reserved" ELSE "lost")
    /\ UNCHANGED <<source, jobs, rows, transcripts, task, events, watchers>>

\* Mutant of ReadLedger: a recorded failure passes for a processed content.
TrustAnyOutcome(s) ==
    /\ At(s, "lost")
    /\ req' = [req EXCEPT
                  ![s] = [@ EXCEPT !.pc = IF ledger.status \in Outcomes THEN "known" ELSE "unprocessed",
                                   !.seen = ledger]]
    /\ UNCHANGED pipelineVars

\* already_processed after a lost reservation: only "processed" is told apart,
\* a reservation and a recorded failure both lead to watching.
ReadLedger(s) ==
    /\ At(s, "lost")
    /\ req' = [req EXCEPT
                  ![s] = [@ EXCEPT !.pc = IF ledger.status = "processed" /\ ledger.job # NoJob
                            THEN "known" ELSE "unprocessed",
                                   !.seen = ledger]]
    /\ UNCHANGED pipelineVars

\* finalize_deduplicated_save: ready on the ledger's word, with the job id when
\* the owner's job could be read and is of the same user.
FinalizeDuplicate(s) ==
    LET owner == req[s].seen.job
    IN  /\ At(s, "known")
        /\ \E jobRead \in (IF "request" \in Faults THEN BOOLEAN ELSE {TRUE}) :
              rows' = [rows EXCEPT ![s] =
                  [status  |-> "ready",
                   lastJob |-> IF jobRead /\ UserOf[owner] = UserOf[s]
                               THEN owner ELSE @.lastJob]]
        /\ Finish(s, "done")
        /\ UNCHANGED <<source, ledger, jobs, transcripts, task, events, watchers>>

\* The watcher's job: pending, like every save of the episode once mirrored.
CreateWatcherJob(s) ==
    /\ At(s, "unprocessed")
    /\ WriteJob(s, "pending")
    /\ Goto(s, "watching")
    /\ UNCHANGED <<source, ledger, transcripts, task, events, watchers>>

\* add_watcher: one row per user and content, an existing one is kept, and an
\* error is ignored.
AddWatcher(s) ==
    LET u == UserOf[s]
    IN  /\ At(s, "watching")
        /\ \/ watchers' = [watchers EXCEPT ![u] =
                              IF @.status = "none" THEN [status |-> "pending", job |-> s] ELSE @]
           \/ "request" \in Faults /\ UNCHANGED watchers
        /\ Finish(s, "done")
        /\ UNCHANGED <<source, store, task, events>>

-----------------------------------------------------------------------------
CreateJob(s) ==
    /\ At(s, "reserved")
    /\ WriteJob(s, "pending")
    /\ Goto(s, "created")
    /\ UNCHANGED <<source, ledger, transcripts, task, events, watchers>>

UpdateJob(s) ==
    /\ At(s, "created")
    /\ WriteJob(s, "pending")
    /\ Goto(s, "updated")
    /\ UNCHANGED <<source, ledger, transcripts, task, events, watchers>>

\* The minutes are charged, then the episode goes to Deepgram.  The answer may
\* be an error although the queue took the message.
EnqueueWork(s) ==
    /\ At(s, "updated")
    /\ task' = [task EXCEPT ![s] = [phase |-> "queued", receives |-> 0]]
    /\ \/ Finish(s, "done")
       \/ "request" \in Faults /\ Finish(s, "error")
    /\ UNCHANGED <<source, store, events, watchers>>

\* No handler: the exception leaves the reservation and the job as they are.
RequestRaises(s) ==
    /\ "request" \in Faults
    /\ req[s].pc \notin {"idle", "done", "error"}
    /\ Finish(s, "error")
    /\ UNCHANGED pipelineVars

-----------------------------------------------------------------------------
RequestStep(s) ==
    \/ SaveRow(s) \/ ReserveContent(s) \/ ReadLedger(s) \/ FinalizeDuplicate(s)
    \/ CreateWatcherJob(s) \/ AddWatcher(s)
    \/ CreateJob(s) \/ UpdateJob(s) \/ EnqueueWork(s) \/ RequestRaises(s)

Next == \E s \in Saves : RequestStep(s) \/ PipelineStep(s)

Spec == Init /\ [][Next]_episodeVars

\* As in UrlSubmission: what has started runs on, what is queued is delivered.
FairSpec ==
    /\ Spec
    /\ \A s \in Saves :
          /\ WF_episodeVars(RequestStep(s) /\ ~At(s, "idle"))
          /\ WF_episodeVars(WorkerStep(s))
          /\ WF_episodeVars(ConsumerStep(s))
-----------------------------------------------------------------------------
(* Properties                                                              *)

\* A save that registered as a watcher is answered in the end, whatever step of
\* the completion event it raced with (media_completed_worker.py:253-255).
\* Refuted by the run episode_watcher: the watchers are listed before the ledger
\* is closed.
WatcherIsServed ==
    \A u \in Users : watchers[u].status = "pending" ~> watchers[u].status # "pending"
=============================================================================
