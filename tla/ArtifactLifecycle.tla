------------------------- MODULE ArtifactLifecycle -------------------------
(***************************************************************************)
(* One artifact (its id hashes its sources) over one media whose text must *)
(* be transcribed and then translated: the requests that ask for it, the   *)
(* wait for the text, its resumption by the hooks of the completion        *)
(* consumer and of the translation worker, the deadline, and the generator.*)
(*                                                                         *)
(* Every request and every hook resolves the text as a reader of           *)
(* TranslationLock.  The entry is one row: creation, reclaim, the claim of *)
(* a wait, the end of a wait and the generator's lease are conditional     *)
(* writes; completing and failing a generation are not.                    *)
(***************************************************************************)
EXTENDS TranslationLock

CONSTANTS
    Requests,               \* POST /artifacts, of one user or of several taps
    OnMedia,                \* the hook of the media's completion event
    Tasks                   \* the generation messages that can be sent

Hooks == {OnMedia} \cup Messages

\* Faults also reads "artifactSend" (the send of a generation raises, the queue
\* having taken it or not), "generator" (a generation raises) and "kill" (a
\* request, hook or generator is killed).
ASSUME ReadersAreActors == Readers = Requests \cup Hooks /\ Pages = {}
ASSUME ActorsAreDistinct ==
    /\ OnMedia \notin Requests \cup Messages
    /\ Requests \cap Messages = {}

VARIABLES
    source,                 \* the media's own text
    event,                  \* its completion event
    entry,                  \* the row of media_artifacts
    actors,
    tasks,
    sweep                   \* a listing or the reconciliation, between read and write

artifactVars == <<source, event, entry, actors, tasks, sweep>>
vars == <<translationVars, artifactVars>>

-----------------------------------------------------------------------------
(* The entry                                                               *)

\* waits - awaiting_expires_at: absent, in the future, or past
\* lease - lease_expires_at
Entry == [status : {"absent", "queued", "generating", "ready", "failed"},
          waits : {"no", "waiting", "overdue"},
          lease : {"none", "live", "expired"}]

NoEntry == [status |-> "absent", waits |-> "no", lease |-> "none"]

Waiting(e) == e.status = "queued" /\ e.waits # "no"

\* create_media_artifact or reclaim_failed_artifact, over the plan's verdict.
Planned(awaits) ==
    [NoEntry EXCEPT !.status = "queued", !.waits = IF awaits THEN "waiting" ELSE "no"]

\* Mutant of MayClaimGeneration: the lease is not looked at.
MayClaimLeased(e) == e.status \in {"queued", "generating"}

\* Mutant of MayClaimGeneration: only the lease is looked at.
MayClaimUnleased(e) == e.lease # "live"

MayClaimGeneration(e) ==
    \/ e.status = "queued"
    \/ e.status = "generating" /\ e.lease # "live"

FailedEntry == [NoEntry EXCEPT !.status = "failed"]

TaskPhases == {"unsent", "queued", "generating", "gone"}

TaskAt(g, phase) == tasks[g].phase = phase
TaskTo(g, phase) == tasks' = [tasks EXCEPT ![g].phase = phase]
TaskAgain(g) == TaskTo(g, IF tasks[g].receives < MaxReceives THEN "queued" ELSE "gone")

-----------------------------------------------------------------------------
(* Requests and hooks                                                      *)

\* resolving - the reader of the same name is at work
\* overdue   - the request found a wait that ran out
\* creating, reclaiming - what its plan decided;   sending - its write won
\* ending    - a hook ends the wait
ActorSteps ==
    {"idle", "resolving", "overdue", "creating", "reclaiming", "sending",
     "unsent", "ending", "over", "error"}

ActorAt(a, pc) == actors[a] = pc
ActorTo(a, pc) == actors' = [actors EXCEPT ![a] = pc]

\* resolve_scope_sources: no text yet is a wait, no text ever an exclusion.
Resolve(a) ==
    /\ ActorTo(a, "resolving")
    /\ Answer(a, CASE source = "readable"  -> "looking"
                   [] source = "preparing" -> "pending"
                   [] source = "failed"    -> "refused")

Resolved(a, answers) == ActorAt(a, "resolving") /\ readers[a].pc \in answers

Ask(r) ==
    /\ ActorAt(r, "idle")
    /\ Resolve(r)
    /\ UNCHANGED <<lock, stored, messages, source, event, entry, tasks, sweep>>

\* enforce_scope_ceilings refuses an empty scope; a resolution that raised
\* ends the request.
TurnDown(r) ==
    /\ Resolved(r, {"refused", "error", "killed"})
    /\ ActorTo(r, "over")
    /\ UNCHANGED <<translationVars, source, event, entry, tasks, sweep>>

\* plan_artifact_generation: anything but a failure answers the request.
Plan(r) ==
    /\ Resolved(r, {"pending", "readable"})
    /\ ActorTo(r, CASE entry.status = "queued" /\ entry.waits = "overdue" -> "overdue"
                    [] entry.status = "absent"  -> "creating"
                    [] entry.status = "failed"  -> "reclaiming"
                    [] OTHER                    -> "over")
    /\ UNCHANGED <<translationVars, source, event, entry, tasks, sweep>>

\* The overdue wait is ended by whoever asks next; the write only asks that
\* the entry still waits.
EndOverdue(r) ==
    /\ ActorAt(r, "overdue")
    /\ IF Waiting(entry)
       THEN entry' = FailedEntry /\ ActorTo(r, "reclaiming")
       ELSE UNCHANGED entry /\ ActorTo(r, "over")
    /\ UNCHANGED <<translationVars, source, event, tasks, sweep>>

\* commit_artifact_generation: the loser of the conditional write is answered
\* with what the winner wrote.  A waiting entry is not enqueued.  The
\* quota may refuse the request before the write.
Commit(r) ==
    LET awaits == readers[r].pc = "pending"
    IN  \/ /\ \/ ActorAt(r, "creating") /\ entry.status = "absent"
              \/ ActorAt(r, "reclaiming") /\ entry.status = "failed"
           /\ entry' = Planned(awaits)
           /\ ActorTo(r, IF awaits THEN "over" ELSE "sending")
           /\ UNCHANGED <<translationVars, source, event, tasks, sweep>>
        \/ /\ actors[r] \in {"creating", "reclaiming"}
           /\ ActorTo(r, "over")
           /\ UNCHANGED <<translationVars, source, event, entry, tasks, sweep>>

Hopeless(h) == IF h = OnMedia THEN event = "failure" ELSE MessageAt(h, "refusing")

\* _entries_awaiting_media, at the end of the media or of a translation.  A
\* failed media and a refused translation end the wait without resolving; a
\* listing that raises is logged, and the hook is over.
ListWaiting(h) ==
    /\ ActorAt(h, "idle")
    /\ IF h = OnMedia THEN event # "none" ELSE messages[h].phase \in {"resuming", "refusing"}
    /\ \/ (~Waiting(entry) \/ "read" \in Faults)
          /\ ActorTo(h, "over") /\ UNCHANGED readers
       \/ Waiting(entry) /\ Hopeless(h)
          /\ ActorTo(h, "ending") /\ UNCHANGED readers
       \/ Waiting(entry) /\ ~Hopeless(h) /\ Resolve(h)
    /\ UNCHANGED <<lock, stored, messages, source, event, entry, tasks, sweep>>

\* Mutant of LeaveWaiting: an entry that still waits is resumed all the same.
ResumeEarly(h) ==
    /\ Resolved(h, {"pending", "error", "killed"})
    /\ entry' = IF Waiting(entry) THEN Planned(FALSE) ELSE entry
    /\ ActorTo(h, IF Waiting(entry) THEN "sending" ELSE "over")
    /\ UNCHANGED <<translationVars, source, event, tasks, sweep>>

\* _resume_one: still waiting, or the resolution raised and was swallowed.
LeaveWaiting(h) ==
    /\ Resolved(h, {"pending", "error", "killed"})
    /\ ActorTo(h, "over")
    /\ UNCHANGED <<translationVars, source, event, entry, tasks, sweep>>

\* claim_awaiting_artifact: whoever clears the deadline owns the message.
ClaimWait(h) ==
    /\ Resolved(h, {"readable"})
    /\ IF Waiting(entry)
       THEN entry' = Planned(FALSE) /\ ActorTo(h, "sending")
       ELSE UNCHANGED entry /\ ActorTo(h, "over")
    /\ UNCHANGED <<translationVars, source, event, tasks, sweep>>

\* fail_awaiting_artifact, for a wait that cannot end well.
EndWait(h) ==
    /\ ActorAt(h, "ending") \/ Resolved(h, {"refused"})
    /\ entry' = IF Waiting(entry) THEN FailedEntry ELSE entry
    /\ ActorTo(h, "over")
    /\ UNCHANGED <<translationVars, source, event, tasks, sweep>>

\* The worker acknowledges its message when its hook is over.
HookEnds(m) ==
    /\ messages[m].phase \in {"resuming", "refusing"}
    /\ actors[m] \in {"over", "error"}
    /\ MessageTo(m, "gone")
    /\ UNCHANGED <<lock, stored, readers, artifactVars>>

SendTask(a) ==
    /\ ActorAt(a, "sending")
    /\ \E g \in Tasks :
          /\ TaskAt(g, "unsent")
          /\ TaskTo(g, "queued")
    /\ ActorTo(a, "over")
    /\ UNCHANGED <<translationVars, source, event, entry, sweep>>

\* The queue may have taken the message.
SendTaskRaises(a) ==
    /\ "artifactSend" \in Faults
    /\ ActorAt(a, "sending")
    /\ \/ UNCHANGED tasks
       \/ \E g \in Tasks : TaskAt(g, "unsent") /\ TaskTo(g, "queued")
    /\ ActorTo(a, "unsent")
    /\ UNCHANGED <<translationVars, source, event, entry, sweep>>

\* Mutant of FailUnsent: the failed send is only logged.
LogUnsent(a) ==
    /\ ActorAt(a, "unsent")
    /\ ActorTo(a, "error")
    /\ UNCHANGED <<translationVars, source, event, entry, tasks, sweep>>

\* fail_artifact_generation: the row is written whatever it says.
FailUnsent(a) ==
    /\ ActorAt(a, "unsent")
    /\ entry' = FailedEntry
    /\ ActorTo(a, "error")
    /\ UNCHANGED <<translationVars, source, event, tasks, sweep>>

\* Killed after its write and before its message; anywhere else a killed
\* request is one that was turned down.
KillRequest(r) ==
    /\ "kill" \in Faults
    /\ ActorAt(r, "sending")
    /\ ActorTo(r, "over")
    /\ UNCHANGED <<translationVars, source, event, entry, tasks, sweep>>

\* The same for a hook, whose event or message is delivered again.
KillHook(h) ==
    /\ "kill" \in Faults
    /\ ActorAt(h, "sending")
    /\ ActorTo(h, "idle")
    /\ readers' = [readers EXCEPT ![h] = NoReading]
    /\ IF h = OnMedia THEN UNCHANGED messages ELSE Redeliver(h)
    /\ UNCHANGED <<lock, stored, source, event, entry, tasks, sweep>>

ActorStep(a) ==
    \/ a \in Requests /\ (TurnDown(a) \/ Plan(a) \/ EndOverdue(a) \/ Commit(a))
    \/ a \in Hooks /\ (ListWaiting(a) \/ LeaveWaiting(a) \/ ClaimWait(a) \/ EndWait(a))
    \/ a \in Messages /\ HookEnds(a)
    \/ SendTask(a) \/ FailUnsent(a)

-----------------------------------------------------------------------------
(* The media, the deadline and the generator                               *)

SourceEnds ==
    /\ source = "preparing"
    /\ \E outcome \in {"readable", "failed"} :
          /\ source' = outcome
          /\ event' = IF outcome = "readable" THEN "success" ELSE "failure"
    /\ UNCHANGED <<translationVars, entry, actors, tasks, sweep>>

DeadlinePasses ==
    /\ entry.status = "queued" /\ entry.waits = "waiting"
    /\ entry' = [entry EXCEPT !.waits = "overdue"]
    /\ UNCHANGED <<translationVars, source, event, actors, tasks, sweep>>

\* end_overdue_waits and the reconciliation read the deadline, then write under
\* the condition that the entry waits.
SweepReads ==
    /\ sweep = "idle"
    /\ entry.status = "queued" /\ entry.waits = "overdue"
    /\ sweep' = "found"
    /\ UNCHANGED <<translationVars, source, event, entry, actors, tasks>>

\* Mutant of SweepEnds: the write asks for nothing.
SweepEndsAnything ==
    /\ sweep = "found"
    /\ entry' = FailedEntry
    /\ sweep' = "idle"
    /\ UNCHANGED <<translationVars, source, event, actors, tasks>>

SweepEnds ==
    /\ sweep = "found"
    /\ entry' = IF Waiting(entry) THEN FailedEntry ELSE entry
    /\ sweep' = "idle"
    /\ UNCHANGED <<translationVars, source, event, actors, tasks>>

\* claim_artifact_generation: declined, the message is acknowledged.
ClaimTask(g) ==
    /\ TaskAt(g, "queued")
    /\ LET claimed == MayClaimGeneration(entry)
       IN  /\ entry' = IF claimed THEN [entry EXCEPT !.status = "generating", !.lease = "live"]
                                  ELSE entry
           /\ tasks' = [tasks EXCEPT ![g] = [phase    |-> IF claimed THEN "generating" ELSE "gone",
                                             receives |-> @.receives + 1]]
    /\ UNCHANGED <<translationVars, source, event, actors, sweep>>

CompleteTask(g) ==
    /\ TaskAt(g, "generating")
    /\ entry' = [entry EXCEPT !.status = "ready", !.lease = "none"]
    /\ TaskTo(g, "gone")
    /\ UNCHANGED <<translationVars, source, event, actors, sweep>>

\* Any exception fails the entry; a permanent refusal acknowledges the
\* message, anything else has it delivered again.
TaskRaises(g) ==
    /\ "generator" \in Faults
    /\ TaskAt(g, "generating")
    /\ entry' = FailedEntry
    /\ TaskAgain(g) \/ TaskTo(g, "gone")
    /\ UNCHANGED <<translationVars, source, event, actors, sweep>>

KillGenerator(g) ==
    /\ "kill" \in Faults
    /\ TaskAt(g, "generating")
    /\ TaskAgain(g)
    /\ UNCHANGED <<translationVars, source, event, entry, actors, sweep>>

\* A lease lasts as long as the generator's Lambda may run: it expires on a
\* dead one only.
LeaseExpires ==
    /\ entry.lease = "live"
    /\ \A g \in Tasks : ~TaskAt(g, "generating")
    /\ entry' = [entry EXCEPT !.lease = "expired"]
    /\ UNCHANGED <<translationVars, source, event, actors, tasks, sweep>>

-----------------------------------------------------------------------------
(* Specification                                                           *)

Init ==
    /\ TranslationInit
    /\ source = "preparing"
    /\ event = "none"
    /\ entry = NoEntry
    /\ actors = [a \in Readers |-> "idle"]
    /\ tasks = [g \in Tasks |-> [phase |-> "unsent", receives |-> 0]]
    /\ sweep = "idle"

Next ==
    \/ TranslationStep /\ UNCHANGED artifactVars
    \/ \E r \in Requests : Ask(r) \/ KillRequest(r)
    \/ \E h \in Hooks : KillHook(h)
    \/ \E a \in Readers : ActorStep(a) \/ SendTaskRaises(a)
    \/ SourceEnds \/ DeadlinePasses \/ SweepReads \/ SweepEnds \/ LeaseExpires
    \/ \E g \in Tasks : ClaimTask(g) \/ CompleteTask(g) \/ TaskRaises(g) \/ KillGenerator(g)

Spec == Init /\ [][Next]_vars

\* What has started goes on, the clock runs, overdue waits are looked for again
\* and again, and the generator's queue is served.
Fairness ==
    /\ \A a \in Readers : WF_vars(ActorStep(a)) /\ WF_vars(ReaderStep(a) /\ UNCHANGED artifactVars)
    /\ WF_vars(DeadlinePasses) /\ WF_vars(SweepReads) /\ WF_vars(SweepEnds)
    /\ \A g \in Tasks : WF_vars(ClaimTask(g)) /\ WF_vars(CompleteTask(g))

LiveSpec == Spec /\ Fairness

-----------------------------------------------------------------------------
(* Properties                                                              *)

\* Every variable keeps its type.
TypeOK ==
    /\ TranslationTypeOK
    /\ source \in {"preparing", "readable", "failed"}
    /\ event \in {"none", "success", "failure"}
    /\ entry \in Entry
    /\ actors \in [Readers -> ActorSteps]
    /\ tasks \in [Tasks -> [phase : TaskPhases, receives : 0 .. MaxReceives]]
    /\ sweep \in {"idle", "found"}

\* A send that failed writes over whoever holds the row by then.
NoSendFailed == \A a \in Readers : readers[a].pc # "error" /\ actors[a] # "error"

\* One message at a time calls the model, and only for a text nobody has made
\* yet, whatever is delivered again, as long as no send failed.
OneTranslator ==
    NoSendFailed =>
        \A m \in Messages : MessageAt(m, "calling") =>
            /\ ~stored
            /\ \A n \in Messages \ {m} : ~MessageAt(n, "calling")

\* A translation that is done can be read.
DoneIsStored == lock.status = "done" => stored

\* One generator at a time, as long as no send failed.
OneGenerator ==
    NoSendFailed =>
        \A g, h \in Tasks : TaskAt(g, "generating") /\ TaskAt(h, "generating") => g = h

\* A generation is only ever sent over a text that exists.
SentIsReadable ==
    (\E g \in Tasks : ~TaskAt(g, "unsent")) => source = "readable" /\ stored

\* complete_artifact_generation: a ready entry is never written again, as long
\* as no send failed.
ReadyIsSealed == [][NoSendFailed' /\ entry.status = "ready" => entry'.status = "ready"]_vars

\* The ends of waits (deadline, refusal, failed media) never fail a generation
\* that was enqueued.
WaitEndsSpareGenerations ==
    [][entry.status \in {"queued", "generating"} /\ ~Waiting(entry) /\ entry'.status = "failed"
          => \/ \E g \in Tasks : TaskAt(g, "generating") /\ tasks'[g] # tasks[g]
             \/ \E a \in Readers : ActorAt(a, "unsent")]_vars

\* plan_artifact_generation's promise to whoever was answered "queued": the
\* artifact is ready or failed in the end, whatever wake-up is lost, as long as
\* nobody is killed.
RequestIsAnswered ==
    entry.status \in {"queued", "generating"} ~> entry.status \in {"ready", "failed"}
=============================================================================
