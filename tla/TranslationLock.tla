-------------------------- MODULE TranslationLock --------------------------
(***************************************************************************)
(* The translation of one transcript into one language: the row of         *)
(* translation_idempotence that serialises it, the readers that reserve    *)
(* it, and the worker that performs it.                                    *)
(*                                                                         *)
(* A reader is one resolution of the text: a page of the application       *)
(* (raw_content_service) or the resolution of an artifact's source         *)
(* (resolve_or_enqueue_translated_transcript).  Whoever wins the           *)
(* reservation sends one message; a message is claimed under its own SQS   *)
(* id, may fail and be delivered again, and may be overtaken by a message  *)
(* of a later reservation.  The row has no expiry of its own.              *)
(***************************************************************************)
EXTENDS Naturals, FiniteSets

CONSTANTS
    Readers,
    Pages,                  \* the readers that are pages of the application
    Messages,               \* the translation messages that can be sent
    NoOwner,
    MaxReceives,            \* deliveries of a message before the dead letter queue
    Faults                  \* the faults that may happen; the kinds read here:
                            \*   "read"   a read of the row raises
                            \*   "send"   a send raises, or its reader is killed before it
                            \*   "worker" a worker step raises or its Lambda is killed

ASSUME ReadersAssumption == Pages \subseteq Readers
ASSUME NoOwnerAssumption == NoOwner \notin Messages
ASSUME ReceivesAssumption == MaxReceives \in Nat \ {0}

VARIABLES
    lock,                   \* the row of the couple (transcript, language)
    stored,                 \* the translated object exists
    messages,
    readers

translationVars == <<lock, stored, messages, readers>>

-----------------------------------------------------------------------------
(* The row                                                                 *)

\* "absent": no row.  kind is the failure_kind attribute; a permanent kind
\* becomes "cooled" when PERMANENT_FAILURE_RETRY_AFTER_SECONDS have passed
\* since the refusal.
LockStatuses == {"absent", "queued", "in_progress", "done", "failed"}
Kinds == {"none", "transient", "permanent", "cooled"}

Locks == [status : LockStatuses, kind : Kinds, owner : Messages \cup {NoOwner}]

NoLock == [status |-> "absent", kind |-> "none", owner |-> NoOwner]

InFlight(l) == l.status \in {"queued", "in_progress"}
TerminallyFailed(l) == l.status = "failed" /\ l.kind = "permanent"

\* The condition of reserve_translation.
MayReserve(l, allowDone) ==
    \/ l.status = "absent"
    \/ l.status = "failed" /\ l.kind # "permanent"
    \/ allowDone /\ l.status = "done"

\* Mutant of MayClaim: the owner is not compared.
MayClaimOwned(l, m) == l.status \in {"queued", "failed", "in_progress"}

\* The condition of mark_translation_in_progress.
MayClaim(l, m) ==
    \/ l.status \in {"queued", "failed"}
    \/ l.status = "in_progress" /\ l.owner = m

Queued == [NoLock EXCEPT !.status = "queued"]
Failed(l, kind) == [l EXCEPT !.status = "failed", !.kind = kind, !.owner = NoOwner]
Done(l) == [l EXCEPT !.status = "done", !.kind = "none", !.owner = NoOwner]

-----------------------------------------------------------------------------
(* Readers                                                                 *)

\* looking - a resolution was started;   seen - the row was read
\* missing - the text is not there and nobody seems to be making it
\* reserved, unsent, contended - after the reservation
\* readable, pending, refused, error - what the resolution answered
ReaderSteps ==
    {"idle", "looking", "seen", "missing", "reserved", "unsent", "contended",
     "readable", "pending", "refused", "error", "killed"}
Answers == {"readable", "pending", "refused", "error", "killed"}

NoReading == [pc |-> "idle", seen |-> NoLock]

Answer(r, answer) == readers' = [readers EXCEPT ![r] = [NoReading EXCEPT !.pc = answer]]
ReaderAt(r, pc) == readers[r].pc = pc
ReaderTo(r, pc) == readers' = [readers EXCEPT ![r].pc = pc]

\* get_translation_lock; a read that raises counts as no row.
ReadLock(r) ==
    /\ ReaderAt(r, "looking")
    /\ \E l \in {lock} \cup (IF "read" \in Faults THEN {NoLock} ELSE {}) :
          readers' = [readers EXCEPT ![r] = [pc |-> "seen", seen |-> l]]
    /\ UNCHANGED <<lock, stored, messages>>

\* The artifact's resolution looks for the object first, a page only when the
\* row does not already answer.
LookForText(r) ==
    LET seen == readers[r].seen
        decided == InFlight(seen) \/ TerminallyFailed(seen)
    IN  /\ ReaderAt(r, "seen")
        /\ IF stored /\ ~(r \in Pages /\ decided) THEN Answer(r, "readable")
           ELSE IF InFlight(seen) THEN Answer(r, "pending")
           ELSE IF TerminallyFailed(seen) THEN Answer(r, "refused")
           ELSE ReaderTo(r, "missing")
        /\ UNCHANGED <<lock, stored, messages>>

\* A done row whose object was not found may be reserved again.
ReserveTranslation(r) ==
    /\ ReaderAt(r, "missing")
    /\ IF MayReserve(lock, readers[r].seen.status = "done")
       THEN lock' = Queued /\ ReaderTo(r, "reserved")
       ELSE UNCHANGED lock /\ ReaderTo(r, "contended")
    /\ UNCHANGED <<stored, messages>>

\* A refused reservation: a page answers pending, a resolution reads again.
Reread(r) ==
    /\ ReaderAt(r, "contended")
    /\ Answer(r, IF r \notin Pages /\ TerminallyFailed(lock) THEN "refused" ELSE "pending")
    /\ UNCHANGED <<lock, stored, messages>>

SendTranslation(r) ==
    /\ ReaderAt(r, "reserved")
    /\ \E m \in Messages :
          /\ messages[m].phase = "unsent"
          /\ messages' = [messages EXCEPT ![m].phase = "queued"]
    /\ Answer(r, "pending")
    /\ UNCHANGED <<lock, stored>>

SendRaises(r) ==
    /\ "send" \in Faults
    /\ ReaderAt(r, "reserved")
    /\ ReaderTo(r, "unsent")
    /\ UNCHANGED <<lock, stored, messages>>

\* The row is failed without a condition: whoever holds it by now.
MarkUnsent(r) ==
    /\ ReaderAt(r, "unsent")
    /\ lock' = Failed(lock, "transient")
    /\ Answer(r, IF r \in Pages THEN "refused" ELSE "error")
    /\ UNCHANGED <<stored, messages>>

\* The reader is killed between its reservation and its message: nothing ever
\* moves the row again.
KillReader(r) ==
    /\ "send" \in Faults
    /\ readers[r].pc \in {"reserved", "unsent"}
    /\ Answer(r, "killed")
    /\ UNCHANGED <<lock, stored, messages>>

ReaderStep(r) ==
    \/ ReadLock(r) \/ LookForText(r) \/ ReserveTranslation(r) \/ Reread(r)
    \/ SendTranslation(r) \/ SendRaises(r) \/ MarkUnsent(r) \/ KillReader(r)

-----------------------------------------------------------------------------
(* The worker                                                              *)

\* received - delivered;   claimed - the row is its own;   checked - the row
\* was read again;   calling - the model is translating;   finishing - the
\* text is there;   resuming, refusing - the row is written, the hook that
\* wakes the waiting artifacts is left to run;   gone - acknowledged
MessagePhases ==
    {"unsent", "queued", "received", "claimed", "checked", "calling",
     "finishing", "resuming", "refusing", "gone", "dead"}

MessageAt(m, phase) == messages[m].phase = phase
MessageTo(m, phase) == messages' = [messages EXCEPT ![m].phase = phase]

\* Mutant of Redeliver: no dead letter queue.
RedeliverForever(m) == MessageTo(m, "queued")

Redeliver(m) == MessageTo(m, IF messages[m].receives < MaxReceives THEN "queued" ELSE "dead")

ReceiveTranslation(m) ==
    /\ MessageAt(m, "queued")
    /\ messages' = [messages EXCEPT ![m] = [phase |-> "received", receives |-> @.receives + 1]]
    /\ UNCHANGED <<lock, stored, readers>>

ClaimTranslation(m) ==
    /\ MessageAt(m, "received")
    /\ IF MayClaim(lock, m)
       THEN /\ lock' = [lock EXCEPT !.status = "in_progress", !.owner = m]
            /\ MessageTo(m, "claimed")
       ELSE UNCHANGED lock /\ MessageTo(m, "gone")
    /\ UNCHANGED <<stored, readers>>

\* The transcript is downloaded and the row read again; a read that raises
\* counts as no row.
CheckLock(m) ==
    /\ MessageAt(m, "claimed")
    /\ "read" \in Faults \/ ~InFlight(lock) \/ lock.owner = m
    /\ MessageTo(m, "checked")
    /\ UNCHANGED <<lock, stored, readers>>

\* What the row says belongs to somebody else: the attempt fails, and fails
\* the row with it.
LockWasTaken(m) ==
    /\ MessageAt(m, "claimed")
    /\ InFlight(lock) /\ lock.owner # m
    /\ lock' = Failed(lock, "transient")
    /\ Redeliver(m)
    /\ UNCHANGED <<stored, readers>>

\* An object that is already there is not translated again.
LookBeforeCall(m) ==
    /\ MessageAt(m, "checked")
    /\ MessageTo(m, IF stored THEN "finishing" ELSE "calling")
    /\ UNCHANGED <<lock, stored, readers>>

StoreTranslation(m) ==
    /\ MessageAt(m, "calling")
    /\ stored' = TRUE
    /\ MessageTo(m, "finishing")
    /\ UNCHANGED <<lock, readers>>

\* _translate_with_retry gave up: the refusal is recorded and the message
\* acknowledged.  Only a permanent one ends the waits.
RefuseTranslation(m) ==
    /\ MessageAt(m, "calling")
    /\ \E kind \in {"transient", "permanent"} :
          /\ lock' = Failed(lock, kind)
          /\ MessageTo(m, IF kind = "permanent" THEN "refusing" ELSE "gone")
    /\ UNCHANGED <<stored, readers>>

\* Mutant of MarkDone: the row is written before the upload.
MarkDoneFirst(m) ==
    /\ messages[m].phase \in {"calling", "finishing"}
    /\ lock' = Done(lock)
    /\ MessageTo(m, IF MessageAt(m, "calling") THEN "calling" ELSE "resuming")
    /\ UNCHANGED <<stored, readers>>

MarkDone(m) ==
    /\ MessageAt(m, "finishing")
    /\ lock' = Done(lock)
    /\ MessageTo(m, "resuming")
    /\ UNCHANGED <<stored, readers>>

\* A download, the upload or anything unexpected raises: the row is failed,
\* the message delivered again.
AttemptRaises(m) ==
    /\ "worker" \in Faults
    /\ messages[m].phase \in {"claimed", "checked", "calling"}
    /\ lock' = Failed(lock, "transient")
    /\ Redeliver(m)
    /\ UNCHANGED <<stored, readers>>

\* Killed, or a write of the row raised: delivered again, the row as it was.
KillWorker(m) ==
    /\ "worker" \in Faults
    /\ messages[m].phase \in {"received", "claimed", "checked", "calling", "finishing"}
    /\ Redeliver(m)
    /\ UNCHANGED <<lock, stored, readers>>

WorkerRuns(m) ==
    \/ ReceiveTranslation(m) \/ ClaimTranslation(m) \/ CheckLock(m)
    \/ LockWasTaken(m) \/ LookBeforeCall(m) \/ StoreTranslation(m)
    \/ RefuseTranslation(m) \/ MarkDone(m)

\* PERMANENT_FAILURE_RETRY_AFTER_SECONDS pass since the refusal.
Cooldown ==
    /\ TerminallyFailed(lock)
    /\ lock' = [lock EXCEPT !.kind = "cooled"]
    /\ UNCHANGED <<stored, messages, readers>>

TranslationStep ==
    \/ \E r \in Readers : ReaderStep(r)
    \/ \E m \in Messages : WorkerRuns(m) \/ AttemptRaises(m) \/ KillWorker(m)
    \/ Cooldown

TranslationInit ==
    /\ lock = NoLock
    /\ stored = FALSE
    /\ messages = [m \in Messages |-> [phase |-> "unsent", receives |-> 0]]
    /\ readers = [r \in Readers |-> NoReading]

TranslationTypeOK ==
    /\ lock \in Locks
    /\ stored \in BOOLEAN
    /\ messages \in [Messages -> [phase : MessagePhases, receives : 0 .. MaxReceives]]
    /\ readers \in [Readers -> [pc : ReaderSteps, seen : Locks]]
=============================================================================
