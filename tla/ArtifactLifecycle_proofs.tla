---------------------- MODULE ArtifactLifecycle_proofs ----------------------
(***************************************************************************)
(* The safety theorems of ArtifactLifecycle, for any number of requests,   *)
(* translation and generation messages, any number of deliveries and every *)
(* combination of faults.                                                  *)
(*                                                                         *)
(* What holds always (a text that is announced exists, a generation is     *)
(* only sent over a text) is kept apart from what holds until a send fails *)
(* (one holder of the translation lock, one holder of the lease): the rows *)
(* are then written over whoever holds them.                               *)
(***************************************************************************)
EXTENDS ArtifactLifecycle, TLAPS

MessageRecords == [phase : MessagePhases, receives : 0 .. MaxReceives]
ReaderRecords == [pc : ReaderSteps, seen : Locks]
TaskRecords == [phase : TaskPhases, receives : 0 .. MaxReceives]

\* What may still be delivered has a delivery left.
DeliveriesAreLeft ==
    /\ \A m \in Messages :
          messages[m].phase \in {"unsent", "queued"} => messages[m].receives < MaxReceives
    /\ \A g \in Tasks :
          tasks[g].phase \in {"unsent", "queued"} => tasks[g].receives < MaxReceives

\* The steps of a reader that needs the media's own text, and those that it has
\* not answered from yet.
Working == {"looking", "seen", "missing", "reserved", "unsent", "contended"}

\* A reader has a text to read, and answers that it is there only when it is.
ReadersReadTheSource ==
    \A a \in Readers :
        /\ readers[a].pc \in Working \cup {"readable"} => source = "readable"
        /\ readers[a].pc = "readable" => stored

\* What a request or a hook does fits what its reader answered.
ActorsFollowReaders ==
    \A a \in Readers :
        /\ actors[a] = "idle" => readers[a].pc = "idle"
        /\ readers[a].pc \in Working => actors[a] = "resolving"
        /\ readers[a].pc = "error" => actors[a] \in {"resolving", "over"}
        /\ actors[a] \in {"overdue", "creating", "reclaiming"}
              => readers[a].pc \in {"pending", "readable"}
        /\ actors[a] \in {"sending", "unsent"} => readers[a].pc = "readable"

FinishedIsStored == \A m \in Messages : messages[m].phase = "finishing" => stored

\* The messages between their claim and their outcome.
Holding == {"claimed", "checked", "calling", "finishing"}

\* Until a send fails, whoever works on the translation holds its row, and
\* translates what nobody has stored.
HolderOwnsLock ==
    NoSendFailed =>
        \A m \in Messages :
            /\ messages[m].phase \in Holding
                  => lock.status = "in_progress" /\ lock.owner = m
            /\ messages[m].phase = "calling" => ~stored

\* Until a send fails, the running generation holds the lease.
GeneratorHoldsLease ==
    /\ NoSendFailed => \A g \in Tasks : tasks[g].phase = "generating"
          => entry.status = "generating" /\ entry.lease = "live"
    /\ OneGenerator

\* The three parts of the inductive invariant: the types, what is announced,
\* and who holds the two rows.
Typed == TypeOK /\ DeliveriesAreLeft

Truthful ==
    /\ ReadersReadTheSource
    /\ ActorsFollowReaders
    /\ FinishedIsStored
    /\ DoneIsStored
    /\ SentIsReadable

Exclusive == HolderOwnsLock /\ GeneratorHoldsLease

IInv == Typed /\ Truthful /\ Exclusive

-----------------------------------------------------------------------------
(* What the writes do                                                      *)

\* The values the lock is given.
LEMMA LockValues ==
    ASSUME lock \in Locks
    PROVE  /\ NoLock \in Locks
           /\ Queued \in Locks /\ Queued.status = "queued"
           /\ Done(lock) \in Locks /\ Done(lock).status = "done"
           /\ \A kind \in {"transient", "permanent"} :
                 Failed(lock, kind) \in Locks /\ Failed(lock, kind).status = "failed"
           /\ [lock EXCEPT !.kind = "cooled"] \in Locks
  BY DEF Locks, LockStatuses, Kinds, NoLock, Queued, Done, Failed

\* A claim names its message.
LEMMA ClaimedLock ==
    ASSUME lock \in Locks, NEW m \in Messages,
           lock' = [lock EXCEPT !.status = "in_progress", !.owner = m]
    PROVE  lock' \in Locks /\ lock'.status = "in_progress" /\ lock'.owner = m
  BY DEF Locks, LockStatuses

\* A reader moves alone; so do a message, a task and an actor.
LEMMA ReaderMoves ==
    ASSUME readers \in [Readers -> ReaderRecords], NEW r \in Readers, NEW pc \in ReaderSteps,
           Answer(r, pc) \/ ReaderTo(r, pc)
    PROVE  /\ readers' \in [Readers -> ReaderRecords]
           /\ readers'[r].pc = pc
           /\ \A q \in Readers : q # r => readers'[q] = readers[q]
<1>1. NoReading \in ReaderRecords
  BY DEF NoReading, NoLock, Locks, LockStatuses, Kinds, ReaderRecords, ReaderSteps
<1>. QED  BY <1>1 DEF Answer, ReaderTo, ReaderRecords

LEMMA MessageMoves ==
    ASSUME messages \in [Messages -> MessageRecords], NEW m \in Messages,
           NEW phase \in MessagePhases, MessageTo(m, phase)
    PROVE  /\ messages' \in [Messages -> MessageRecords]
           /\ messages'[m].phase = phase /\ messages'[m].receives = messages[m].receives
           /\ \A n \in Messages : n # m => messages'[n] = messages[n]
  BY DEF MessageTo, MessageRecords

LEMMA MessageAgain ==
    ASSUME messages \in [Messages -> MessageRecords], NEW m \in Messages, Redeliver(m)
    PROVE  /\ messages' \in [Messages -> MessageRecords]
           /\ messages'[m].phase \in {"queued", "dead"}
           /\ messages'[m].phase = "queued" => messages'[m].receives < MaxReceives
           /\ \A n \in Messages : n # m => messages'[n] = messages[n]
<1>1. PICK phase \in {"queued", "dead"} :
         /\ MessageTo(m, phase)
         /\ phase = "queued" => messages[m].receives < MaxReceives
  BY DEF Redeliver
<1>. QED  BY <1>1, MessageMoves DEF MessagePhases

LEMMA TaskMoves ==
    ASSUME tasks \in [Tasks -> TaskRecords], NEW g \in Tasks, NEW phase \in TaskPhases,
           TaskTo(g, phase)
    PROVE  /\ tasks' \in [Tasks -> TaskRecords]
           /\ tasks'[g].phase = phase /\ tasks'[g].receives = tasks[g].receives
           /\ \A h \in Tasks : h # g => tasks'[h] = tasks[h]
  BY DEF TaskTo, TaskRecords

LEMMA TaskIsOver ==
    ASSUME tasks \in [Tasks -> TaskRecords], NEW g \in Tasks, TaskAgain(g) \/ TaskTo(g, "gone")
    PROVE  /\ tasks' \in [Tasks -> TaskRecords]
           /\ tasks'[g].phase \in {"queued", "gone"}
           /\ tasks'[g].phase = "queued" => tasks'[g].receives < MaxReceives
           /\ \A h \in Tasks : h # g => tasks'[h] = tasks[h]
<1>1. PICK phase \in {"queued", "gone"} :
         /\ TaskTo(g, phase)
         /\ phase = "queued" => tasks[g].receives < MaxReceives
  BY DEF TaskAgain
<1>. QED  BY <1>1, TaskMoves DEF TaskPhases

LEMMA ActorMoves ==
    ASSUME actors \in [Readers -> ActorSteps], NEW a \in Readers, NEW pc \in ActorSteps,
           ActorTo(a, pc)
    PROVE  /\ actors' \in [Readers -> ActorSteps]
           /\ actors'[a] = pc
           /\ \A b \in Readers : b # a => actors'[b] = actors[b]
  BY DEF ActorTo

\* Whose resolution is whose.
LEMMA HooksAreReaders ==
    /\ \A m \in Messages : m \in Readers /\ m # OnMedia
    /\ \A r \in Requests : r \in Readers
    /\ \A h \in Hooks : h \in Readers
    /\ \A h \in Hooks : h # OnMedia => h \in Messages
    /\ Pages = {}
  BY ReadersAreActors, ActorsAreDistinct DEF Hooks

\* The values the entry is given.
LEMMA EntryValues ==
    ASSUME entry \in Entry
    PROVE  /\ FailedEntry \in Entry /\ FailedEntry.status = "failed"
           /\ \A awaits \in BOOLEAN :
                 Planned(awaits) \in Entry /\ Planned(awaits).status = "queued"
           /\ [entry EXCEPT !.waits = "overdue"] \in Entry
           /\ [entry EXCEPT !.waits = "overdue"].status = entry.status
           /\ [entry EXCEPT !.lease = "expired"] \in Entry
           /\ [entry EXCEPT !.lease = "expired"].status = entry.status
           /\ [entry EXCEPT !.status = "ready", !.lease = "none"] \in Entry
           /\ [entry EXCEPT !.status = "generating", !.lease = "live"] \in Entry
           /\ [entry EXCEPT !.status = "generating", !.lease = "live"].status = "generating"
           /\ [entry EXCEPT !.status = "generating", !.lease = "live"].lease = "live"
  BY DEF Entry, FailedEntry, Planned, NoEntry

\* A resolution starts from the text of the media.
LEMMA Resolves ==
    ASSUME readers \in [Readers -> ReaderRecords], actors \in [Readers -> ActorSteps],
           source \in {"preparing", "readable", "failed"}, NEW a \in Readers, Resolve(a)
    PROVE  /\ readers' \in [Readers -> ReaderRecords] /\ actors' \in [Readers -> ActorSteps]
           /\ actors'[a] = "resolving"
           /\ readers'[a].pc \in {"looking", "pending", "refused"}
           /\ readers'[a].pc = "looking" => source = "readable"
           /\ \A b \in Readers : b # a => readers'[b] = readers[b] /\ actors'[b] = actors[b]
<1>1. PICK answer \in {"looking", "pending", "refused"} :
         Answer(a, answer) /\ (answer = "looking" => source = "readable")
  BY DEF Resolve
<1>. QED  BY <1>1, ReaderMoves, ActorMoves DEF Resolve, ReaderSteps, ActorSteps

-----------------------------------------------------------------------------
(* The steps that do more than move one record                             *)

\* The types, one by one.
LEMMA TypesNow ==
    ASSUME IInv
    PROVE  /\ lock \in Locks /\ stored \in BOOLEAN
           /\ messages \in [Messages -> MessageRecords]
           /\ readers \in [Readers -> ReaderRecords]
           /\ source \in {"preparing", "readable", "failed"}
           /\ entry \in Entry
           /\ actors \in [Readers -> ActorSteps]
           /\ tasks \in [Tasks -> TaskRecords]
  BY DEF IInv, Typed, TypeOK, TranslationTypeOK, MessageRecords, ReaderRecords, TaskRecords

\* A read of the lock changes what its reader has seen.
LEMMA ReadLockEffect ==
    ASSUME IInv, NEW r \in Readers, ReadLock(r)
    PROVE  /\ readers' \in [Readers -> ReaderRecords]
           /\ readers'[r].pc = "seen" /\ readers[r].pc = "looking"
           /\ \A q \in Readers : q # r => readers'[q] = readers[q]
  BY TypesNow, LockValues DEF ReadLock, ReaderRecords, ReaderSteps, ReaderAt

\* A reader that sends takes an unsent message.
LEMMA SendTranslationEffect ==
    ASSUME IInv, NEW r \in Readers, SendTranslation(r)
    PROVE  /\ readers' \in [Readers -> ReaderRecords]
           /\ readers[r].pc = "reserved" /\ readers'[r].pc = "pending"
           /\ \A q \in Readers : q # r => readers'[q] = readers[q]
           /\ messages' \in [Messages -> MessageRecords]
           /\ \A n \in Messages :
                 \/ messages'[n] = messages[n]
                 \/ /\ messages[n].phase = "unsent" /\ messages'[n].phase = "queued"
                    /\ messages'[n].receives = messages[n].receives
           /\ UNCHANGED <<lock, stored>>
<1>1. PICK m \in Messages : messages[m].phase = "unsent" /\ MessageTo(m, "queued")
  BY DEF SendTranslation, MessageTo
<1>2. /\ messages' \in [Messages -> MessageRecords]
      /\ messages'[m].phase = "queued" /\ messages'[m].receives = messages[m].receives
      /\ \A n \in Messages : n # m => messages'[n] = messages[n]
  BY <1>1, TypesNow, MessageMoves DEF MessagePhases
<1>. QED  BY <1>1, <1>2, TypesNow, ReaderMoves DEF SendTranslation, ReaderAt, ReaderSteps

\* A delivery is counted.
LEMMA ReceiveTranslationEffect ==
    ASSUME IInv, NEW m \in Messages, ReceiveTranslation(m)
    PROVE  /\ messages' \in [Messages -> MessageRecords]
           /\ messages'[m].phase = "received"
           /\ \A n \in Messages : n # m => messages'[n] = messages[n]
  BY ReceivesAssumption, TypesNow
     DEF ReceiveTranslation, MessageAt, IInv, Typed, DeliveriesAreLeft, MessageRecords, MessagePhases

\* The lock is claimed or left alone.
LEMMA ClaimTranslationEffect ==
    ASSUME IInv, NEW m \in Messages, ClaimTranslation(m)
    PROVE  /\ messages' \in [Messages -> MessageRecords]
           /\ messages[m].phase = "received"
           /\ \A n \in Messages : n # m => messages'[n] = messages[n]
           /\ \/ /\ MayClaim(lock, m) /\ messages'[m].phase = "claimed"
                 /\ lock' \in Locks /\ lock'.status = "in_progress" /\ lock'.owner = m
              \/ messages'[m].phase = "gone" /\ UNCHANGED lock
           /\ UNCHANGED <<stored, readers>>
<1>. USE TypesNow DEF ClaimTranslation, MessageAt, MessagePhases
<1>1. CASE MayClaim(lock, m)
  BY <1>1, ClaimedLock, MessageMoves
<1>2. CASE ~MayClaim(lock, m)
  BY <1>2, MessageMoves
<1>. QED  BY <1>1, <1>2

\* A hook resumes an entry that waits or leaves it alone.
LEMMA ClaimWaitEffect ==
    ASSUME IInv, NEW h \in Hooks, ClaimWait(h)
    PROVE  /\ readers[h].pc = "readable" /\ actors[h] = "resolving"
           /\ actors' \in [Readers -> ActorSteps] /\ actors'[h] \in {"sending", "over"}
           /\ \A b \in Readers : b # h => actors'[b] = actors[b]
           /\ entry' \in Entry
           /\ entry' = entry \/ Waiting(entry)
           /\ UNCHANGED <<translationVars, source, event, tasks, sweep>>
<1>. USE TypesNow, HooksAreReaders DEF ClaimWait, Resolved, ActorAt, ActorSteps
<1>1. CASE Waiting(entry)
  BY <1>1, ActorMoves, EntryValues
<1>2. CASE ~Waiting(entry)
  BY <1>2, ActorMoves
<1>. QED  BY <1>1, <1>2

\* A hook that is killed is delivered again or dead.
LEMMA KillHookEffect ==
    ASSUME IInv, NEW h \in Hooks, KillHook(h)
    PROVE  /\ actors[h] = "sending"
           /\ readers' \in [Readers -> ReaderRecords] /\ actors' \in [Readers -> ActorSteps]
           /\ readers'[h].pc = "idle" /\ actors'[h] = "idle"
           /\ \A a \in Readers : a # h => readers'[a] = readers[a] /\ actors'[a] = actors[a]
           /\ messages' \in [Messages -> MessageRecords]
           /\ \A m \in Messages :
                 \/ messages'[m] = messages[m]
                 \/ /\ messages'[m].phase \in {"queued", "dead"}
                    /\ messages'[m].phase = "queued" => messages'[m].receives < MaxReceives
           /\ UNCHANGED <<lock, stored, source, event, entry, tasks, sweep>>
<1>1. /\ messages' \in [Messages -> MessageRecords]
      /\ \A m \in Messages :
            \/ messages'[m] = messages[m]
            \/ /\ messages'[m].phase \in {"queued", "dead"}
               /\ messages'[m].phase = "queued" => messages'[m].receives < MaxReceives
  BY TypesNow, MessageAgain, HooksAreReaders DEF KillHook
<1>2. /\ readers' \in [Readers -> ReaderRecords] /\ readers'[h].pc = "idle"
      /\ \A a \in Readers : a # h => readers'[a] = readers[a]
  BY TypesNow, LockValues, HooksAreReaders DEF KillHook, NoReading, ReaderRecords, ReaderSteps
<1>. QED  BY <1>1, <1>2, TypesNow, HooksAreReaders, ActorMoves DEF KillHook, ActorAt, ActorSteps

\* The lease is claimed or left alone.
LEMMA ClaimTaskEffect ==
    ASSUME IInv, NEW g \in Tasks, ClaimTask(g)
    PROVE  /\ tasks' \in [Tasks -> TaskRecords]
           /\ tasks'[g].phase = IF MayClaimGeneration(entry) THEN "generating" ELSE "gone"
           /\ \A h \in Tasks : h # g => tasks'[h] = tasks[h]
           /\ entry' \in Entry
           /\ MayClaimGeneration(entry) => entry'.status = "generating" /\ entry'.lease = "live"
           /\ ~MayClaimGeneration(entry) => entry' = entry
  BY ReceivesAssumption, TypesNow, EntryValues
     DEF ClaimTask, TaskAt, IInv, Typed, DeliveriesAreLeft, TaskRecords, TaskPhases

-----------------------------------------------------------------------------
(* Every step keeps the invariant: types, what is announced, who holds     *)

\* Types before and after a step.
LEMMA TypesByVariable ==
    /\ TypeOK <=>
          /\ lock \in Locks /\ stored \in BOOLEAN
          /\ messages \in [Messages -> MessageRecords]
          /\ readers \in [Readers -> ReaderRecords]
          /\ source \in {"preparing", "readable", "failed"}
          /\ event \in {"none", "success", "failure"}
          /\ entry \in Entry
          /\ actors \in [Readers -> ActorSteps]
          /\ tasks \in [Tasks -> TaskRecords]
          /\ sweep \in {"idle", "found"}
    /\ TypeOK' <=>
          /\ lock' \in Locks /\ stored' \in BOOLEAN
          /\ messages' \in [Messages -> MessageRecords]
          /\ readers' \in [Readers -> ReaderRecords]
          /\ source' \in {"preparing", "readable", "failed"}
          /\ event' \in {"none", "success", "failure"}
          /\ entry' \in Entry
          /\ actors' \in [Readers -> ActorSteps]
          /\ tasks' \in [Tasks -> TaskRecords]
          /\ sweep' \in {"idle", "found"}
  BY DEF TypeOK, TranslationTypeOK, MessageRecords, ReaderRecords, TaskRecords

\* Every step keeps the types.
LEMMA TypesAreKept ==
    ASSUME IInv, Next
    PROVE  Typed'
<1>. USE TypesNow, TypesByVariable, HooksAreReaders, ReceivesAssumption
     DEF IInv, Typed, DeliveriesAreLeft, translationVars, artifactVars, ReaderAt, MessageAt,
         ActorAt, TaskAt, MessagePhases, ReaderSteps, ActorSteps, TaskPhases
<1>1. ASSUME NEW r \in Readers, ReadLock(r), UNCHANGED artifactVars PROVE Typed'
  BY <1>1, ReadLockEffect DEF ReadLock
<1>2. ASSUME NEW r \in Readers, LookForText(r), UNCHANGED artifactVars PROVE Typed'
  BY <1>2, ReaderMoves DEF LookForText
<1>3. ASSUME NEW r \in Readers, ReserveTranslation(r), UNCHANGED artifactVars
      PROVE Typed'
  BY <1>3, ReaderMoves, LockValues DEF ReserveTranslation
<1>4. ASSUME NEW r \in Readers, Reread(r), UNCHANGED artifactVars PROVE Typed'
  BY <1>4, ReaderMoves DEF Reread
<1>5. ASSUME NEW r \in Readers, SendTranslation(r), UNCHANGED artifactVars
      PROVE Typed'
  BY <1>5, SendTranslationEffect
<1>6. ASSUME NEW r \in Readers, SendRaises(r), UNCHANGED artifactVars PROVE Typed'
  BY <1>6, ReaderMoves DEF SendRaises
<1>7. ASSUME NEW r \in Readers, MarkUnsent(r), UNCHANGED artifactVars PROVE Typed'
  BY <1>7, ReaderMoves, LockValues DEF MarkUnsent
<1>8. ASSUME NEW r \in Readers, KillReader(r), UNCHANGED artifactVars PROVE Typed'
  BY <1>8, ReaderMoves DEF KillReader
<1>9. ASSUME NEW m \in Messages, ReceiveTranslation(m), UNCHANGED artifactVars
      PROVE Typed'
  BY <1>9, ReceiveTranslationEffect DEF ReceiveTranslation
<1>10. ASSUME NEW m \in Messages, ClaimTranslation(m), UNCHANGED artifactVars
       PROVE Typed'
  BY <1>10, ClaimTranslationEffect
<1>11. ASSUME NEW m \in Messages, CheckLock(m), UNCHANGED artifactVars PROVE Typed'
  BY <1>11, MessageMoves DEF CheckLock
<1>12. ASSUME NEW m \in Messages, LockWasTaken(m), UNCHANGED artifactVars
       PROVE Typed'
  BY <1>12, MessageAgain, LockValues DEF LockWasTaken
<1>13. ASSUME NEW m \in Messages, LookBeforeCall(m), UNCHANGED artifactVars
       PROVE Typed'
  BY <1>13, MessageMoves DEF LookBeforeCall
<1>14. ASSUME NEW m \in Messages, StoreTranslation(m), UNCHANGED artifactVars
       PROVE Typed'
  BY <1>14, MessageMoves DEF StoreTranslation
<1>15. ASSUME NEW m \in Messages, RefuseTranslation(m), UNCHANGED artifactVars
       PROVE Typed'
  BY <1>15, MessageMoves, LockValues DEF RefuseTranslation
<1>16. ASSUME NEW m \in Messages, MarkDone(m), UNCHANGED artifactVars PROVE Typed'
  BY <1>16, MessageMoves, LockValues DEF MarkDone
<1>17. ASSUME NEW m \in Messages, AttemptRaises(m), UNCHANGED artifactVars
       PROVE Typed'
  BY <1>17, MessageAgain, LockValues DEF AttemptRaises
<1>18. ASSUME NEW m \in Messages, KillWorker(m), UNCHANGED artifactVars PROVE Typed'
  BY <1>18, MessageAgain DEF KillWorker
<1>19. ASSUME Cooldown, UNCHANGED artifactVars PROVE Typed'
  BY <1>19, LockValues DEF Cooldown
<1>20. ASSUME NEW r \in Requests, TurnDown(r) PROVE Typed'
  BY <1>20, ActorMoves DEF TurnDown, Resolved
<1>21. ASSUME NEW r \in Requests, Plan(r) PROVE Typed'
  BY <1>21, ActorMoves DEF Plan, Resolved
<1>22. ASSUME NEW r \in Requests, EndOverdue(r) PROVE Typed'
  BY <1>22, ActorMoves, EntryValues DEF EndOverdue
<1>23. ASSUME NEW r \in Requests, Commit(r) PROVE Typed'
  BY <1>23, ActorMoves, EntryValues DEF Commit
<1>24. ASSUME NEW r \in Requests, Ask(r) PROVE Typed'
  BY <1>24, ActorMoves, Resolves DEF Ask
<1>25. ASSUME NEW r \in Requests, KillRequest(r) PROVE Typed'
  BY <1>25, ActorMoves DEF KillRequest
<1>26. ASSUME NEW h \in Hooks, ListWaiting(h) PROVE Typed'
  BY <1>26, ActorMoves, Resolves DEF ListWaiting
<1>27. ASSUME NEW h \in Hooks, LeaveWaiting(h) PROVE Typed'
  BY <1>27, ActorMoves DEF LeaveWaiting, Resolved
<1>28. ASSUME NEW h \in Hooks, ClaimWait(h) PROVE Typed'
  BY <1>28, ClaimWaitEffect
<1>29. ASSUME NEW h \in Hooks, EndWait(h) PROVE Typed'
  BY <1>29, ActorMoves, EntryValues DEF EndWait, Resolved
<1>30. ASSUME NEW h \in Hooks, KillHook(h) PROVE Typed'
  BY <1>30, KillHookEffect
<1>31. ASSUME NEW m \in Messages, HookEnds(m) PROVE Typed'
  BY <1>31, MessageMoves DEF HookEnds, artifactVars
<1>32. ASSUME NEW a \in Readers, SendTask(a) PROVE Typed'
  BY <1>32, ActorMoves, TaskMoves DEF SendTask
<1>33. ASSUME NEW a \in Readers, SendTaskRaises(a) PROVE Typed'
  BY <1>33, ActorMoves, TaskMoves DEF SendTaskRaises
<1>34. ASSUME NEW a \in Readers, FailUnsent(a) PROVE Typed'
  BY <1>34, ActorMoves, EntryValues DEF FailUnsent
<1>35. ASSUME SourceEnds PROVE Typed'
  BY <1>35 DEF SourceEnds
<1>36. ASSUME DeadlinePasses PROVE Typed'
  BY <1>36, EntryValues DEF DeadlinePasses
<1>37. ASSUME SweepReads PROVE Typed'
  BY <1>37 DEF SweepReads
<1>38. ASSUME SweepEnds PROVE Typed'
  BY <1>38, EntryValues DEF SweepEnds
<1>39. ASSUME LeaseExpires PROVE Typed'
  BY <1>39, EntryValues DEF LeaseExpires
<1>40. ASSUME NEW g \in Tasks, ClaimTask(g) PROVE Typed'
  BY <1>40, ClaimTaskEffect DEF ClaimTask
<1>41. ASSUME NEW g \in Tasks, CompleteTask(g) PROVE Typed'
  BY <1>41, TaskIsOver, EntryValues DEF CompleteTask
<1>42. ASSUME NEW g \in Tasks, TaskRaises(g) PROVE Typed'
  BY <1>42, TaskIsOver, EntryValues DEF TaskRaises
<1>43. ASSUME NEW g \in Tasks, KillGenerator(g) PROVE Typed'
  BY <1>43, TaskIsOver DEF KillGenerator
<1>. QED  BY <1>1, <1>2, <1>3, <1>4, <1>5, <1>6, <1>7, <1>8, <1>9, <1>10,
         <1>11, <1>12, <1>13, <1>14, <1>15, <1>16, <1>17, <1>18, <1>19, <1>20,
         <1>21, <1>22, <1>23, <1>24, <1>25, <1>26, <1>27, <1>28, <1>29, <1>30,
         <1>31, <1>32, <1>33, <1>34, <1>35, <1>36, <1>37, <1>38, <1>39, <1>40,
         <1>41, <1>42, <1>43
         DEF Next, TranslationStep, ReaderStep, WorkerRuns, ActorStep

\* Every step keeps what was announced true: texts are never withdrawn.
LEMMA TruthIsKept ==
    ASSUME IInv, Next
    PROVE  Truthful'
<1>. USE TypesNow, HooksAreReaders
     DEF IInv, Truthful, ReadersReadTheSource, ActorsFollowReaders, FinishedIsStored,
         DoneIsStored, SentIsReadable, Working, translationVars, artifactVars, ReaderAt,
         MessageAt, ActorAt, TaskAt, MessagePhases, ReaderSteps, ActorSteps, TaskPhases
<1>1. ASSUME NEW r \in Readers, ReadLock(r), UNCHANGED artifactVars PROVE Truthful'
  BY <1>1, ReadLockEffect DEF ReadLock
<1>2. ASSUME NEW r \in Readers, LookForText(r), UNCHANGED artifactVars
      PROVE Truthful'
  BY <1>2, ReaderMoves DEF LookForText
<1>3. ASSUME NEW r \in Readers, ReserveTranslation(r), UNCHANGED artifactVars
      PROVE Truthful'
  BY <1>3, ReaderMoves, LockValues DEF ReserveTranslation
<1>4. ASSUME NEW r \in Readers, Reread(r), UNCHANGED artifactVars PROVE Truthful'
  BY <1>4, ReaderMoves DEF Reread
<1>5. ASSUME NEW r \in Readers, SendTranslation(r), UNCHANGED artifactVars
      PROVE Truthful'
  BY <1>5, SendTranslationEffect
<1>6. ASSUME NEW r \in Readers, SendRaises(r), UNCHANGED artifactVars
      PROVE Truthful'
  BY <1>6, ReaderMoves DEF SendRaises
<1>7. ASSUME NEW r \in Readers, MarkUnsent(r), UNCHANGED artifactVars
      PROVE Truthful'
  BY <1>7, ReaderMoves, LockValues DEF MarkUnsent
<1>8. ASSUME NEW r \in Readers, KillReader(r), UNCHANGED artifactVars
      PROVE Truthful'
  BY <1>8, ReaderMoves DEF KillReader
<1>9. ASSUME NEW m \in Messages, ReceiveTranslation(m), UNCHANGED artifactVars
      PROVE Truthful'
  BY <1>9, ReceiveTranslationEffect DEF ReceiveTranslation
<1>10. ASSUME NEW m \in Messages, ClaimTranslation(m), UNCHANGED artifactVars
       PROVE Truthful'
  BY <1>10, ClaimTranslationEffect
<1>11. ASSUME NEW m \in Messages, CheckLock(m), UNCHANGED artifactVars
       PROVE Truthful'
  BY <1>11, MessageMoves DEF CheckLock
<1>12. ASSUME NEW m \in Messages, LockWasTaken(m), UNCHANGED artifactVars
       PROVE Truthful'
  BY <1>12, MessageAgain, LockValues DEF LockWasTaken
<1>13. ASSUME NEW m \in Messages, LookBeforeCall(m), UNCHANGED artifactVars
       PROVE Truthful'
  BY <1>13, MessageMoves DEF LookBeforeCall
<1>14. ASSUME NEW m \in Messages, StoreTranslation(m), UNCHANGED artifactVars
       PROVE Truthful'
  BY <1>14, MessageMoves DEF StoreTranslation
<1>15. ASSUME NEW m \in Messages, RefuseTranslation(m), UNCHANGED artifactVars
       PROVE Truthful'
  BY <1>15, MessageMoves, LockValues DEF RefuseTranslation
<1>16. ASSUME NEW m \in Messages, MarkDone(m), UNCHANGED artifactVars
       PROVE Truthful'
  BY <1>16, MessageMoves, LockValues DEF MarkDone
<1>17. ASSUME NEW m \in Messages, AttemptRaises(m), UNCHANGED artifactVars
       PROVE Truthful'
  BY <1>17, MessageAgain, LockValues DEF AttemptRaises
<1>18. ASSUME NEW m \in Messages, KillWorker(m), UNCHANGED artifactVars
       PROVE Truthful'
  BY <1>18, MessageAgain DEF KillWorker
<1>19. ASSUME Cooldown, UNCHANGED artifactVars PROVE Truthful'
  BY <1>19, LockValues DEF Cooldown
<1>20. ASSUME NEW r \in Requests, TurnDown(r) PROVE Truthful'
  BY <1>20, ActorMoves DEF TurnDown, Resolved
<1>21. ASSUME NEW r \in Requests, Plan(r) PROVE Truthful'
  BY <1>21, ActorMoves DEF Plan, Resolved
<1>22. ASSUME NEW r \in Requests, EndOverdue(r) PROVE Truthful'
  BY <1>22, ActorMoves, EntryValues DEF EndOverdue
<1>23. ASSUME NEW r \in Requests, Commit(r) PROVE Truthful'
  BY <1>23, ActorMoves, EntryValues DEF Commit
<1>24. ASSUME NEW r \in Requests, Ask(r) PROVE Truthful'
  BY <1>24, ActorMoves, Resolves DEF Ask
<1>25. ASSUME NEW r \in Requests, KillRequest(r) PROVE Truthful'
  BY <1>25, ActorMoves DEF KillRequest
<1>26. ASSUME NEW h \in Hooks, ListWaiting(h) PROVE Truthful'
  BY <1>26, ActorMoves, Resolves DEF ListWaiting
<1>27. ASSUME NEW h \in Hooks, LeaveWaiting(h) PROVE Truthful'
  BY <1>27, ActorMoves DEF LeaveWaiting, Resolved
<1>28. ASSUME NEW h \in Hooks, ClaimWait(h) PROVE Truthful'
  BY <1>28, ClaimWaitEffect
<1>29. ASSUME NEW h \in Hooks, EndWait(h) PROVE Truthful'
  BY <1>29, ActorMoves, EntryValues DEF EndWait, Resolved
<1>30. ASSUME NEW h \in Hooks, KillHook(h) PROVE Truthful'
  BY <1>30, KillHookEffect
<1>31. ASSUME NEW m \in Messages, HookEnds(m) PROVE Truthful'
  BY <1>31, MessageMoves DEF HookEnds, artifactVars
<1>32. ASSUME NEW a \in Readers, SendTask(a) PROVE Truthful'
  BY <1>32, ActorMoves, TaskMoves DEF SendTask
<1>33. ASSUME NEW a \in Readers, SendTaskRaises(a) PROVE Truthful'
  BY <1>33, ActorMoves, TaskMoves DEF SendTaskRaises
<1>34. ASSUME NEW a \in Readers, FailUnsent(a) PROVE Truthful'
  BY <1>34, ActorMoves, EntryValues DEF FailUnsent
<1>35. ASSUME SourceEnds PROVE Truthful'
  BY <1>35 DEF SourceEnds
<1>36. ASSUME DeadlinePasses PROVE Truthful'
  BY <1>36, EntryValues DEF DeadlinePasses
<1>37. ASSUME SweepReads PROVE Truthful'
  BY <1>37 DEF SweepReads
<1>38. ASSUME SweepEnds PROVE Truthful'
  BY <1>38, EntryValues DEF SweepEnds
<1>39. ASSUME LeaseExpires PROVE Truthful'
  BY <1>39, EntryValues DEF LeaseExpires
<1>40. ASSUME NEW g \in Tasks, ClaimTask(g) PROVE Truthful'
  BY <1>40, ClaimTaskEffect DEF ClaimTask
<1>41. ASSUME NEW g \in Tasks, CompleteTask(g) PROVE Truthful'
  BY <1>41, TaskIsOver, EntryValues DEF CompleteTask
<1>42. ASSUME NEW g \in Tasks, TaskRaises(g) PROVE Truthful'
  BY <1>42, TaskIsOver, EntryValues DEF TaskRaises
<1>43. ASSUME NEW g \in Tasks, KillGenerator(g) PROVE Truthful'
  BY <1>43, TaskIsOver DEF KillGenerator
<1>. QED  BY <1>1, <1>2, <1>3, <1>4, <1>5, <1>6, <1>7, <1>8, <1>9, <1>10,
         <1>11, <1>12, <1>13, <1>14, <1>15, <1>16, <1>17, <1>18, <1>19, <1>20,
         <1>21, <1>22, <1>23, <1>24, <1>25, <1>26, <1>27, <1>28, <1>29, <1>30,
         <1>31, <1>32, <1>33, <1>34, <1>35, <1>36, <1>37, <1>38, <1>39, <1>40,
         <1>41, <1>42, <1>43
         DEF Next, TranslationStep, ReaderStep, WorkerRuns, ActorStep

\* A failed send is never forgotten.
FailuresLast == NoSendFailed' => NoSendFailed

\* Every step leaves the holders alone, unless a send fails.
LEMMA ExclusionIsKept ==
    ASSUME IInv, Next
    PROVE  Exclusive' /\ FailuresLast
<1>. USE TypesNow, HooksAreReaders
     DEF IInv, Exclusive, HolderOwnsLock, GeneratorHoldsLease, OneGenerator, NoSendFailed,
         FailuresLast, Truthful, ActorsFollowReaders, Holding, translationVars, artifactVars, ReaderAt,
         MessageAt, ActorAt, TaskAt, MessagePhases, ReaderSteps, ActorSteps, TaskPhases
<1>1. ASSUME NEW r \in Readers, ReadLock(r), UNCHANGED artifactVars
      PROVE Exclusive' /\ FailuresLast
  BY <1>1, ReadLockEffect DEF ReadLock
<1>2. ASSUME NEW r \in Readers, LookForText(r), UNCHANGED artifactVars
      PROVE Exclusive' /\ FailuresLast
  BY <1>2, ReaderMoves DEF LookForText
<1>3. ASSUME NEW r \in Readers, ReserveTranslation(r), UNCHANGED artifactVars
      PROVE Exclusive' /\ FailuresLast
  BY <1>3, ReaderMoves, LockValues DEF ReserveTranslation, MayReserve
<1>4. ASSUME NEW r \in Readers, Reread(r), UNCHANGED artifactVars
      PROVE Exclusive' /\ FailuresLast
  BY <1>4, ReaderMoves DEF Reread
<1>5. ASSUME NEW r \in Readers, SendTranslation(r), UNCHANGED artifactVars
      PROVE Exclusive' /\ FailuresLast
  BY <1>5, SendTranslationEffect
<1>6. ASSUME NEW r \in Readers, SendRaises(r), UNCHANGED artifactVars
      PROVE Exclusive' /\ FailuresLast
  BY <1>6, ReaderMoves DEF SendRaises
<1>7. ASSUME NEW r \in Readers, MarkUnsent(r), UNCHANGED artifactVars
      PROVE Exclusive' /\ FailuresLast
  BY <1>7, ReaderMoves, LockValues DEF MarkUnsent
<1>8. ASSUME NEW r \in Readers, KillReader(r), UNCHANGED artifactVars
      PROVE Exclusive' /\ FailuresLast
  BY <1>8, ReaderMoves DEF KillReader
<1>9. ASSUME NEW m \in Messages, ReceiveTranslation(m), UNCHANGED artifactVars
      PROVE Exclusive' /\ FailuresLast
  BY <1>9, ReceiveTranslationEffect DEF ReceiveTranslation
<1>10. ASSUME NEW m \in Messages, ClaimTranslation(m), UNCHANGED artifactVars
       PROVE Exclusive' /\ FailuresLast
  BY <1>10, ClaimTranslationEffect DEF MayClaim
<1>11. ASSUME NEW m \in Messages, CheckLock(m), UNCHANGED artifactVars
       PROVE Exclusive' /\ FailuresLast
  BY <1>11, MessageMoves DEF CheckLock
<1>12. ASSUME NEW m \in Messages, LockWasTaken(m), UNCHANGED artifactVars
       PROVE Exclusive' /\ FailuresLast
  BY <1>12, MessageAgain, LockValues DEF LockWasTaken
<1>13. ASSUME NEW m \in Messages, LookBeforeCall(m), UNCHANGED artifactVars
       PROVE Exclusive' /\ FailuresLast
  BY <1>13, MessageMoves DEF LookBeforeCall
<1>14. ASSUME NEW m \in Messages, StoreTranslation(m), UNCHANGED artifactVars
       PROVE Exclusive' /\ FailuresLast
  BY <1>14, MessageMoves DEF StoreTranslation
<1>15. ASSUME NEW m \in Messages, RefuseTranslation(m), UNCHANGED artifactVars
       PROVE Exclusive' /\ FailuresLast
  BY <1>15, MessageMoves, LockValues DEF RefuseTranslation
<1>16. ASSUME NEW m \in Messages, MarkDone(m), UNCHANGED artifactVars
       PROVE Exclusive' /\ FailuresLast
  BY <1>16, MessageMoves, LockValues DEF MarkDone
<1>17. ASSUME NEW m \in Messages, AttemptRaises(m), UNCHANGED artifactVars
       PROVE Exclusive' /\ FailuresLast
  BY <1>17, MessageAgain, LockValues DEF AttemptRaises
<1>18. ASSUME NEW m \in Messages, KillWorker(m), UNCHANGED artifactVars
       PROVE Exclusive' /\ FailuresLast
  BY <1>18, MessageAgain DEF KillWorker
<1>19. ASSUME Cooldown, UNCHANGED artifactVars PROVE Exclusive' /\ FailuresLast
  BY <1>19, LockValues DEF Cooldown
<1>20. ASSUME NEW r \in Requests, TurnDown(r) PROVE Exclusive' /\ FailuresLast
  BY <1>20, ActorMoves DEF TurnDown, Resolved
<1>21. ASSUME NEW r \in Requests, Plan(r) PROVE Exclusive' /\ FailuresLast
  BY <1>21, ActorMoves DEF Plan, Resolved
<1>22. ASSUME NEW r \in Requests, EndOverdue(r) PROVE Exclusive' /\ FailuresLast
  BY <1>22, ActorMoves, EntryValues DEF EndOverdue, Waiting
<1>23. ASSUME NEW r \in Requests, Commit(r) PROVE Exclusive' /\ FailuresLast
  BY <1>23, ActorMoves, EntryValues DEF Commit
<1>24. ASSUME NEW r \in Requests, Ask(r) PROVE Exclusive' /\ FailuresLast
  BY <1>24, ActorMoves, Resolves DEF Ask
<1>25. ASSUME NEW r \in Requests, KillRequest(r) PROVE Exclusive' /\ FailuresLast
  BY <1>25, ActorMoves DEF KillRequest
<1>26. ASSUME NEW h \in Hooks, ListWaiting(h) PROVE Exclusive' /\ FailuresLast
  BY <1>26, ActorMoves, Resolves DEF ListWaiting
<1>27. ASSUME NEW h \in Hooks, LeaveWaiting(h) PROVE Exclusive' /\ FailuresLast
  BY <1>27, ActorMoves DEF LeaveWaiting, Resolved
<1>28. ASSUME NEW h \in Hooks, ClaimWait(h) PROVE Exclusive' /\ FailuresLast
  BY <1>28, ClaimWaitEffect DEF Waiting
<1>29. ASSUME NEW h \in Hooks, EndWait(h) PROVE Exclusive' /\ FailuresLast
  BY <1>29, ActorMoves, EntryValues DEF EndWait, Resolved, Waiting
<1>30. ASSUME NEW h \in Hooks, KillHook(h) PROVE Exclusive' /\ FailuresLast
  BY <1>30, KillHookEffect
<1>31. ASSUME NEW m \in Messages, HookEnds(m) PROVE Exclusive' /\ FailuresLast
  BY <1>31, MessageMoves DEF HookEnds, artifactVars
<1>32. ASSUME NEW a \in Readers, SendTask(a) PROVE Exclusive' /\ FailuresLast
  BY <1>32, ActorMoves, TaskMoves DEF SendTask
<1>33. ASSUME NEW a \in Readers, SendTaskRaises(a) PROVE Exclusive' /\ FailuresLast
  BY <1>33, ActorMoves, TaskMoves DEF SendTaskRaises
<1>34. ASSUME NEW a \in Readers, FailUnsent(a) PROVE Exclusive' /\ FailuresLast
  BY <1>34, ActorMoves, EntryValues DEF FailUnsent
<1>35. ASSUME SourceEnds PROVE Exclusive' /\ FailuresLast
  BY <1>35 DEF SourceEnds
<1>36. ASSUME DeadlinePasses PROVE Exclusive' /\ FailuresLast
  BY <1>36, EntryValues DEF DeadlinePasses
<1>37. ASSUME SweepReads PROVE Exclusive' /\ FailuresLast
  BY <1>37 DEF SweepReads
<1>38. ASSUME SweepEnds PROVE Exclusive' /\ FailuresLast
  BY <1>38, EntryValues DEF SweepEnds, Waiting
<1>39. ASSUME LeaseExpires PROVE Exclusive' /\ FailuresLast
  BY <1>39, EntryValues DEF LeaseExpires
<1>40. ASSUME NEW g \in Tasks, ClaimTask(g) PROVE Exclusive' /\ FailuresLast
  BY <1>40, ClaimTaskEffect DEF ClaimTask, MayClaimGeneration
<1>41. ASSUME NEW g \in Tasks, CompleteTask(g) PROVE Exclusive' /\ FailuresLast
  BY <1>41, TaskIsOver, EntryValues DEF CompleteTask
<1>42. ASSUME NEW g \in Tasks, TaskRaises(g) PROVE Exclusive' /\ FailuresLast
  BY <1>42, TaskIsOver, EntryValues DEF TaskRaises
<1>43. ASSUME NEW g \in Tasks, KillGenerator(g) PROVE Exclusive' /\ FailuresLast
  BY <1>43, TaskIsOver DEF KillGenerator
<1>. QED  BY <1>1, <1>2, <1>3, <1>4, <1>5, <1>6, <1>7, <1>8, <1>9, <1>10,
         <1>11, <1>12, <1>13, <1>14, <1>15, <1>16, <1>17, <1>18, <1>19, <1>20,
         <1>21, <1>22, <1>23, <1>24, <1>25, <1>26, <1>27, <1>28, <1>29, <1>30,
         <1>31, <1>32, <1>33, <1>34, <1>35, <1>36, <1>37, <1>38, <1>39, <1>40,
         <1>41, <1>42, <1>43
         DEF Next, TranslationStep, ReaderStep, WorkerRuns, ActorStep

\* A stuttering step.
LEMMA NothingHappens ==
    ASSUME IInv, UNCHANGED vars
    PROVE  IInv'
<1>. USE DEF IInv, vars, translationVars, artifactVars
<1>1. Typed'
  BY TypesByVariable DEF Typed, DeliveriesAreLeft
<1>2. Truthful'
  BY DEF Truthful, ReadersReadTheSource, ActorsFollowReaders, FinishedIsStored,
         DoneIsStored, SentIsReadable, TaskAt
<1>3. Exclusive'
  BY DEF Exclusive, HolderOwnsLock, GeneratorHoldsLease, OneGenerator, NoSendFailed, TaskAt
<1>. QED  BY <1>1, <1>2, <1>3

\* Who may write the entry, and over what.
LEMMA EntryWriters ==
    ASSUME IInv, Next
    PROVE  \/ entry'.status = entry.status
           \/ Waiting(entry) /\ entry'.status \in {"queued", "failed"}
           \/ entry.status \in {"absent", "failed"} /\ entry'.status = "queued"
           \/ MayClaimGeneration(entry) /\ entry'.status = "generating"
           \/ \E a \in Readers : actors[a] = "unsent" /\ actors'[a] = "error"
           \/ \E g \in Tasks : /\ tasks[g].phase = "generating" /\ tasks'[g] # tasks[g]
                               /\ entry'.status \in {"ready", "failed"}
<1>. DEFINE Written ==
       \/ entry'.status = entry.status
       \/ Waiting(entry) /\ entry'.status \in {"queued", "failed"}
       \/ entry.status \in {"absent", "failed"} /\ entry'.status = "queued"
       \/ MayClaimGeneration(entry) /\ entry'.status = "generating"
       \/ \E a \in Readers : actors[a] = "unsent" /\ actors'[a] = "error"
       \/ \E g \in Tasks : /\ tasks[g].phase = "generating" /\ tasks'[g] # tasks[g]
                           /\ entry'.status \in {"ready", "failed"}
<1>. USE TypesNow, EntryValues, HooksAreReaders
<1>1. CASE UNCHANGED entry
  BY <1>1
<1>2. ASSUME NEW r \in Requests, EndOverdue(r) \/ Commit(r) PROVE Written
  BY <1>2 DEF EndOverdue, Commit
<1>3. ASSUME NEW h \in Hooks, ClaimWait(h) \/ EndWait(h) PROVE Written
  BY <1>3 DEF ClaimWait, EndWait
<1>4. ASSUME NEW a \in Readers, FailUnsent(a) PROVE Written
  <2>1. actors[a] = "unsent" /\ actors'[a] = "error"
    BY <1>4, ActorMoves DEF FailUnsent, ActorAt, ActorSteps
  <2>. QED  BY <2>1
<1>5. CASE DeadlinePasses \/ SweepEnds \/ LeaseExpires
  BY <1>5 DEF DeadlinePasses, SweepEnds, LeaseExpires
<1>6. ASSUME NEW g \in Tasks, ClaimTask(g) PROVE Written
  BY <1>6 DEF ClaimTask
<1>7. ASSUME NEW g \in Tasks, CompleteTask(g) \/ TaskRaises(g) PROVE Written
  <2>1. tasks[g].phase = "generating" /\ tasks'[g] # tasks[g]
    BY <1>7, TaskIsOver DEF CompleteTask, TaskRaises, TaskAt
  <2>2. entry'.status \in {"ready", "failed"}
    BY <1>7, ZenonT(60) DEF CompleteTask, TaskRaises, Entry
  <2>. QED  BY <2>1, <2>2
<1>8. \/ UNCHANGED entry
      \/ \E r \in Requests : EndOverdue(r) \/ Commit(r)
      \/ \E h \in Hooks : ClaimWait(h) \/ EndWait(h)
      \/ \E a \in Readers : FailUnsent(a)
      \/ DeadlinePasses \/ SweepEnds \/ LeaseExpires
      \/ \E g \in Tasks : ClaimTask(g) \/ CompleteTask(g) \/ TaskRaises(g)
  BY DEF Next, ActorStep, artifactVars, Ask, KillRequest, KillHook, TurnDown, Plan,
         ListWaiting, LeaveWaiting, HookEnds, SendTask, SendTaskRaises, SourceEnds,
         SweepReads, KillGenerator
<1>. QED  BY <1>1, <1>2, <1>3, <1>4, <1>5, <1>6, <1>7, <1>8

-----------------------------------------------------------------------------
(* The theorems                                                            *)

\* The inductive invariant holds at first ...
THEOREM Initially == Init => IInv
<1>. SUFFICES ASSUME Init PROVE IInv
  OBVIOUS
<1>. USE ReceivesAssumption DEF Init, TranslationInit
<1>1. /\ NoLock \in Locks /\ NoReading \in ReaderRecords /\ NoEntry \in Entry
      /\ [phase |-> "unsent", receives |-> 0] \in MessageRecords
      /\ [phase |-> "unsent", receives |-> 0] \in TaskRecords
      /\ "idle" \in ActorSteps
  BY DEF NoReading, NoLock, NoEntry, Locks, LockStatuses, Kinds, MessageRecords, MessagePhases,
         ReaderRecords, ReaderSteps, Entry, ActorSteps, TaskRecords, TaskPhases
<1>2. Typed
  <2>1. /\ messages \in [Messages -> MessageRecords] /\ readers \in [Readers -> ReaderRecords]
        /\ actors \in [Readers -> ActorSteps] /\ tasks \in [Tasks -> TaskRecords]
    BY <1>1
  <2>2. TypeOK
    BY <1>1, <2>1, TypesByVariable
  <2>3. DeliveriesAreLeft
    BY DEF DeliveriesAreLeft
  <2>. QED  BY <2>2, <2>3 DEF Typed
<1>3. Truthful
  BY DEF Truthful, ReadersReadTheSource, ActorsFollowReaders, FinishedIsStored,
         DoneIsStored, SentIsReadable, TaskAt, Working,
         NoReading, NoLock
<1>4. Exclusive
  BY DEF Exclusive, HolderOwnsLock, GeneratorHoldsLease, OneGenerator, TaskAt, Holding
<1>. QED  BY <1>2, <1>3, <1>4 DEF IInv

\* ... and always.
THEOREM Invariance == Spec => []IInv
<1>1. IInv /\ [Next]_vars => IInv'
  BY TypesAreKept, TruthIsKept, ExclusionIsKept, NothingHappens DEF IInv
<1>. QED  BY <1>1, Initially, PTL DEF Spec

\* Type correctness of the translation and of the artifact over it.
THEOREM TypesAreCorrect == Spec => []TypeOK
<1>1. IInv => TypeOK
  BY DEF IInv, Typed
<1>. QED  BY <1>1, Invariance, PTL

\* Until a send fails, no two messages call the model at once and none calls it
\* for a stored text (mark_translation_in_progress and the check that follows).
THEOREM OnlyOneTranslates == Spec => []OneTranslator
<1>1. IInv => OneTranslator
  BY DEF IInv, Exclusive, HolderOwnsLock, Holding, OneTranslator, MessageAt
<1>. QED  BY <1>1, Invariance, PTL

\* A translation is marked done only over a stored object.
THEOREM DoneTextsAreStored == Spec => []DoneIsStored
<1>1. IInv => DoneIsStored
  BY DEF IInv, Truthful
<1>. QED  BY <1>1, Invariance, PTL

\* Until a send fails, the lease of claim_artifact_generation admits one
\* generator, whatever is redelivered.
THEOREM OnlyOneGenerates == Spec => []OneGenerator
<1>1. IInv => OneGenerator
  BY DEF IInv, Exclusive, GeneratorHoldsLease
<1>. QED  BY <1>1, Invariance, PTL

\* No request, hook or deadline sends a generation over a text that is missing.
THEOREM GenerationsHaveTheirText == Spec => []SentIsReadable
<1>1. IInv => SentIsReadable
  BY DEF IInv, Truthful
<1>. QED  BY <1>1, Invariance, PTL

\* A ready entry is never taken back until a send fails.
THEOREM ReadyEntriesAreSealed == Spec => ReadyIsSealed
<1>1. IInv /\ [Next]_vars =>
         [NoSendFailed' /\ entry.status = "ready" => entry'.status = "ready"]_vars
  <2>. SUFFICES ASSUME IInv, Next, NoSendFailed', entry.status = "ready"
                PROVE  entry'.status = "ready"
    OBVIOUS
  <2>1. NoSendFailed
    BY ExclusionIsKept DEF FailuresLast
  <2>2. \A g \in Tasks : tasks[g].phase # "generating"
    BY <2>1 DEF IInv, Exclusive, GeneratorHoldsLease
  <2>3. \A a \in Readers : actors'[a] # "error"
    BY DEF NoSendFailed
  <2>. QED  BY <2>2, <2>3, EntryWriters DEF Waiting, MayClaimGeneration
<1>. QED  BY <1>1, Invariance, PTL DEF Spec, ReadyIsSealed

\* Only a generation that fails, or the failure of its own send, ends an entry
\* that was enqueued.
THEOREM WaitsEndOnlyWaits == Spec => WaitEndsSpareGenerations
<1>1. IInv /\ [Next]_vars =>
         [entry.status \in {"queued", "generating"} /\ ~Waiting(entry) /\ entry'.status = "failed"
            => \/ \E g \in Tasks : TaskAt(g, "generating") /\ tasks'[g] # tasks[g]
               \/ \E a \in Readers : ActorAt(a, "unsent")]_vars
  BY EntryWriters DEF TaskAt, ActorAt
<1>. QED  BY <1>1, Invariance, PTL DEF Spec, WaitEndsSpareGenerations
=============================================================================
