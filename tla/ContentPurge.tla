---------------------------- MODULE ContentPurge ----------------------------
(***************************************************************************)
(* How the data of one content is destroyed: the soft deletion of a save,  *)
(* the cascade the table's stream starts when TTL has removed the row, and *)
(* the erasure of a whole account.  Both run beside the saves that still   *)
(* arrive for the same content.                                            *)
(*                                                                         *)
(* Submission and processing are those of UrlSubmission with their faults  *)
(* left out: a save names its library row and the job it would create.     *)
(* A cascade may be replayed by the stream after any of its steps, an      *)
(* erasure by its user.  The row of a finished job expires by its own TTL, *)
(* its transcript does not.                                                *)
(***************************************************************************)
EXTENDS MediaLedger, Naturals, FiniteSets

CONSTANTS
    Saves,          \* the submissions of this content
    Users,
    UserOf,         \* the user who makes a save
    Leavers,        \* the users who may erase their account
    Failing,        \* the saves whose cascade may fail
    Expiring,       \* the jobs whose row may expire
    MaxReplays      \* how often the stream replays a failed record

ASSUME PurgeAssumption ==
    /\ NoJob \notin Saves
    /\ UserOf \in [Saves -> Users]
    /\ Leavers \subseteq Users /\ Failing \subseteq Saves /\ Expiring \subseteq Saves
    /\ MaxReplays \in Nat

VARIABLES
    ledger,         \* the entry of media_idempotence
    jobRows,        \* the jobs that have a row in processing_jobs
    texts,          \* the jobs whose transcript object is in S3
    work,           \* how far the work on each job has come
    rows,           \* the rows of user_media
    artifacts,      \* the users who hold artifacts of the content
    cascade,        \* the stream record of each row TTL removed
    account,        \* how far the erasure of each account has come
    overlap,        \* a save arrived inside a cascade, or after one that broke off
    expired         \* the jobs whose row TTL removed

content == <<ledger, jobRows, texts, work>>
vars == <<content, rows, artifacts, cascade, account, overlap, expired>>

-----------------------------------------------------------------------------
(* Data                                                                    *)

\* saving: the row is there, the submission has not read the ledger yet.
Stages == {"none", "saving", "live", "deleted", "swept", "erased"}
Results == {"pending", "ready", "failed"}
Works == {"none", "working", "stored", "completed", "ended", "watching", "told"}
CascadePhases == {"none", "queued", "listed", "scoped", "picked", "erased", "done", "lost"}
AccountPhases == {"open", "artifacts", "texts", "jobs", "rows", "identity", "retry", "closed"}

\* pointer: last_job_id of the removed row, from the record's OldImage.
NoRow == [stage |-> "none", result |-> "pending", lastJob |-> NoJob]
NoCascade == [phase |-> "none", pointer |-> NoJob, refs |-> {}, job |-> NoJob,
              replays |-> 0]
NoAccount == [phase |-> "open", jobs |-> {}, busy |-> {}]

TypeOK ==
    /\ ledger \in Entries(Saves)
    /\ jobRows \subseteq Saves
    /\ texts \subseteq Saves
    /\ work \in [Saves -> Works]
    /\ rows \in [Saves -> [stage : Stages, result : Results,
                           lastJob : Saves \cup {NoJob}]]
    /\ artifacts \subseteq Users
    /\ cascade \in [Saves -> [phase : CascadePhases, pointer : Saves \cup {NoJob},
                              refs : SUBSET Saves, job : Saves \cup {NoJob},
                              replays : 0..MaxReplays]]
    /\ account \in [Users -> [phase : AccountPhases, jobs : SUBSET Saves,
                             busy : SUBSET Saves]]
    /\ overlap \in BOOLEAN /\ expired \subseteq Saves

Init ==
    /\ ledger = Absent
    /\ jobRows = {} /\ texts = {} /\ artifacts = {}
    /\ work = [s \in Saves |-> "none"]
    /\ rows = [s \in Saves |-> NoRow]
    /\ cascade = [s \in Saves |-> NoCascade]
    /\ account = [u \in Users |-> NoAccount]
    /\ overlap = FALSE /\ expired = {}

\* Mutant of References: rows waiting for their purge are not listed.
LiveReferences(s) == {r \in Saves \ {s} : rows[r].stage \in {"saving", "live"}}

\* list_by_media_key(include_deleted=True): a row may still be restored until
\* TTL removes it.
References(s) ==
    {r \in Saves \ {s} : rows[r].stage \in {"saving", "live", "deleted"}}

Held(r) == rows[r].stage \in {"saving", "live", "deleted"}
Unreferenced(s) == cascade[s].refs = {}

\* Mutant of StillHolds: only the row's own artifacts are thought of.
HoldsNothing(s) == FALSE

\* The artifacts belong to the user's content, not to the save.
StillHolds(s) == \E r \in cascade[s].refs : UserOf[r] = UserOf[s]

CascadeAt(s, phase) == cascade[s].phase = phase
CascadeTo(s, phase) == cascade' = [cascade EXCEPT ![s].phase = phase]
CascadeEnds(s, phase) == cascade' = [cascade EXCEPT ![s] = [NoCascade EXCEPT !.phase = phase]]

-----------------------------------------------------------------------------
(* Saves and their processing                                              *)

\* mirror_job: the status on every save that is not deleted, the job id on
\* those of the job's user.
Mirror(j, result) ==
    rows' = [r \in Saves |->
        IF rows[r].stage \in {"saving", "live"}
        THEN [stage   |-> IF r = j THEN "live" ELSE rows[r].stage,
              result  |-> result,
              lastJob |-> IF UserOf[r] = UserOf[j] THEN j ELSE rows[r].lastJob]
        ELSE rows[r]]

\* A cascade has listed the content without the save, found no other reason to
\* keep what the save relies on, and is not through; or it broke off half-way.
Unseen(s, c) ==
    \/ /\ cascade[c].phase \in {"listed", "scoped", "picked", "erased"}
       /\ Unreferenced(c) \/ (UserOf[c] = UserOf[s] /\ ~StillHolds(c))
    \/ cascade[c].phase = "queued" /\ cascade[c].replays > 0
    \/ cascade[c].phase = "lost"

\* The save's row is written before the ledger is read.
SaveRow(s) ==
    /\ rows[s].stage = "none"
    /\ account[UserOf[s]].phase \in {"open", "retry"}
    /\ rows' = [rows EXCEPT ![s].stage = "saving"]
    /\ overlap' = (overlap \/ \E c \in Saves : Unseen(s, c))
    /\ UNCHANGED <<content, artifacts, cascade, account>>

\* A content nobody knows is reserved and a job is created for it.
Reserving(s) ==
    /\ rows[s].stage = "saving"
    /\ CanReserve(ledger)
    /\ ledger' = Reserve(ledger, s)
    /\ jobRows' = jobRows \cup {s}
    /\ work' = [work EXCEPT ![s] = "working"]
    /\ Mirror(s, "pending")
    /\ UNCHANGED <<texts, artifacts, cascade, account, overlap>>

\* A content in process is waited for, by a job of the save's own.
Watching(s) ==
    /\ rows[s].stage = "saving"
    /\ ledger.status = "reserved"
    /\ jobRows' = jobRows \cup {s}
    /\ work' = [work EXCEPT ![s] = "watching"]
    /\ Mirror(s, "pending")
    /\ UNCHANGED <<ledger, texts, artifacts, cascade, account, overlap>>

\* A content that is known is answered at once: finalize_deduplicated_save.
\* The pointer of a content job of somebody else is not copied.
Adopting(s) ==
    /\ rows[s].stage = "saving"
    /\ ledger.status \in Outcomes
    /\ rows' = [rows EXCEPT ![s] =
          [stage   |-> "live",
           result  |-> IF ledger.status = "processed" THEN "ready" ELSE "failed",
           lastJob |-> IF ledger.job \in jobRows /\ UserOf[ledger.job] = UserOf[s]
                       THEN ledger.job ELSE @.lastJob]]
    /\ UNCHANGED <<content, artifacts, cascade, account, overlap>>

StoreText(s) ==
    /\ work[s] = "working"
    /\ texts' = texts \cup {s}
    /\ work' = [work EXCEPT ![s] = "stored"]
    /\ UNCHANGED <<ledger, jobRows, rows, artifacts, cascade, account, overlap>>

\* update_processing_job writes the whole row: an erased job comes back.
CompleteJob(s) ==
    /\ work[s] = "stored"
    /\ jobRows' = jobRows \cup {s}
    /\ work' = [work EXCEPT ![s] = "completed"]
    /\ Mirror(s, "ready")
    /\ UNCHANGED <<ledger, texts, artifacts, cascade, account, overlap>>

Watchers == {w \in Saves : work[w] = "watching"}

\* The completion event: the ledger's outcome and the watchers' jobs, each
\* mirrored in its turn.
ConsumeSuccess(s) ==
    /\ work[s] = "completed"
    /\ ledger' = RecordTerminal(ledger, s, "processed")
    /\ work' = [w \in Saves |->
          IF w = s THEN "ended" ELSE IF w \in Watchers THEN "told" ELSE work[w]]
    /\ jobRows' = jobRows \cup Watchers
    /\ \E last \in [Users -> Watchers \cup {NoJob}] :
          /\ \A u \in Users :
                LET own == {w \in Watchers : UserOf[w] = u}
                IN IF own = {} THEN last[u] = NoJob ELSE last[u] \in own
          /\ rows' = [r \in Saves |->
                IF rows[r].stage = "live" /\ Watchers # {}
                THEN [rows[r] EXCEPT
                        !.result = "ready",
                        !.lastJob = IF last[UserOf[r]] = NoJob THEN @ ELSE last[UserOf[r]]]
                ELSE rows[r]]
    /\ UNCHANGED <<texts, artifacts, cascade, account, overlap>>

\* Processing ends without a text; the watchers' jobs stay pending.
FailJob(s) ==
    /\ work[s] = "working"
    /\ work' = [w \in Saves |->
          IF w = s THEN "ended" ELSE IF w \in Watchers THEN "told" ELSE work[w]]
    /\ jobRows' = jobRows \cup {s}
    /\ ledger' = RecordTerminal(ledger, s, "failed")
    /\ Mirror(s, "failed")
    /\ UNCHANGED <<texts, artifacts, cascade, account, overlap>>

\* An artifact of the content is generated for a user who holds a ready save.
Generate(u) ==
    /\ account[u].phase \in {"open", "retry"}
    /\ \E r \in Saves : UserOf[r] = u /\ rows[r].stage = "live" /\ rows[r].result = "ready"
    /\ artifacts' = artifacts \cup {u}
    /\ UNCHANGED <<content, rows, cascade, account, overlap>>

\* The row of a job expires 30 to 90 days after its last transition, when its work is
\* long over; what it stored stays.
JobExpires(j) ==
    /\ j \in jobRows \cap Expiring /\ work[j] \in {"ended", "told"}
    /\ jobRows' = jobRows \ {j}
    /\ expired' = expired \cup {j}
    /\ UNCHANGED <<ledger, texts, work, rows, artifacts, cascade, account, overlap>>

-----------------------------------------------------------------------------
(* Deletion of one save                                                    *)

\* delete_media_for_user: conditional on deleted_at being absent.
DeleteSave(s) ==
    /\ rows[s].stage = "live"
    /\ account[UserOf[s]].phase \in {"open", "retry"}
    /\ rows' = [rows EXCEPT ![s].stage = "deleted"]
    /\ UNCHANGED <<content, artifacts, cascade, account, overlap>>

\* Support clears deleted_at and purge_at inside the recovery window.
RestoreSave(s) ==
    /\ rows[s].stage = "deleted"
    /\ rows' = [rows EXCEPT ![s].stage = "live"]
    /\ UNCHANGED <<content, artifacts, cascade, account, overlap>>

\* TTL removes the row 30 days later, long after the work of the save's own job
\* and of the job the row points at.
Sweep(s) ==
    /\ rows[s].stage = "deleted"
    /\ \A j \in {s, rows[s].lastJob} \ {NoJob} : work[j] \in {"none", "ended", "told"}
    /\ rows' = [rows EXCEPT ![s] = [NoRow EXCEPT !.stage = "swept"]]
    /\ cascade' = [cascade EXCEPT ![s] =
          [NoCascade EXCEPT !.phase = "queued", !.pointer = rows[s].lastJob]]
    /\ UNCHANGED <<content, artifacts, account, overlap>>

-----------------------------------------------------------------------------
(* The cascade of one removed row                                          *)

ListReferences(s) ==
    /\ CascadeAt(s, "queued")
    /\ cascade' = [cascade EXCEPT
                      ![s] = [@ EXCEPT !.phase = "listed", !.refs = References(s)]]
    /\ UNCHANGED <<content, rows, artifacts, account, overlap>>

DropArtifacts(s) ==
    /\ CascadeAt(s, "listed")
    /\ artifacts' = IF StillHolds(s) THEN artifacts ELSE artifacts \ {UserOf[s]}
    /\ CascadeTo(s, "scoped")
    /\ UNCHANGED <<content, rows, account, overlap>>

\* The row's pointer; without one, and only for the last reference, the job the
\* ledger names now.
ContentJob(s) ==
    IF cascade[s].pointer = NoJob /\ Unreferenced(s) THEN ledger.job ELSE cascade[s].pointer

PickJob(s) ==
    /\ CascadeAt(s, "scoped")
    /\ IF Unreferenced(s) /\ ContentJob(s) # NoJob
       THEN cascade' = [cascade EXCEPT
                           ![s] = [@ EXCEPT !.job = ContentJob(s), !.phase = "picked"]]
       ELSE CascadeEnds(s, "done")
    /\ UNCHANGED <<content, rows, artifacts, account, overlap>>

\* purge_job_objects, with the translations and their locks.
EraseText(s) ==
    /\ CascadeAt(s, "picked")
    /\ texts' = texts \ {cascade[s].job}
    /\ CascadeTo(s, "erased")
    /\ UNCHANGED <<ledger, jobRows, work, rows, artifacts, account, overlap>>

\* Mutant of WithoutEntry: the entry goes whatever job it names.
WithoutAnyEntry(entry, j) == Absent

\* delete_content_entry: conditional on the job the purge is about.
WithoutEntry(entry, j) == IF entry.job = j THEN Absent ELSE entry

DeleteEntry(s) ==
    /\ CascadeAt(s, "erased")
    /\ ledger' = WithoutEntry(ledger, cascade[s].job)
    /\ CascadeEnds(s, "done")
    /\ UNCHANGED <<jobRows, texts, work, rows, artifacts, account, overlap>>

\* A call of the cascade raises: the record is reported, and the stream replays
\* the whole cascade until its retries are spent.
CascadeRaises(s) ==
    /\ s \in Failing
    /\ cascade[s].phase \in {"queued", "listed", "scoped", "picked", "erased"}
    /\ IF cascade[s].replays < MaxReplays
       THEN cascade' = [cascade EXCEPT ![s] =
               [NoCascade EXCEPT !.phase = "queued", !.pointer = cascade[s].pointer,
                                 !.replays = cascade[s].replays + 1]]
       ELSE CascadeEnds(s, "lost")
    /\ UNCHANGED <<content, rows, artifacts, account, overlap>>

-----------------------------------------------------------------------------
(* Erasure of an account                                                   *)

ErasureAt(u, phase) == account[u].phase = phase
ErasureTo(u, phase) == account' = [account EXCEPT ![u].phase = phase]

\* _collect_inventory: read once, before anything of it is deleted.  A request
\* that is saving at that moment is left out; a job at work is remembered.
\* A job is found by its row alone: one that expired is not.
TakeInventory(u) ==
    /\ u \in Leavers
    /\ account[u].phase \in {"open", "retry"}
    /\ \A s \in Saves : UserOf[s] = u => rows[s].stage # "saving"
    /\ account' = [account EXCEPT ![u] =
          [phase |-> "artifacts",
           jobs  |-> {j \in jobRows : UserOf[j] = u},
           busy  |-> @.busy \cup {j \in Saves : UserOf[j] = u /\ work[j] = "working"}]]
    /\ UNCHANGED <<content, rows, artifacts, cascade, overlap>>

EraseArtifacts(u) ==
    /\ ErasureAt(u, "artifacts")
    /\ artifacts' = artifacts \ {u}
    /\ ErasureTo(u, "texts")
    /\ UNCHANGED <<content, rows, cascade, overlap>>

\* Mutant of EraseTexts: the rows that lead to the texts go first.
EraseJobsFirst(u) ==
    \/ /\ ErasureAt(u, "texts")
       /\ jobRows' = jobRows \ account[u].jobs
       /\ ErasureTo(u, "jobs")
       /\ UNCHANGED <<ledger, texts, work, rows, artifacts, cascade, overlap>>
    \/ /\ ErasureAt(u, "jobs")
       /\ texts' = texts \ account[u].jobs
       /\ ErasureTo(u, "rows")
       /\ UNCHANGED <<ledger, jobRows, work, rows, artifacts, cascade, overlap>>

\* purge_job_objects for every job of the user, whoever else saved the content.
EraseTexts(u) ==
    /\ ErasureAt(u, "texts")
    /\ texts' = texts \ account[u].jobs
    /\ ErasureTo(u, "jobs")
    /\ UNCHANGED <<ledger, jobRows, work, rows, artifacts, cascade, overlap>>

EraseJobs(u) ==
    /\ ErasureAt(u, "jobs")
    /\ jobRows' = jobRows \ account[u].jobs
    /\ account' = [account EXCEPT ![u] = [@ EXCEPT !.phase = "rows", !.jobs = {}]]
    /\ UNCHANGED <<ledger, texts, work, rows, artifacts, cascade, overlap>>

\* The rows are removed by a caller, not by TTL: no cascade.
EraseRows(u) ==
    /\ ErasureAt(u, "rows")
    /\ rows' = [r \in Saves |-> IF UserOf[r] = u /\ Held(r)
                                THEN [NoRow EXCEPT !.stage = "erased"] ELSE rows[r]]
    /\ ErasureTo(u, "identity")
    /\ UNCHANGED <<content, artifacts, cascade, overlap>>

EraseIdentity(u) ==
    /\ ErasureAt(u, "identity")
    /\ ErasureTo(u, "closed")
    /\ UNCHANGED <<content, rows, artifacts, cascade, overlap>>

\* The request raises or runs out of its 30 seconds; the user may ask again.
ErasureRaises(u) ==
    /\ account[u].phase \notin {"open", "retry", "closed"}
    /\ account' = [account EXCEPT ![u] = [@ EXCEPT !.phase = "retry", !.jobs = {}]]
    /\ UNCHANGED <<content, rows, artifacts, cascade, overlap>>

-----------------------------------------------------------------------------
ContentStep(s) ==
    \/ SaveRow(s) \/ Reserving(s) \/ Watching(s) \/ Adopting(s)
    \/ StoreText(s) \/ CompleteJob(s) \/ ConsumeSuccess(s) \/ FailJob(s)

PurgeStep(s) ==
    \/ DeleteSave(s) \/ RestoreSave(s) \/ Sweep(s)
    \/ ListReferences(s) \/ DropArtifacts(s) \/ PickJob(s)
    \/ EraseText(s) \/ DeleteEntry(s) \/ CascadeRaises(s)

ErasureStep(u) ==
    \/ TakeInventory(u) \/ EraseArtifacts(u) \/ EraseTexts(u) \/ EraseJobs(u)
    \/ EraseRows(u) \/ EraseIdentity(u) \/ ErasureRaises(u)

LibraryStep ==
    \/ \E s \in Saves : ContentStep(s) \/ PurgeStep(s)
    \/ \E u \in Users : Generate(u) \/ ErasureStep(u)

Next ==
    \/ LibraryStep /\ UNCHANGED expired
    \/ \E j \in Saves : JobExpires(j)

Spec == Init /\ [][Next]_vars
-----------------------------------------------------------------------------
(* Properties                                                              *)

\* No account was touched by an erasure.
AccountsKept == \A u \in Users : account[u].phase = "open"

\* A save that is answered as ready, the soft-deleted one that may be restored
\* included, keeps a text to read, and the row of the job that leads to it unless that
\* row expired, whichever other saves of the content are swept and whatever is replayed;
\* the exceptions are the code's: a save that arrives inside a cascade or after one that
\* broke off, and the erasure of an account.
ReadyIsReadable ==
    AccountsKept /\ ~overlap =>
        \A r \in Saves :
            Held(r) /\ rows[r].result = "ready" =>
                /\ ledger.job \in texts /\ ledger.job \in jobRows \cup expired
                /\ ledger.status = "processed" \/ work[ledger.job] = "completed"

\* A cascade that goes by its row's own pointer never takes the reservation of
\* a job at work, however late it is or however often it is replayed.
ReservationSurvives ==
    [][\A j \in Saves :
          (ledger.status = "reserved" /\ ledger.job = j /\ ledger' = Absent) =>
              \E s \in Saves : /\ CascadeAt(s, "erased")
                               /\ cascade[s].job = j
                               /\ cascade[s].pointer = NoJob]_vars

\* The artifacts of a content stay with a user who holds another save of it
\* when one save is swept.
ArtifactsOutliveOneSave ==
    [][\A u \in Users :
          (u \in artifacts /\ u \notin artifacts' /\ account[u].phase # "artifacts") =>
              overlap \/ \A r \in Saves : UserOf[r] = u => ~Held(r)]_vars

\* Once nobody holds the content and every cascade has run, neither its text
\* nor its ledger entry is left (DATA_RETENTION.md section 2), unless a save
\* waited for another's job: then the last pointer may name the wrong one.
ContentIsErased ==
    /\ AccountsKept
    /\ \A s \in Saves :
          /\ ~Held(s)
          /\ work[s] \in {"none", "ended"}   \* nobody watched
          /\ cascade[s].phase \in {"none", "done"}
    /\ ~overlap
    => texts = {} /\ ledger = Absent

\* A closed account leaves nothing behind, however often its erasure failed on
\* the way: no row, no artifact, and no text but that of a job which was still
\* at work when the account was erased, or whose row had expired.
AccountIsErased ==
    \A u \in Users :
        account[u].phase = "closed" =>
            /\ u \notin artifacts
            /\ \A s \in Saves :
                  UserOf[s] = u =>
                      /\ ~Held(s)
                      /\ s \in texts => s \in account[u].busy \cup expired

\* Nothing is left behind: not of a content that nobody holds any more, and not of an
\* account that was closed, but for the texts its inventory has no row to find by.
NothingIsLeft == ContentIsErased /\ AccountIsErased
=============================================================================
