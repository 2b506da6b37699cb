------------------------------- MODULE Intake -------------------------------
(***************************************************************************)
(* The endpoints that take a submission in: a file is sent to a staging    *)
(* key over a presigned URL and then submitted by that key, a document, an *)
(* audio file or a shared voice note; a link is handed over as it is.      *)
(*                                                                         *)
(* A request is a list of remote calls.  todo is what is left of it; any   *)
(* call may raise, which ends the request where it is, and the Lambda may  *)
(* be killed between two of them.  Requests of one file overlap freely:    *)
(* the client submits a key twice, or the file under two keys.  What a     *)
(* media costs is decided on the way, from the rows of the other requests. *)
(***************************************************************************)
EXTENDS Consumption, MediaLedger, SequencesExt

CONSTANTS
    Files,              \* the media a user may submit
    Kind,               \* [Files -> FileKinds]
    Probed,             \* minutes the container tells; 0 if it cannot be read
    Billed,             \* minutes the provider bills for it
    Keys,               \* staging keys
    Other,              \* the job of another user
    NoFile, NoKey

FileKinds == {"document", "text", "audio", "shared", "link"}

ASSUME IntakeAssumption ==
    /\ Kind \in [Files -> FileKinds]
    /\ Billed \in [Files -> Nat] /\ Probed \in [Files -> Nat]
    /\ NoFile \notin Files /\ NoKey \notin Keys /\ {Other, NoJob} \cap Work = {}
    /\ Work \cap Files = {} /\ Other # NoJob

Uploads == {f \in Files : Kind[f] # "link"}
Shared == {f \in Files : Kind[f] = "shared"}
Metered == {f \in Files : Kind[f] \in {"audio", "shared"}}

VARIABLES
    staged,             \* what was signed for each key and whether an object is there
    req,                \* the requests and their local variables
    row,                \* the library rows, one per request
    job,                \* the processing jobs, one per request
    stored,             \* canonical objects: {job_id}/..., shared-audio/{user}/{etag}
    entry,              \* media_idempotence, for the shared files
    owing,              \* the saves that were made while holding no other
    odd                 \* files whose charge something below may have upset

intakeVars == <<staged, req, row, job, stored, entry, owing, odd>>

-----------------------------------------------------------------------------
(* Data                                                                    *)

Unsigned == [file |-> NoFile, there |-> FALSE]
Steps == {"check", "row", "job", "copy", "discard", "held", "gate", "debit", "ledger",
          "reserve", "content", "submit", "send", "count"}

\* told: what the debit said it charged; free: the user already held the media;
\* known: the job that the ledger named for the content; tells: that job was found,
\* and with it what it cost.
Idle == [file |-> NoFile, key |-> NoKey, todo |-> <<>>, end |-> "none", told |-> 0,
         free |-> FALSE, known |-> NoJob, tells |-> FALSE]

RowStates == {"none", "held", "deleted"}
\* settled: the worker has charged the bill and not yet recorded the outcome.
JobStates == {"none", "pending", "queued", "settled", "done", "failed"}

IntakeTypeOK ==
    /\ ConsumptionTypeOK
    /\ staged \in [Keys -> [file : Uploads \cup {NoFile}, there : BOOLEAN]]
    /\ req \in [Work -> [file : Files \cup {NoFile}, key : Keys \cup {NoKey}, todo : Seq(Steps),
                         end : {"none", "refused", "broken"}, told : Nat, free : BOOLEAN,
                         known : Work \cup {Other, NoJob}, tells : BOOLEAN]]
    /\ row \in [Work -> RowStates]
    /\ job \in [Work -> JobStates]
    /\ stored \subseteq Work \cup Files
    /\ entry \in [Shared -> Entries(Work \cup {Other})]
    /\ owing \subseteq Work
    /\ odd \subseteq Files

\* A shared file may be one that another user has just submitted.
IntakeInit ==
    /\ ConsumptionInit
    /\ staged = [k \in Keys |-> Unsigned]
    /\ req = [r \in Work |-> Idle]
    /\ row = [r \in Work |-> "none"]
    /\ job = [r \in Work |-> "none"]
    /\ stored = {}
    /\ entry \in [Shared -> {Absent, [status |-> "reserved", job |-> Other]}]
    /\ owing = {}
    /\ odd = {}

File(r) == req[r].file
KindOf(r) == Kind[File(r)]
UnderWay(r) == req[r].todo # <<>>
Begun(r) == File(r) # NoFile
Doing(r, step) == UnderWay(r) /\ Head(req[r].todo) = step
Accepted(r) == Begun(r) /\ ~UnderWay(r) /\ req[r].end = "none"
Holds(r) == \E o \in Work \ {r} : File(o) = File(r) /\ row[o] = "held"

\* The routes of the endpoints; the last is that of content already known.
FileRoute == <<"check", "row", "job", "copy", "discard", "send", "count">>
AudioRoute == <<"check", "row", "job", "copy", "discard", "held", "debit", "count", "send">>
ShareRoute == <<"check", "copy", "discard", "row", "ledger", "reserve", "job", "held", "gate",
                "debit", "send">>
LinkRoute == <<"check", "submit", "count">>
DuplicateRoute == <<"content", "held", "debit">>

Route(f) ==
    CASE Kind[f] = "link" -> LinkRoute
      [] Kind[f] = "audio" -> AudioRoute
      [] Kind[f] = "shared" -> ShareRoute
      [] OTHER -> FileRoute

\* An unknown length costs one minute.
AtLeastOne(minutes) == IF minutes = 0 THEN 1 ELSE minutes
GateMinutes(f) == AtLeastOne(Probed[f])

\* What the check asks for: a document costs at least a minute, a text file nothing,
\* and what a link costs nobody knows yet.
Needed(f) ==
    CASE Kind[f] = "document" -> 1
      [] Kind[f] \in {"text", "link"} -> 0
      [] OTHER -> GateMinutes(f)

-----------------------------------------------------------------------------
(* The client                                                              *)

\* create_upload_url, once for each transfer; the URL may be used again while it lasts.
SignUrl(k, f) ==
    /\ staged[k] = Unsigned
    /\ staged' = [staged EXCEPT ![k].file = f]
    /\ UNCHANGED <<req, row, job, stored, entry, owing, odd, consumptionVars>>

PutFile(k) ==
    /\ staged[k] # Unsigned /\ ~staged[k].there
    /\ staged' = [staged EXCEPT ![k].there = TRUE]
    /\ UNCHANGED <<req, row, job, stored, entry, owing, odd, consumptionVars>>

Begin(r, f, k) ==
    /\ ~Begun(r)
    /\ \A o \in Work : o < r => Begun(o)              \* requests are numbered as they come
    /\ req' = [req EXCEPT ![r] = [@ EXCEPT !.file = f, !.key = k, !.todo = Route(f)]]
    /\ UNCHANGED <<staged, row, job, stored, entry, owing, odd, consumptionVars>>

\* A key that holds nothing, now or any more, is refused before anything is written.
SubmitUpload(r, k) == staged[k].there /\ Begin(r, staged[k].file, k)
SubmitLink(r, f) == Kind[f] = "link" /\ Begin(r, f, NoKey)

\* Another save of the file has its row and has not yet asked for others.
Undecided(r) ==
    \E o \in Work \ {r} :
        File(o) = File(r) /\ row[o] = "held" /\ "held" \in ToSet(req[o].todo)
Upsets(r) == odd' = IF Undecided(r) THEN odd \cup {File(r)} ELSE odd

\* The row goes at once; what the purge does later is not followed here.
DeleteSave(r) ==
    /\ row[r] = "held" /\ ~UnderWay(r)
    /\ row' = [row EXCEPT ![r] = "deleted"]
    /\ Upsets(r)
    /\ UNCHANGED <<staged, req, job, stored, entry, owing, consumptionVars>>

-----------------------------------------------------------------------------
(* The endpoints                                                           *)

Goes(r) == req' = [req EXCEPT ![r].todo = Tail(@)]
Ends(r, how) == req' = [req EXCEPT ![r] = [@ EXCEPT !.todo = <<>>, !.end = how]]

CheckQuota(r, trial) ==
    /\ Doing(r, "check")
    /\ IF Allows(Needed(File(r)), trial) THEN Goes(r) ELSE Ends(r, "refused")
    /\ UNCHANGED <<staged, row, job, stored, entry, owing, odd, consumptionVars>>

\* The durable row, before anything of the pipeline.
SaveUpload(r) ==
    /\ Doing(r, "row")
    /\ row' = [row EXCEPT ![r] = "held"]
    /\ owing' = IF Holds(r) THEN owing ELSE owing \cup {r}
    /\ Upsets(r)
    /\ Goes(r)
    /\ UNCHANGED <<staged, job, stored, entry, consumptionVars>>

CreateUploadJob(r) ==
    /\ Doing(r, "job")
    /\ job' = [job EXCEPT ![r] = "pending"]
    /\ Goes(r)
    /\ UNCHANGED <<staged, row, stored, entry, owing, odd, consumptionVars>>

\* A voice note is kept under its content, everything else under its job.
Home(r) == IF KindOf(r) = "shared" THEN File(r) ELSE r

CopyStaged(r) ==
    /\ Doing(r, "copy")
    /\ staged[req[r].key].there
    /\ stored' = stored \cup {Home(r)}
    /\ Goes(r)
    /\ UNCHANGED <<staged, row, job, entry, owing, odd, consumptionVars>>

DiscardStaged(r) ==
    /\ Doing(r, "discard")
    /\ staged' = [staged EXCEPT ![req[r].key].there = FALSE]
    /\ Goes(r)
    /\ UNCHANGED <<row, job, stored, entry, owing, odd, consumptionVars>>

Duplicate(r) == req[r].known # NoJob
Reuse(r) == req' = [req EXCEPT
                       ![r] = [@ EXCEPT !.todo = DuplicateRoute, !.known = entry[File(r)].job]]

ReadLedger(r) ==
    /\ Doing(r, "ledger")
    /\ IF entry[File(r)] = Absent THEN Goes(r) ELSE Reuse(r)
    /\ UNCHANGED <<staged, row, job, stored, entry, owing, odd, consumptionVars>>

\* A reservation that is lost reads the ledger again and is a duplicate.
ReserveShared(r) ==
    LET f == File(r) IN
    /\ Doing(r, "reserve")
    /\ entry' = [entry EXCEPT ![f] = Reserve(@, r)]
    /\ IF CanReserve(entry[f]) THEN Goes(r) ELSE Reuse(r)
    /\ UNCHANGED <<staged, row, job, stored, owing, odd, consumptionVars>>

\* Mutant of FoundHeld: the row of the request itself is found.
FoundAny(r) == \E o \in Work : File(o) = File(r) /\ row[o] = "held"

\* user_holds_media: another row of the same content, in whatever state it is.
FoundHeld(r) == Holds(r)

AskHeld(r) ==
    /\ Doing(r, "held")
    /\ req' = [req EXCEPT ![r] = [req[r] EXCEPT !.todo = Tail(@), !.free = FoundHeld(r)]]
    /\ UNCHANGED <<staged, row, job, stored, entry, owing, odd, consumptionVars>>

\* The last point where the spend of a shared file can be refused; the row stays.
PassGate(r, trial) ==
    LET f == File(r) IN
    /\ Doing(r, "gate")
    /\ IF Allows(GateMinutes(f), trial)
       THEN Goes(r) /\ UNCHANGED <<job, entry, odd>>
       ELSE /\ Ends(r, "refused")
            /\ job' = [job EXCEPT ![r] = "failed"]
            /\ entry' = [entry EXCEPT ![f] = RecordTerminal(@, r, "failed")]
            /\ odd' = odd \cup {f}
    /\ UNCHANGED <<staged, row, stored, owing, consumptionVars>>

\* The job behind known content tells what it cost, once it has been transcribed.
Transcribed(r) ==
    \/ req[r].known = Other /\ entry[File(r)].status = "processed"
    \/ \E o \in Work : req[r].known = o /\ job[o] = "done"

\* _load_content_job, before the library is asked: the job's row may have expired, which
\* the ledger's never does, and a read that raises is swallowed.
ReadContent(r) ==
    /\ Doing(r, "content")
    /\ \E tells \in {Transcribed(r), FALSE} :
          req' = [req EXCEPT ![r] = [req[r] EXCEPT !.todo = Tail(@), !.tells = tells]]
    /\ UNCHANGED <<staged, row, job, stored, entry, owing, odd, consumptionVars>>

DebitDue(r) ==
    CASE req[r].free -> 0
      [] ~req[r].free /\ Duplicate(r) -> IF req[r].tells THEN AtLeastOne(Billed[File(r)]) ELSE 0
      [] OTHER -> GateMinutes(File(r))

DebitSave(r, trial) ==
    /\ Doing(r, "debit")
    /\ \E told \in {0, DebitDue(r)} :
          /\ Debit(r, "gate", DebitDue(r), trial, told)
          /\ req' = [req EXCEPT ![r] = [req[r] EXCEPT !.todo = Tail(@), !.told = told]]
    /\ UNCHANGED <<staged, row, job, stored, entry, owing, odd>>

SendMessage(r) ==
    /\ Doing(r, "send")
    /\ job' = [job EXCEPT ![r] = "queued"]
    /\ Goes(r)
    /\ UNCHANGED <<staged, row, stored, entry, owing, odd, consumptionVars>>

CountSubmission(r) ==
    /\ Doing(r, "count")
    /\ CountItem(r)
    /\ Goes(r)
    /\ UNCHANGED <<staged, row, job, stored, entry, owing, odd>>

\* The orchestrator of UrlSubmission, as far as it matters here.
SubmitUrl(r) ==
    /\ Doing(r, "submit")
    /\ row' = [row EXCEPT ![r] = "held"]
    /\ Goes(r)
    /\ UNCHANGED <<staged, job, stored, entry, owing, odd, consumptionVars>>

-----------------------------------------------------------------------------
(* The workers                                                             *)

\* Minutes are never refunded.
BillDue(r) ==
    CASE KindOf(r) = "document" -> Billed[File(r)]
      [] KindOf(r) = "text" \/ req[r].free -> 0
      [] OTHER -> IF Billed[File(r)] > req[r].told THEN Billed[File(r)] - req[r].told ELSE 0

BillToken(r) == IF KindOf(r) = "document" THEN "document" ELSE "settle"

\* Delivered again after the period turned, the bill is charged to the new row too.
SettleBill(r, trial) ==
    LET elsewhere == \E d \in debits :
                        d.work = r /\ d.token = BillToken(r) /\ d.period # Period(trial)
    IN
    /\ job[r] = "queued"
    /\ \E told \in {0, BillDue(r)} : Debit(r, BillToken(r), BillDue(r), trial, told)
    /\ job' = [job EXCEPT ![r] = "settled"]
    /\ odd' = IF elsewhere THEN odd \cup {File(r)} ELSE odd
    /\ UNCHANGED <<staged, req, row, stored, entry, owing>>

Recorded(r, outcome) ==
    entry' = IF KindOf(r) = "shared"
             THEN [entry EXCEPT ![File(r)] = RecordTerminal(@, r, outcome)] ELSE entry

FinishWork(r) ==
    /\ job[r] = "settled"
    /\ job' = [job EXCEPT ![r] = "done"]
    /\ Recorded(r, "processed")
    /\ UNCHANGED <<staged, req, row, stored, owing, odd, consumptionVars>>

\* The queue delivers at least once: the worker ends between the bill and the outcome.
Redelivered(r) ==
    /\ job[r] = "settled"
    /\ job' = [job EXCEPT ![r] = "queued"]
    /\ UNCHANGED <<staged, req, row, stored, entry, owing, odd, consumptionVars>>

\* The provider gives up: what the gate charged is not given back.
WorkFails(r) ==
    /\ job[r] = "queued"
    /\ job' = [job EXCEPT ![r] = "failed"]
    /\ Recorded(r, "failed")
    /\ odd' = odd \cup {File(r)}
    /\ UNCHANGED <<staged, req, row, stored, owing, consumptionVars>>

OtherEnds(f, outcome) ==
    /\ entry[f] = [status |-> "reserved", job |-> Other]
    /\ entry' = [entry EXCEPT ![f] = RecordTerminal(@, Other, outcome)]
    /\ UNCHANGED <<staged, req, row, job, stored, owing, odd, consumptionVars>>

-----------------------------------------------------------------------------
(* What goes wrong                                                         *)

\* These calls are swallowed by the code around them, and the request goes on.
CheckFailsOpen(r) ==
    /\ Doing(r, "check")
    /\ Goes(r)
    /\ UNCHANGED <<staged, row, job, stored, entry, owing, odd, consumptionVars>>

DiscardFails(r) ==
    /\ Doing(r, "discard")
    /\ Goes(r)
    /\ UNCHANGED <<staged, row, job, stored, entry, owing, odd, consumptionVars>>

\* A library that cannot be read holds nothing.
HeldUnread(r) ==
    /\ Doing(r, "held")
    /\ Goes(r)
    /\ odd' = IF Holds(r) THEN odd \cup {File(r)} ELSE odd
    /\ UNCHANGED <<staged, row, job, stored, entry, owing, consumptionVars>>

DebitLost(r, trial) ==
    /\ Doing(r, "debit") /\ DebitDue(r) > 0
    /\ DebitRaises(r, "gate", DebitDue(r), trial)
    /\ Goes(r)
    /\ odd' = odd \cup {File(r)}
    /\ UNCHANGED <<staged, row, job, stored, entry, owing>>

CountLost(r) ==
    /\ Doing(r, "count")
    /\ Goes(r)
    /\ odd' = odd \cup {File(r)}
    /\ UNCHANGED <<staged, row, job, stored, entry, owing, consumptionVars>>

BillLost(r, trial) ==
    /\ job[r] = "queued" /\ BillDue(r) > 0
    /\ DebitRaises(r, BillToken(r), BillDue(r), trial)
    /\ job' = [job EXCEPT ![r] = "settled"]
    /\ odd' = odd \cup {File(r)}
    /\ UNCHANGED <<staged, req, row, stored, entry, owing>>

\* A request that ends with its row written leaves the row behind.
LeavesRow(r) == odd' = IF row[r] = "held" THEN odd \cup {File(r)} ELSE odd

\* These calls end the request.  The file endpoints undo nothing; the orchestrator
\* fails the job it created, or else gives its reservation back.
Raising == {"row", "job", "copy", "ledger", "reserve", "submit", "send"}

Undo(r) ==
    LET f == File(r) IN
    CASE KindOf(r) = "shared" /\ job[r] = "pending" ->
            /\ job' = [job EXCEPT ![r] = "failed"]
            /\ entry' = [entry EXCEPT ![f] = RecordTerminal(@, r, "failed")]
      [] KindOf(r) = "shared" /\ job[r] = "none" ->
            /\ entry' = [entry EXCEPT ![f] = Release(@, r)]
            /\ UNCHANGED job
      [] OTHER -> UNCHANGED <<job, entry>>

CallRaises(r) ==
    /\ UnderWay(r) /\ Head(req[r].todo) \in Raising
    /\ Ends(r, "broken")
    /\ Undo(r)
    /\ LeavesRow(r)
    /\ UNCHANGED <<staged, row, stored, owing, consumptionVars>>

\* Another request of the same key has moved the object meanwhile: nothing to copy.
CopyFindsNothing(r) ==
    /\ Doing(r, "copy") /\ ~staged[req[r].key].there
    /\ Ends(r, "broken")
    /\ LeavesRow(r)
    /\ UNCHANGED <<staged, row, job, stored, entry, owing, consumptionVars>>

RequestKilled(r) ==
    /\ UnderWay(r)
    /\ Ends(r, "broken")
    /\ LeavesRow(r)
    /\ UNCHANGED <<staged, row, job, stored, entry, owing, consumptionVars>>

-----------------------------------------------------------------------------
(* Steps                                                                   *)

RequestStep(r, trial) ==
    \/ \E k \in Keys : SubmitUpload(r, k)
    \/ DeleteSave(r)
    \/ CheckQuota(r, trial) \/ SaveUpload(r) \/ CreateUploadJob(r)
    \/ CopyStaged(r) \/ CopyFindsNothing(r) \/ DiscardStaged(r)
    \/ ReadLedger(r) \/ ReserveShared(r) \/ SubmitUrl(r)
    \/ ReadContent(r) \/ AskHeld(r) \/ PassGate(r, trial) \/ DebitSave(r, trial)
    \/ SendMessage(r) \/ CountSubmission(r)
    \/ SettleBill(r, trial) \/ Redelivered(r) \/ FinishWork(r)
    \/ WorkFails(r)

RequestFault(r, trial) ==
    \/ CheckFailsOpen(r) \/ DiscardFails(r) \/ HeldUnread(r)
    \/ DebitLost(r, trial) \/ CountLost(r) \/ BillLost(r, trial)
    \/ CallRaises(r) \/ RequestKilled(r)

-----------------------------------------------------------------------------
(* Safety                                                                  *)

Quiet(f) ==
    \A r \in Work : File(r) = f => ~UnderWay(r) /\ job[r] \notin {"queued", "settled"}

\* The gate's minutes or the bill, whichever is more; what is known already, its bill if
\* the job behind it told one.
Cost(r) ==
    LET bill == Billed[File(r)]
        gate == GateMinutes(File(r))
    IN CASE r \notin owing -> 0
         [] r \in owing /\ Duplicate(r) -> IF req[r].tells THEN AtLeastOne(bill) ELSE 0
         [] OTHER -> IF bill > gate THEN bill ELSE gate

Charges(r) == {d \in debits : d.work = r}
AddUpTo(writes, minutes) ==
    \/ writes = {} /\ minutes = 0
    \/ \E d \in writes : writes = {d} /\ minutes = d.minutes
    \/ \E d, e \in writes : d # e /\ writes = {d, e} /\ minutes = d.minutes + e.minutes

\* When nothing of a file is under way, its user has been charged for every save made
\* while holding no other, once and in full, and for no other save: not for a copy,
\* nor for a second submission of the key, nor for a message delivered twice.  A first
\* copy of known content is charged its bill, and nothing where the job behind it had
\* expired, could not be read or was not done: it told no length.  Left out are the files
\* that are odd: a save came or went between another's row and its question for such
\* rows, a request ended after writing its row, the gate refused or the provider failed,
\* a write was lost, the period turned between two deliveries, or the account was erased.
PaidOnce ==
    \A f \in Metered \ odd : Quiet(f) =>
        \A r \in Work : File(r) = f => AddUpTo(Charges(r), Cost(r))

\* An accepted submission has all that its answer promises: a row (or it was
\* deleted since) and, as long as the row stands, a job that was sent and the bytes where
\* the worker looks for them, however often its key was submitted; and one item in the
\* counts of the day.
AcceptedIsWhole ==
    \A r \in Work : Accepted(r) =>
        /\ row[r] # "none"
        /\ row[r] = "held" /\ KindOf(r) # "link" /\ ~Duplicate(r) =>
              job[r] \notin {"none", "pending"} /\ Home(r) \in stored
        /\ KindOf(r) # "shared" /\ File(r) \notin odd => Cardinality(ItemsOf(r)) = 1
=============================================================================
