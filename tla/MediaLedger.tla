---------------------------- MODULE MediaLedger ----------------------------
(***************************************************************************)
(* The content ledger (table media_idempotence): one entry per media_key,  *)
(* changed only by conditional writes.  The operators below are those      *)
(* writes, as functions of the entry they find: a write whose condition    *)
(* fails leaves the entry as it is.                                        *)
(*                                                                         *)
(* One entry is one content; contents share no state, so every module that *)
(* uses these operators follows a single media_key.                        *)
(***************************************************************************)
CONSTANT NoJob   \* the empty job_id

\* The table has no row for the content.
Absent == [status |-> "absent", job |-> NoJob]

Outcomes == {"processed", "failed"}
LedgerStatuses == {"absent", "reserved"} \cup Outcomes
Entries(J) == [status : LedgerStatuses, job : J \cup {NoJob}]

\* Mutant of CanReserve: a failed content may be reserved again.
CanReserveFailed(entry) == entry.status \in {"absent", "failed"}

\* put_item with attribute_not_exists(media_key): it wins only on no row.
CanReserve(entry) == entry.status = "absent"
Reserve(entry, j) ==
    IF CanReserve(entry) THEN [status |-> "reserved", job |-> j] ELSE entry

\* mark_processed / mark_failed: only the job the entry points at (or an
\* entry that names no job) may record an outcome, over any status.
MayRecord(entry, j) ==
    /\ entry.status # "absent"
    /\ entry.job \in {j, NoJob}
RecordTerminal(entry, j, outcome) ==
    IF MayRecord(entry, j) THEN [status |-> outcome, job |-> j] ELSE entry

\* Mutant of MayRelease: the release forgets to ask for a reservation.
MayReleaseSettled(entry, j) == entry.job = j

\* delete_item while the entry is still reserved by the same job.
MayRelease(entry, j) ==
    /\ entry.status = "reserved"
    /\ entry.job = j
Release(entry, j) == IF MayRelease(entry, j) THEN Absent ELSE entry
=============================================================================
