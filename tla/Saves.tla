------------------------------- MODULE Saves -------------------------------
(***************************************************************************)
(* The rows of user_media of one account, as the features around the       *)
(* library see them: whether the save is visible, the folder it is in and  *)
(* the period it was made in.  What is processed for it is the subject of  *)
(* ContentPipeline, what is purged with it of ContentPurge.                *)
(***************************************************************************)
EXTENDS Naturals, FiniteSets

CONSTANTS
    Items,          \* media_item_ids
    Grown,          \* the folders an account may have at the start
    Requests,       \* the requests to the API that touch folders
    Unfiled,        \* no folder: the parent of a root folder
    LastPeriod      \* bound of the clock, in periods of the digest

\* A request creates one folder, and the default folder when there is none.
FolderIds == Grown \cup (Requests \X {"own", "default"})

\* A new folder has an id of its own.
ASSUME SavesAssumption ==
    /\ Unfiled \notin FolderIds
    /\ IsFiniteSet(Grown) /\ IsFiniteSet(Requests)
    /\ Grown \cap (Requests \X {"own", "default"}) = {}
    /\ LastPeriod \in Nat \ {0}

VARIABLES
    saves,          \* the account's rows of user_media
    clock           \* the digest period in progress

saveVars == <<saves, clock>>

SaveRows == [state : {"visible", "deleted"}, folder : FolderIds \cup {Unfiled},
             at : 1..LastPeriod, late : BOOLEAN]
NoSave == [state |-> "absent"]
GoneSave == [state |-> "gone"]      \* an id is never used again

SavesTypeOK ==
    /\ saves \in [Items -> SaveRows \cup {NoSave, GoneSave}]
    /\ clock \in 1..LastPeriod

Visible(i) == saves[i].state = "visible"
Held(i) == saves[i].state \in {"visible", "deleted"}

\* create: the row of a fresh id, stamped at the time the record was built; late
\* remembers that the period had closed by then.
Stored(i, folder, at) ==
    saves' = [saves EXCEPT ![i] = [state |-> "visible", folder |-> folder, at |-> at,
                                   late |-> at # clock]]

\* update_organization: attribute by attribute, on a row that exists.
Refile(i, folder) ==
    saves' = IF Held(i) THEN [saves EXCEPT ![i].folder = folder] ELSE saves

\* mark_deleted: on a visible row; the rest of the row stays.
SoftDelete(i) ==
    saves' = IF Visible(i) THEN [saves EXCEPT ![i].state = "deleted"] ELSE saves

\* The TTL sweeps a soft-deleted row after its grace.
Swept(i) ==
    /\ saves[i].state = "deleted"
    /\ saves' = [saves EXCEPT ![i] = GoneSave]

PeriodEnds ==
    /\ clock < LastPeriod
    /\ clock' = clock + 1
    /\ UNCHANGED saves
=============================================================================
