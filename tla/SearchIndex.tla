---------------------------- MODULE SearchIndex ----------------------------
(***************************************************************************)
(* The search index beside the library: a worker indexes the text of a     *)
(* save some time after it was read, the deletion of a save takes its      *)
(* chunks out at once if it can, and the cascade of the TTL again.         *)
(* A chunk's title is not followed, nor what a renaming patches in it.     *)
(***************************************************************************)
EXTENDS Saves

CONSTANTS
    Notes,          \* the messages of the indexing queue
    Removals,       \* the requests to delete a save
    MaxReceives     \* maxReceiveCount of the queue

ASSUME SearchAssumption == MaxReceives \in Nat \ {0}

VARIABLES
    chunks,         \* the saves that have records in the index
    note,           \* the messages, with the invocation that handles each
    removal,        \* the requests and their local variables
    cascade,        \* the sweeps whose records the stream still delivers
    cleared         \* saves whose chunks were taken out after they were deleted,
                    \* with nobody about to put them back

searchVars == <<chunks, note, removal, cascade, cleared>>

NoteSteps == {"unsent", "queued", "clear", "save", "gone"}
RemovalSteps == {"idle", "find", "mark", "clear", "done"}
NoNote == [pc |-> "unsent", on |-> {}, received |-> 0]
NoRemoval == [pc |-> "idle", on |-> {}]

SearchTypeOK ==
    /\ chunks \subseteq Items
    /\ note \in [Notes -> [pc : NoteSteps, on : SUBSET Items, received : 0..MaxReceives]]
    /\ removal \in [Removals -> [pc : RemovalSteps, on : SUBSET Items]]
    /\ cascade \subseteq Items /\ cleared \subseteq Items

SearchInit ==
    /\ chunks = {}
    /\ note = [n \in Notes |-> NoNote]
    /\ removal = [d \in Removals |-> NoRemoval]
    /\ cascade = {} /\ cleared = {}

-----------------------------------------------------------------------------
(* The indexing worker                                                     *)

NoteAt(n, pc) == note[n].pc = pc
NoteTo(n, pc) == note' = [note EXCEPT ![n].pc = pc]

\* The end of an ingestion, and a save that reuses its text, enqueue a message; a
\* send that raises is logged.
EnqueueIndexing(n, i) ==
    /\ NoteAt(n, "unsent") /\ saves[i].state # "absent"
    /\ note' = [note EXCEPT ![n] = [@ EXCEPT !.on = {i}, !.pc = "queued"]]
    /\ UNCHANGED <<chunks, removal, cascade, cleared, saveVars>>

\* Mutant of Indexable: the check does not look at deleted_at.
HeldAtAll(i) == Held(i)

\* get_user_media: a soft-deleted row reads as absent.
Indexable(i) == Visible(i)

\* The text is downloaded, which may raise; it may be empty, and the save may be gone
\* since the message was sent.
ReceiveNote(n) ==
    /\ NoteAt(n, "queued") /\ note[n].received < MaxReceives
    /\ \E pc \in {"queued", "gone"} \cup
                 (IF \A i \in note[n].on : Indexable(i) THEN {"clear"} ELSE {}) :
          note' = [note EXCEPT ![n] = [note[n] EXCEPT !.received = @ + 1, !.pc = pc]]
    /\ UNCHANGED <<chunks, removal, cascade, cleared, saveVars>>

\* _delete_chunks_for_media: an error is logged and the old chunks stay.
ClearForNote(n) ==
    /\ NoteAt(n, "clear")
    /\ chunks' \in {chunks, chunks \ note[n].on}
    /\ NoteTo(n, "save")
    /\ UNCHANGED <<removal, cascade, cleared, saveVars>>

SaveChunks(n) ==
    /\ NoteAt(n, "save")
    /\ chunks' = chunks \cup note[n].on
    /\ NoteTo(n, "gone") \/ NoteTo(n, "queued")
    /\ UNCHANGED <<removal, cascade, cleared, saveVars>>

\* A call raises or the worker dies: the message is delivered again, as often as
\* the queue allows.
NoteRaises(n) ==
    /\ note[n].pc \in {"clear", "save"}
    /\ NoteTo(n, "queued")
    /\ UNCHANGED <<chunks, removal, cascade, cleared, saveVars>>

-----------------------------------------------------------------------------
(* Deletion                                                                *)

\* Somebody has seen the save visible and will index it.
AboutToIndex(i) == \E n \in Notes : note[n].pc \in {"clear", "save"} /\ i \in note[n].on

\* delete_document, by a deletion or by the cascade.
TakeOut(on) ==
    /\ chunks' = chunks \ on
    /\ cleared' = cleared \cup {i \in on : ~AboutToIndex(i)}

FindRemoval(d, i) ==
    /\ removal[d].pc = "idle" /\ Held(i)
    /\ removal' = [removal EXCEPT ![d] = [pc |-> "mark", on |-> {i}]]
    /\ UNCHANGED <<chunks, note, cascade, cleared, saveVars>>

\* The row is marked before the index is told; a row swept meanwhile is not found.
MarkDeleted(d) ==
    /\ removal[d].pc = "mark"
    /\ \E i \in removal[d].on :
          /\ SoftDelete(i)
          /\ removal' = [removal EXCEPT ![d].pc = IF Held(i) THEN "clear" ELSE "done"]
    /\ UNCHANGED <<chunks, note, cascade, cleared, clock>>

\* Best-effort: a deletion is not refused because the index cannot be told.
ClearForRemoval(d) ==
    /\ removal[d].pc = "clear"
    /\ TakeOut(removal[d].on) \/ UNCHANGED <<chunks, cleared>>
    /\ removal' = [removal EXCEPT ![d].pc = "done"]
    /\ UNCHANGED <<note, cascade, saveVars>>

RemovalRaises(d) ==
    /\ removal[d].pc \in {"mark", "clear"}
    /\ removal' = [removal EXCEPT ![d].pc = "done"]
    /\ UNCHANGED <<chunks, note, cascade, cleared, saveVars>>

SweepSave(i) ==
    /\ Swept(i)
    /\ cascade' = cascade \cup {i}
    /\ UNCHANGED <<chunks, note, removal, cleared, clock>>

\* The cascade ends with the index; the stream retries it, not for ever.
CascadeToIndex(i) ==
    /\ i \in cascade
    /\ cascade' = cascade \ {i}
    /\ TakeOut({i}) \/ UNCHANGED <<chunks, cleared>>
    /\ UNCHANGED <<note, removal, saveVars>>

SearchStep ==
    \/ \E n \in Notes :
          \/ \E i \in Items : EnqueueIndexing(n, i)
          \/ ReceiveNote(n) \/ ClearForNote(n) \/ SaveChunks(n) \/ NoteRaises(n)
    \/ \E d \in Removals :
          \/ \E i \in Items : FindRemoval(d, i)
          \/ MarkDeleted(d) \/ ClearForRemoval(d) \/ RemovalRaises(d)
    \/ \E i \in Items : SweepSave(i) \/ CascadeToIndex(i)
=============================================================================
