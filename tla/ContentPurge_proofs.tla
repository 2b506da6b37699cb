-------------------------- MODULE ContentPurge_proofs --------------------------
(***************************************************************************)
(* What holds of the destruction of a content for every set of saves and   *)
(* users, however often a cascade is replayed and an erasure asked for:    *)
(* who still holds the content reads it, a job at work keeps its entry,    *)
(* and nothing is left of what nobody holds.                               *)
(*                                                                         *)
(* The properties bear the code's own exceptions, a save that arrives      *)
(* inside a cascade and the erasure of an account, and so do the parts of  *)
(* the invariant they rest on.                                             *)
(***************************************************************************)
EXTENDS ContentPurge, TLAPS

-----------------------------------------------------------------------------
(* The inductive invariant                                                 *)

AtWork == {"working", "stored", "completed"}
UnderWay == {"listed", "scoped", "picked", "erased"}
NobodyHolds == \A r \in Saves : ~Held(r)

\* Every pointer, of the ledger, of a row or of a cascade, is to a job that was
\* begun; a row that waits for TTL is pointed at no job at work.
LedgerFits ==
    /\ IF ledger.status = "absent" THEN ledger = Absent ELSE ledger.job \in Saves
    /\ ledger.status = "reserved" => work[ledger.job] \in AtWork
    /\ \A j \in jobRows : work[j] # "none"
RowFits(r) ==
    /\ rows[r].stage = "none" => rows[r] = NoRow
    /\ rows[r].stage \in {"none", "saving"} => work[r] = "none"
    /\ rows[r].lastJob \in Saves => work[rows[r].lastJob] # "none"
CascadeFits(r) ==
    /\ cascade[r].phase # "none" => rows[r].stage = "swept"
    /\ cascade[r].pointer \in Saves => work[cascade[r].pointer] \in {"ended", "told"}
    /\ cascade[r].phase \in {"picked", "erased"} =>
          /\ cascade[r].refs = {} /\ cascade[r].job \in Saves
          /\ cascade[r].pointer \in {NoJob, cascade[r].job}
PointersFit == LedgerFits /\ \A r \in Saves : RowFits(r) /\ CascadeFits(r)

\* What a cascade has listed is still so: whoever saved since was seen.
ListingFits(s) ==
    /\ cascade[s].phase \in UnderWay /\ Unreferenced(s) => NobodyHolds
    /\ CascadeAt(s, "listed") /\ ~StillHolds(s) =>
          \A r \in Saves : UserOf[r] = UserOf[s] => ~Held(r)
ListingsHold == ~overlap => \A s \in Saves : ListingFits(s)

\* A cascade that took the text of the ledger's job, or may have, and cannot end
\* without taking the entry as well.
Aimed(c) == cascade[c].pointer \in {NoJob, ledger.job}
WillDelete(c) ==
    \/ cascade[c].phase \in {"listed", "scoped"} /\ Unreferenced(c) /\ Aimed(c)
    \/ cascade[c].phase \in {"picked", "erased"} /\ cascade[c].job = ledger.job
    \/ cascade[c].phase = "lost"
Replayed(c) == CascadeAt(c, "queued") /\ cascade[c].replays > 0 /\ Aimed(c)

\* A job at work owns the entry and its save is still held; an entry without its
\* text is on its way out, with nobody left who holds the content.
WorkFits(j) ==
    /\ work[j] \in AtWork => Held(j) /\ ledger.status = "reserved" /\ ledger.job = j
    /\ work[j] \in {"stored", "completed"} => j \in texts
TextFits(c) == CascadeAt(c, "erased") => cascade[c].job \notin texts
EntryFits ==
    ledger.status = "processed" /\ ledger.job \notin texts =>
        NobodyHolds /\ \E c \in Saves : WillDelete(c) \/ Replayed(c)
ReadyFits(r) ==
    Held(r) /\ rows[r].result = "ready" =>
        \/ ledger.status = "processed"
        \/ \E j \in Saves : ledger.job = j /\ work[j] = "completed"
Undisturbed == AccountsKept /\ ~overlap
ContentFits ==
    Undisturbed => /\ \A s \in Saves : WorkFits(s) /\ TextFits(s) /\ ReadyFits(s)
                   /\ EntryFits

\* Until somebody waits for another's job, all pointers are to one job, its text is
\* the only one, and its entry has a save or a cascade that answers for it.
Unwatched == \A s \in Saves : work[s] \notin {"watching", "told"}
PointerFits(r) == Held(r) => rows[r].lastJob \in {NoJob, ledger.job}
Answered ==
    ledger # Absent =>
        \/ ~NobodyHolds
        \/ \E c \in Saves : WillDelete(c) \/ (CascadeAt(c, "queued") /\ Aimed(c))
OneJobAtATime ==
    Undisturbed /\ Unwatched =>
        /\ texts \subseteq {ledger.job}
        /\ \A r \in Saves : PointerFits(r)
        /\ Answered

\* An erasure has listed every text but those of jobs it found at work and of those whose
\* row is gone, and is the last to write for its user.
Erased == {"jobs", "rows", "identity", "closed"}
ErasureOf(s) == account[UserOf[s]]
SaveFits(s) ==
    /\ work[s] = "working" \/ s \in texts => s \in jobRows \cup expired \cup ErasureOf(s).busy
    /\ ErasureOf(s).phase \notin {"open", "retry"} =>
          /\ rows[s].stage # "saving"
          /\ work[s] = "working" => s \in ErasureOf(s).busy
          /\ s \in texts => \/ s \in ErasureOf(s).busy \cup expired
                            \/ ErasureOf(s).phase \notin Erased /\ s \in ErasureOf(s).jobs
    /\ ErasureOf(s).phase \in {"identity", "closed"} => ~Held(s)
UserFits(u) ==
    /\ \A j \in account[u].jobs : UserOf[j] = u
    /\ account[u].phase = "open" => account[u].busy = {}
    /\ account[u].phase \in {"texts"} \cup Erased => u \notin artifacts
ErasuresFit == (\A s \in Saves : SaveFits(s)) /\ (\A u \in Users : UserFits(u))

IInv ==
    TypeOK /\ PointersFit /\ ListingsHold /\ ContentFits /\ OneJobAtATime /\ ErasuresFit

-----------------------------------------------------------------------------
(* Types                                                                   *)

Row == [stage : Stages, result : Results, lastJob : Saves \cup {NoJob}]
Cascade == [phase : CascadePhases, pointer : Saves \cup {NoJob}, refs : SUBSET Saves,
            job : Saves \cup {NoJob}, replays : 0..MaxReplays]
Erasure == [phase : AccountPhases, jobs : SUBSET Saves, busy : SUBSET Saves]

\* Every write of the ledger leaves an entry.
LEMMA EntriesStay ==
    ASSUME NEW entry \in Entries(Saves), NEW j \in Saves, NEW k
    PROVE  /\ Absent \in Entries(Saves)
           /\ CanReserve(entry) => Reserve(entry, j) = [status |-> "reserved", job |-> j]
           /\ \A outcome \in Outcomes :
                 /\ RecordTerminal(entry, j, outcome) \in Entries(Saves)
                 /\ \/ RecordTerminal(entry, j, outcome) = entry
                    \/ RecordTerminal(entry, j, outcome) = [status |-> outcome, job |-> j]
                 /\ entry.status # "absent" /\ entry.job = j =>
                       RecordTerminal(entry, j, outcome) = [status |-> outcome, job |-> j]
           /\ Reserve(entry, j) \in Entries(Saves)
           /\ WithoutEntry(entry, k) \in Entries(Saves)
           /\ WithoutEntry(entry, k) = IF entry.job = k THEN Absent ELSE entry
  BY DEF Entries, LedgerStatuses, Outcomes, Absent, Reserve, CanReserve, RecordTerminal,
         MayRecord, WithoutEntry

\* A mirror moves its own save on and nobody in or out of the library.
LEMMA MirrorEffects ==
    ASSUME rows \in [Saves -> Row], NEW j \in Saves, NEW result \in Results, Mirror(j, result)
    PROVE  /\ rows' \in [Saves -> Row]
           /\ \A r \in Saves :
                 /\ rows[r].stage \in {"saving", "live"} =>
                       /\ rows'[r].stage = (IF r = j THEN "live" ELSE rows[r].stage)
                       /\ rows'[r].result = result
                       /\ rows'[r].lastJob \in {j, rows[r].lastJob}
                 /\ rows[r].stage \notin {"saving", "live"} => rows'[r] = rows[r]
  BY DEF Mirror, Row, Stages

\* The completion event moves nobody in or out of the library either.
LEMMA SuccessEffects ==
    ASSUME TypeOK, NEW s \in Saves, ConsumeSuccess(s)
    PROVE  /\ rows' \in [Saves -> Row]
           /\ \A r \in Saves :
                 /\ rows'[r].stage = rows[r].stage
                 /\ rows'[r].lastJob \in {rows[r].lastJob} \cup Watchers
                 /\ Watchers = {} \/ rows[r].stage # "live" => rows'[r] = rows[r]
  <1>1. rows \in [Saves -> Row]
    BY DEF TypeOK, Row
  <1>2. PICK last \in [Users -> Watchers \cup {NoJob}] :
           rows' = [r \in Saves |->
                IF rows[r].stage = "live" /\ Watchers # {}
                THEN [rows[r] EXCEPT
                        !.result = "ready",
                        !.lastJob = IF last[UserOf[r]] = NoJob THEN @ ELSE last[UserOf[r]]]
                ELSE rows[r]]
    BY DEF ConsumeSuccess
  <1>3. \A r \in Saves : last[UserOf[r]] \in Watchers \cup {NoJob}
    BY PurgeAssumption
  <1>4. Watchers \subseteq Saves
    BY DEF Watchers
  <1>5. ASSUME NEW r \in Saves
        PROVE  /\ rows'[r] \in Row
               /\ rows'[r].stage = rows[r].stage
               /\ rows'[r].lastJob \in {rows[r].lastJob} \cup Watchers
               /\ Watchers = {} \/ rows[r].stage # "live" => rows'[r] = rows[r]
    <2>1. rows'[r] = IF rows[r].stage = "live" /\ Watchers # {}
                     THEN [rows[r] EXCEPT
                        !.result = "ready",
                        !.lastJob = IF last[UserOf[r]] = NoJob THEN @ ELSE last[UserOf[r]]]
                     ELSE rows[r]
      BY <1>2
    <2>2. /\ rows[r] \in Row /\ "ready" \in Results
          /\ last[UserOf[r]] \in Watchers \cup {NoJob}
      BY <1>1, <1>3 DEF Results
    <2>3. QED
      BY <2>1, <2>2, <1>4 DEF Row
  <1>6. rows' = [r \in Saves |-> rows'[r]]
    BY <1>2
  <1>7. QED
    BY <1>5, <1>6
\* A step of the content's processing keeps every type.
LEMMA ContentTypes ==
    ASSUME TypeOK, NEW s \in Saves, ContentStep(s), UNCHANGED expired
    PROVE  TypeOK'
  <1>. DEFINE Books == /\ ledger \in Entries(Saves) /\ jobRows \subseteq Saves
                       /\ texts \subseteq Saves /\ work \in [Saves -> Works]
              Beside == /\ artifacts \subseteq Users /\ cascade \in [Saves -> Cascade]
                        /\ account \in [Users -> Erasure] /\ overlap \in BOOLEAN
                        /\ expired \subseteq Saves
  <1>0. /\ Books /\ Beside /\ rows \in [Saves -> Row]
        /\ {"ended", "told", "working", "watching", "stored", "completed"} \subseteq Works
        /\ {"processed", "failed"} \subseteq Outcomes /\ Watchers \subseteq Saves
    BY DEF TypeOK, Row, Cascade, Erasure, Works, Outcomes, Watchers
  <1>1. Books' /\ Beside' /\ rows' \in [Saves -> Row] => TypeOK'
    BY DEF TypeOK, Row, Cascade, Erasure
  <1>2. ASSUME SaveRow(s) PROVE Books' /\ Beside' /\ rows' \in [Saves -> Row]
    <2>1. [rows[s] EXCEPT !.stage = "saving"] \in Row
      BY <1>0 DEF Row, Stages
    <2>2. rows' = [rows EXCEPT ![s] = [rows[s] EXCEPT !.stage = "saving"]]
      BY <1>2 DEF SaveRow
    <2>. QED  BY <1>0, <1>2, <2>1, <2>2 DEF SaveRow, content
  <1>3. ASSUME Reserving(s) PROVE Books' /\ Beside' /\ rows' \in [Saves -> Row]
    <2>1. rows' \in [Saves -> Row]
      BY <1>0, <1>3, MirrorEffects DEF Reserving, Results
    <2>. QED  BY <1>0, <1>3, <2>1, EntriesStay DEF Reserving
  <1>4. ASSUME Watching(s) PROVE Books' /\ Beside' /\ rows' \in [Saves -> Row]
    <2>1. rows' \in [Saves -> Row]
      BY <1>0, <1>4, MirrorEffects DEF Watching, Results
    <2>. QED  BY <1>0, <1>4, <2>1 DEF Watching
  <1>5. ASSUME Adopting(s) PROVE Books' /\ Beside' /\ rows' \in [Saves -> Row]
    <2>1. /\ ledger.job \in Saves \cup {NoJob} /\ rows[s].lastJob \in Saves \cup {NoJob}
      BY <1>0 DEF Entries, Row
    <2>2. rows' \in [Saves -> Row]
      BY <1>0, <1>5, <2>1 DEF Adopting, Row, Stages, Results
    <2>. QED  BY <1>0, <1>5, <2>2 DEF Adopting, content
  <1>6. ASSUME StoreText(s) PROVE Books' /\ Beside' /\ rows' \in [Saves -> Row]
    BY <1>0, <1>6 DEF StoreText
  <1>7. ASSUME CompleteJob(s) PROVE Books' /\ Beside' /\ rows' \in [Saves -> Row]
    <2>1. rows' \in [Saves -> Row]
      BY <1>0, <1>7, MirrorEffects DEF CompleteJob, Results
    <2>. QED  BY <1>0, <1>7, <2>1 DEF CompleteJob
  <1>8. ASSUME ConsumeSuccess(s) PROVE Books' /\ Beside' /\ rows' \in [Saves -> Row]
    BY <1>0, <1>8, SuccessEffects, EntriesStay DEF ConsumeSuccess
  <1>9. ASSUME FailJob(s) PROVE Books' /\ Beside' /\ rows' \in [Saves -> Row]
    <2>1. rows' \in [Saves -> Row]
      BY <1>0, <1>9, MirrorEffects DEF FailJob, Results
    <2>. QED  BY <1>0, <1>9, <2>1, EntriesStay DEF FailJob
  <1>. QED  BY <1>1, <1>2, <1>3, <1>4, <1>5, <1>6, <1>7, <1>8, <1>9 DEF ContentStep

\* Every write of a cascade is of one record and leaves its books a cascade's.
CascadeWrite(s) ==
    \E c \in Cascade : cascade' = [cascade EXCEPT ![s] = c]

LEMMA CascadeWrites ==
    ASSUME TypeOK, NEW s \in Saves, PurgeStep(s)
    PROVE  cascade' = cascade \/ CascadeWrite(s)
  <1>1. /\ cascade \in [Saves -> Cascade] /\ cascade[s] \in Cascade
        /\ rows[s].lastJob \in Saves \cup {NoJob} /\ ledger.job \in Saves \cup {NoJob}
    BY DEF TypeOK, Cascade, Row, Entries
  <1>2. \A phase \in CascadePhases :
           /\ [cascade[s] EXCEPT !.phase = phase] \in Cascade
           /\ [NoCascade EXCEPT !.phase = phase] \in Cascade
    BY <1>1, PurgeAssumption DEF Cascade, NoCascade
  <1>3. {"queued", "listed", "scoped", "picked", "erased", "done", "lost"} \subseteq CascadePhases
    BY DEF CascadePhases
  <1>4. ASSUME DeleteSave(s) \/ RestoreSave(s) PROVE cascade' = cascade
    BY <1>4 DEF DeleteSave, RestoreSave
  <1>5. ASSUME Sweep(s) PROVE CascadeWrite(s)
    <2>1. [NoCascade EXCEPT !.phase = "queued", !.pointer = rows[s].lastJob] \in Cascade
      <3>1. 0 \in 0..MaxReplays
        BY PurgeAssumption
      <3>. QED  BY <1>1, <1>3, <3>1 DEF Cascade, NoCascade
    <2>. QED  BY <1>5, <2>1 DEF Sweep, CascadeWrite
  <1>6. ASSUME ListReferences(s) PROVE CascadeWrite(s)
    <2>1. References(s) \subseteq Saves
      BY DEF References
    <2>2. [cascade[s] EXCEPT !.phase = "listed", !.refs = References(s)] \in Cascade
      BY <1>1, <1>3, <2>1 DEF Cascade
    <2>3. cascade' = [cascade EXCEPT ![s] = [cascade[s] EXCEPT !.phase = "listed", !.refs = References(s)]]
      BY <1>6, <1>1 DEF ListReferences
    <2>. QED  BY <2>2, <2>3 DEF CascadeWrite
  <1>7. ASSUME NEW phase \in CascadePhases, CascadeTo(s, phase) \/ CascadeEnds(s, phase)
        PROVE  CascadeWrite(s)
    <2>1. CASE CascadeTo(s, phase)
      <3>1. cascade' = [cascade EXCEPT ![s] = [cascade[s] EXCEPT !.phase = phase]]
        BY <2>1 DEF CascadeTo
      <3>. QED  BY <1>2, <3>1 DEF CascadeWrite
    <2>2. CASE CascadeEnds(s, phase)
      BY <2>2, <1>2 DEF CascadeWrite, CascadeEnds
    <2>. QED  BY <1>7, <2>1, <2>2
  <1>8. ASSUME DropArtifacts(s) \/ EraseText(s) \/ DeleteEntry(s) PROVE CascadeWrite(s)
    BY <1>3, <1>7, <1>8 DEF DropArtifacts, EraseText, DeleteEntry
  <1>9. ASSUME PickJob(s) PROVE CascadeWrite(s)
    <2>1. CASE Unreferenced(s) /\ ContentJob(s) # NoJob
      <3>1. ContentJob(s) \in Saves \cup {NoJob}
        BY <1>1 DEF ContentJob, Cascade
      <3>2. [cascade[s] EXCEPT !.job = ContentJob(s), !.phase = "picked"] \in Cascade
        BY <1>1, <1>3, <3>1 DEF Cascade
      <3>3. cascade' = [cascade EXCEPT ![s] = [cascade[s] EXCEPT !.job = ContentJob(s), !.phase = "picked"]]
        BY <1>9, <2>1, <1>1 DEF PickJob
      <3>. QED  BY <3>2, <3>3 DEF CascadeWrite
    <2>. QED  BY <1>3, <1>7, <1>9, <2>1 DEF PickJob
  <1>10. ASSUME CascadeRaises(s) PROVE CascadeWrite(s)
    <2>1. CASE cascade[s].replays < MaxReplays
      <3>1. cascade[s].replays + 1 \in 0..MaxReplays /\ cascade[s].pointer \in Saves \cup {NoJob}
        BY <1>1, <2>1, PurgeAssumption DEF Cascade
      <3>2. [NoCascade EXCEPT !.phase = "queued", !.pointer = cascade[s].pointer,
                              !.replays = cascade[s].replays + 1] \in Cascade
        BY <3>1, <1>3 DEF Cascade, NoCascade
      <3>. QED  BY <1>10, <2>1, <3>2 DEF CascadeRaises, CascadeWrite
    <2>. QED  BY <1>3, <1>7, <1>10, <2>1 DEF CascadeRaises
  <1>. QED  BY <1>4, <1>5, <1>6, <1>8, <1>9, <1>10 DEF PurgeStep

\* What each step of a cascade does to its record; no other record is touched.
LEMMA CascadeEffects ==
    ASSUME TypeOK, NEW s \in Saves, PurgeStep(s)
    PROVE  /\ \A c \in Saves \ {s} : cascade'[c] = cascade[c]
           /\ \/ (DeleteSave(s) \/ RestoreSave(s)) /\ cascade' = cascade
              \/ /\ Sweep(s) /\ cascade'[s].phase = "queued"
                 /\ cascade'[s].pointer = rows[s].lastJob
              \/ /\ ListReferences(s) /\ cascade[s].phase = "queued" /\ cascade'[s].phase = "listed"
                 /\ cascade'[s].refs = References(s) /\ cascade'[s].pointer = cascade[s].pointer
              \/ /\ DropArtifacts(s) /\ cascade[s].phase = "listed" /\ cascade'[s].phase = "scoped"
                 /\ cascade'[s].refs = cascade[s].refs /\ cascade'[s].pointer = cascade[s].pointer
              \/ /\ PickJob(s) /\ cascade[s].phase = "scoped" /\ cascade'[s].phase = "picked"
                 /\ cascade'[s].refs = cascade[s].refs /\ Unreferenced(s)
                 /\ cascade'[s].pointer = cascade[s].pointer
                 /\ cascade'[s].job = ContentJob(s) /\ ContentJob(s) # NoJob
              \/ /\ PickJob(s) /\ cascade[s].phase = "scoped" /\ cascade'[s].phase = "done"
                 /\ ~(Unreferenced(s) /\ ContentJob(s) # NoJob)
              \/ /\ EraseText(s) /\ cascade[s].phase = "picked" /\ cascade'[s].phase = "erased"
                 /\ cascade'[s].refs = cascade[s].refs /\ cascade'[s].job = cascade[s].job
                 /\ cascade'[s].pointer = cascade[s].pointer
              \/ DeleteEntry(s) /\ cascade[s].phase = "erased" /\ cascade'[s].phase = "done"
              \/ /\ CascadeRaises(s) /\ cascade[s].phase \in {"queued"} \cup UnderWay
                 /\ cascade'[s].phase = "queued" /\ cascade'[s].replays > 0
                 /\ cascade'[s].pointer = cascade[s].pointer
              \/ CascadeRaises(s) /\ cascade'[s].phase = "lost"
  <1>1. cascade \in [Saves -> Cascade] /\ cascade[s] \in Cascade
    BY DEF TypeOK, Cascade
  <1>2. \A c \in Saves \ {s} : cascade'[c] = cascade[c]
    BY <1>1, CascadeWrites DEF CascadeWrite
  <1>3. CASE DeleteSave(s) \/ RestoreSave(s)
    BY <1>2, <1>3 DEF DeleteSave, RestoreSave
  <1>4. CASE Sweep(s)
    BY <1>1, <1>2, <1>4 DEF Sweep, NoCascade
  <1>5. CASE ListReferences(s)
    BY <1>1, <1>2, <1>5 DEF ListReferences, CascadeAt, Cascade
  <1>6. CASE DropArtifacts(s)
    BY <1>1, <1>2, <1>6 DEF DropArtifacts, CascadeAt, CascadeTo, Cascade
  <1>7. CASE PickJob(s)
    <2>1. cascade[s].phase = "scoped"
      BY <1>7 DEF PickJob, CascadeAt
    <2>2. CASE Unreferenced(s) /\ ContentJob(s) # NoJob
      <3>1. cascade' = [cascade EXCEPT
                           ![s] = [@ EXCEPT !.job = ContentJob(s), !.phase = "picked"]]
        BY <1>7, <2>2 DEF PickJob
      <3>. QED  BY <1>1, <1>2, <1>7, <2>1, <2>2, <3>1 DEF Cascade
    <2>3. CASE ~(Unreferenced(s) /\ ContentJob(s) # NoJob)
      <3>1. CascadeEnds(s, "done")
        BY <1>7, <2>3 DEF PickJob
      <3>2. cascade'[s].phase = "done"
        BY <1>1, <3>1 DEF CascadeEnds, NoCascade
      <3>. QED  BY <1>2, <1>7, <2>1, <2>3, <3>2
    <2>. QED  BY <2>2, <2>3
  <1>8. CASE EraseText(s)
    BY <1>1, <1>2, <1>8 DEF EraseText, CascadeAt, CascadeTo, Cascade
  <1>9. CASE DeleteEntry(s)
    BY <1>1, <1>2, <1>9 DEF DeleteEntry, CascadeAt, CascadeEnds, NoCascade
  <1>10. CASE CascadeRaises(s)
    <2>1. cascade[s].phase \in {"queued"} \cup UnderWay
      BY <1>10 DEF CascadeRaises, UnderWay
    <2>2. CASE cascade[s].replays < MaxReplays
      <3>1. cascade' = [cascade EXCEPT ![s] =
               [NoCascade EXCEPT !.phase = "queued", !.pointer = cascade[s].pointer,
                                 !.replays = cascade[s].replays + 1]]
        BY <1>10, <2>2 DEF CascadeRaises
      <3>2. cascade[s].replays + 1 > 0
        BY <1>1, PurgeAssumption DEF Cascade
      <3>3. /\ cascade'[s].phase = "queued" /\ cascade'[s].pointer = cascade[s].pointer
            /\ cascade'[s].replays = cascade[s].replays + 1
        BY <1>1, <3>1 DEF NoCascade
      <3>. QED  BY <1>2, <1>10, <2>1, <3>2, <3>3
    <2>3. CASE ~(cascade[s].replays < MaxReplays)
      <3>1. CascadeEnds(s, "lost")
        BY <1>10, <2>3 DEF CascadeRaises
      <3>2. cascade'[s].phase = "lost"
        BY <1>1, <3>1 DEF CascadeEnds, NoCascade
      <3>. QED  BY <1>2, <1>10, <3>2
    <2>. QED  BY <2>2, <2>3
  <1>. QED  BY <1>3, <1>4, <1>5, <1>6, <1>7, <1>8, <1>9, <1>10 DEF PurgeStep

\* So does a step of a deletion, a restore or a cascade,
LEMMA PurgeTypes ==
    ASSUME TypeOK, NEW s \in Saves, PurgeStep(s), UNCHANGED expired
    PROVE  TypeOK'
  <1>1. cascade' \in [Saves -> Cascade]
    BY CascadeWrites DEF TypeOK, Cascade, CascadeWrite
  <1>2. rows \in [Saves -> Row] /\ rows[s] \in Row
    BY DEF TypeOK, Row
  <1>3. rows' \in [Saves -> Row]
    <2>1. \A stage \in Stages : /\ [rows[s] EXCEPT !.stage = stage] \in Row
                                /\ [NoRow EXCEPT !.stage = stage] \in Row
      BY <1>2 DEF Row, NoRow, Results
    <2>2. ASSUME NEW stage \in Stages, rows' = [rows EXCEPT ![s].stage = stage]
          PROVE  rows' \in [Saves -> Row]
      <3>1. rows' = [rows EXCEPT ![s] = [rows[s] EXCEPT !.stage = stage]]
        BY <2>2
      <3>. QED  BY <1>2, <2>1, <3>1
    <2>3. {"deleted", "live", "swept"} \subseteq Stages
      BY DEF Stages
    <2>4. CASE DeleteSave(s) \/ RestoreSave(s)
      BY <2>2, <2>3, <2>4 DEF DeleteSave, RestoreSave
    <2>5. CASE Sweep(s)
      BY <1>2, <2>1, <2>3, <2>5 DEF Sweep
    <2>6. CASE ~DeleteSave(s) /\ ~RestoreSave(s) /\ ~Sweep(s)
      BY <1>2, <2>6 DEF PurgeStep, ListReferences, DropArtifacts, PickJob, EraseText,
                        DeleteEntry, CascadeRaises
    <2>. QED  BY <2>4, <2>5, <2>6
  <1>4. /\ ledger' \in Entries(Saves) /\ jobRows' \subseteq Saves /\ texts' \subseteq Saves
        /\ work' \in [Saves -> Works] /\ artifacts' \subseteq Users
        /\ account' = account /\ overlap' = overlap
    BY EntriesStay DEF TypeOK, PurgeStep, DeleteSave, RestoreSave, Sweep, ListReferences, DropArtifacts,
           PickJob, EraseText, DeleteEntry, CascadeRaises, content
  <1>. QED  BY <1>1, <1>3, <1>4 DEF TypeOK, Row, Cascade

\* and one of an erasure or a generation.
LEMMA ErasureTypes ==
    ASSUME TypeOK, NEW u \in Users, Generate(u) \/ ErasureStep(u), UNCHANGED expired
    PROVE  TypeOK'
  <1>1. /\ account \in [Users -> Erasure] /\ account[u] \in Erasure
        /\ rows \in [Saves -> Row] /\ jobRows \subseteq Saves
    BY DEF TypeOK, Erasure, Row
  <1>2. \A phase \in AccountPhases :
           /\ [account[u] EXCEPT !.phase = phase] \in Erasure
           /\ [account[u] EXCEPT !.phase = phase, !.jobs = {}] \in Erasure
    BY <1>1 DEF Erasure
  <1>3. {"artifacts", "texts", "jobs", "rows", "identity", "retry", "closed"} \subseteq AccountPhases
    BY DEF AccountPhases
  <1>4. ASSUME NEW phase \in AccountPhases, ErasureTo(u, phase)
        PROVE  account' \in [Users -> Erasure]
    <2>1. account' = [account EXCEPT ![u] = [account[u] EXCEPT !.phase = phase]]
      BY <1>4 DEF ErasureTo
    <2>. QED  BY <1>1, <1>2, <2>1
  <1>5. ASSUME NEW phase \in AccountPhases,
               account' = [account EXCEPT
                              ![u] = [@ EXCEPT !.phase = phase, !.jobs = {}]]
        PROVE  account' \in [Users -> Erasure]
    <2>1. account' = [account EXCEPT ![u] = [account[u] EXCEPT !.phase = phase, !.jobs = {}]]
      BY <1>1, <1>5
    <2>. QED  BY <1>1, <1>2, <2>1
  <1>6. CASE Generate(u)
    BY <1>6 DEF Generate, TypeOK, content
  <1>7. CASE TakeInventory(u)
    <2>1. [phase |-> "artifacts", jobs |-> {j \in jobRows : UserOf[j] = u},
           busy |-> account[u].busy \cup {j \in Saves : UserOf[j] = u /\ work[j] = "working"}] \in Erasure
      BY <1>1, <1>3 DEF Erasure
    <2>2. account' \in [Users -> Erasure]
      BY <1>1, <1>7, <2>1 DEF TakeInventory
    <2>. QED  BY <1>7, <2>2 DEF TakeInventory, TypeOK, content, Erasure
  <1>8. CASE EraseArtifacts(u) \/ EraseTexts(u) \/ EraseIdentity(u)
    <2>1. account' \in [Users -> Erasure]
      BY <1>3, <1>4, <1>8 DEF EraseArtifacts, EraseTexts, EraseIdentity
    <2>. QED  BY <1>8, <2>1 DEF EraseArtifacts, EraseTexts, EraseIdentity, TypeOK, content, Erasure
  <1>9. CASE EraseJobs(u) \/ ErasureRaises(u)
    <2>1. account' \in [Users -> Erasure]
      BY <1>3, <1>5, <1>9 DEF EraseJobs, ErasureRaises
    <2>. QED  BY <1>9, <2>1 DEF EraseJobs, ErasureRaises, TypeOK, content, Erasure
  <1>10. CASE EraseRows(u)
    <2>1. account' \in [Users -> Erasure]
      BY <1>3, <1>4, <1>10 DEF EraseRows
    <2>2. [NoRow EXCEPT !.stage = "erased"] \in Row
      BY DEF Row, NoRow, Results, Stages
    <2>3. rows' \in [Saves -> Row]
      BY <1>1, <1>10, <2>2 DEF EraseRows
    <2>. QED  BY <1>10, <2>1, <2>3 DEF EraseRows, TypeOK, content, Erasure, Row
  <1>. QED  BY <1>6, <1>7, <1>8, <1>9, <1>10 DEF ErasureStep
-----------------------------------------------------------------------------
(* What the steps leave alone                                              *)

\* Work that was begun stays begun, and what was told stays told.
LEMMA WorkGoesOn ==
    ASSUME TypeOK, PointersFit, NEW s \in Saves, ContentStep(s)
    PROVE  \A j \in Saves :
              /\ work[j] # "none" => work'[j] # "none"
              /\ work[j] \in {"ended", "told"} => work'[j] = work[j]
              /\ work[j] \in {"watching", "told"} => work'[j] \in {"watching", "told"}
  <1>1. rows[s].stage = "saving" => work[s] = "none"
    BY DEF PointersFit, RowFits
  <1>2. work \in [Saves -> Works]
    BY DEF TypeOK
  <1>. QED  BY <1>1, <1>2 DEF ContentStep, SaveRow, Reserving, Watching, Adopting, StoreText,
                              CompleteJob, ConsumeSuccess, FailJob, Watchers, content

\* A step of a cascade or of an erasure touches no work, and one of the content no cascade.
LEMMA OthersLeaveWork ==
    /\ \A s \in Saves : PurgeStep(s) => /\ work' = work /\ jobRows' = jobRows
                                        /\ account' = account /\ overlap' = overlap
    /\ \A s \in Saves : ContentStep(s) => /\ cascade' = cascade /\ account' = account
                                          /\ artifacts' = artifacts
    /\ \A u \in Users : Generate(u) => /\ UNCHANGED <<content, rows, cascade, account, overlap>>
    /\ \A u \in Users : ErasureStep(u) => /\ UNCHANGED <<ledger, work, cascade, overlap>>
  BY DEF PurgeStep, DeleteSave, RestoreSave, Sweep, ListReferences, DropArtifacts, PickJob,
         EraseText, DeleteEntry, CascadeRaises, ContentStep, SaveRow, Reserving, Watching,
         Adopting, StoreText, CompleteJob, ConsumeSuccess, FailJob, Generate, ErasureStep,
         TakeInventory, EraseArtifacts, EraseTexts, EraseJobs, EraseRows, EraseIdentity,
         ErasureRaises, content

\* A reservation is of a job at work, whichever actor wrote the entry last.
LEMMA ContentKeepsLedger ==
    ASSUME TypeOK, PointersFit, NEW s \in Saves, ContentStep(s)
    PROVE  LedgerFits'
  <1>1. /\ ledger \in Entries(Saves) /\ work \in [Saves -> Works] /\ jobRows \subseteq Saves
        /\ LedgerFits /\ {"processed", "failed"} \subseteq Outcomes
    BY DEF TypeOK, PointersFit, Outcomes
  <1>2. \A j \in jobRows : work'[j] # "none"
    BY <1>1, WorkGoesOn DEF LedgerFits
  <1>3. CASE SaveRow(s) \/ Adopting(s)
    BY <1>1, <1>3 DEF SaveRow, Adopting, content, LedgerFits
  <1>4. CASE Reserving(s)
    BY <1>1, <1>2, <1>4, EntriesStay DEF Reserving, LedgerFits, AtWork
  <1>5. CASE Watching(s)
    <2>1. work[s] = "none"
      BY <1>5 DEF Watching, PointersFit, RowFits
    <2>. QED  BY <1>1, <1>2, <1>5, <2>1 DEF Watching, LedgerFits, AtWork, Absent, Entries
  <1>6. CASE StoreText(s) \/ CompleteJob(s)
    BY <1>1, <1>2, <1>6 DEF StoreText, CompleteJob, LedgerFits, AtWork
  <1>7. CASE ConsumeSuccess(s) \/ FailJob(s)
    <2>1. \E outcome \in Outcomes : ledger' = RecordTerminal(ledger, s, outcome)
      BY <1>1, <1>7 DEF ConsumeSuccess, FailJob
    <2>2. /\ work'[s] # "none" /\ \A w \in Watchers : work'[w] # "none"
          /\ \A w \in Saves \ ({s} \cup Watchers) : work'[w] = work[w]
          /\ jobRows' \subseteq jobRows \cup Watchers \cup {s}
      BY <1>7 DEF ConsumeSuccess, FailJob, Watchers
    <2>3. CASE ledger' # ledger
      <3>1. ledger'.status \in Outcomes /\ ledger'.job = s
        BY <1>1, <2>1, <2>3, EntriesStay
      <3>. QED  BY <1>2, <2>2, <3>1 DEF LedgerFits, Outcomes
    <2>4. CASE ledger' = ledger /\ ledger.status = "reserved"
      <3>1. ledger.job # s
        <4>1. ledger.job = s => \E outcome \in Outcomes : ledger = [status |-> outcome, job |-> s]
          BY <1>1, <2>1, <2>4, EntriesStay, ZenonT(60)
        <4>. QED  BY <4>1, <2>4 DEF Outcomes
      <3>2. ledger.job \in Saves /\ ledger.job \notin Watchers
        BY <1>1, <2>4 DEF LedgerFits, AtWork, Watchers
      <3>. QED  BY <1>1, <1>2, <2>2, <2>4, <3>1, <3>2 DEF LedgerFits
    <2>. QED  BY <1>1, <1>2, <2>2, <2>3, <2>4 DEF LedgerFits
  <1>. QED  BY <1>3, <1>4, <1>5, <1>6, <1>7 DEF ContentStep

\* No row or cascade is left pointing at a job that was not begun.
LEMMA ContentKeepsRows ==
    ASSUME TypeOK, PointersFit, NEW s \in Saves, ContentStep(s), NEW r \in Saves
    PROVE  RowFits(r)' /\ CascadeFits(r)'
  <1>1. /\ rows \in [Saves -> Row] /\ work \in [Saves -> Works] /\ ledger \in Entries(Saves)
        /\ RowFits(r) /\ CascadeFits(r) /\ cascade' = cascade /\ RowFits(s)
        /\ rows[r].lastJob \in Saves \cup {NoJob} /\ LedgerFits /\ NoJob \notin Saves
    BY OthersLeaveWork, PurgeAssumption DEF TypeOK, Row, PointersFit
  <1>2. \A j \in Saves : /\ work[j] # "none" => work'[j] # "none"
                         /\ work[j] \in {"ended", "told"} => work'[j] = work[j]
    BY WorkGoesOn
  <1>3. rows[r].stage = "swept" => rows'[r] = rows[r]
    <2>1. CASE SaveRow(s) \/ Adopting(s)
      BY <1>1, <2>1 DEF SaveRow, Adopting
    <2>2. CASE StoreText(s)
      BY <2>2 DEF StoreText
    <2>3. CASE Reserving(s) \/ Watching(s) \/ CompleteJob(s) \/ FailJob(s)
      BY <1>1, <2>3, MirrorEffects DEF Reserving, Watching, CompleteJob, FailJob, Results
    <2>4. CASE ConsumeSuccess(s)
      BY <2>4, SuccessEffects
    <2>. QED  BY <2>1, <2>2, <2>3, <2>4 DEF ContentStep
  <1>4. CascadeFits(r)'
    BY <1>1, <1>2, <1>3 DEF CascadeFits
  <1>5. CASE SaveRow(s)
    <2>2. r = s => /\ rows'[r].stage = "saving" /\ rows'[r].lastJob = NoJob /\ work[r] = "none"
      BY <1>1, <1>5 DEF SaveRow, RowFits, NoRow
    <2>3. r # s => rows'[r] = rows[r]
      BY <1>1, <1>5 DEF SaveRow
    <2>4. work' = work
      BY <1>5 DEF SaveRow, content
    <2>. QED  BY <1>1, <1>4, <2>2, <2>3, <2>4 DEF RowFits
  <1>6. CASE Adopting(s)
    <2>1. r = s => /\ rows'[r].stage = "live" /\ rows'[r].lastJob \in {rows[r].lastJob} \cup jobRows
      BY <1>1, <1>6 DEF Adopting
    <2>2. r # s => rows'[r] = rows[r]
      BY <1>1, <1>6 DEF Adopting
    <2>3. work' = work
      BY <1>6 DEF Adopting, content
    <2>. QED  BY <1>1, <1>4, <2>1, <2>2, <2>3 DEF RowFits, LedgerFits
  <1>7. CASE StoreText(s)
    <2>1. rows' = rows /\ work' = [work EXCEPT ![s] = "stored"] /\ work[s] = "working"
      BY <1>7 DEF StoreText
    <2>. QED  BY <1>1, <1>2, <1>4, <2>1 DEF RowFits
  <1>8. CASE Reserving(s) \/ Watching(s) \/ CompleteJob(s) \/ FailJob(s)
    <2>1. /\ rows[r].stage \in {"saving", "live"} =>
                /\ rows'[r].stage = IF r = s THEN "live" ELSE rows[r].stage
                /\ rows'[r].lastJob \in {s, rows[r].lastJob}
          /\ rows[r].stage \notin {"saving", "live"} => rows'[r] = rows[r]
      BY <1>1, <1>8, MirrorEffects DEF Reserving, Watching, CompleteJob, FailJob, Results
    <2>2. /\ work'[s] # "none"
          /\ r # s /\ work[r] = "none" => work'[r] = "none"
          /\ r = s => rows[s].stage \notin {"none"}
      BY <1>1, <1>8 DEF Reserving, Watching, CompleteJob, FailJob, Watchers, RowFits
    <2>. QED  BY <1>1, <1>2, <1>4, <2>1, <2>2 DEF RowFits
  <1>9. CASE ConsumeSuccess(s)
    <2>1. /\ rows'[r].stage = rows[r].stage
          /\ rows'[r].lastJob \in {rows[r].lastJob} \cup Watchers
          /\ rows[r].stage # "live" => rows'[r] = rows[r]
      BY <1>9, SuccessEffects
    <2>2. /\ \A w \in Watchers : work'[w] # "none" /\ w \in Saves
          /\ work[r] = "none" => work'[r] = "none"
      BY <1>9 DEF ConsumeSuccess, Watchers
    <2>. QED  BY <1>1, <1>2, <1>4, <2>1, <2>2 DEF RowFits
  <1>. QED  BY <1>5, <1>6, <1>7, <1>8, <1>9 DEF ContentStep

\* A cascade hands its row's pointer on and picks no other job beside it.
LEMMA PurgeKeepsPointers ==
    ASSUME TypeOK, PointersFit, NEW s \in Saves, PurgeStep(s)
    PROVE  PointersFit'
  <1>1. /\ rows \in [Saves -> Row] /\ cascade \in [Saves -> Cascade] /\ ledger \in Entries(Saves)
        /\ rows[s].lastJob \in Saves \cup {NoJob} /\ NoJob \notin Saves
        /\ LedgerFits /\ \A r \in Saves : RowFits(r) /\ CascadeFits(r)
        /\ work' = work /\ jobRows' = jobRows
    BY OthersLeaveWork, PurgeAssumption DEF TypeOK, Row, Cascade, PointersFit
  <1>2. LedgerFits'
    <2>1. ledger' \in {ledger, Absent}
      BY <1>1, EntriesStay DEF PurgeStep, DeleteSave, RestoreSave, Sweep, ListReferences, DropArtifacts,
           PickJob, EraseText, DeleteEntry, CascadeRaises, content
    <2>. QED  BY <1>1, <2>1 DEF LedgerFits, Absent
  <1>3. CASE DeleteSave(s) \/ RestoreSave(s)
    <2>1. \E stage \in {"live", "deleted"} : rows' = [rows EXCEPT ![s].stage = stage]
      BY <1>3 DEF DeleteSave, RestoreSave
    <2>3. /\ cascade' = cascade /\ rows[s].stage \in {"live", "deleted"}
          /\ rows'[s].stage \in {"live", "deleted"} /\ rows'[s].lastJob = rows[s].lastJob
          /\ \A r \in Saves \ {s} : rows'[r] = rows[r]
      BY <1>1, <1>3, <2>1 DEF DeleteSave, RestoreSave, Row
    <2>2. \A r \in Saves : RowFits(r)' /\ CascadeFits(r)'
      BY <1>1, <2>3 DEF RowFits, CascadeFits
    <2>. QED  BY <1>2, <2>2 DEF PointersFit
  <1>4. CASE Sweep(s)
    <2>1. /\ rows[s].stage = "deleted" /\ rows'[s].stage = "swept" /\ rows'[s].lastJob = NoJob
          /\ cascade'[s].phase = "queued" /\ cascade'[s].pointer = rows[s].lastJob
          /\ \A r \in Saves \ {s} : rows'[r] = rows[r] /\ cascade'[r] = cascade[r]
      BY <1>1, <1>4 DEF Sweep, NoRow, NoCascade
    <2>2. rows[s].lastJob \in Saves => work[rows[s].lastJob] \in {"ended", "told"}
      BY <1>1, <1>4 DEF Sweep, RowFits
    <2>3. \A r \in Saves : RowFits(r)' /\ CascadeFits(r)'
      BY <1>1, <2>1, <2>2 DEF RowFits, CascadeFits
    <2>. QED  BY <1>2, <2>3 DEF PointersFit
  <1>5. ASSUME rows' = rows, cascade[s].phase # "none",
               \A r \in Saves \ {s} : cascade'[r] = cascade[r], CascadeFits(s)'
        PROVE  PointersFit'
    <2>1. \A r \in Saves : RowFits(r)' /\ CascadeFits(r)'
      BY <1>1, <1>5 DEF RowFits, CascadeFits
    <2>. QED  BY <1>2, <2>1 DEF PointersFit
  <1>6. CASE ListReferences(s) \/ DropArtifacts(s) \/ PickJob(s) \/ EraseText(s) \/ DeleteEntry(s)
             \/ CascadeRaises(s)
    <2>1. /\ rows' = rows /\ cascade[s].phase # "none"
          /\ \A r \in Saves \ {s} : cascade'[r] = cascade[r]
      BY <1>1, <1>6 DEF ListReferences, DropArtifacts, PickJob, EraseText, DeleteEntry,
                        CascadeRaises, CascadeAt, CascadeTo, CascadeEnds
    <2>2. CascadeFits(s)'
      <3>1. CASE ListReferences(s) \/ DropArtifacts(s) \/ EraseText(s)
        <4>1. cascade[s] \in Cascade /\ CascadeFits(s)
          BY <1>1
        <4>2. CASE ListReferences(s)
          <5>. DEFINE k == [cascade[s] EXCEPT !.phase = "listed", !.refs = References(s)]
          <5>1. cascade' = [cascade EXCEPT ![s] = k]
            BY <4>2 DEF ListReferences
          <5>2. k.phase = "listed" /\ k.pointer = cascade[s].pointer
            BY <4>1 DEF Cascade
          <5>. HIDE DEF k
          <5>. QED  BY <1>1, <2>1, <4>1, <4>2, <5>1, <5>2 DEF ListReferences, CascadeFits
        <4>3. CASE DropArtifacts(s) \/ EraseText(s)
          BY <1>1, <2>1, <4>1, <4>3 DEF DropArtifacts, EraseText, CascadeFits, CascadeAt,
                                        CascadeTo, Cascade
        <4>. QED  BY <3>1, <4>2, <4>3
      <3>2. CASE PickJob(s)
        <4>1. CASE Unreferenced(s) /\ ContentJob(s) # NoJob
          <5>1. ContentJob(s) \in Saves /\ cascade[s].pointer \in {NoJob, ContentJob(s)}
            BY <1>1, <4>1 DEF ContentJob, Cascade, Entries
          <5>. DEFINE k == [cascade[s] EXCEPT !.job = ContentJob(s), !.phase = "picked"]
          <5>2. cascade' = [cascade EXCEPT ![s] = k] /\ UNCHANGED <<work, rows>>
            BY <3>2, <4>1 DEF PickJob, content
          <5>3. /\ k.phase = "picked" /\ k.pointer = cascade[s].pointer
                /\ k.job = ContentJob(s) /\ k.refs = {}
            BY <1>1, <4>1 DEF Cascade, Unreferenced
          <5>. HIDE DEF k
          <5>. QED  BY <1>1, <2>1, <5>1, <5>2, <5>3 DEF CascadeFits
        <4>. QED  BY <1>1, <2>1, <3>2, <4>1 DEF PickJob, CascadeEnds, CascadeFits, NoCascade
      <3>3. CASE \E phase \in {"done", "lost"} : CascadeEnds(s, phase)
        BY <1>1, <2>1, <3>3 DEF CascadeEnds, CascadeFits, NoCascade
      <3>4. CASE CascadeRaises(s) /\ cascade[s].replays < MaxReplays
        <4>1. cascade'[s].phase = "queued" /\ cascade'[s].pointer = cascade[s].pointer
          BY <1>1, <3>4, ZenonT(60) DEF CascadeRaises, NoCascade
        <4>. QED  BY <1>1, <2>1, <4>1 DEF CascadeFits
      <3>. QED  BY <1>6, <3>1, <3>2, <3>3, <3>4 DEF DeleteEntry, CascadeRaises
    <2>. QED  BY <1>5, <2>1, <2>2
  <1>. QED  BY <1>3, <1>4, <1>6 DEF PurgeStep

\* An erased row points at nothing, and its job is left as it was.
LEMMA ErasureKeepsPointers ==
    ASSUME TypeOK, PointersFit, NEW u \in Users, Generate(u) \/ ErasureStep(u)
    PROVE  PointersFit'
  <1>1. /\ UNCHANGED <<ledger, work, cascade>> /\ jobRows' \subseteq jobRows
        /\ rows \in [Saves -> Row]
        /\ LedgerFits /\ \A r \in Saves : RowFits(r) /\ CascadeFits(r)
    BY DEF PointersFit, Generate, ErasureStep, TakeInventory, EraseArtifacts, EraseTexts,
         EraseJobs, EraseRows, EraseIdentity, ErasureRaises, content, TypeOK, Row
  <1>2. \A r \in Saves : rows'[r] = rows[r] \/ (Held(r) /\ rows'[r] = [NoRow EXCEPT !.stage = "erased"])
    BY <1>1 DEF Generate, ErasureStep, TakeInventory, EraseArtifacts, EraseTexts,
         EraseJobs, EraseRows, EraseIdentity, ErasureRaises, content
  <1>3. LedgerFits'
    BY <1>1 DEF LedgerFits
  <1>4. \A r \in Saves : RowFits(r)' /\ CascadeFits(r)'
    BY <1>1, <1>2, PurgeAssumption DEF RowFits, CascadeFits, Held, NoRow
  <1>. QED  BY <1>3, <1>4 DEF PointersFit
-----------------------------------------------------------------------------
(* Who holds the content                                                   *)

\* A save's first row is the only thing that brings a holder.
LEMMA ContentHolders ==
    ASSUME TypeOK, NEW s \in Saves, ContentStep(s), NEW r \in Saves
    PROVE  /\ Held(r) => Held(r)'
           /\ Held(r)' => Held(r) \/ (SaveRow(s) /\ r = s)
  <1>1. rows \in [Saves -> Row] /\ rows[r] \in Row
    BY DEF TypeOK, Row
  <1>2. CASE SaveRow(s) \/ Adopting(s) \/ StoreText(s)
    BY <1>1, <1>2 DEF SaveRow, Adopting, StoreText, Held
  <1>3. CASE Reserving(s) \/ Watching(s) \/ CompleteJob(s) \/ FailJob(s)
    BY <1>1, <1>3, MirrorEffects DEF Reserving, Watching, CompleteJob, FailJob, Results, Held
  <1>4. CASE ConsumeSuccess(s)
    BY <1>4, SuccessEffects DEF Held
  <1>. QED  BY <1>2, <1>3, <1>4 DEF ContentStep

\* Deleting and restoring keep a holder; only TTL's sweep takes one away.
LEMMA PurgeHolders ==
    ASSUME TypeOK, NEW s \in Saves, PurgeStep(s), NEW r \in Saves
    PROVE  /\ Held(r) => Held(r)' \/ (Sweep(s) /\ r = s)
           /\ Held(r)' => Held(r) /\ rows'[r].result = rows[r].result
                                  /\ rows'[r].lastJob = rows[r].lastJob
  <1>1. rows \in [Saves -> Row] /\ rows[r] \in Row
    BY DEF TypeOK, Row
  <1>2. CASE DeleteSave(s)
    <2>1. rows' = [rows EXCEPT ![s].stage = "deleted"] /\ rows[s].stage = "live"
      BY <1>2 DEF DeleteSave
    <2>. QED  BY <1>1, <2>1 DEF Held, Row
  <1>3. CASE RestoreSave(s)
    <2>1. rows' = [rows EXCEPT ![s].stage = "live"] /\ rows[s].stage = "deleted"
      BY <1>3 DEF RestoreSave
    <2>. QED  BY <1>1, <2>1 DEF Held, Row
  <1>4. CASE Sweep(s)
    <2>1. rows'[s].stage = "swept" /\ \A q \in Saves \ {s} : rows'[q] = rows[q]
      BY <1>1, <1>4 DEF Sweep, NoRow
    <2>. QED  BY <1>4, <2>1 DEF Held
  <1>5. CASE ~DeleteSave(s) /\ ~RestoreSave(s) /\ ~Sweep(s)
    <2>1. rows' = rows
      BY <1>5 DEF PurgeStep, ListReferences, DropArtifacts, PickJob, EraseText, DeleteEntry,
                  CascadeRaises
    <2>. QED  BY <2>1 DEF Held
  <1>. QED  BY <1>2, <1>3, <1>4, <1>5

\* An erasure only takes holders away.
LEMMA ErasureHolders ==
    ASSUME NEW u \in Users, Generate(u) \/ ErasureStep(u), NEW r \in Saves, Held(r)'
    PROVE  Held(r) /\ rows'[r] = rows[r]
  BY DEF Generate, ErasureStep, TakeInventory, EraseArtifacts, EraseTexts, EraseJobs, EraseRows,
         EraseIdentity, ErasureRaises, Held, NoRow

\* A save that comes after a listing is seen as overlap, so that a listing stays true.
LEMMA ListingsStay ==
    ASSUME TypeOK, PointersFit, ListingsHold, LibraryStep
    PROVE  ListingsHold'
  <1>. SUFFICES ASSUME ~overlap', NEW c \in Saves PROVE ListingFits(c)'
    BY DEF ListingsHold
  <1>1. /\ cascade \in [Saves -> Cascade] /\ \A s \in Saves : rows[s].stage = "swept" \/ cascade[s].phase = "none"
    BY DEF TypeOK, Cascade, PointersFit, CascadeFits
  <1>2. ASSUME ~overlap, cascade'[c] = cascade[c],
               \A r \in Saves : Held(r)' => Held(r)
        PROVE  ListingFits(c)'
    BY <1>2 DEF ListingsHold, ListingFits, Unreferenced, CascadeAt, NobodyHolds, StillHolds
  <1>3. CASE \E s \in Saves : ContentStep(s)
    <2>1. PICK s \in Saves : ContentStep(s)
      BY <1>3
    <2>2. cascade' = cascade
      BY <2>1, OthersLeaveWork
    <2>3. CASE SaveRow(s)
      <3>1. ~overlap /\ ~Unseen(s, c)
        BY <2>3 DEF SaveRow
      <3>2. /\ cascade[c].phase \in UnderWay => ~Unreferenced(c)
            /\ CascadeAt(c, "listed") /\ ~StillHolds(c) => UserOf[c] # UserOf[s]
        BY <3>1 DEF Unseen, UnderWay, CascadeAt
      <3>3. \A r \in Saves \ {s} : Held(r)' => Held(r)
        BY <2>1, ContentHolders
      <3>. QED  BY <2>2, <3>1, <3>2, <3>3 DEF ListingsHold, ListingFits, Unreferenced, CascadeAt,
                     NobodyHolds, StillHolds
    <2>4. CASE ~SaveRow(s)
      <3>1. overlap' = overlap
        BY <2>1, <2>4 DEF ContentStep, Reserving, Watching, Adopting, StoreText, CompleteJob,
                           ConsumeSuccess, FailJob
      <3>. QED  BY <1>2, <2>1, <2>2, <2>4, <3>1, ContentHolders
    <2>. QED  BY <2>3, <2>4
  <1>4. CASE \E s \in Saves : PurgeStep(s)
    <2>1. PICK s \in Saves : PurgeStep(s)
      BY <1>4
    <2>2. ~overlap /\ \A r \in Saves : Held(r)' => Held(r)
      BY <2>1, OthersLeaveWork, PurgeHolders
    <2>3. c # s => cascade'[c] = cascade[c]
      BY <2>1, CascadeEffects
    <2>4. ASSUME c = s PROVE ListingFits(s)'
      <3>0. ListingFits(s)
        BY <2>2 DEF ListingsHold
      <3>1. CASE ListReferences(s) /\ cascade'[s].phase = "listed" /\ cascade'[s].refs = References(s)
        <4>1. rows' = rows
          BY <3>1 DEF ListReferences
        <4>2. ~Held(s)
          BY <1>1, <3>1 DEF ListReferences, CascadeAt, Held
        <4>3. References(s) = {r \in Saves : Held(r)}
          BY <4>2 DEF References, Held
        <4>. QED  BY <3>1, <4>1, <4>3 DEF ListingFits, Unreferenced, CascadeAt, NobodyHolds, StillHolds, Held
      <3>2. CASE /\ cascade[s].phase \in UnderWay /\ cascade'[s].phase # "listed"
                 /\ cascade'[s].refs = cascade[s].refs
        BY <2>2, <3>0, <3>2 DEF ListingFits, Unreferenced, CascadeAt, NobodyHolds
      <3>3. CASE cascade'[s].phase \notin UnderWay
        BY <3>3 DEF ListingFits, CascadeAt, UnderWay
      <3>4. CASE cascade' = cascade
        BY <1>2, <2>2, <2>4, <3>4
      <3>. QED  BY <2>1, <3>1, <3>2, <3>3, <3>4, CascadeEffects DEF UnderWay
    <2>. QED  BY <1>2, <2>2, <2>3, <2>4
  <1>5. CASE \E u \in Users : Generate(u) \/ ErasureStep(u)
    <2>1. cascade' = cascade /\ overlap' = overlap
      BY <1>5, OthersLeaveWork
    <2>2. \A r \in Saves : Held(r)' => Held(r)
      BY <1>5, ErasureHolders
    <2>. QED  BY <1>2, <2>1, <2>2
  <1>. QED  BY <1>3, <1>4, <1>5 DEF LibraryStep
-----------------------------------------------------------------------------
(* Readers, work and texts                                                 *)

\* An erasure is never undone, so that what is undisturbed was so before.
LEMMA ErasuresDisturb ==
    ASSUME TypeOK, NEW u \in Users, ErasureStep(u)
    PROVE  ~AccountsKept'
  <1>1. account \in [Users -> Erasure]
    BY DEF TypeOK, Erasure
  <1>2. account'[u].phase # "open"
    <2>1. CASE TakeInventory(u)
      BY <1>1, <2>1 DEF TakeInventory
    <2>2. CASE \E phase \in {"texts", "jobs", "identity", "closed"} : ErasureTo(u, phase)
      BY <1>1, <2>2 DEF ErasureTo, Erasure
    <2>3. CASE \E phase \in {"rows", "retry"} :
                  account' = [account EXCEPT
                                 ![u] = [@ EXCEPT !.phase = phase, !.jobs = {}]]
      BY <1>1, <2>3 DEF Erasure
    <2>. QED  BY <2>1, <2>2, <2>3 DEF ErasureStep, EraseArtifacts, EraseTexts, EraseJobs, EraseRows,
                EraseIdentity, ErasureRaises
  <1>. QED  BY <1>2 DEF AccountsKept

\* Nor does an overlap end.
LEMMA Undisturbing ==
    ASSUME TypeOK, LibraryStep, Undisturbed'
    PROVE  /\ Undisturbed
           /\ \/ \E s \in Saves : ContentStep(s) \/ PurgeStep(s)
              \/ \E u \in Users : Generate(u)
  <1>1. \/ \E s \in Saves : ContentStep(s) \/ PurgeStep(s)
        \/ \E u \in Users : Generate(u)
    BY ErasuresDisturb DEF LibraryStep, Undisturbed
  <1>2. account' = account
    BY <1>1, OthersLeaveWork
  <1>3. overlap => overlap'
    BY <1>1, OthersLeaveWork DEF ContentStep, SaveRow, Reserving, Watching, Adopting, StoreText,
         CompleteJob, ConsumeSuccess, FailJob
  <1>. QED  BY <1>1, <1>2, <1>3 DEF Undisturbed, AccountsKept

\* A cascade past its pick has found nobody who holds the content.
LEMMA PickedIsUnheld ==
    ASSUME PointersFit, ListingsHold, ~overlap, NEW c \in Saves,
           cascade[c].phase \in {"picked", "erased"}
    PROVE  NobodyHolds
  BY DEF PointersFit, CascadeFits, ListingsHold, ListingFits, Unreferenced, UnderWay

ContentPart == /\ \A s \in Saves : WorkFits(s) /\ TextFits(s) /\ ReadyFits(s)
               /\ EntryFits

\* The work on a content keeps its entry, its text and what its readers were told
\* in step.
LEMMA ContentStepFits ==
    ASSUME TypeOK, PointersFit, ListingsHold, Undisturbed, ContentPart,
           NEW s \in Saves, ContentStep(s), ~overlap'
    PROVE  ContentPart'
  <1>1. /\ rows \in [Saves -> Row] /\ work \in [Saves -> Works] /\ ledger \in Entries(Saves)
        /\ cascade' = cascade /\ NoJob \notin Saves /\ ~overlap
        /\ LedgerFits /\ \A r \in Saves : RowFits(r) /\ CascadeFits(r)
        /\ {"processed", "failed"} \subseteq Outcomes
    BY OthersLeaveWork, PurgeAssumption DEF TypeOK, Row, PointersFit, Undisturbed, Outcomes
  <1>2. \A r \in Saves : WorkFits(r) /\ TextFits(r) /\ ReadyFits(r)
    BY DEF ContentPart
  <1>3. \A r \in Saves : (Held(r) => Held(r)') /\ (Held(r)' => Held(r) \/ (SaveRow(s) /\ r = s))
    BY ContentHolders
  <1>4. ~SaveRow(s) => Held(s)
    BY <1>2 DEF ContentStep, Reserving, Watching, Adopting, StoreText, CompleteJob, ConsumeSuccess,
                FailJob, Held, WorkFits, AtWork
  <1>5. EntryFits'
    <2>. SUFFICES ASSUME ledger'.status = "processed", ledger'.job \notin texts'
                  PROVE  NobodyHolds' /\ \E c \in Saves : WillDelete(c)' \/ Replayed(c)'
      BY DEF EntryFits
    <2>1. CASE ConsumeSuccess(s)
      <3>1. ledger.status = "reserved" /\ ledger.job = s /\ s \in texts /\ texts' = texts
        BY <1>2, <2>1 DEF ConsumeSuccess, WorkFits, AtWork
      <3>2. ledger' = [status |-> "processed", job |-> s]
        BY <1>1, <2>1, <3>1, EntriesStay DEF ConsumeSuccess
      <3>. QED  BY <3>1, <3>2
    <2>2. CASE ~ConsumeSuccess(s)
      <3>1. ledger.status = "processed" /\ ledger.job \notin texts /\ ledger' = ledger
        <4>1. CASE FailJob(s)
          <5>1. ledger.status = "reserved" /\ ledger.job = s
            BY <1>2, <4>1 DEF FailJob, WorkFits, AtWork
          <5>. QED  BY <1>1, <4>1, <5>1, EntriesStay DEF FailJob
        <4>2. CASE Reserving(s)
          BY <1>1, <4>2, EntriesStay DEF Reserving
        <4>3. CASE ~FailJob(s) /\ ~Reserving(s)
          BY <2>2, <4>3 DEF ContentStep, SaveRow, Watching, Adopting, StoreText, CompleteJob, content
        <4>. QED  BY <4>1, <4>2, <4>3
      <3>2. NobodyHolds /\ \E c \in Saves : WillDelete(c) \/ Replayed(c)
        BY <3>1 DEF ContentPart, EntryFits
      <3>3. SaveRow(s)
        BY <1>4, <3>2 DEF NobodyHolds
      <3>4. PICK c \in Saves : WillDelete(c) \/ Replayed(c)
        BY <3>2
      <3>5. Unseen(s, c)
        BY <1>1, <3>4 DEF WillDelete, Replayed, Unseen, CascadeFits, Unreferenced, CascadeAt
      <3>. QED  BY <3>3, <3>5 DEF SaveRow
    <2>. QED  BY <2>1, <2>2
  <1>6. ASSUME texts' = texts, \A r \in Saves : WorkFits(r)' /\ ReadyFits(r)' PROVE ContentPart'
    BY <1>1, <1>2, <1>5, <1>6 DEF ContentPart, TextFits, CascadeAt
  <1>7. CASE SaveRow(s)
    <2>1. /\ rows'[s].result = "pending" /\ \A r \in Saves \ {s} : rows'[r] = rows[r]
          /\ UNCHANGED <<ledger, texts, work>>
      BY <1>1, <1>7 DEF SaveRow, RowFits, NoRow, content
    <2>. QED  BY <1>2, <1>3, <1>6, <2>1 DEF WorkFits, ReadyFits
  <1>8. CASE Adopting(s)
    <2>1. /\ ledger.status # "processed" => rows'[s].result = "failed"
          /\ \A r \in Saves \ {s} : rows'[r] = rows[r]
          /\ UNCHANGED <<ledger, texts, work>>
      BY <1>1, <1>8 DEF Adopting, content
    <2>. QED  BY <1>2, <1>3, <1>6, <1>8, <2>1 DEF WorkFits, ReadyFits, Adopting
  <1>9. CASE Reserving(s)
    <2>1. /\ ledger = Absent /\ ledger' = [status |-> "reserved", job |-> s]
          /\ work' = [work EXCEPT ![s] = "working"] /\ texts' = texts
      BY <1>1, <1>9, EntriesStay DEF Reserving, CanReserve, LedgerFits
    <2>2. \A r \in Saves : Held(r)' => rows'[r].result # "ready"
      <3>1. \A r \in Saves : ~(Held(r) /\ rows[r].result = "ready")
        BY <1>1, <1>2, <2>1 DEF ReadyFits, Absent
      <3>2. \A r \in Saves : rows'[r] = rows[r] \/ rows'[r].result = "pending"
        BY <1>1, <1>9, MirrorEffects DEF Reserving, Results
      <3>3. ~SaveRow(s)
        BY <1>9 DEF Reserving, SaveRow
      <3>. QED  BY <1>3, <3>1, <3>2, <3>3
    <2>3. \A r \in Saves : work[r] \notin AtWork
      BY <1>2, <2>1 DEF WorkFits, Absent
    <2>4. Held(s)
      BY <1>9 DEF Reserving, Held
    <2>. QED  BY <1>1, <1>3, <1>6, <2>1, <2>2, <2>3, <2>4 DEF WorkFits, ReadyFits, AtWork
  <1>10. CASE Watching(s)
    <2>1. /\ work[s] = "none" /\ work' = [work EXCEPT ![s] = "watching"] /\ texts' = texts
          /\ ledger' = ledger
      BY <1>1, <1>10 DEF Watching, RowFits
    <2>2. \A r \in Saves : rows'[r] = rows[r] \/ rows'[r].result = "pending"
      BY <1>1, <1>10, MirrorEffects DEF Watching, Results
    <2>3. ~SaveRow(s)
      BY <1>10 DEF Watching, SaveRow
    <2>. QED  BY <1>1, <1>2, <1>3, <1>6, <2>1, <2>2, <2>3 DEF WorkFits, ReadyFits, AtWork
  <1>11. CASE StoreText(s)
    <2>1. /\ work[s] = "working" /\ work' = [work EXCEPT ![s] = "stored"]
          /\ texts' = texts \cup {s} /\ UNCHANGED <<ledger, rows>>
      BY <1>11 DEF StoreText
    <2>2. Held(s) /\ ledger.job = s
      BY <1>2, <2>1 DEF WorkFits, AtWork
    <2>3. \A c \in Saves : ~CascadeAt(c, "erased")
      BY <1>1, <2>2, PickedIsUnheld DEF NobodyHolds, CascadeAt
    <2>4. \A r \in Saves : WorkFits(r)'
      BY <1>1, <1>2, <1>3, <2>1 DEF WorkFits, AtWork
    <2>5. \A r \in Saves : ReadyFits(r)'
      BY <1>1, <1>2, <2>1 DEF ReadyFits, Held
    <2>. QED  BY <1>1, <1>5, <2>3, <2>4, <2>5 DEF ContentPart, TextFits, CascadeAt
  <1>12. CASE CompleteJob(s)
    <2>1. /\ work[s] = "stored" /\ work' = [work EXCEPT ![s] = "completed"]
          /\ texts' = texts /\ ledger' = ledger
      BY <1>12 DEF CompleteJob
    <2>2. ledger.job = s
      BY <1>2, <2>1 DEF WorkFits, AtWork
    <2>. QED  BY <1>1, <1>2, <1>3, <1>6, <2>1, <2>2 DEF WorkFits, ReadyFits, AtWork
  <1>13. CASE ConsumeSuccess(s) \/ FailJob(s)
    <2>1. /\ ledger.status = "reserved" /\ ledger.job = s /\ work[s] \in AtWork /\ texts' = texts
          /\ \A r \in Saves : work[r] \in AtWork => r = s
      BY <1>2, <1>13 DEF ConsumeSuccess, FailJob, WorkFits, AtWork
    <2>2. \A r \in Saves : work'[r] \notin AtWork
      <3>1. work' = [w \in Saves |->
               IF w = s THEN "ended" ELSE IF w \in Watchers THEN "told" ELSE work[w]]
        BY <1>13 DEF ConsumeSuccess, FailJob
      <3>. QED  BY <2>1, <3>1 DEF AtWork
    <2>3. \A r \in Saves : WorkFits(r)'
      BY <2>2 DEF WorkFits, AtWork
    <2>4. \A r \in Saves : ReadyFits(r)'
      <3>1. CASE ConsumeSuccess(s)
        <4>1. ledger' = [status |-> "processed", job |-> s]
          <5>1. ledger' = RecordTerminal(ledger, s, "processed")
            BY <3>1 DEF ConsumeSuccess
          <5>. QED  BY <1>1, <2>1, <5>1, EntriesStay
        <4>. QED  BY <4>1 DEF ReadyFits
      <3>2. CASE FailJob(s)
        <4>1. \A r \in Saves : ~(Held(r) /\ rows[r].result = "ready")
          BY <1>2, <2>1, <3>2 DEF ReadyFits, FailJob
        <4>2. \A r \in Saves : rows'[r] = rows[r] \/ rows'[r].result = "failed"
          BY <1>1, <3>2, MirrorEffects DEF FailJob, Results
        <4>3. ~SaveRow(s) \/ rows[s].stage = "none"
          BY DEF SaveRow
        <4>4. Held(s)
          BY <1>2, <2>1 DEF WorkFits
        <4>. QED  BY <1>3, <4>1, <4>2, <4>3, <4>4 DEF ReadyFits, Held
      <3>. QED  BY <1>13, <3>1, <3>2
    <2>. QED  BY <1>6, <2>1, <2>3, <2>4
  <1>. QED  BY <1>7, <1>8, <1>9, <1>10, <1>11, <1>12, <1>13 DEF ContentStep
\* What answers for an entry without its text goes on to answer for it until the
\* entry is gone: each step of the cascade leads to the next.
LEMMA WitnessesGoOn ==
    ASSUME TypeOK, PointersFit, NobodyHolds, NEW s \in Saves, PurgeStep(s),
           ledger \in Entries(Saves), ledger.job \in Saves, ledger' = ledger,
           NEW c \in Saves,
           DeleteEntry(s) => cascade[s].job # ledger.job
    PROVE  /\ WillDelete(c) => WillDelete(c)' \/ Replayed(c)'
           /\ CascadeAt(c, "queued") /\ Aimed(c) =>
                 WillDelete(c)' \/ Replayed(c)' \/ (CascadeAt(c, "queued")' /\ Aimed(c)')
           /\ Replayed(c) => WillDelete(c)' \/ Replayed(c)'
  <1>1. /\ cascade \in [Saves -> Cascade] /\ CascadeFits(s) /\ NoJob \notin Saves
        /\ rows[s].stage = "swept" \/ cascade[s].phase = "none"
    BY PurgeAssumption DEF TypeOK, Cascade, PointersFit, CascadeFits
  <1>2. CASE c # s
    <2>1. cascade'[c] = cascade[c]
      BY <1>2, CascadeEffects
    <2>. QED  BY <2>1 DEF WillDelete, Replayed, Aimed, Unreferenced, CascadeAt
  <1>3. CASE c = s
    <2>1. ~Held(s)
      BY DEF NobodyHolds
    <2>2. CASE cascade' = cascade
      BY <2>2 DEF WillDelete, Replayed, Aimed, Unreferenced, CascadeAt
    <2>3. CASE Sweep(s)
      BY <2>1, <2>3 DEF Sweep, Held
    <2>4. CASE /\ cascade[s].phase = "queued" /\ cascade'[s].phase = "listed"
               /\ cascade'[s].refs = References(s) /\ cascade'[s].pointer = cascade[s].pointer
      <3>1. References(s) = {}
        BY DEF References, NobodyHolds, Held
      <3>. QED  BY <1>3, <2>4, <3>1 DEF WillDelete, Replayed, Aimed, Unreferenced, CascadeAt
    <2>5. CASE /\ cascade[s].phase = "listed" /\ cascade'[s].phase = "scoped"
               /\ cascade'[s].refs = cascade[s].refs /\ cascade'[s].pointer = cascade[s].pointer
      BY <1>3, <2>5 DEF WillDelete, Replayed, Aimed, Unreferenced, CascadeAt
    <2>6. CASE /\ cascade[s].phase = "scoped" /\ cascade'[s].phase = "picked"
               /\ cascade'[s].job = ContentJob(s) /\ Unreferenced(s)
      BY <1>3, <2>6 DEF WillDelete, Replayed, Aimed, Unreferenced, CascadeAt, ContentJob
    <2>7. CASE cascade[s].phase = "scoped" /\ ~(Unreferenced(s) /\ ContentJob(s) # NoJob)
      <3>1. Unreferenced(s) /\ Aimed(s) => ContentJob(s) = ledger.job
        BY <1>1 DEF Aimed, ContentJob
      <3>. QED  BY <1>1, <1>3, <2>7, <3>1 DEF WillDelete, Replayed, CascadeAt
    <2>8. CASE /\ cascade[s].phase = "picked" /\ cascade'[s].phase = "erased"
               /\ cascade'[s].job = cascade[s].job
      BY <1>3, <2>8 DEF WillDelete, Replayed, CascadeAt
    <2>9. CASE DeleteEntry(s) /\ cascade[s].phase = "erased"
      BY <1>3, <2>9 DEF WillDelete, Replayed, CascadeAt
    <2>10. CASE /\ cascade[s].phase \in {"queued"} \cup UnderWay
                /\ cascade'[s].phase = "queued" /\ cascade'[s].replays > 0
                /\ cascade'[s].pointer = cascade[s].pointer
      <3>1. WillDelete(s) => Aimed(s)
        BY <1>1, <2>10 DEF WillDelete, Aimed, CascadeFits, UnderWay
      <3>. QED  BY <1>3, <2>10, <3>1 DEF WillDelete, Replayed, Aimed, CascadeAt
    <2>11. CASE cascade'[s].phase = "lost"
      BY <1>3, <2>11 DEF WillDelete
    <2>. QED  BY CascadeEffects, <2>2, <2>3, <2>4, <2>5, <2>6, <2>7, <2>8, <2>9, <2>10, <2>11
  <1>. QED  BY <1>2, <1>3

\* A cascade destroys the text of nobody's content only, and goes on to its entry.
LEMMA PurgeStepFits ==
    ASSUME TypeOK, PointersFit, ListingsHold, Undisturbed, ContentPart,
           NEW s \in Saves, PurgeStep(s)
    PROVE  ContentPart'
  <1>1. /\ rows \in [Saves -> Row] /\ ledger \in Entries(Saves) /\ work' = work
        /\ cascade \in [Saves -> Cascade] /\ NoJob \notin Saves /\ ~overlap
        /\ LedgerFits /\ \A r \in Saves : RowFits(r) /\ CascadeFits(r)
    BY OthersLeaveWork, PurgeAssumption DEF TypeOK, Row, Cascade, PointersFit, Undisturbed
  <1>2. \A r \in Saves : WorkFits(r) /\ TextFits(r) /\ ReadyFits(r)
    BY DEF ContentPart
  <1>3. \A r \in Saves : /\ Held(r) => Held(r)' \/ (Sweep(s) /\ r = s)
                         /\ Held(r)' => Held(r) /\ rows'[r].result = rows[r].result
    BY PurgeHolders
  <1>4. NobodyHolds => NobodyHolds'
    BY <1>3 DEF NobodyHolds
  <1>5. CASE ~EraseText(s) /\ ~DeleteEntry(s)
    <2>1. ledger' = ledger /\ texts' = texts
      BY <1>5 DEF PurgeStep, DeleteSave, RestoreSave, Sweep, ListReferences, DropArtifacts,
                  PickJob, CascadeRaises, content
    <2>2. \A r \in Saves : WorkFits(r)'
      <3>1. Sweep(s) => work[s] \notin AtWork
        BY <1>1 DEF Sweep, AtWork
      <3>. QED  BY <1>1, <1>2, <1>3, <2>1, <3>1 DEF WorkFits
    <2>3. \A r \in Saves : ReadyFits(r)'
      BY <1>1, <1>2, <1>3, <2>1 DEF ReadyFits
    <2>4. \A r \in Saves : TextFits(r)'
      <3>1. \A c \in Saves : cascade'[c].phase = "erased" => cascade'[c] = cascade[c]
        BY <1>5, CascadeEffects
      <3>. QED  BY <1>2, <2>1, <3>1 DEF TextFits, CascadeAt
    <2>5. EntryFits'
      <3>. SUFFICES ASSUME ledger.status = "processed", ledger.job \notin texts
                    PROVE  NobodyHolds' /\ \E c \in Saves : WillDelete(c)' \/ Replayed(c)'
        BY <2>1 DEF EntryFits
      <3>1. NobodyHolds /\ \E c \in Saves : WillDelete(c) \/ Replayed(c)
        BY DEF ContentPart, EntryFits
      <3>2. ledger.job \in Saves
        BY <1>1 DEF LedgerFits
      <3>. QED  BY <1>1, <1>4, <1>5, <2>1, <3>1, <3>2, WitnessesGoOn
    <2>. QED  BY <2>2, <2>3, <2>4, <2>5 DEF ContentPart
  <1>6. CASE EraseText(s) \/ DeleteEntry(s)
    <2>1. NobodyHolds /\ NobodyHolds'
      BY <1>1, <1>4, <1>6, PickedIsUnheld DEF EraseText, DeleteEntry, CascadeAt
    <2>2. \A r \in Saves : WorkFits(r)' /\ ReadyFits(r)'
      BY <1>1, <1>2, <2>1 DEF WorkFits, ReadyFits, NobodyHolds, AtWork
    <2>3. /\ \A c \in Saves \ {s} : cascade'[c] = cascade[c]
          /\ EraseText(s) => cascade'[s].phase = "erased" /\ cascade'[s].job = cascade[s].job
          /\ DeleteEntry(s) => cascade'[s].phase = "done"
      BY <1>1, <1>6 DEF EraseText, DeleteEntry, CascadeTo, CascadeEnds, NoCascade, Cascade
    <2>4. /\ EraseText(s) => texts' = texts \ {cascade[s].job} /\ ledger' = ledger
          /\ DeleteEntry(s) => texts' = texts /\ ledger' = WithoutEntry(ledger, cascade[s].job)
      BY DEF EraseText, DeleteEntry
    <2>5. \A c \in Saves : TextFits(c)'
      BY <1>2, <1>6, <2>3, <2>4 DEF TextFits, CascadeAt
    <2>6. EntryFits'
      <3>. SUFFICES ASSUME ledger'.status = "processed", ledger'.job \notin texts'
                    PROVE  \E c \in Saves : WillDelete(c)' \/ Replayed(c)'
        BY <2>1 DEF EntryFits
      <3>1. ledger' = ledger /\ (DeleteEntry(s) => cascade[s].job # ledger.job)
        BY <1>1, <1>6, <2>4, EntriesStay DEF Absent
      <3>2. ledger.job \in Saves
        BY <1>1, <3>1 DEF LedgerFits
      <3>3. CASE ledger.job \notin texts
        <4>1. \E c \in Saves : WillDelete(c) \/ Replayed(c)
          BY <3>1, <3>3 DEF ContentPart, EntryFits
        <4>. QED  BY <1>1, <2>1, <3>1, <3>2, <4>1, WitnessesGoOn
      <3>4. CASE ledger.job \in texts
        <4>1. EraseText(s) /\ cascade[s].job = ledger.job
          BY <1>6, <2>4, <3>1, <3>4
        <4>2. WillDelete(s)'
          BY <2>3, <3>1, <4>1 DEF WillDelete
        <4>. QED  BY <4>2
      <3>. QED  BY <3>3, <3>4
    <2>. QED  BY <2>2, <2>5, <2>6 DEF ContentPart
  <1>. QED  BY <1>5, <1>6
\* Readers, work and texts go on to fit each other, whoever steps.
LEMMA ContentStays ==
    ASSUME TypeOK, PointersFit, ListingsHold, ContentFits, LibraryStep
    PROVE  ContentFits'
  <1>. SUFFICES ASSUME Undisturbed' PROVE ContentPart'
    BY DEF ContentFits, ContentPart
  <1>1. Undisturbed /\ ContentPart
    BY Undisturbing DEF ContentFits, ContentPart
  <1>2. CASE \E s \in Saves : ContentStep(s)
    BY <1>1, <1>2, ContentStepFits DEF Undisturbed
  <1>3. CASE \E s \in Saves : PurgeStep(s)
    BY <1>1, <1>3, PurgeStepFits
  <1>4. CASE \E u \in Users : Generate(u)
    <2>1. UNCHANGED <<ledger, texts, work, rows, cascade>>
      BY <1>4 DEF Generate, content
    <2>. QED  BY <1>1, <2>1 DEF ContentPart, WorkFits, TextFits, ReadyFits, EntryFits, Held,
                   NobodyHolds, WillDelete, Replayed, Aimed, Unreferenced, CascadeAt
  <1>. QED  BY <1>2, <1>3, <1>4, Undisturbing

-----------------------------------------------------------------------------
(* One job at a time                                                       *)

JobPart == /\ texts \subseteq {ledger.job}
           /\ \A r \in Saves : PointerFits(r)
           /\ Answered

\* Nobody stops waiting, so that where nobody waits nobody did.
LEMMA Unwaiting ==
    ASSUME TypeOK, PointersFit, LibraryStep, Unwatched'
    PROVE  Unwatched
  BY WorkGoesOn, OthersLeaveWork DEF Unwatched, LibraryStep, content

\* One reservation, one job: while nobody waits, every pointer and text is its own.
LEMMA ContentKeepsJob ==
    ASSUME TypeOK, PointersFit, ContentPart, JobPart, Unwatched, Unwatched',
           NEW s \in Saves, ContentStep(s)
    PROVE  JobPart'
  <1>1. /\ rows \in [Saves -> Row] /\ work \in [Saves -> Works] /\ ledger \in Entries(Saves)
        /\ texts \subseteq Saves /\ NoJob \notin Saves
        /\ LedgerFits /\ \A r \in Saves : RowFits(r) /\ WorkFits(r) /\ PointerFits(r)
        /\ {"processed", "failed"} \subseteq Outcomes
    BY PurgeAssumption DEF TypeOK, Row, PointersFit, Outcomes, ContentPart, JobPart
  <1>2. \A r \in Saves : (Held(r) => Held(r)') /\ (Held(r)' => Held(r) \/ (SaveRow(s) /\ r = s))
    BY ContentHolders
  <1>3. Held(s)'
    <2>1. SaveRow(s) => Held(s)'
      BY <1>1 DEF SaveRow, Held, Row
    <2>2. ~SaveRow(s) => Held(s)
      BY <1>1 DEF ContentStep, Reserving, Watching, Adopting, StoreText, CompleteJob, ConsumeSuccess,
                  FailJob, Held, WorkFits, AtWork
    <2>. QED  BY <1>2, <2>1, <2>2
  <1>4. Answered'
    BY <1>3 DEF Answered, NobodyHolds
  <1>5. CASE SaveRow(s)
    <2>1. /\ rows'[s].lastJob = NoJob /\ \A r \in Saves \ {s} : rows'[r] = rows[r]
          /\ ledger' = ledger /\ texts' = texts
      BY <1>1, <1>5 DEF SaveRow, RowFits, NoRow, content
    <2>. QED  BY <1>1, <1>2, <1>4, <2>1 DEF JobPart, PointerFits
  <1>6. CASE Adopting(s)
    <2>1. /\ rows'[s].lastJob \in {ledger.job, rows[s].lastJob}
          /\ \A r \in Saves \ {s} : rows'[r] = rows[r]
          /\ ledger' = ledger /\ texts' = texts /\ Held(s)
      BY <1>1, <1>6 DEF Adopting, content, Held
    <2>. QED  BY <1>1, <1>2, <1>4, <2>1 DEF JobPart, PointerFits, Adopting, SaveRow
  <1>7. CASE Reserving(s)
    <2>1. /\ ledger = Absent /\ ledger' = [status |-> "reserved", job |-> s] /\ texts' = texts
      BY <1>1, <1>7, EntriesStay DEF Reserving, CanReserve, LedgerFits
    <2>2. texts = {}
      BY <1>1, <2>1 DEF JobPart, Absent
    <2>3. \A r \in Saves : rows'[r] = rows[r] \/ rows'[r].lastJob \in {s, rows[r].lastJob}
      BY <1>1, <1>7, MirrorEffects DEF Reserving, Results
    <2>4. ~SaveRow(s)
      BY <1>7 DEF Reserving, SaveRow
    <2>. QED  BY <1>1, <1>2, <1>4, <2>1, <2>2, <2>3, <2>4 DEF JobPart, PointerFits, Absent
  <1>8. CASE Watching(s)
    BY <1>1, <1>8 DEF Watching, Unwatched
  <1>9. CASE StoreText(s) \/ CompleteJob(s) \/ ConsumeSuccess(s) \/ FailJob(s)
    <2>1. ledger.job = s /\ ledger.status = "reserved" /\ Held(s)
      BY <1>1, <1>9 DEF StoreText, CompleteJob, ConsumeSuccess, FailJob, WorkFits, AtWork
    <2>2. ledger'.job = s
      <3>1. CASE ConsumeSuccess(s) \/ FailJob(s)
        <4>1. \E outcome \in Outcomes : ledger' = RecordTerminal(ledger, s, outcome)
          BY <1>1, <3>1 DEF ConsumeSuccess, FailJob
        <4>. QED  BY <1>1, <2>1, <4>1, EntriesStay
      <3>. QED  BY <1>9, <2>1, <3>1 DEF StoreText, CompleteJob
    <2>3. texts' \subseteq texts \cup {s}
      BY <1>9 DEF StoreText, CompleteJob, ConsumeSuccess, FailJob
    <2>4. \A r \in Saves : rows'[r] = rows[r] \/ rows'[r].lastJob \in {s, rows[r].lastJob}
      <3>1. CASE StoreText(s)
        BY <3>1 DEF StoreText
      <3>2. CASE CompleteJob(s) \/ FailJob(s)
        BY <1>1, <3>2, MirrorEffects DEF CompleteJob, FailJob, Results
      <3>3. CASE ConsumeSuccess(s)
        <4>1. Watchers = {}
          BY DEF Unwatched, Watchers
        <4>. QED  BY <3>3, <4>1, SuccessEffects
      <3>. QED  BY <1>9, <3>1, <3>2, <3>3
    <2>5. \A r \in Saves : Held(r)' => Held(r)
      BY <1>2, <2>1
    <2>. QED  BY <1>1, <1>4, <2>1, <2>2, <2>3, <2>4, <2>5 DEF JobPart, PointerFits
  <1>. QED  BY <1>5, <1>6, <1>7, <1>8, <1>9 DEF ContentStep

\* The last sweep hands the entry to its cascade, and the last cascade takes it away.
LEMMA PurgeKeepsJob ==
    ASSUME TypeOK, PointersFit, ListingsHold, ~overlap, ContentPart, JobPart,
           NEW s \in Saves, PurgeStep(s)
    PROVE  JobPart'
  <1>1. /\ ledger \in Entries(Saves) /\ texts \subseteq Saves /\ NoJob \notin Saves
        /\ cascade \in [Saves -> Cascade] /\ LedgerFits
        /\ \A r \in Saves : CascadeFits(r) /\ PointerFits(r) /\ TextFits(r)
    BY PurgeAssumption DEF TypeOK, Row, Cascade, PointersFit, ContentPart, JobPart
  <1>2. \A r \in Saves : /\ Held(r) => Held(r)' \/ (Sweep(s) /\ r = s)
                         /\ Held(r)' => Held(r) /\ rows'[r].lastJob = rows[r].lastJob
    BY PurgeHolders
  <1>3. CASE ledger' = ledger
    <2>1. texts' \subseteq {ledger.job}
      BY DEF JobPart, PurgeStep, DeleteSave, RestoreSave, Sweep, ListReferences, DropArtifacts,
             PickJob, EraseText, DeleteEntry, CascadeRaises, content
    <2>2. \A r \in Saves : PointerFits(r)'
      BY <1>1, <1>2, <1>3 DEF PointerFits
    <2>3. Answered'
      <3>. SUFFICES ASSUME ledger # Absent, NobodyHolds'
                    PROVE  \E c \in Saves : WillDelete(c)' \/ (CascadeAt(c, "queued")' /\ Aimed(c)')
        BY <1>3 DEF Answered
      <3>1. ledger.job \in Saves
        BY <1>1 DEF LedgerFits
      <3>2. CASE NobodyHolds
        <4>1. \E c \in Saves : WillDelete(c) \/ (CascadeAt(c, "queued") /\ Aimed(c))
          BY <3>2 DEF JobPart, Answered
        <4>2. DeleteEntry(s) => cascade[s].job # ledger.job
          BY <1>1, <1>3, EntriesStay DEF DeleteEntry, Absent
        <4>. QED  BY <1>1, <1>3, <3>1, <3>2, <4>1, <4>2, WitnessesGoOn DEF Replayed
      <3>3. CASE ~NobodyHolds
        <4>1. Sweep(s) /\ Held(s)
          BY <1>2, <3>3 DEF NobodyHolds
        <4>2. cascade'[s].phase = "queued" /\ cascade'[s].pointer = rows[s].lastJob
          BY <1>1, <4>1 DEF Sweep, NoCascade
        <4>3. rows[s].lastJob \in {NoJob, ledger.job}
          BY <1>1, <4>1 DEF PointerFits
        <4>. QED  BY <1>3, <4>2, <4>3 DEF Aimed, CascadeAt
      <3>. QED  BY <3>2, <3>3
    <2>. QED  BY <1>3, <2>1, <2>2, <2>3 DEF JobPart
  <1>4. CASE ledger' # ledger
    <2>1. DeleteEntry(s)
      BY <1>4 DEF PurgeStep, DeleteSave, RestoreSave, Sweep, ListReferences, DropArtifacts,
             PickJob, EraseText, CascadeRaises, content
    <2>2. ledger' = Absent /\ ledger.job = cascade[s].job /\ CascadeAt(s, "erased") /\ texts' = texts
      BY <1>1, <1>4, <2>1, EntriesStay DEF DeleteEntry
    <2>3. texts = {}
      BY <1>1, <2>2 DEF TextFits, JobPart
    <2>4. NobodyHolds
      BY <2>2, PickedIsUnheld DEF CascadeAt
    <2>. QED  BY <1>2, <2>2, <2>3, <2>4 DEF JobPart, PointerFits, Answered, NobodyHolds
  <1>. QED  BY <1>3, <1>4

\* One job at a time, whoever steps.
LEMMA JobStays ==
    ASSUME TypeOK, PointersFit, ListingsHold, ContentFits, OneJobAtATime, LibraryStep
    PROVE  OneJobAtATime'
  <1>. SUFFICES ASSUME Undisturbed', Unwatched' PROVE JobPart'
    BY DEF OneJobAtATime, JobPart
  <1>1. Undisturbed /\ ~overlap /\ Unwatched /\ ContentPart /\ JobPart
    BY Undisturbing, Unwaiting DEF ContentFits, ContentPart, OneJobAtATime, JobPart, Undisturbed
  <1>2. CASE \E s \in Saves : ContentStep(s)
    BY <1>1, <1>2, ContentKeepsJob
  <1>3. CASE \E s \in Saves : PurgeStep(s)
    BY <1>1, <1>3, PurgeKeepsJob
  <1>4. CASE \E u \in Users : Generate(u)
    <2>1. UNCHANGED <<ledger, texts, work, rows, cascade>>
      BY <1>4 DEF Generate, content
    <2>. QED  BY <1>1, <2>1 DEF JobPart, PointerFits, Answered, Held, NobodyHolds, WillDelete,
                   Aimed, Unreferenced, CascadeAt
  <1>. QED  BY <1>2, <1>3, <1>4, Undisturbing
-----------------------------------------------------------------------------
(* Erasures                                                                *)

\* The submission of a save comes before the inventory, so that no job begins under
\* an erasure.
LEMMA ContentKeepsErasures ==
    ASSUME TypeOK, PointersFit, ErasuresFit, NEW s \in Saves, ContentStep(s), UNCHANGED expired
    PROVE  ErasuresFit'
  <1>1. /\ rows \in [Saves -> Row] /\ work \in [Saves -> Works] /\ UserOf \in [Saves -> Users]
        /\ account' = account /\ artifacts' = artifacts /\ account \in [Users -> Erasure]
        /\ \A r \in Saves : SaveFits(r)
    BY OthersLeaveWork, PurgeAssumption DEF TypeOK, Row, Erasure, ErasuresFit
  <1>2. \A u \in Users : UserFits(u)'
    BY <1>1 DEF ErasuresFit, UserFits
  <1>. SUFFICES ASSUME NEW r \in Saves PROVE SaveFits(r)'
    BY <1>2 DEF ErasuresFit
  <1>3. ErasureOf(r)' = ErasureOf(r) /\ ErasureOf(s)' = ErasureOf(s)
    BY <1>1 DEF ErasureOf
  <1>4. (Held(r) => Held(r)') /\ (Held(r)' => Held(r) \/ (SaveRow(s) /\ r = s))
    BY ContentHolders
  <1>5. SaveRow(s) \/ rows[s].stage = "saving" => ErasureOf(s).phase \in {"open", "retry"}
    BY <1>1 DEF SaveFits, ErasureOf, SaveRow
  <1>6. rows'[r].stage = "saving" => rows[r].stage = "saving" \/ (SaveRow(s) /\ r = s)
    <2>1. CASE SaveRow(s) \/ Adopting(s) \/ StoreText(s)
      BY <1>1, <2>1 DEF SaveRow, Adopting, StoreText, Row
    <2>2. CASE Reserving(s) \/ Watching(s) \/ CompleteJob(s) \/ FailJob(s)
      BY <1>1, <2>2, MirrorEffects DEF Reserving, Watching, CompleteJob, FailJob, Results
    <2>3. CASE ConsumeSuccess(s)
      BY <2>3, SuccessEffects
    <2>. QED  BY <2>1, <2>2, <2>3 DEF ContentStep
  <1>7. /\ work'[r] = "working" => work[r] = "working" \/ (Reserving(s) /\ r = s)
        /\ jobRows \subseteq jobRows' /\ texts \subseteq texts'
        /\ Reserving(s) => s \in jobRows' /\ rows[s].stage = "saving" /\ texts' = texts
        /\ \A t \in texts' : t \in texts \/ (t = s /\ work[s] = "working")
    BY <1>1 DEF ContentStep, SaveRow, Reserving, Watching, Adopting, StoreText, CompleteJob,
                ConsumeSuccess, FailJob, Watchers, content
  <1>8. SaveFits(r) /\ SaveFits(s)
    BY <1>1
  <1>. QED  BY <1>3, <1>4, <1>5, <1>6, <1>7, <1>8 DEF SaveFits

\* A cascade beside an erasure only takes away what the erasure takes as well.
LEMMA PurgeKeepsErasures ==
    ASSUME TypeOK, ErasuresFit, NEW s \in Saves, PurgeStep(s), UNCHANGED expired
    PROVE  ErasuresFit'
  <1>1. /\ work' = work /\ jobRows' = jobRows /\ account' = account /\ rows \in [Saves -> Row]
        /\ texts' \subseteq texts /\ artifacts' \subseteq artifacts
    BY OthersLeaveWork DEF TypeOK, Row, PurgeStep, DeleteSave, RestoreSave, Sweep,
       ListReferences, DropArtifacts, PickJob, EraseText, DeleteEntry, CascadeRaises, content
  <1>2. \A r \in Saves : /\ Held(r)' => Held(r)
                         /\ rows'[r].stage = "saving" => rows[r].stage = "saving"
    <2>1. \/ rows' = rows
          \/ \E stage \in {"deleted", "live"} : rows' = [rows EXCEPT ![s].stage = stage]
          \/ rows' = [rows EXCEPT ![s] = [NoRow EXCEPT !.stage = "swept"]]
      BY DEF PurgeStep, DeleteSave, RestoreSave, Sweep, ListReferences, DropArtifacts, PickJob,
             EraseText, DeleteEntry, CascadeRaises
    <2>2. \A r \in Saves : rows'[r].stage = "saving" => rows[r].stage = "saving"
      BY <1>1, <2>1 DEF NoRow, Row
    <2>. QED  BY <2>2, PurgeHolders
  <1>3. \A r \in Saves : SaveFits(r)'
    BY <1>1, <1>2 DEF ErasuresFit, SaveFits, ErasureOf
  <1>4. \A u \in Users : UserFits(u)'
    BY <1>1 DEF ErasuresFit, UserFits
  <1>. QED  BY <1>3, <1>4 DEF ErasuresFit

\* Each step of an erasure leads from what the inventory found to nothing.
LEMMA ErasureKeepsErasures ==
    ASSUME TypeOK, ErasuresFit, NEW u \in Users, Generate(u) \/ ErasureStep(u), UNCHANGED expired
    PROVE  ErasuresFit'
  <1>1. /\ account \in [Users -> Erasure] /\ UserOf \in [Saves -> Users]
        /\ jobRows \subseteq Saves /\ rows \in [Saves -> Row]
        /\ (\A s \in Saves : SaveFits(s)) /\ (\A v \in Users : UserFits(v))
    BY PurgeAssumption DEF TypeOK, Erasure, Row, ErasuresFit
  <1>2. \A s \in Saves : (Held(s)' => Held(s)) /\ (rows'[s].stage = "saving" => rows[s].stage = "saving")
    BY ErasureHolders DEF Held
  <1>3. CASE Generate(u)
    <2>1. /\ UNCHANGED <<texts, work, jobRows, rows, account>>
          /\ artifacts' = artifacts \cup {u} /\ account[u].phase \in {"open", "retry"}
      BY <1>3 DEF Generate, content
    <2>. QED  BY <1>1, <2>1 DEF ErasuresFit, SaveFits, UserFits, ErasureOf, Held, Erased
  <1>4. ASSUME ErasureStep(u)
        PROVE  /\ \A v \in Users \ {u} : account'[v] = account[v]
               /\ artifacts' \subseteq artifacts /\ work' = work /\ texts' \subseteq texts
               /\ jobRows \ account[u].jobs \subseteq jobRows'
               /\ jobRows' = jobRows \/ EraseJobs(u)
    BY <1>1, <1>4 DEF ErasureStep, TakeInventory, EraseArtifacts, EraseTexts, EraseJobs,
       EraseRows, EraseIdentity, ErasureRaises, ErasureTo, content
  <1>5. ASSUME ErasureStep(u), UserFits(u)', \A s \in Saves : UserOf[s] = u => SaveFits(s)'
        PROVE  ErasuresFit'
    <2>1. \A v \in Users : UserFits(v)'
      BY <1>1, <1>4, <1>5 DEF UserFits
    <2>2. ASSUME NEW s \in Saves, UserOf[s] # u PROVE SaveFits(s)'
      <3>1. ErasureOf(s)' = ErasureOf(s)
        BY <1>1, <1>4, <1>5, <2>2 DEF ErasureOf
      <3>2. s \in jobRows => s \in jobRows'
        BY <1>1, <1>4, <1>5, <2>2 DEF UserFits
      <3>. QED  BY <1>1, <1>2, <1>4, <1>5, <3>1, <3>2 DEF SaveFits
    <2>. QED  BY <1>5, <2>1, <2>2 DEF ErasuresFit
  <1>6. UserFits(u) /\ \A s \in Saves : UserOf[s] = u => ErasureOf(s) = account[u] /\ ErasureOf(s)' = account'[u]
    BY <1>1 DEF ErasureOf
  <1>7. CASE TakeInventory(u)
    <2>1. /\ account'[u].phase = "artifacts"
          /\ account'[u].jobs = {j \in jobRows : UserOf[j] = u}
          /\ account'[u].busy = account[u].busy \cup {j \in Saves : UserOf[j] = u /\ work[j] = "working"}
          /\ \A s \in Saves : UserOf[s] = u => rows[s].stage # "saving"
          /\ UNCHANGED <<texts, work, jobRows, rows, artifacts>>
      BY <1>1, <1>7 DEF TakeInventory, content
    <2>2. UserFits(u)'
      BY <2>1 DEF UserFits, Erased
    <2>3. \A s \in Saves : UserOf[s] = u => SaveFits(s)'
      BY <1>1, <1>6, <2>1 DEF SaveFits, Erased
    <2>. QED  BY <1>5, <1>7, <2>2, <2>3 DEF ErasureStep
  <1>8. CASE EraseArtifacts(u)
    <2>1. /\ account[u].phase = "artifacts" /\ account'[u].phase = "texts"
          /\ account'[u].jobs = account[u].jobs /\ account'[u].busy = account[u].busy
          /\ u \notin artifacts' /\ UNCHANGED <<texts, work, jobRows, rows>>
      BY <1>1, <1>8 DEF EraseArtifacts, ErasureAt, ErasureTo, Erasure, content
    <2>2. UserFits(u)' /\ \A s \in Saves : UserOf[s] = u => SaveFits(s)'
      BY <1>1, <1>6, <2>1 DEF UserFits, SaveFits, Erased
    <2>. QED  BY <1>5, <1>8, <2>2 DEF ErasureStep
  <1>9. CASE EraseTexts(u)
    <2>1. /\ account[u].phase = "texts" /\ account'[u].phase = "jobs"
          /\ account'[u].jobs = account[u].jobs /\ account'[u].busy = account[u].busy
          /\ texts' = texts \ account[u].jobs
          /\ UNCHANGED <<artifacts, work, jobRows, rows>>
      BY <1>1, <1>9 DEF EraseTexts, ErasureAt, ErasureTo, Erasure
    <2>2. UserFits(u)' /\ \A s \in Saves : UserOf[s] = u => SaveFits(s)'
      BY <1>1, <1>2, <1>6, <2>1 DEF UserFits, SaveFits, Erased
    <2>. QED  BY <1>5, <1>9, <2>2 DEF ErasureStep
  <1>10. CASE EraseJobs(u)
    <2>1. /\ account[u].phase = "jobs" /\ account'[u].phase = "rows"
          /\ account'[u].jobs = {} /\ account'[u].busy = account[u].busy
          /\ jobRows' = jobRows \ account[u].jobs
          /\ UNCHANGED <<artifacts, texts, work, rows>>
      BY <1>1, <1>10 DEF EraseJobs, ErasureAt, Erasure
    <2>2. UserFits(u)' /\ \A s \in Saves : UserOf[s] = u => SaveFits(s)'
      BY <1>1, <1>2, <1>6, <2>1 DEF UserFits, SaveFits, Erased
    <2>. QED  BY <1>5, <1>10, <2>2 DEF ErasureStep
  <1>11. CASE EraseRows(u)
    <2>1. /\ account[u].phase = "rows" /\ account'[u].phase = "identity"
          /\ account'[u].jobs = account[u].jobs /\ account'[u].busy = account[u].busy
          /\ UNCHANGED <<artifacts, texts, work, jobRows>>
      BY <1>1, <1>11 DEF EraseRows, ErasureAt, ErasureTo, Erasure, content
    <2>2. \A s \in Saves : UserOf[s] = u => ~Held(s)'
      BY <1>11 DEF EraseRows, Held, NoRow
    <2>3. UserFits(u)' /\ \A s \in Saves : UserOf[s] = u => SaveFits(s)'
      BY <1>1, <1>2, <1>6, <2>1, <2>2 DEF UserFits, SaveFits, Erased
    <2>. QED  BY <1>5, <1>11, <2>3 DEF ErasureStep
  <1>12. CASE EraseIdentity(u)
    <2>1. /\ account[u].phase = "identity" /\ account'[u].phase = "closed"
          /\ account'[u].jobs = account[u].jobs /\ account'[u].busy = account[u].busy
          /\ UNCHANGED <<artifacts, texts, work, jobRows, rows>>
      BY <1>1, <1>12 DEF EraseIdentity, ErasureAt, ErasureTo, Erasure, content
    <2>2. UserFits(u)' /\ \A s \in Saves : UserOf[s] = u => SaveFits(s)'
      BY <1>1, <1>2, <1>6, <2>1 DEF UserFits, SaveFits, Erased
    <2>. QED  BY <1>5, <1>12, <2>2 DEF ErasureStep
  <1>13. CASE ErasureRaises(u)
    <2>1. /\ account'[u].phase = "retry" /\ account'[u].jobs = {}
          /\ account'[u].busy = account[u].busy
          /\ UNCHANGED <<artifacts, texts, work, jobRows, rows>>
      BY <1>1, <1>13 DEF ErasureRaises, Erasure, content
    <2>2. UserFits(u)' /\ \A s \in Saves : UserOf[s] = u => SaveFits(s)'
      BY <1>1, <1>2, <1>6, <2>1 DEF UserFits, SaveFits, Erased
    <2>. QED  BY <1>5, <1>13, <2>2 DEF ErasureStep
  <1>. QED  BY <1>3, <1>7, <1>8, <1>9, <1>10, <1>11, <1>12, <1>13 DEF ErasureStep

-----------------------------------------------------------------------------
(* The invariant                                                           *)

\* An empty library fits.
LEMMA Initially == Init => IInv
  <1>. SUFFICES ASSUME Init PROVE IInv
    OBVIOUS
  <1>. USE PurgeAssumption DEF Init
  <1>1. TypeOK
    <2>1. NoCascade \in Cascade
      <3>1. 0 \in 0..MaxReplays
        OBVIOUS
      <3>. QED  BY <3>1 DEF NoCascade, Cascade, CascadePhases
    <2>2. NoRow \in Row /\ NoAccount \in Erasure /\ Absent \in Entries(Saves) /\ "none" \in Works
      BY DEF NoRow, Row, Stages, Results, NoAccount, Erasure, AccountPhases, Absent, Entries,
             LedgerStatuses, Works
    <2>. QED  BY <2>1, <2>2 DEF TypeOK, Row, Cascade, Erasure
  <1>2. PointersFit
    BY DEF PointersFit, LedgerFits, RowFits, CascadeFits, Absent, NoRow, NoCascade
  <1>3. ListingsHold
    BY DEF ListingsHold, ListingFits, NoCascade, UnderWay, CascadeAt
  <1>4. ContentFits
    BY DEF ContentFits, WorkFits, TextFits, ReadyFits, EntryFits, Held, NoRow, NoCascade,
           CascadeAt, Absent, AtWork
  <1>5. OneJobAtATime
    BY DEF OneJobAtATime, PointerFits, Answered, Held, NoRow
  <1>6. ErasuresFit
    BY DEF ErasuresFit, SaveFits, UserFits, ErasureOf, NoAccount, Erased
  <1>. QED  BY <1>1, <1>2, <1>3, <1>4, <1>5, <1>6 DEF IInv

\* A row that expires takes nothing along, and nobody's work rests on it.
LEMMA ExpiriesKeep ==
    ASSUME IInv, NEW j \in Saves, JobExpires(j) PROVE IInv'
  <1>1. /\ UNCHANGED <<ledger, texts, work, rows, artifacts, cascade, account, overlap>>
        /\ jobRows' = jobRows \ {j} /\ expired' = expired \cup {j}
    BY DEF JobExpires
  <1>2. TypeOK' /\ PointersFit'
    BY <1>1 DEF IInv, TypeOK, PointersFit, LedgerFits, RowFits, CascadeFits
  <1>3. ListingsHold'
    BY <1>1 DEF IInv, ListingsHold, ListingFits, Unreferenced, NobodyHolds, Held, CascadeAt,
                StillHolds
  <1>4. ContentFits'
    BY <1>1 DEF IInv, ContentFits, Undisturbed, AccountsKept, WorkFits, TextFits, ReadyFits,
                EntryFits, Held, NobodyHolds, WillDelete, Replayed, Aimed, Unreferenced, CascadeAt
  <1>5. OneJobAtATime'
    BY <1>1 DEF IInv, OneJobAtATime, Undisturbed, AccountsKept, Unwatched, PointerFits, Answered,
                Held, NobodyHolds, WillDelete, Aimed, Unreferenced, CascadeAt
  <1>6. ErasuresFit'
    BY <1>1 DEF IInv, ErasuresFit, SaveFits, UserFits, ErasureOf, Held
  <1>. QED  BY <1>2, <1>3, <1>4, <1>5, <1>6 DEF IInv

\* Every step keeps the invariant.
LEMMA StepsKeep == IInv /\ [Next]_vars => IInv'
  <1>1. ASSUME IInv, NEW j \in Saves, JobExpires(j) PROVE IInv'
    BY <1>1, ExpiriesKeep
  <1>2. ASSUME IInv, LibraryStep, UNCHANGED expired PROVE IInv'
    <2>1. TypeOK'
      BY <1>2, ContentTypes, PurgeTypes, ErasureTypes DEF IInv, LibraryStep
    <2>2. PointersFit'
      <3>1. ASSUME NEW s \in Saves, ContentStep(s) PROVE PointersFit'
        BY <1>2, <3>1, ContentKeepsLedger, ContentKeepsRows DEF IInv, PointersFit
      <3>. QED  BY <1>2, <3>1, PurgeKeepsPointers, ErasureKeepsPointers DEF IInv, LibraryStep
    <2>3. ListingsHold' /\ ContentFits' /\ OneJobAtATime'
      BY <1>2, ListingsStay, ContentStays, JobStays DEF IInv
    <2>4. ErasuresFit'
      BY <1>2, ContentKeepsErasures, PurgeKeepsErasures, ErasureKeepsErasures DEF IInv, LibraryStep
    <2>. QED  BY <2>1, <2>2, <2>3, <2>4 DEF IInv
  <1>3. ASSUME IInv, UNCHANGED vars PROVE IInv'
    <2>. USE <1>3 DEF vars, content
    <2>1. TypeOK' /\ PointersFit'
      BY DEF IInv, TypeOK, PointersFit, LedgerFits, RowFits, CascadeFits
    <2>2. ListingsHold'
      BY DEF IInv, ListingsHold, ListingFits, Unreferenced, NobodyHolds, Held, CascadeAt, StillHolds
    <2>3. ContentFits'
      BY DEF IInv, ContentFits, Undisturbed, AccountsKept, WorkFits, TextFits, ReadyFits,
             EntryFits, Held, NobodyHolds, WillDelete, Replayed, Aimed, Unreferenced, CascadeAt
    <2>4. OneJobAtATime'
      BY DEF IInv, OneJobAtATime, Undisturbed, AccountsKept, Unwatched, PointerFits, Answered,
             Held, NobodyHolds, WillDelete, Aimed, Unreferenced, CascadeAt
    <2>5. ErasuresFit'
      BY DEF IInv, ErasuresFit, SaveFits, UserFits, ErasureOf, Held
    <2>. QED  BY <2>1, <2>2, <2>3, <2>4, <2>5 DEF IInv
  <1>. QED  BY <1>1, <1>2, <1>3 DEF Next

\* The invariant holds of every behaviour.
THEOREM Invariance == Spec => []IInv
  BY Initially, StepsKeep, PTL DEF Spec

-----------------------------------------------------------------------------
(* The properties                                                          *)

\* Every row, record and entry keeps its type, whatever is replayed or retried.
THEOREM TypesAreCorrect == Spec => []TypeOK
<1>1. IInv => TypeOK
  BY DEF IInv
<1>. QED  BY <1>1, Invariance, PTL

\* While no save comes inside a cascade and no account is erased, a ready save keeps a
\* text to read, and a job's row that leads to it until that expires, whichever other saves
\* are swept and however often their cascades run.
THEOREM ReadySavesAreReadable == Spec => []ReadyIsReadable
<1>1. IInv => ReadyIsReadable
  <2>. SUFFICES ASSUME IInv, Undisturbed, NEW r \in Saves, Held(r), rows[r].result = "ready"
                PROVE  /\ ledger.job \in texts /\ ledger.job \in jobRows \cup expired
                       /\ ledger.status = "processed" \/ work[ledger.job] = "completed"
    BY DEF ReadyIsReadable, Undisturbed
  <2>1. /\ \A s \in Saves : WorkFits(s) /\ ReadyFits(s)
        /\ EntryFits
    BY DEF IInv, ContentFits
  <2>2. ledger.status = "processed" => ledger.job \in texts
    BY <2>1 DEF EntryFits, NobodyHolds
  <2>3. ledger.job \in texts /\ (ledger.status = "processed" \/ work[ledger.job] = "completed")
    BY <2>1, <2>2 DEF ReadyFits, WorkFits
  <2>4. texts \subseteq Saves /\ \A s \in Saves : UserOf[s] \in Users
    BY PurgeAssumption DEF IInv, TypeOK
  <2>5. \A s \in texts : s \in jobRows \cup expired
    BY <2>4 DEF IInv, ErasuresFit, SaveFits, UserFits, ErasureOf, Undisturbed, AccountsKept
  <2>. QED  BY <2>3, <2>5
<1>. QED  BY <1>1, Invariance, PTL

\* Neither the last sweep of a content nor the closing of an account leaves anything
\* behind, from whatever step they had to start again, but for the texts of jobs that were
\* at work or whose row had expired when the account was erased (_collect_inventory).
THEOREM NothingStaysBehind == Spec => []NothingIsLeft
<1>1. IInv => ContentIsErased
  <2>. SUFFICES ASSUME IInv, Undisturbed,
                       \A s \in Saves : /\ ~Held(s)
                                        /\ work[s] \in {"none", "ended"}
                                        /\ cascade[s].phase \in {"none", "done"}
                PROVE  texts = {} /\ ledger = Absent
    BY DEF ContentIsErased, Undisturbed
  <2>1. texts \subseteq {ledger.job} /\ Answered
    BY DEF IInv, OneJobAtATime, Unwatched
  <2>2. ledger = Absent
    BY <2>1 DEF Answered, NobodyHolds, WillDelete, CascadeAt
  <2>. QED  BY <2>1, <2>2, PurgeAssumption DEF IInv, TypeOK, Absent
<1>2. IInv => AccountIsErased
  <2>. SUFFICES ASSUME IInv, NEW u \in Users, account[u].phase = "closed"
                PROVE  /\ u \notin artifacts
                       /\ \A s \in Saves : UserOf[s] = u =>
                             ~Held(s) /\ (s \in texts => s \in account[u].busy \cup expired)
    BY DEF AccountIsErased
  <2>1. u \notin artifacts
    BY DEF IInv, ErasuresFit, UserFits, Erased
  <2>2. ASSUME NEW s \in Saves, UserOf[s] = u
        PROVE  ~Held(s) /\ (s \in texts => s \in account[u].busy \cup expired)
    BY <2>2 DEF IInv, ErasuresFit, SaveFits, ErasureOf, Erased
  <2>. QED  BY <2>1, <2>2
<1>. QED  BY <1>1, <1>2, Invariance, PTL DEF NothingIsLeft

\* A cascade that goes by the pointer of its row never takes the reservation of a job
\* at work (delete_content_entry is conditional on the job of the purge).
THEOREM ReservationsSurvive == Spec => ReservationSurvives
<1>. DEFINE Survives ==
        \A j \in Saves :
          (ledger.status = "reserved" /\ ledger.job = j /\ ledger' = Absent) =>
              \E s \in Saves : /\ CascadeAt(s, "erased")
                               /\ cascade[s].job = j
                               /\ cascade[s].pointer = NoJob
<1>1. IInv /\ [Next]_vars => [Survives]_vars
  <2>. SUFFICES ASSUME IInv, Next, NEW j \in Saves, ledger.status = "reserved", ledger.job = j,
                       ledger' = Absent
                PROVE  \E s \in Saves : /\ CascadeAt(s, "erased")
                                        /\ cascade[s].job = j
                                        /\ cascade[s].pointer = NoJob
    OBVIOUS
  <2>1. ledger \in Entries(Saves) /\ {"processed", "failed"} \subseteq Outcomes
    BY DEF IInv, TypeOK, Outcomes
  <2>2. \A s \in Saves : ~ContentStep(s)
    <3>1. ASSUME NEW s \in Saves, ConsumeSuccess(s) \/ FailJob(s) PROVE FALSE
      <4>1. \E outcome \in Outcomes : ledger' = RecordTerminal(ledger, s, outcome)
        BY <2>1, <3>1 DEF ConsumeSuccess, FailJob
      <4>2. ledger'.status # "absent"
        BY <2>1, <4>1, EntriesStay DEF Outcomes
      <4>. QED  BY <4>2 DEF Absent
    <3>. QED  BY <2>1, <3>1, EntriesStay DEF ContentStep, SaveRow, Reserving, Watching, Adopting,
           StoreText, CompleteJob, content, Absent, CanReserve
  <2>3. PICK s \in Saves : PurgeStep(s)
    BY <2>2, OthersLeaveWork DEF Next, LibraryStep, JobExpires, Absent, content
  <2>4. DeleteEntry(s)
    BY <2>3 DEF PurgeStep, DeleteSave, RestoreSave, Sweep, ListReferences, DropArtifacts, PickJob,
           EraseText, CascadeRaises, content, Absent
  <2>5. CascadeAt(s, "erased") /\ cascade[s].job = j
    BY <2>1, <2>4, EntriesStay DEF DeleteEntry, Absent
  <2>6. cascade[s].pointer # j
    BY DEF IInv, PointersFit, LedgerFits, CascadeFits, AtWork
  <2>7. cascade[s].pointer = NoJob
    BY <2>5, <2>6 DEF IInv, PointersFit, CascadeFits, CascadeAt
  <2>. QED  BY <2>5, <2>7
<1>. QED  BY <1>1, Invariance, PTL DEF Spec, ReservationSurvives

\* The artifacts of a content stay with a user who holds another save of it when one
\* save is swept (handle_user_media_removal drops them for the last reference only).
THEOREM ArtifactsStay == Spec => ArtifactsOutliveOneSave
<1>. DEFINE Outlive ==
        \A u \in Users :
          (u \in artifacts /\ u \notin artifacts' /\ account[u].phase # "artifacts") =>
              overlap \/ \A r \in Saves : UserOf[r] = u => ~Held(r)
<1>1. IInv /\ [Next]_vars => [Outlive]_vars
  <2>. SUFFICES ASSUME IInv, Next, NEW u \in Users, u \in artifacts, u \notin artifacts',
                       account[u].phase # "artifacts", ~overlap
                PROVE  \A r \in Saves : UserOf[r] = u => ~Held(r)
    OBVIOUS
  <2>1. PICK s \in Saves : DropArtifacts(s)
    <3>1. \A s \in Saves : PurgeStep(s) => DropArtifacts(s)
      BY DEF PurgeStep, DeleteSave, RestoreSave, Sweep, ListReferences, PickJob, EraseText,
             DeleteEntry, CascadeRaises
    <3>2. \A v \in Users : ~Generate(v) /\ ~ErasureStep(v)
      BY DEF Generate, ErasureStep, TakeInventory, EraseArtifacts, EraseTexts, EraseJobs, EraseRows,
             EraseIdentity, ErasureRaises, ErasureAt
    <3>. QED  BY <3>1, <3>2, OthersLeaveWork DEF Next, LibraryStep, JobExpires
  <2>2. UserOf[s] = u /\ ~StillHolds(s) /\ CascadeAt(s, "listed")
    BY <2>1 DEF DropArtifacts
  <2>. QED  BY <2>2 DEF IInv, ListingsHold, ListingFits
<1>. QED  BY <1>1, Invariance, PTL DEF Spec, ArtifactsOutliveOneSave
=============================================================================
