-------------------------- MODULE PersonalLibrary --------------------------
(***************************************************************************)
(* What surrounds the library of one account: its folders, the search      *)
(* index, the digest with its notifications and the feeds it follows.      *)
(* They share the rows of user_media and a clock; a load says how much of  *)
(* each happens in one behaviour.                                          *)
(***************************************************************************)
EXTENDS Folders, SearchIndex, Digests, Feeds

CONSTANT Loads      \* how much may happen, see LoadKinds

LoadKinds == [items : SUBSET Items, requests : Nat, ops : SUBSET FolderOps,
              orderly : BOOLEAN, grown : BOOLEAN, notes : Nat,
              removals : Nat, readers : Nat, periods : Nat, devices : BOOLEAN,
              follows : Nat, polls : Nat, lag : BOOLEAN,
              repeats : BOOLEAN]

ASSUME LoadsAssumption == Loads \subseteq LoadKinds

VARIABLE load       \* the load of this behaviour

vars == <<saveVars, folderVars, searchVars, digestVars, feedVars, load>>

TypeOK ==
    /\ SavesTypeOK /\ FoldersTypeOK /\ SearchTypeOK /\ DigestsTypeOK /\ FeedsTypeOK
    /\ load \in Loads

\* An account has no folder yet, or any tree of them that the code lets grow, and a
\* save that is filed in one or in none.
Init ==
    /\ load \in Loads
    /\ \E parents \in [Grown -> Grown \cup {Unfiled}], d \in SUBSET Grown :
          folders = [f \in FolderIds |->
             IF ~load.grown \/ f \notin Grown THEN NoFolder
             ELSE IF f \in d THEN Default ELSE Under(parents[f])]
    /\ Cardinality(Defaults) <= 1
    /\ \A f \in Grown : ~Endless(f) /\ Depth(f) <= MaxDepth
    /\ saves \in [Items -> {NoSave} \cup
          [state : {"visible"}, folder : {f \in Grown : Exists(f)} \cup {Unfiled},
           at : {1}, late : {FALSE}]]
    /\ \A i \in Items \ load.items : saves[i] = NoSave
    /\ request = [r \in Requests |-> NoRequest]
    /\ crossed = FALSE
    /\ clock = 1
    /\ SearchInit /\ DigestsInit /\ FeedsInit

Begun(actors, at, idle) == Cardinality({a \in actors : at[a].pc # idle})

WithinLoad ==
    /\ load.orderly => ~crossed'
    /\ \A r \in Requests : request'[r].op = "save" => request'[r].on \in load.items
    /\ Begun(Requests, request', "idle") <= load.requests
    /\ \A r \in Requests : request[r].pc = "idle" /\ request'[r].pc # "idle" =>
          request'[r].op \in load.ops
    /\ Begun(Notes, note', "unsent") <= load.notes
    /\ Begun(Removals, removal', "idle") <= load.removals
    /\ Begun(Readers, reader', "idle") <= load.readers
    /\ clock' <= load.periods
    /\ Begun(Followers, follow', "idle") <= load.follows
    /\ load.polls = 0 => poll' = poll
    /\ ~load.lag => indexed' = feeds'
    /\ ~load.repeats => repeated' = {}
    /\ ~load.devices => <<registered, quiet>>' = <<registered, quiet>>

FolderWork ==
    /\ \E r \in Requests : FolderStep(r)
    /\ UNCHANGED <<searchVars, digestVars, feedVars>>
SearchWork == SearchStep /\ UNCHANGED <<folderVars, digestVars, feedVars>>
DigestWork == DigestStep /\ UNCHANGED <<folderVars, searchVars, feedVars>>
FeedWork == FeedStep /\ UNCHANGED <<saveVars, folderVars, searchVars, digestVars>>
ClockTicks == PeriodEnds /\ UNCHANGED <<folderVars, searchVars, digestVars, feedVars>>

Next ==
    /\ FolderWork \/ SearchWork \/ DigestWork \/ FeedWork \/ ClockTicks
    /\ WithinLoad
    /\ UNCHANGED load

Spec == Init /\ [][Next]_vars

-----------------------------------------------------------------------------
(* Properties                                                              *)

\* Until requests overlap that the code does not keep apart, creations, moves, renamings
\* and deletions with all their faults leave a forest: at most one default folder, no
\* folder under one that is gone, no cycle, and none deeper than MAX_FOLDER_DEPTH; and
\* no visible save is in a folder that is gone, wherever a deletion breaks off.
FoldersFormATree ==
    ~crossed =>
        /\ Cardinality(Defaults) <= 1
        /\ \A f \in Existing :
              /\ folders[f].parent # Unfiled => Exists(folders[f].parent)
              /\ ~Endless(f)
              /\ Depth(f) <= MaxDepth
        /\ \A i \in Items : Visible(i) /\ saves[i].folder # Unfiled => Exists(saves[i].folder)

\* A save whose chunks were taken out after its deletion, with no worker between its
\* check and its write, never comes back into the index, however late or often
\* its message is delivered.
SearchForgets == cleared \cap chunks = {}

\* As long as nobody captured a period over a capture, it is announced at most once,
\* with the items the screen shows, and the capture misses no save that was stored
\* before the period closed.
DigestIsTold ==
    \A p \in Periods \ retaken :
        /\ Len(notices[p]) <= 1
        /\ \A n \in DOMAIN notices[p] : notices[p][n] = digests[p].items
        /\ digests[p] # NoCapture => \A i \in Items :
              Visible(i) /\ saves[i].at = p /\ ~saves[i].late => i \in digests[p].items

\* A device that was unregistered, at sign-out or otherwise, is never posted to again
\* unless the post was under way, whatever messages were queued or come back.
QuietAfterSignOut ==
    [][\A p \in Periods : push[p].pc = "post" /\ push'[p].pc = "drop" =>
          push[p].to \cap quiet = {}]_vars

\* An item that no document listed twice while it was new is sent to be processed at
\* most once for a follow, while no whole row was put over a change made since it was
\* read: also when a poll is delivered again, when it reads the follows through an index
\* that lags, when the feed lists the item anew and when the follow is paused and resumed.
ItemRoutedOnce ==
    \A f \in Followers \ stale, g \in Guids \ repeated : routed[f][g] <= 1
=============================================================================
