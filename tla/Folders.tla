------------------------------ MODULE Folders ------------------------------
(***************************************************************************)
(* The folders of one account and what its saves are filed under.  Every   *)
(* request reads the folders, decides on what it read and writes in later  *)
(* calls to DynamoDB; a folder is put back whole.  One action per remote   *)
(* call, and any call may raise or be the last one of its process.         *)
(***************************************************************************)
EXTENDS Saves

CONSTANT MaxDepth   \* MAX_FOLDER_DEPTH, 5 in the code

ASSUME FoldersAssumption == MaxDepth \in Nat \ {0}

VARIABLES
    folders,        \* the rows of user_folders
    request,        \* the requests and their local variables
    crossed         \* two requests overlapped that the code does not keep apart

folderVars == <<folders, request, crossed>>

FolderRows == [parent : FolderIds \cup {Unfiled}, default : BOOLEAN]
NoFolder == [default |-> FALSE]
Exists(f) == folders[f] # NoFolder
Existing == {f \in FolderIds : Exists(f)}
Default == [parent |-> Unfiled, default |-> TRUE]
Under(parent) == [parent |-> parent, default |-> FALSE]
Defaults == {f \in FolderIds : folders[f].default}

FolderOps == {"create", "move", "rename", "drop", "list", "save", "assign"}
RequestSteps == {"idle", "get", "default", "putDefault", "survey", "put",
                 "empty", "delete", "find", "target", "file", "done"}

\* on: the folder the request is about; to: where it goes; home: the default
\* folder it resolved; todo: folders still to empty; left: folders still to delete;
\* moving: the saves listed in a folder; at: the period a save is stamped with.
NoRequest == [op |-> "list", pc |-> "idle", on |-> Unfiled, to |-> Unfiled,
              home |-> Unfiled, row |-> NoFolder, todo |-> {}, left |-> {},
              moving |-> {}, at |-> 1]

FoldersTypeOK ==
    /\ folders \in [FolderIds -> FolderRows \cup {NoFolder}]
    /\ request \in [Requests ->
          [op : FolderOps, pc : RequestSteps, on : FolderIds \cup Items \cup {Unfiled},
           to : FolderIds \cup {Unfiled}, home : FolderIds \cup {Unfiled},
           row : FolderRows \cup {NoFolder}, todo : SUBSET FolderIds,
           left : SUBSET FolderIds, moving : SUBSET Items, at : 1..LastPeriod]]
    /\ crossed \in BOOLEAN

-----------------------------------------------------------------------------
(* The tree, as the code computes it from the rows it read                 *)

\* The walk upwards from f stops at a root, at a row that is missing and where it has
\* been before: it is through the smallest set of rows with f and its rows' parents.
Walk(f, S) ==
    /\ f \in Existing => f \in S
    /\ \A g \in S : folders[g].parent \in Existing => folders[g].parent \in S
Above(f) == {g \in Existing : \A S \in SUBSET Existing : Walk(f, S) => g \in S}

Depth(f) == Cardinality(Above(f))
Descendants(f) == {g \in Existing \ {f} : \E h \in Above(g) : folders[h].parent = f}

\* f fits under a folder with every descendant of its own, the deepest among them.
Fits(f, to) ==
    \A g \in Descendants(f) \cup {f} : Depth(to) + 1 + Depth(g) <= MaxDepth + Depth(f)

\* _get_descendant_ids has no end on a cycle.
Endless(f) == Exists(f) /\ f \in Above(folders[f].parent)

-----------------------------------------------------------------------------
(* A request arrives                                                       *)

Pc(r) == request[r].pc
Goes(r, pc) == request' = [request EXCEPT ![r].pc = pc]
Ends(r) == request' = [request EXCEPT ![r] = [NoRequest EXCEPT !.pc = "done"]]
Working(r) == Pc(r) \notin {"idle", "done"}

\* A deletion is not kept apart from a request that files something under a folder
\* or puts one back, nor is a change of the tree from another change of it.
Clash(a, b) ==
    \/ a = "drop" /\ b \in {"create", "move", "rename", "save", "assign"}
    \/ a = "move" /\ b \in {"create", "move", "rename"}

FirstStep(op) ==
    CASE op \in {"move", "rename", "drop"} -> "get"
      [] op = "save" -> "target"
      [] op = "assign" -> "find"
      [] OTHER -> "default"

ArriveRequest(r, op, on, to) ==
    /\ Pc(r) = "idle"
    /\ request' = [request EXCEPT ![r] =
          [NoRequest EXCEPT !.op = op, !.pc = FirstStep(op), !.on = on, !.to = to]]
    /\ crossed' = (crossed \/ \E q \in Requests : Working(q) /\
                      (Clash(op, request[q].op) \/ Clash(request[q].op, op)))
    /\ UNCHANGED <<folders, saveVars>>

\* A save has an id of its own.
Fresh(i) == saves[i] = NoSave /\ \A q \in Requests : request[q].on # i

Arrives(r) ==
    \/ \E to \in FolderIds \cup {Unfiled} :
          /\ to # Unfiled => Exists(to)
          /\ \/ ArriveRequest(r, "create", Unfiled, to)
             \/ \E f \in FolderIds : Exists(f) /\ ArriveRequest(r, "move", f, to)
             \/ \E i \in Items : Fresh(i) /\ ArriveRequest(r, "save", i, to)
             \/ \E i \in Items : Held(i) /\ ArriveRequest(r, "assign", i, to)
    \/ \E f \in FolderIds, op \in {"rename", "drop"} :
          Exists(f) /\ ArriveRequest(r, op, f, Unfiled)
    \/ ArriveRequest(r, "list", Unfiled, Unfiled)

-----------------------------------------------------------------------------
(* Reading                                                                 *)

\* get_folder_by_id: the default folder is neither modified nor deleted.
GetFolder(r) ==
    LET f == request[r].on IN
    /\ Pc(r) = "get"
    /\ IF ~Exists(f) \/ folders[f].default THEN Ends(r)
       ELSE request' = [request EXCEPT
               ![r] = [@ EXCEPT !.row = folders[f],
                                !.pc = IF request[r].op = "drop" THEN "default" ELSE "survey"]]
    /\ UNCHANGED <<folders, crossed, saveVars>>

AfterDefault(r, home) ==
    IF request[r].op = "list" THEN Ends(r)
    ELSE request' = [request EXCEPT
            ![r] = [@ EXCEPT !.home = home, !.at = clock,
                             !.pc = IF request[r].op \in {"create", "drop"} THEN "survey" ELSE "file"]]

\* ensure_default_folder queries, and creates the folder if there is none.
EnsureDefault(r) ==
    /\ Pc(r) = "default"
    /\ \/ \E f \in Defaults : AfterDefault(r, f)
       \/ Defaults = {} /\ Goes(r, "putDefault")
    /\ UNCHANGED <<folders, crossed, saveVars>>

PutDefault(r) ==
    /\ Pc(r) = "putDefault"
    /\ folders' = [folders EXCEPT ![<<r, "default">>] = Default]
    /\ AfterDefault(r, <<r, "default">>)
    /\ crossed' = (crossed \/ Defaults # {})
    /\ UNCHANGED saveVars

\* create_folder: the parent is there and not too deep.
MayGrow(parent) == Depth(parent) < MaxDepth

MayMove(f, to) ==
    to # Unfiled =>
        /\ Exists(to)
        /\ to \notin Descendants(f) \cup {f}
        /\ Fits(f, to)

SurveyFolders(r) ==
    LET q == request[r] IN
    /\ Pc(r) = "survey"
    /\ \/ /\ q.op = "create"
          /\ IF (q.to # Unfiled => Exists(q.to)) /\ MayGrow(q.to)
             THEN request' = [request EXCEPT
                                 ![r] = [@ EXCEPT !.pc = "put", !.row = Under(q.to),
                                                  !.on = <<r, "own">>]]
             ELSE Ends(r)
       \/ /\ q.op = "rename"
          /\ Goes(r, "put")
       \/ /\ q.op = "move"
          /\ (q.to # Unfiled /\ Exists(q.to)) => ~Endless(q.on)
          /\ IF MayMove(q.on, q.to)
             THEN request' = [request EXCEPT
                                 ![r] = [@ EXCEPT !.pc = "put", !.row.parent = q.to]]
             ELSE Ends(r)
       \/ /\ q.op = "drop" /\ ~Endless(q.on)
          /\ LET doomed == {q.on} \cup Descendants(q.on)
             IN request' = [request EXCEPT
                               ![r] = [@ EXCEPT !.pc = "empty", !.todo = doomed,
                                                !.left = doomed]]
    /\ UNCHANGED <<folders, crossed, saveVars>>

-----------------------------------------------------------------------------
(* Writing                                                                 *)

\* A new folder, or the row as it was read with its new name or parent.
PutFolder(r) ==
    /\ Pc(r) = "put"
    /\ folders' = [folders EXCEPT ![request[r].on] = request[r].row]
    /\ Ends(r)
    /\ UNCHANGED <<crossed, saveVars>>

\* No folder and no descendant is left to empty.
Emptied(r) == request[r].todo = {}

\* delete_folder lists the saves of one folder after the other ...
ListFolder(r) ==
    /\ Pc(r) = "empty" /\ request[r].moving = {}
    /\ IF Emptied(r) THEN Goes(r, "delete")
       ELSE \E f \in request[r].todo :
               request' = [request EXCEPT
                   ![r] = [request[r] EXCEPT
                              !.todo = @ \ {f},
                              !.moving = {i \in Items : Visible(i) /\ saves[i].folder = f}]]
    /\ UNCHANGED <<folders, crossed, saveVars>>

\* ... files each under the default folder ...
MoveSave(r) ==
    /\ Pc(r) = "empty"
    /\ \E i \in request[r].moving :
          /\ Refile(i, request[r].home)
          /\ request' = [request EXCEPT ![r].moving = @ \ {i}]
    /\ UNCHANGED <<folders, crossed, clock>>

\* Mutant of NextToDelete: the folder itself first.
NextFromTop(r, f) == Exists(f) => folders[f].parent \notin request[r].left

\* The order of the deletion: no folder before its descendants.
NextToDelete(r, f) == \A g \in request[r].left : Exists(g) => folders[g].parent # f

\* ... and then deletes the folders.
DeleteFolder(r) ==
    /\ Pc(r) = "delete"
    /\ \E f \in request[r].left :
          /\ NextToDelete(r, f)
          /\ folders' = [folders EXCEPT ![f] = NoFolder]
          /\ IF request[r].left = {f} THEN Ends(r)
             ELSE request' = [request EXCEPT ![r].left = @ \ {f}]
    /\ UNCHANGED <<crossed, saveVars>>

\* assign_folder_to_media looks the save up first.
FindSave(r) ==
    /\ Pc(r) = "find"
    /\ IF Visible(request[r].on) THEN Goes(r, "target") ELSE Ends(r)
    /\ UNCHANGED <<folders, crossed, saveVars>>

\* The folder that was asked for is looked up; nothing asked for is the default.
FindTarget(r) ==
    LET to == request[r].to IN
    /\ Pc(r) = "target"
    /\ \/ to = Unfiled /\ Goes(r, "default")
       \/ to # Unfiled /\ ~Exists(to) /\ Ends(r)
       \/ to # Unfiled /\ Exists(to) /\ AfterDefault(r, to)
    /\ UNCHANGED <<folders, crossed, saveVars>>

\* A save is not refused because its default folder cannot be had.
SaveUnfiled(r) ==
    /\ request[r].op = "save" /\ Pc(r) \in {"default", "putDefault"}
    /\ AfterDefault(r, Unfiled)
    /\ UNCHANGED <<folders, crossed, saveVars>>

FileSave(r) ==
    LET i == request[r].on IN
    /\ Pc(r) = "file"
    /\ IF request[r].op = "save" THEN Stored(i, request[r].home, request[r].at)
       ELSE Refile(i, request[r].home)
    /\ Ends(r)
    /\ UNCHANGED <<folders, crossed, clock>>

RequestRaises(r) ==
    /\ Working(r)
    /\ Ends(r)
    /\ UNCHANGED <<folders, crossed, saveVars>>

FolderStep(r) ==
    \/ Arrives(r)
    \/ GetFolder(r) \/ EnsureDefault(r) \/ PutDefault(r) \/ SurveyFolders(r)
    \/ PutFolder(r) \/ ListFolder(r) \/ MoveSave(r) \/ DeleteFolder(r)
    \/ FindSave(r) \/ FindTarget(r) \/ SaveUnfiled(r) \/ FileSave(r)
    \/ RequestRaises(r)
=============================================================================
