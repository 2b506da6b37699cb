------------------------- MODULE PersonalLibrary_proofs -------------------------
(***************************************************************************)
(* What holds around the library of an account for every set of saves,     *)
(* folders, messages, devices and follows: a deleted save stays out of the *)
(* index, a digest is announced once and as it was captured, a device that *)
(* signed out is left in peace and an item of a feed is processed once.    *)
(* The four share the rows of user_media and a clock, and each has its own *)
(* part of the inductive invariant.                                        *)
(***************************************************************************)
EXTENDS PersonalLibrary, FiniteSetTheorems, TLAPS

-----------------------------------------------------------------------------
(* The inductive invariant                                                 *)

\* A deletion is about a folder, and the save a request is about to store is
\* not there yet and nobody else's: FileSave puts its row whatever is there.
FilingFits ==
    /\ \A r \in Requests : request[r].op = "drop" \/ request[r].pc = "get" =>
          request[r].on \in FolderIds
    /\ \A r \in Requests : request[r].op = "save" =>
          /\ request[r].on \in Items /\ saves[request[r].on] = NoSave
          /\ \A q \in Requests \ {r} :
                request[q].op = "save" => request[q].on # request[r].on

Filing == SavesTypeOK /\ FoldersTypeOK /\ FilingFits

\* Whoever takes a save out of the index has seen it deleted, and nobody who saw it
\* visible is left when it counts as cleared.
IndexIsRight ==
    /\ SearchTypeOK
    /\ \A d \in Removals :
          /\ removal[d].pc = "mark" => \A i, j \in removal[d].on : i = j
          /\ removal[d].pc = "clear" =>
                \A i \in removal[d].on : saves[i].state \in {"deleted", "gone"}
    /\ \A i \in cascade : saves[i].state = "gone"
    /\ \A i \in cleared : /\ i \notin chunks /\ ~AboutToIndex(i)
                          /\ saves[i].state \in {"deleted", "gone"}

\* A capture misses no save of its period that was stored before the period closed.
Complete(p, items) ==
    \A i \in Items : Visible(i) /\ saves[i].at = p /\ ~saves[i].late => i \in items

ReaderOf(x, p, pc) == reader[x].pc = pc /\ reader[x].on = p

\* Nobody is about to announce another capture than the one that is there, and who
\* is about to send has claimed the period alone.
AnnouncedOnce(p) ==
    /\ \A x \in Readers : ReaderOf(x, p, "mark") \/ ReaderOf(x, p, "send") =>
          digests[p] # NoCapture /\ reader[x].items = digests[p].items
    /\ \A x \in Readers : ReaderOf(x, p, "send") =>
          /\ digests[p].published /\ notices[p] = <<>>
          /\ \A y \in Readers : ReaderOf(y, p, "send") => x = y
    /\ \/ notices[p] = <<>>
       \/ digests[p] # NoCapture /\ digests[p].published /\ notices[p] = <<digests[p].items>>

\* A digest is of a period that closed before it was collected, whoever captures it.
CapturesAreRight ==
    /\ \A x \in Readers :
          /\ reader[x].pc # "idle" => reader[x].on < clock
          /\ reader[x].pc = "save" => Complete(reader[x].on, reader[x].items)
    /\ \A p \in Periods : digests[p] # NoCapture => p < clock /\ Complete(p, digests[p].items)
    /\ \A p \in Periods \ retaken : AnnouncedOnce(p)

\* A device that is quiet is neither registered nor on the way of a message.
SignedOutAreLeft ==
    /\ registered \cap quiet = {}
    /\ \A p \in Periods : push[p].pc = "post" => push[p].to \cap quiet = {}

DigestsAreRight == DigestsTypeOK /\ CapturesAreRight /\ SignedOutAreLeft

\* The row of a request that has not subscribed yet is nowhere.
Unused(q) ==
    follow[q].pc \in {"idle", "query", "put"} =>
        /\ feeds[q] = NoFeed /\ indexed[q] = NoFeed /\ \A g \in Guids : routed[q][g] = 0
        /\ \A r \in Followers : q \notin follow[r].on
        /\ \A x \in Polls : q \notin poll[x].on /\ \A snap \in poll[x].work : snap.feed # q

SeenOf(f, g) == Followed(f) => g \in feeds[f].seen
Routing(x, f, g) == poll[x].pc = "route" /\ f \in poll[x].on /\ poll[x].items[g] > 0

\* What one poll still has to send, once unless a document repeated it, was sent by
\* nobody, is sought by no other poll and counts as seen, as does what was sent, as long
\* as the follow lasts.
SentOnce(f) ==
    /\ \A g \in Guids \ repeated :
          routed[f][g] = 0 \/ (routed[f][g] = 1 /\ SeenOf(f, g))
    /\ \A x \in Polls, g \in Guids \ repeated : Routing(x, f, g) =>
          /\ poll[x].items[g] = 1 /\ routed[f][g] = 0 /\ SeenOf(f, g)
          /\ \A y \in Polls : Routing(y, f, g) => x = y

FeedsAreRight ==
    /\ FeedsTypeOK
    /\ \A q \in Followers : Unused(q) /\ (follow[q].pc = "write" => follow[q].row # NoFeed)
    /\ \A f \in Followers \ stale : SentOnce(f)

-----------------------------------------------------------------------------
(* Filing: the rows of the saves and the folders                           *)

\* A step of any component on the rows: a save that is deleted or gone stays so, one
\* that is not there appears in the period in progress or late, and what is visible was
\* so before.  Time goes on.
SavesMove ==
    /\ clock' \in {clock, clock + 1}
    /\ \A i \in Items :
          /\ saves[i].state \in {"deleted", "gone"} =>
                saves'[i].state \in {"deleted", "gone"}
          /\ saves[i].state = "gone" => saves'[i].state = "gone"
          /\ saves'[i].state = "visible" /\ ~saves'[i].late =>
                \/ saves[i].state = "visible" /\ ~saves[i].late /\ saves'[i].at = saves[i].at
                \/ saves'[i].at = clock

LEMMA SavesCanRest == ASSUME UNCHANGED saveVars, SavesTypeOK PROVE SavesMove
  BY DEF saveVars, SavesMove, SavesTypeOK

\* A request that arrives is about something, a deletion about a folder and a save
\* about a row of its own.
LEMMA ArrivalsHaveASubject ==
    ASSUME NEW r \in Requests, Arrives(r)
    PROVE  \E to \in FolderIds \cup {Unfiled}, on \in FolderIds \cup Items \cup {Unfiled},
              op \in FolderOps :
                 /\ ArriveRequest(r, op, on, to)
                 /\ op \in {"move", "rename", "drop"} => on \in FolderIds
                 /\ op = "save" => on \in Items /\ Fresh(on)
<1>. DEFINE About(op, on) == /\ op \in {"move", "rename", "drop"} => on \in FolderIds
                             /\ op = "save" => on \in Items /\ Fresh(on)
           Goal == \E to \in FolderIds \cup {Unfiled}, on \in FolderIds \cup Items \cup {Unfiled},
                      op \in FolderOps : ArriveRequest(r, op, on, to) /\ About(op, on)
<1>. HIDE DEF FolderIds
<1>1. ASSUME NEW to \in FolderIds \cup {Unfiled}, NEW on \in FolderIds \cup Items \cup {Unfiled},
             NEW op \in FolderOps, ArriveRequest(r, op, on, to), About(op, on)
      PROVE  Goal
  BY <1>1
<1>. HIDE DEF Goal
<1>2. ASSUME NEW to \in FolderIds \cup {Unfiled}, ArriveRequest(r, "create", Unfiled, to)
      PROVE  Goal
  BY <1>1, <1>2 DEF FolderOps
<1>3. ASSUME NEW to \in FolderIds \cup {Unfiled}, NEW f \in FolderIds,
             ArriveRequest(r, "move", f, to)
      PROVE  Goal
  BY <1>1, <1>3 DEF FolderOps
<1>4. ASSUME NEW to \in FolderIds \cup {Unfiled}, NEW i \in Items, Fresh(i),
             ArriveRequest(r, "save", i, to)
      PROVE  Goal
  BY <1>1, <1>4 DEF FolderOps
<1>5. ASSUME NEW to \in FolderIds \cup {Unfiled}, NEW i \in Items,
             ArriveRequest(r, "assign", i, to)
      PROVE  Goal
  BY <1>1, <1>5 DEF FolderOps
<1>6. ASSUME NEW f \in FolderIds, NEW op \in {"rename", "drop"},
             ArriveRequest(r, op, f, Unfiled)
      PROVE  Goal
  BY <1>1, <1>6 DEF FolderOps
<1>7. ASSUME ArriveRequest(r, "list", Unfiled, Unfiled)
      PROVE  Goal
  BY <1>1, <1>7 DEF FolderOps
<1>8. Goal
  BY <1>2, <1>3, <1>4, <1>5, <1>6, <1>7 DEF Arrives
<1>9. QED
  BY <1>8 DEF Goal

RequestRows ==
    [op : FolderOps, pc : RequestSteps, on : FolderIds \cup Items \cup {Unfiled},
     to : FolderIds \cup {Unfiled}, home : FolderIds \cup {Unfiled},
     row : FolderRows \cup {NoFolder}, todo : SUBSET FolderIds,
     left : SUBSET FolderIds, moving : SUBSET Items, at : 1..LastPeriod]
RequestTypes == [Requests -> RequestRows]

LEMMA RowsAreUpdated ==
    ASSUME NEW k \in RequestRows, NEW pc \in RequestSteps,
           NEW row \in FolderRows \cup {NoFolder}, NEW home \in FolderIds \cup {Unfiled},
           NEW at \in 1..LastPeriod, NEW on \in FolderIds
    PROVE  /\ [k EXCEPT !.row = row, !.pc = pc] \in RequestRows
           /\ [k EXCEPT !.pc = pc, !.row = row] \in RequestRows
           /\ [k EXCEPT !.pc = pc, !.row = row, !.on = on] \in RequestRows
           /\ [k EXCEPT !.home = home, !.at = at, !.pc = pc] \in RequestRows
  BY DEF RequestRows

LEMMA DeletionsKeepTheirRow ==
    ASSUME NEW k \in RequestRows, NEW pc \in RequestSteps, NEW todo \in SUBSET FolderIds,
           NEW left \in SUBSET FolderIds, NEW moving \in SUBSET Items
    PROVE  /\ [k EXCEPT !.pc = pc, !.todo = todo, !.left = left] \in RequestRows
           /\ [k EXCEPT !.todo = todo, !.moving = moving] \in RequestRows
           /\ [k EXCEPT !.moving = moving] \in RequestRows
  BY DEF RequestRows

LEMMA RowsAreReplaced ==
    ASSUME NEW r \in Requests, request \in RequestTypes, NEW row \in RequestRows,
           request' = [request EXCEPT ![r] = row]
    PROVE  request' \in RequestTypes
  BY DEF RequestTypes

\* The types of the folders and the requests stay.
LEMMA FolderTypesStay ==
    ASSUME NEW r \in Requests, SavesTypeOK, FoldersTypeOK, FilingFits, FolderStep(r)
    PROVE  FoldersTypeOK'
<1>. USE DEF FoldersTypeOK, NoRequest, FolderOps, RequestSteps, FolderRows, NoFolder, Default,
         Under, Pc, Goes, Ends, saveVars
<1>a. LastPeriod \in Nat \ {0} /\ clock \in 1..LastPeriod /\ 1 \in 1..LastPeriod
  BY SavesAssumption DEF SavesTypeOK
<1>b. <<r, "own">> \in FolderIds /\ <<r, "default">> \in FolderIds
  BY DEF FolderIds
<1>c. request \in RequestTypes
  BY DEF RequestTypes, RequestRows
<1>. HIDE DEF FolderIds
<1>1. ASSUME NEW op \in FolderOps, NEW on \in FolderIds \cup Items \cup {Unfiled},
             NEW to \in FolderIds \cup {Unfiled}, ArriveRequest(r, op, on, to)
      PROVE  FoldersTypeOK'
  BY <1>1, <1>a DEF ArriveRequest, FirstStep
<1>2. CASE Arrives(r)
  <2>1. ASSUME NEW to \in FolderIds \cup {Unfiled}, NEW on \in FolderIds \cup Items \cup {Unfiled},
               NEW op \in FolderOps, ArriveRequest(r, op, on, to)
        PROVE  FoldersTypeOK'
    BY <2>1, <1>1
  <2>2. PICK to \in FolderIds \cup {Unfiled}, on \in FolderIds \cup Items \cup {Unfiled},
             op \in FolderOps : ArriveRequest(r, op, on, to)
    BY <1>2, ArrivalsHaveASubject
  <2>3. QED
    BY <2>1, <2>2
<1>d. ASSUME Ends(r) PROVE request' \in RequestTypes
  <2>1. [NoRequest EXCEPT !.pc = "done"] \in RequestRows
    BY <1>a DEF RequestRows
  <2>. QED  BY <1>c, <1>d, <2>1, RowsAreReplaced
<1>e. ASSUME request' \in RequestTypes, UNCHANGED <<folders, crossed>>
      PROVE  FoldersTypeOK'
  BY <1>e DEF RequestTypes, RequestRows
<1>3. CASE GetFolder(r)
  <2>. DEFINE read == folders[request[r].on]
              pc == IF request[r].op = "drop" THEN "default" ELSE "survey"
              row == [request[r] EXCEPT !.row = read, !.pc = pc]
  <2>1. CASE Ends(r)
    BY <1>3, <1>d, <1>e, <2>1 DEF GetFolder
  <2>2. CASE request' = [request EXCEPT ![r] = row]
    <3>1. read \in FolderRows \cup {NoFolder}
      BY <1>3 DEF GetFolder, FilingFits
    <3>2. request[r] \in RequestRows /\ pc \in RequestSteps
      BY <1>c DEF RequestTypes
    <3>3. row \in RequestRows
      BY <1>a, <1>b, <3>1, <3>2, RowsAreUpdated
    <3>. HIDE DEF row
    <3>4. request' \in RequestTypes
      BY <1>c, <2>2, <3>3, RowsAreReplaced
    <3>. QED  BY <1>3, <1>e, <3>4 DEF GetFolder
  <2>. QED  BY <1>3, <2>1, <2>2 DEF GetFolder
<1>4. ASSUME NEW home \in FolderIds \cup {Unfiled}, AfterDefault(r, home)
      PROVE  request' \in RequestTypes
  <2>. DEFINE pc == IF request[r].op \in {"create", "drop"} THEN "survey" ELSE "file"
              row == [request[r] EXCEPT !.home = home, !.at = clock, !.pc = pc]
  <2>1. request[r] \in RequestRows /\ pc \in RequestSteps
    BY <1>c DEF RequestTypes
  <2>2. row \in RequestRows
    BY <1>a, <1>b, <2>1, RowsAreUpdated
  <2>3. Ends(r) \/ request' = [request EXCEPT ![r] = row]
    BY <1>4 DEF AfterDefault
  <2>. HIDE DEF row, Ends
  <2>. QED  BY <1>c, <1>d, <2>2, <2>3, RowsAreReplaced
<1>5. CASE EnsureDefault(r)
  BY <1>5, <1>4 DEF EnsureDefault, Defaults, RequestTypes, RequestRows
<1>6. CASE PutDefault(r)
  BY <1>6, <1>4, <1>b DEF PutDefault, RequestTypes, RequestRows
<1>7. CASE SurveyFolders(r)
  <2>1. CASE request[r].op = "create"
    <3>. DEFINE row == [request[r] EXCEPT !.pc = "put", !.row = Under(request[r].to),
                                          !.on = <<r, "own">>]
    <3>1. request[r] \in RequestRows
      BY <1>c DEF RequestTypes
    <3>2. Under(request[r].to) \in FolderRows /\ Unfiled \in FolderIds \cup {Unfiled}
      BY <3>1 DEF RequestRows
    <3>3. row \in RequestRows
      BY <1>a, <1>b, <3>1, <3>2, RowsAreUpdated
    <3>4. /\ Ends(r) \/ request' = [request EXCEPT ![r] = row]
          /\ UNCHANGED <<folders, crossed>>
      BY <1>7, <2>1 DEF SurveyFolders
    <3>. HIDE DEF row, Ends
    <3>. QED  BY <1>c, <1>d, <1>e, <3>3, <3>4, RowsAreReplaced
  <2>2. CASE request[r].op = "rename"
    BY <1>7, <2>2, <1>a DEF SurveyFolders
  <2>3. CASE request[r].op = "move"
    <3>1. request[r].to \in FolderIds \cup {Unfiled}
      OBVIOUS
    <3>2. DEFINE moved == [request[r].row EXCEPT !.parent = request[r].to]
    <3>3. moved \in FolderRows \cup {NoFolder}
      <4>1. CASE request[r].row \in FolderRows
        BY <3>1, <4>1
      <4>2. CASE request[r].row = NoFolder
        <5>1. moved = [default |-> FALSE]
          BY <4>2
        <5>2. QED
          BY <5>1
      <4>3. QED
        BY <4>1, <4>2
    <3>. DEFINE row == [request[r] EXCEPT !.pc = "put", !.row = moved]
    <3>4. /\ Ends(r) \/ request' = [request EXCEPT ![r] = row]
          /\ UNCHANGED <<folders, crossed>>
      BY <1>7, <2>3 DEF SurveyFolders
    <3>5. request[r] \in RequestRows /\ Unfiled \in FolderIds \cup {Unfiled}
      BY <1>c DEF RequestTypes
    <3>. HIDE DEF moved
    <3>6. row \in RequestRows
      BY <1>a, <1>b, <3>3, <3>5, RowsAreUpdated
    <3>. HIDE DEF row, Ends
    <3>. QED  BY <1>c, <1>d, <1>e, <3>4, <3>6, RowsAreReplaced
  <2>4. CASE request[r].op = "drop"
    <3>1. DEFINE doomed == {request[r].on} \cup Descendants(request[r].on)
    <3>2. doomed \subseteq FolderIds
      BY <2>4 DEF FilingFits, Descendants, Existing
    <3>3. /\ request' = [request EXCEPT
                            ![r] = [@ EXCEPT !.pc = "empty", !.todo = doomed,
                                             !.left = doomed]]
          /\ UNCHANGED <<folders, crossed>>
      BY <1>7, <2>4 DEF SurveyFolders
    <3>. HIDE DEF doomed
    <3>. DEFINE row == [request[r] EXCEPT !.pc = "empty", !.todo = doomed, !.left = doomed]
    <3>4. row \in RequestRows
      BY <1>c, <3>2, DeletionsKeepTheirRow DEF RequestTypes
    <3>7. request' = [request EXCEPT ![r] = row]
      BY <3>3
    <3>. HIDE DEF row
    <3>5. request' \in RequestTypes
      BY <1>c, <3>4, <3>7, RowsAreReplaced
    <3>6. QED
      BY <1>e, <3>3, <3>5
  <2>5. QED
    BY <1>7, <2>1, <2>2, <2>3, <2>4 DEF SurveyFolders
<1>8. CASE PutFolder(r)
  BY <1>8, <1>a DEF PutFolder
<1>9. CASE ListFolder(r)
  <2>1. CASE Emptied(r)
    BY <1>9, <2>1, SMTT(60) DEF ListFolder
  <2>2. CASE ~Emptied(r)
    <3>1. PICK f \in request[r].todo :
             request' = [request EXCEPT
                   ![r] = [request[r] EXCEPT
                              !.todo = @ \ {f},
                              !.moving = {i \in Items : Visible(i) /\ saves[i].folder = f}]]
      BY <1>9, <2>2 DEF ListFolder
    <3>. DEFINE filed == {i \in Items : Visible(i) /\ saves[i].folder = f}
                todo == request[r].todo \ {f}
                row == [request[r] EXCEPT !.todo = todo, !.moving = filed]
    <3>2. filed \in SUBSET Items /\ todo \in SUBSET FolderIds
      OBVIOUS
    <3>3. UNCHANGED folders /\ UNCHANGED crossed
      BY <1>9 DEF ListFolder
    <3>5. request' = [request EXCEPT ![r] = row]
      BY <3>1
    <3>. HIDE DEF filed, todo
    <3>8. row \in RequestRows
      BY <1>c, <3>2, DeletionsKeepTheirRow DEF RequestTypes
    <3>. HIDE DEF row
    <3>6. request' \in RequestTypes
      BY <1>c, <3>5, <3>8, RowsAreReplaced
    <3>7. QED
      BY <1>e, <3>3, <3>6
  <2>3. QED
    BY <2>1, <2>2
<1>10. CASE MoveSave(r)
  <2>1. PICK i \in request[r].moving : request' = [request EXCEPT ![r].moving = @ \ {i}]
    BY <1>10 DEF MoveSave
  <2>2. UNCHANGED folders /\ UNCHANGED crossed
    BY <1>10 DEF MoveSave
  <2>. DEFINE moving == request[r].moving \ {i}
              row == [request[r] EXCEPT !.moving = moving]
  <2>3. moving \in SUBSET Items
    OBVIOUS
  <2>. HIDE DEF moving
  <2>6. row \in RequestRows
    BY <1>c, <2>3, DeletionsKeepTheirRow DEF RequestTypes
  <2>7. request' = [request EXCEPT ![r] = row]
    BY <2>1 DEF moving
  <2>. HIDE DEF row
  <2>4. request' \in RequestTypes
    BY <1>c, <2>6, <2>7 DEF RequestTypes
  <2>5. QED
    BY <2>2, <2>4 DEF RequestTypes, RequestRows
<1>11. CASE DeleteFolder(r)
  BY <1>11, <1>a, SMTT(60) DEF DeleteFolder
<1>12. CASE FindSave(r)
  BY <1>12, <1>a DEF FindSave
<1>13. CASE FindTarget(r)
  BY <1>13, <1>4, <1>a, SMTT(60) DEF FindTarget, RequestTypes, RequestRows
<1>14. CASE SaveUnfiled(r)
  BY <1>14, <1>4 DEF SaveUnfiled, RequestTypes, RequestRows
<1>15. CASE FileSave(r)
  BY <1>15, <1>a DEF FileSave
<1>16. CASE RequestRaises(r)
  BY <1>16, <1>a DEF RequestRaises
<1>17. QED
  BY <1>2, <1>3, <1>5, <1>6, <1>7, <1>8, <1>9, <1>10, <1>11, <1>12, <1>13, <1>14, <1>15,
     <1>16 DEF FolderStep

\* What a step does to the other requests, and to the save and the folder of its own.
LEMMA RequestsKeepTheirSubject ==
    ASSUME NEW r \in Requests, SavesTypeOK, FoldersTypeOK, FilingFits, FolderStep(r)
    PROVE  /\ \A q \in Requests \ {r} : request'[q] = request[q]
           /\ \/ request'[r].op = request[r].op
                 /\ (request'[r].on = request[r].on \/ request[r].op \notin {"drop", "save"})
              \/ request'[r].op \notin {"drop", "save"}
              \/ /\ request'[r].op = "drop" /\ request'[r].on \in FolderIds
              \/ /\ request'[r].op = "save" /\ request'[r].on \in Items
                 /\ Fresh(request'[r].on) /\ UNCHANGED saves
           /\ request'[r].pc = "get" => request'[r].on \in FolderIds
<1>. USE DEF FoldersTypeOK, NoRequest, Pc, Goes, Ends, saveVars
<1>. HIDE DEF FolderIds
<1>1. ASSUME NEW op, NEW on, NEW to, ArriveRequest(r, op, on, to)
      PROVE  /\ \A q \in Requests \ {r} : request'[q] = request[q]
             /\ request'[r].op = op /\ request'[r].on = on /\ UNCHANGED saves
             /\ request'[r].pc = "get" => op \in {"move", "rename", "drop"}
  BY <1>1 DEF ArriveRequest, FirstStep
<1>2. CASE Arrives(r)
  <2>1. PICK to \in FolderIds \cup {Unfiled}, on \in FolderIds \cup Items \cup {Unfiled},
             op \in FolderOps :
                 /\ ArriveRequest(r, op, on, to)
                 /\ op \in {"move", "rename", "drop"} => on \in FolderIds
                 /\ op = "save" => on \in Items /\ Fresh(on)
    BY <1>2, ArrivalsHaveASubject
  <2>2. QED
    BY <2>1, <1>1
<1>a. request \in RequestTypes
  BY DEF RequestTypes, RequestRows
<1>b. ASSUME NEW row, request' = [request EXCEPT ![r] = row]
      PROVE  (\A q \in Requests \ {r} : request'[q] = request[q]) /\ request'[r] = row
  BY <1>a, <1>b DEF RequestTypes
<1>c. request[r] \in RequestRows
  BY <1>a DEF RequestTypes
<1>d. ASSUME Ends(r)
      PROVE  (\A q \in Requests \ {r} : request'[q] = request[q]) /\ request'[r].op = "list"
             /\ request'[r].pc = "done"
  BY <1>b, <1>d
<1>3. CASE GetFolder(r)
  <2>. DEFINE pc == IF request[r].op = "drop" THEN "default" ELSE "survey"
              row == [request[r] EXCEPT !.row = folders[request[r].on], !.pc = pc]
  <2>1. Ends(r) \/ request' = [request EXCEPT ![r] = row]
    BY <1>3 DEF GetFolder
  <2>2. row.op = request[r].op /\ row.on = request[r].on /\ row.pc # "get"
    BY <1>c DEF RequestRows
  <2>. HIDE DEF row, Ends
  <2>. QED  BY <1>b, <1>d, <2>1, <2>2
<1>4. ASSUME NEW home, AfterDefault(r, home)
      PROVE  /\ \A q \in Requests \ {r} : request'[q] = request[q]
             /\ request'[r].pc # "get"
             /\ \/ request'[r].op = request[r].op /\ request'[r].on = request[r].on
                \/ request'[r].op \notin {"drop", "save"}
  <2>. DEFINE pc == IF request[r].op \in {"create", "drop"} THEN "survey" ELSE "file"
              row == [request[r] EXCEPT !.home = home, !.at = clock, !.pc = pc]
  <2>1. Ends(r) \/ request' = [request EXCEPT ![r] = row]
    BY <1>4 DEF AfterDefault
  <2>2. row.op = request[r].op /\ row.on = request[r].on /\ row.pc # "get"
    BY <1>c DEF RequestRows
  <2>. HIDE DEF row, Ends
  <2>. QED  BY <1>b, <1>d, <2>1, <2>2
<1>5. CASE EnsureDefault(r)
  BY <1>5, <1>4 DEF EnsureDefault, Defaults
<1>6. CASE PutDefault(r)
  BY <1>6, <1>4 DEF PutDefault
<1>7. CASE SurveyFolders(r)
  <2>1. CASE request[r].op \in {"create", "rename", "move"}
    <3>1. \/ Ends(r) \/ Goes(r, "put")
          \/ \E row, on : request' = [request EXCEPT
                               ![r] = [@ EXCEPT !.pc = "put", !.row = row, !.on = on]]
             /\ request[r].op = "create"
          \/ \E row : request' = [request EXCEPT ![r] = [@ EXCEPT !.pc = "put", !.row = row]]
      BY <1>7, <2>1 DEF SurveyFolders
    <3>2. CASE Ends(r)
      BY <1>d, <2>1, <3>2
    <3>3. CASE Goes(r, "put")
      BY <2>1, <3>3
    <3>4. ASSUME NEW row, NEW on, request[r].op = "create",
                 request' = [request EXCEPT
                               ![r] = [@ EXCEPT !.pc = "put", !.row = row, !.on = on]]
          PROVE  /\ \A q \in Requests \ {r} : request'[q] = request[q]
                 /\ request'[r].op = "create" /\ request'[r].pc = "put"
      BY <1>b, <1>c, <3>4 DEF RequestRows
    <3>5. ASSUME NEW row,
                 request' = [request EXCEPT ![r] = [@ EXCEPT !.pc = "put", !.row = row]]
          PROVE  /\ \A q \in Requests \ {r} : request'[q] = request[q]
                 /\ request'[r].op = request[r].op /\ request'[r].pc = "put"
                 /\ request'[r].on = request[r].on
      BY <1>b, <1>c, <3>5 DEF RequestRows
    <3>. HIDE DEF Ends, Goes
    <3>. QED  BY <2>1, <3>1, <3>2, <3>3, <3>4, <3>5
  <2>2. CASE request[r].op = "drop"
    <3>. DEFINE doomed == {request[r].on} \cup Descendants(request[r].on)
                row == [request[r] EXCEPT !.pc = "empty", !.todo = doomed, !.left = doomed]
    <3>1. request' = [request EXCEPT ![r] = row]
      BY <1>7, <2>2 DEF SurveyFolders
    <3>2. row.op = request[r].op /\ row.on = request[r].on /\ row.pc = "empty"
      BY <1>c DEF RequestRows
    <3>. HIDE DEF row
    <3>. QED  BY <1>b, <3>1, <3>2
  <2>. QED  BY <1>7, <2>1, <2>2 DEF SurveyFolders
<1>8. CASE PutFolder(r)
  BY <1>8 DEF PutFolder
<1>9. CASE ListFolder(r)
  <2>1. \/ Goes(r, "delete")
        \/ \E todo, moving : request' = [request EXCEPT
                                            ![r] = [@ EXCEPT !.todo = todo, !.moving = moving]]
    BY <1>9 DEF ListFolder
  <2>2. request[r].pc = "empty"
    BY <1>9 DEF ListFolder
  <2>3. ASSUME NEW todo, NEW moving,
               request' = [request EXCEPT ![r] = [@ EXCEPT !.todo = todo, !.moving = moving]]
        PROVE  /\ \A q \in Requests \ {r} : request'[q] = request[q]
               /\ request'[r].op = request[r].op /\ request'[r].pc = "empty"
               /\ request'[r].on = request[r].on
    BY <1>b, <1>c, <2>2, <2>3 DEF RequestRows
  <2>4. CASE Goes(r, "delete")
    BY <2>4
  <2>. HIDE DEF Goes
  <2>. QED  BY <2>1, <2>3, <2>4
<1>10. CASE MoveSave(r)
  BY <1>10 DEF MoveSave
<1>11. CASE DeleteFolder(r)
  BY <1>11 DEF DeleteFolder
<1>12. CASE FindSave(r)
  BY <1>12 DEF FindSave
<1>13. CASE FindTarget(r)
  BY <1>13, <1>4 DEF FindTarget
<1>14. CASE SaveUnfiled(r)
  BY <1>14, <1>4 DEF SaveUnfiled
<1>15. CASE FileSave(r)
  BY <1>15 DEF FileSave
<1>16. CASE RequestRaises(r)
  BY <1>16 DEF RequestRaises
<1>17. QED
  BY <1>2, <1>3, <1>5, <1>6, <1>7, <1>8, <1>9, <1>10, <1>11, <1>12, <1>13, <1>14, <1>15,
     <1>16 DEF FolderStep

\* The rows that a request writes: those it moves, and the one it files.
LEMMA RequestsFileSaves ==
    ASSUME NEW r \in Requests, SavesTypeOK, FoldersTypeOK, FilingFits, FolderStep(r)
    PROVE  /\ SavesTypeOK' /\ SavesMove
           /\ \A i \in Items : saves[i] = NoSave =>
                 \/ saves'[i] = NoSave
                 \/ request[r].op = "save" /\ request[r].on = i /\ request'[r].op = "list"
<1>. USE DEF FoldersTypeOK, SavesTypeOK, SaveRows, NoSave, GoneSave
<1>. HIDE DEF FolderIds
<1>a. LastPeriod \in Nat \ {0}
  BY SavesAssumption
<1>1. CASE UNCHANGED saveVars
  BY <1>1, SavesCanRest DEF saveVars
<1>2. ASSUME NEW i, NEW home \in FolderIds \cup {Unfiled}, Refile(i, home), UNCHANGED clock
      PROVE  /\ SavesTypeOK' /\ SavesMove
             /\ \A j \in Items : saves[j] = NoSave => saves'[j] = NoSave
  <2>1. CASE ~(i \in Items /\ Held(i))
    BY <1>2, <2>1, SavesCanRest DEF Refile, saveVars
  <2>2. CASE i \in Items /\ Held(i)
    <3>1. DEFINE row == [saves[i] EXCEPT !.folder = home]
    <3>2. saves[i] \in SaveRows
      BY <2>2 DEF Held
    <3>3. row \in SaveRows /\ row.state = saves[i].state /\ row.at = saves[i].at
          /\ row.late = saves[i].late
      BY <3>2
    <3>4. saves' = [saves EXCEPT ![i] = row]
      BY <1>2, <2>2 DEF Refile
    <3>5. saves[i] # NoSave
      BY <2>2 DEF Held
    <3>. HIDE DEF row, SaveRows, NoSave, GoneSave
    <3>6. QED
      BY <1>2, <2>2, <3>3, <3>4, <3>5 DEF SavesMove
  <2>3. QED
    BY <2>1, <2>2
<1>3. CASE MoveSave(r)
  BY <1>3, <1>2 DEF MoveSave
<1>4. CASE FileSave(r)
  <2>1. CASE request[r].op = "save"
    <3>1. saves[request[r].on] = NoSave /\ request[r].on \in Items
      BY <2>1 DEF FilingFits
    <3>2. request'[r].op = "list"
      BY <1>4 DEF FileSave, Ends, NoRequest
    <3>3. request[r].home \in FolderIds \cup {Unfiled} /\ request[r].at \in 1..LastPeriod
      OBVIOUS
    <3>. DEFINE row == [state |-> "visible", folder |-> request[r].home, at |-> request[r].at,
                        late |-> request[r].at # clock]
    <3>4. saves' = [saves EXCEPT ![request[r].on] = row] /\ clock' = clock
      BY <1>4, <2>1 DEF FileSave, Stored
    <3>5. row \in SaveRows /\ row.state = "visible" /\ (~row.late => row.at = clock)
      BY <3>3
    <3>6. saves[request[r].on].state = "absent"
      BY <3>1
    <3>. HIDE DEF row, SaveRows, NoSave, GoneSave
    <3>7. SavesTypeOK' /\ SavesMove
      BY <3>1, <3>4, <3>5, <3>6 DEF SavesMove
    <3>8. QED
      BY <2>1, <3>2, <3>4, <3>7
  <2>2. CASE request[r].op # "save"
    BY <1>4, <2>2, <1>2 DEF FileSave
  <2>3. QED
    BY <2>1, <2>2
<1>5. QED
  BY <1>1, <1>3, <1>4 DEF FolderStep, Arrives, ArriveRequest, GetFolder, EnsureDefault,
     PutDefault, SurveyFolders, PutFolder, ListFolder, DeleteFolder, FindSave, FindTarget,
     SaveUnfiled, RequestRaises
LEMMA FilingSurvivesRequests ==
    ASSUME NEW r \in Requests, Filing, FolderStep(r)
    PROVE  Filing' /\ SavesMove
<1>. USE DEF Filing
<1>. HIDE DEF FolderIds
<1>1. SavesTypeOK' /\ SavesMove /\ FoldersTypeOK'
  BY RequestsFileSaves, FolderTypesStay
<1>2. /\ \A q \in Requests \ {r} : request'[q] = request[q]
      /\ \/ request'[r].op = request[r].op
            /\ (request'[r].on = request[r].on \/ request[r].op \notin {"drop", "save"})
         \/ request'[r].op \notin {"drop", "save"}
         \/ /\ request'[r].op = "drop" /\ request'[r].on \in FolderIds
         \/ /\ request'[r].op = "save" /\ request'[r].on \in Items
            /\ Fresh(request'[r].on) /\ UNCHANGED saves
      /\ request'[r].pc = "get" => request'[r].on \in FolderIds
  BY RequestsKeepTheirSubject
<1>3. \A i \in Items : saves[i] = NoSave =>
         \/ saves'[i] = NoSave
         \/ request[r].op = "save" /\ request[r].on = i /\ request'[r].op = "list"
  BY RequestsFileSaves
<1>4. FolderIds' = FolderIds /\ NoSave' = NoSave
  BY DEF FolderIds, NoSave
<1>. HIDE DEF NoSave
<1>5. \A q \in Requests : request'[q].op = "drop" \/ request'[q].pc = "get" =>
         request'[q].on \in FolderIds
  BY <1>2 DEF FilingFits
<1>6. ASSUME NEW q \in Requests, request'[q].op = "save"
      PROVE  request'[q].on \in Items /\ saves'[request'[q].on] = NoSave
  BY <1>2, <1>3, <1>6 DEF FilingFits, Fresh
<1>7. ASSUME NEW p \in Requests, NEW q \in Requests, p # q, request'[p].op = "save",
             request'[q].op = "save"
      PROVE  request'[q].on # request'[p].on
  <2>1. CASE p # r /\ q # r
    BY <1>2, <1>7, <2>1 DEF FilingFits
  <2>2. CASE p = r
    BY <1>2, <1>7, <2>2 DEF FilingFits, Fresh
  <2>3. CASE q = r
    BY <1>2, <1>7, <2>3 DEF FilingFits, Fresh
  <2>4. QED
    BY <2>1, <2>2, <2>3
<1>8. FilingFits'
  BY <1>4, <1>5, <1>6, <1>7 DEF FilingFits
<1>9. QED
  BY <1>1, <1>8

\* A deletion and a sweep change the state of a row and nothing else of it.
LEMMA DeletionsMoveSaves ==
    ASSUME NEW i \in Items, SavesTypeOK, UNCHANGED clock, SoftDelete(i) \/ Swept(i)
    PROVE  /\ SavesTypeOK' /\ SavesMove
           /\ \A j \in Items : saves[j] = NoSave => saves'[j] = NoSave
           /\ saves'[i].state \in {"deleted", "gone"} \/ ~Held(i)
           /\ Swept(i) => saves'[i].state = "gone"
<1>. USE DEF SavesTypeOK
<1>1. GoneSave.state = "gone" /\ NoSave.state = "absent"
  BY DEF GoneSave, NoSave
<1>2. CASE SoftDelete(i) /\ ~Visible(i)
  BY <1>1, <1>2, SavesCanRest DEF SoftDelete, saveVars, Held, Visible, Swept
<1>3. CASE SoftDelete(i) /\ Visible(i)
  <2>1. saves[i] \in SaveRows
    BY <1>1, <1>3 DEF Visible
  <2>. DEFINE row == [saves[i] EXCEPT !.state = "deleted"]
  <2>2. row \in SaveRows /\ row.state = "deleted"
    BY <2>1 DEF SaveRows
  <2>3. saves' = [saves EXCEPT ![i] = row]
    BY <1>3 DEF SoftDelete
  <2>. HIDE DEF row, SaveRows, NoSave, GoneSave
  <2>4. QED
    BY <1>1, <1>3, <2>2, <2>3 DEF SavesMove, Visible, Swept
<1>4. CASE Swept(i)
  <2>. HIDE DEF SaveRows, NoSave, GoneSave
  <2>1. QED
    BY <1>1, <1>4 DEF SavesMove, Swept
<1>5. QED
  BY <1>2, <1>3, <1>4

LEMMA FilingSurvivesTheOthers ==
    ASSUME Filing, UNCHANGED folderVars, SavesTypeOK', SavesMove,
           \A j \in Items : saves[j] = NoSave => saves'[j] = NoSave
    PROVE  Filing'
<1>. HIDE DEF FolderIds
<1>1. FoldersTypeOK'
  BY DEF Filing, FoldersTypeOK, folderVars, FolderIds
<1>2. FilingFits'
  BY DEF Filing, FilingFits, folderVars, NoSave, FolderIds
<1>3. QED
  BY <1>1, <1>2 DEF Filing
-----------------------------------------------------------------------------
(* The tree of the folders                                                 *)

\* The tree of any rows F of the folders: which there are, and the way up from one.
In(F) == {f \in FolderIds : F[f] # NoFolder}
IsWalk(F, f, S) ==
    /\ f \in In(F) => f \in S
    /\ \A g \in S : F[g].parent \in In(F) => F[g].parent \in S
Up(F, f) == {g \in In(F) : \A S \in SUBSET In(F) : IsWalk(F, f, S) => g \in S}
Deep(F, f) == Cardinality(Up(F, f))

\* What Folders says of the rows that are there, said of any rows.
LEMMA TreeIsOfTheRows ==
    /\ Existing = In(folders)
    /\ \A f : Exists(f) <=> folders[f] # NoFolder
    /\ \A f : Above(f) = Up(folders, f) /\ Depth(f) = Deep(folders, f)
<1>1. Existing = In(folders)
  BY DEF Existing, In, Exists
<1>2. ASSUME NEW f PROVE Above(f) = Up(folders, f)
  BY <1>1 DEF Above, Up, Walk, IsWalk
<1>. QED  BY <1>1, <1>2 DEF Depth, Deep, Exists

\* There are finitely many ids, and so finitely many folders.
LEMMA FoldersAreFinite == IsFiniteSet(FolderIds) /\ \A F : IsFiniteSet(In(F))
<1>1. IsFiniteSet({"own", "default"})
  <2>1. IsFiniteSet({} \cup {"own"})
    BY FS_EmptySet, FS_AddElement
  <2>2. IsFiniteSet(({} \cup {"own"}) \cup {"default"})
    BY <2>1, FS_AddElement
  <2>. QED  BY <2>2
<1>2. IsFiniteSet(Requests \X {"own", "default"})
  BY <1>1, FS_Product, SavesAssumption
<1>3. IsFiniteSet(FolderIds)
  BY <1>2, FS_Union, SavesAssumption DEF FolderIds
<1>4. ASSUME NEW F PROVE IsFiniteSet(In(F))
  BY <1>3, FS_Subset DEF In
<1>. QED  BY <1>3, <1>4

\* The way up is a walk and the least of them.
LEMMA UpIsAWalk ==
    ASSUME NEW F, NEW f
    PROVE  Up(F, f) \subseteq In(F) /\ IsWalk(F, f, Up(F, f))
<1>1. f \in In(F) => f \in Up(F, f)
  BY DEF Up, IsWalk
<1>2. ASSUME NEW g \in Up(F, f), F[g].parent \in In(F) PROVE F[g].parent \in Up(F, f)
  BY <1>2 DEF Up, IsWalk
<1>. QED  BY <1>1, <1>2 DEF Up, IsWalk

\* ... and any other walk contains it.
LEMMA UpIsLeast ==
    ASSUME NEW F, NEW f, NEW S, S \subseteq In(F), IsWalk(F, f, S)
    PROVE  Up(F, f) \subseteq S
  BY DEF Up

\* Who is on a way has all of the own way on it.
LEMMA WaysAreNested ==
    ASSUME NEW F, NEW f, NEW g \in Up(F, f)
    PROVE  Up(F, g) \subseteq Up(F, f)
<1>1. IsWalk(F, g, Up(F, f))
  BY UpIsAWalk DEF IsWalk
<1>. QED  BY <1>1, UpIsAWalk, UpIsLeast

\* There is no way up from a folder that is not there.
LEMMA NoWayFromNowhere == ASSUME NEW F, NEW f, f \notin In(F) PROVE Up(F, f) = {}
<1>1. IsWalk(F, f, {})
  BY DEF IsWalk
<1>. QED  BY <1>1, UpIsLeast

\* The way up from a folder is the folder and the way up from its parent.
LEMMA OneStepUp ==
    ASSUME NEW F, NEW f \in In(F)
    PROVE  Up(F, f) = {f} \cup Up(F, F[f].parent)
<1>. DEFINE p == F[f].parent
            S == {f} \cup Up(F, p)
<1>1. S \subseteq In(F) /\ IsWalk(F, p, Up(F, p))
  BY UpIsAWalk
<1>2. IsWalk(F, f, S)
  BY <1>1 DEF IsWalk
<1>3. Up(F, f) \subseteq S
  BY <1>1, <1>2, UpIsLeast
<1>4. f \in Up(F, f) /\ (p \in In(F) => p \in Up(F, f))
  BY UpIsAWalk DEF IsWalk
<1>5. Up(F, p) \subseteq Up(F, f)
  BY <1>4, WaysAreNested, NoWayFromNowhere
<1>. QED  BY <1>3, <1>4, <1>5

\* A way up does not fork.
LEMMA WaysDoNotFork ==
    ASSUME NEW F, NEW f, NEW g \in Up(F, f), NEW h \in Up(F, f)
    PROVE  h \in Up(F, g) \/ g \in Up(F, h)
<1>. DEFINE S == {k \in Up(F, f) : k \in Up(F, g) \/ g \in Up(F, k)}
<1>1. S \subseteq In(F)
  BY UpIsAWalk
<1>2. f \in In(F) => f \in S
  BY UpIsAWalk DEF IsWalk
<1>3. ASSUME NEW k \in S, F[k].parent \in In(F) PROVE F[k].parent \in S
  <2>. DEFINE p == F[k].parent
  <2>1. p \in Up(F, f)
    BY <1>3, UpIsAWalk DEF IsWalk
  <2>2. CASE k \in Up(F, g)
    BY <1>3, <2>1, <2>2, UpIsAWalk DEF IsWalk
  <2>3. CASE g \in Up(F, k) /\ k \notin Up(F, g)
    <3>1. g \in In(F) /\ k \in In(F)
      BY UpIsAWalk
    <3>2. g # k
      BY <2>3, <3>1, UpIsAWalk DEF IsWalk
    <3>3. g \in Up(F, p)
      BY <2>3, <3>1, <3>2, OneStepUp
    <3>. QED  BY <2>1, <3>3
  <2>. QED  BY <2>2, <2>3
<1>4. Up(F, f) \subseteq S
  BY <1>1, <1>2, <1>3, UpIsLeast DEF IsWalk
<1>. QED  BY <1>4

\* Rows that change off the way leave it as it is.
LEMMA WaysStay ==
    ASSUME NEW F, NEW G, NEW f,
           f \in In(G) => f \in In(F),
           \A g \in Up(F, f) : /\ G[g] = F[g]
                               /\ F[g].parent \in In(G) => F[g].parent \in In(F)
    PROVE  Up(G, f) = Up(F, f)
<1>1. Up(F, f) \subseteq In(G)
  BY UpIsAWalk DEF In
<1>2. IsWalk(G, f, Up(F, f))
  BY UpIsAWalk DEF IsWalk
<1>3. Up(G, f) \subseteq Up(F, f)
  BY <1>1, <1>2, UpIsLeast
<1>4. Up(G, f) \subseteq In(F)
  BY <1>3, UpIsAWalk
<1>5. f \in In(F) => f \in In(G)
  <2>1. f \in In(F) => f \in Up(F, f)
    BY UpIsAWalk DEF IsWalk
  <2>. QED  BY <1>1, <2>1
<1>6. ASSUME NEW g \in Up(G, f), F[g].parent \in In(F) PROVE F[g].parent \in Up(G, f)
  <2>1. g \in Up(F, f) /\ G[g] = F[g]
    BY <1>3
  <2>2. F[g].parent \in Up(F, f)
    BY <1>6, <2>1, UpIsAWalk DEF IsWalk
  <2>3. G[g].parent \in In(G)
    BY <1>1, <2>1, <2>2
  <2>4. G[g].parent \in Up(G, f)
    BY <2>3, UpIsAWalk DEF IsWalk
  <2>. QED  BY <2>1, <2>4
<1>7. IsWalk(F, f, Up(G, f))
  <2>1. f \in In(G) => f \in Up(G, f)
    BY UpIsAWalk DEF IsWalk
  <2>. QED  BY <1>5, <1>6, <2>1 DEF IsWalk
<1>8. Up(F, f) \subseteq Up(G, f)
  BY <1>4, <1>7, UpIsLeast
<1>. QED  BY <1>3, <1>8

\* Whoever is on a way above its beginning is the parent of somebody on it.
LEMMA WhoIsAboveIsAParent ==
    ASSUME NEW F, NEW g, NEW f \in Up(F, g), f # g
    PROVE  \E h \in Up(F, g) : F[h].parent = f
<1>1. SUFFICES ASSUME \A h \in Up(F, g) : F[h].parent # f PROVE FALSE
  OBVIOUS
<1>. DEFINE S == Up(F, g) \ {f}
<1>2. S \subseteq In(F) /\ IsWalk(F, g, Up(F, g))
  BY UpIsAWalk
<1>3. IsWalk(F, g, S)
  BY <1>1, <1>2 DEF IsWalk
<1>. QED  BY <1>2, <1>3, UpIsLeast

\* A way has a length.
LEMMA WaysAreFinite ==
    \A F, f : IsFiniteSet(Up(F, f)) /\ Deep(F, f) \in Nat
<1>1. ASSUME NEW F, NEW f PROVE IsFiniteSet(Up(F, f))
  BY UpIsAWalk, FoldersAreFinite, FS_Subset
<1>. QED  BY <1>1, FS_CardinalityType DEF Deep

Rows == [FolderIds -> FolderRows \cup {NoFolder}]

\* No folder under one that is gone, no cycle and none too deep.
IsForest(F) ==
    \A f \in In(F) :
        /\ F[f].default => F[f].parent = Unfiled
        /\ F[f].parent # Unfiled => F[f].parent \in In(F)
        /\ f \notin Up(F, F[f].parent)
        /\ Deep(F, f) <= MaxDepth

\* Off a cycle a folder is one deeper than its parent.
LEMMA OneDeeper ==
    ASSUME NEW F, NEW f \in In(F), f \notin Up(F, F[f].parent)
    PROVE  Deep(F, f) = Deep(F, F[f].parent) + 1
  BY OneStepUp, WaysAreFinite, FS_AddElement DEF Deep

\* What is not there has depth 0, as a root's parent has.
LEMMA NowhereIsNotDeep == ASSUME NEW F, NEW f, f \notin In(F) PROVE Deep(F, f) = 0
  BY NoWayFromNowhere, FS_EmptySet DEF Deep

\* G are the rows F and one that may be added to them.
Leaf(F, n, row, G) ==
    /\ G = [F EXCEPT ![n] = row]
    /\ F \in Rows /\ IsForest(F) /\ n \in FolderIds \ In(F)
    /\ row \in FolderRows /\ row # NoFolder
    /\ row.parent = Unfiled \/ row.parent \in In(F)
    /\ row.default => row.parent = Unfiled
    /\ Deep(F, row.parent) < MaxDepth

\* A folder that is added has nothing below it and changes nobody's way.
LEMMA LeavesChangeNoWay ==
    ASSUME NEW F, NEW n, NEW row, NEW G, Leaf(F, n, row, G),
           NEW f, f # n
    PROVE  Up(G, f) = Up(F, f) /\ Deep(G, f) = Deep(F, f)
<1>. USE DEF Rows, Leaf
<1>1. G \in Rows /\ In(G) = In(F) \cup {n} /\ \A g \in In(F) : G[g] = F[g] /\ g # n
  BY DEF In
<1>2. \A g \in In(F) : F[g].parent # n
  BY SavesAssumption DEF IsForest
<1>3. Up(F, f) \subseteq In(F)
  BY UpIsAWalk
<1>4. \A g \in Up(F, f) : G[g] = F[g] /\ (F[g].parent \in In(G) => F[g].parent \in In(F))
  BY <1>1, <1>2, <1>3
<1>5. f \in In(G) => f \in In(F)
  BY <1>1
<1>. HIDE DEF Rows, Leaf
<1>. QED  BY <1>4, <1>5, WaysStay DEF Deep

\* The rows stay a forest with the folder that was added.
LEMMA LeavesAreAdded ==
    ASSUME NEW F, NEW n, NEW row, NEW G, Leaf(F, n, row, G)
    PROVE  /\ G \in Rows /\ IsForest(G)
           /\ In(G) = In(F) \cup {n} /\ \A f \in In(F) : G[f] = F[f]
<1>1. G \in Rows /\ In(G) = In(F) \cup {n} /\ \A f \in In(F) : G[f] = F[f] /\ f # n
  BY DEF In, Rows, Leaf
<1>2. \A f \in In(F) : F[f].parent # n
  BY SavesAssumption DEF IsForest, Leaf
<1>3. ASSUME NEW f \in In(G)
      PROVE  /\ G[f].default => G[f].parent = Unfiled
             /\ G[f].parent # Unfiled => G[f].parent \in In(G)
             /\ f \notin Up(G, G[f].parent)
             /\ Deep(G, f) <= MaxDepth
  <2>1. CASE f # n
    <3>1. f \in In(F) /\ G[f] = F[f] /\ F[f].parent # n
      BY <1>1, <1>2, <2>1
    <3>2. Up(G, F[f].parent) = Up(F, F[f].parent) /\ Deep(G, f) = Deep(F, f)
      BY <2>1, <3>1, LeavesChangeNoWay
    <3>. QED  BY <1>1, <3>1, <3>2 DEF IsForest, Leaf
  <2>2. CASE f = n
    <3>1. G[f] = row /\ row.parent # n
      BY <2>2, SavesAssumption DEF Leaf, Rows
    <3>2. Up(G, row.parent) = Up(F, row.parent)
      BY <3>1, LeavesChangeNoWay
    <3>3. n \notin Up(F, row.parent)
      BY UpIsAWalk DEF Leaf
    <3>4. Deep(G, n) = Deep(F, row.parent) + 1
      BY <2>2, <3>1, <3>2, <3>3, OneDeeper DEF Deep
    <3>5. Deep(G, n) <= MaxDepth
      BY <3>4, WaysAreFinite, FoldersAssumption DEF Leaf
    <3>. QED  BY <1>1, <2>2, <3>1, <3>2, <3>3, <3>5 DEF Leaf
  <2>. QED  BY <2>1, <2>2
<1>. QED  BY <1>1, <1>3 DEF IsForest

\* G are the rows F without a folder that has nothing below it.
Bare(F, n, G) ==
    /\ G = [F EXCEPT ![n] = NoFolder]
    /\ F \in Rows /\ IsForest(F) /\ n \in FolderIds
    /\ \A f \in In(F) : F[f].parent # n

\* Such a folder is taken away without a trace.
LEMMA LeavesAreTaken ==
    ASSUME NEW F, NEW n, NEW G, Bare(F, n, G)
    PROVE  /\ G \in Rows /\ IsForest(G)
           /\ In(G) = In(F) \ {n} /\ \A f \in In(G) : G[f] = F[f]
<1>. USE DEF Rows, Bare
<1>1. G \in Rows /\ In(G) = In(F) \ {n} /\ \A f \in In(G) : G[f] = F[f]
  BY DEF In
<1>2. ASSUME NEW f, f # n PROVE n \notin Up(F, f)
  BY <1>2, UpIsAWalk, WhoIsAboveIsAParent
<1>3. ASSUME NEW f, f # n PROVE Up(G, f) = Up(F, f)
  <2>1. Up(F, f) \subseteq In(F) /\ n \notin Up(F, f)
    BY <1>2, <1>3, UpIsAWalk
  <2>2. \A g \in Up(F, f) : G[g] = F[g] /\ (F[g].parent \in In(G) => F[g].parent \in In(F))
    BY <1>1, <2>1
  <2>3. f \in In(G) => f \in In(F)
    BY <1>1, <1>3
  <2>. HIDE DEF Rows, Bare
  <2>. QED  BY <2>2, <2>3, WaysStay
<1>4. ASSUME NEW f \in In(G)
      PROVE  /\ G[f].default => G[f].parent = Unfiled
             /\ G[f].parent # Unfiled => G[f].parent \in In(G)
             /\ f \notin Up(G, G[f].parent)
             /\ Deep(G, f) <= MaxDepth
  <2>1. f \in In(F) /\ f # n /\ G[f] = F[f] /\ F[f].parent # n
    BY <1>1
  <2>2. Up(G, F[f].parent) = Up(F, F[f].parent) /\ Deep(G, f) = Deep(F, f)
    BY <1>3, <2>1 DEF Deep
  <2>. QED  BY <1>1, <2>1, <2>2 DEF IsForest
<1>. QED  BY <1>1, <1>4 DEF IsForest

\* Who is below f, itself or a descendant.
Below(F, f) == {g \in In(F) : f \in Up(F, g)}

\* G are the rows F with one row under another parent, where it fits.
Fitting(F, m, row, G) ==
    /\ G = [F EXCEPT ![m] = row]
    /\ F \in Rows /\ IsForest(F) /\ m \in In(F)
    /\ row \in FolderRows /\ row # NoFolder /\ ~row.default
    /\ row.parent # Unfiled => row.parent \in In(F) \ Below(F, m)
    /\ row.parent # Unfiled =>
          \A g \in Below(F, m) : Deep(F, row.parent) + 1 + Deep(F, g) <= MaxDepth + Deep(F, m)

\* A folder that is put under one that is not below it takes its subtree along, which
\* must not become too deep.
LEMMA TreesAreMoved ==
    ASSUME NEW F, NEW m, NEW row, NEW G, Fitting(F, m, row, G)
    PROVE  G \in Rows /\ IsForest(G) /\ In(G) = In(F)
<1>. DEFINE to == row.parent
            p == F[m].parent
<1>0. /\ F \in Rows /\ IsForest(F) /\ m \in In(F) /\ row \in FolderRows /\ row # NoFolder
      /\ ~row.default /\ G = [F EXCEPT ![m] = row]
      /\ row.parent # Unfiled => row.parent \in In(F) \ Below(F, m)
      /\ \A g \in Below(F, m) : row.parent # Unfiled =>
            Deep(F, row.parent) + 1 + Deep(F, g) <= MaxDepth + Deep(F, m)
  BY DEF Fitting
<1>. USE <1>0
<1>1. G \in Rows /\ In(G) = In(F) /\ (\A f \in In(F) \ {m} : G[f] = F[f]) /\ G[m] = row
  BY DEF In, Rows
<1>2. m \notin Up(F, p) /\ m \notin Up(F, to)
  <2>1. CASE to = Unfiled
    BY <2>1, NoWayFromNowhere, SavesAssumption DEF IsForest, In
  <2>2. CASE to # Unfiled
    BY <2>2 DEF IsForest, Below
  <2>. QED  BY <2>1, <2>2
<1>3. ASSUME NEW f, m \notin Up(F, f) PROVE Up(G, f) = Up(F, f)
  <2>1. \A g \in Up(F, f) : g \in In(F) \ {m}
    BY <1>3, UpIsAWalk
  <2>2. \A g \in Up(F, f) : G[g] = F[g] /\ (F[g].parent \in In(G) => F[g].parent \in In(F))
    BY <1>1, <2>1
  <2>. QED  BY ONLY <1>1, <2>2, WaysStay
<1>4. ASSUME NEW f, m \in Up(F, f)
      PROVE  Up(G, f) \subseteq (Up(F, f) \ Up(F, p)) \cup Up(F, to)
  <2>. DEFINE S == (Up(F, f) \ Up(F, p)) \cup Up(F, to)
  <2>1. S \subseteq In(G)
    BY <1>1, UpIsAWalk
  <2>2. f \in In(F) /\ f \in Up(F, f)
    BY <1>4, NoWayFromNowhere, UpIsAWalk DEF IsWalk
  <2>3. f \notin Up(F, p)
    <3>1. ASSUME f \in Up(F, p) PROVE FALSE
      BY <1>2, <1>4, <3>1, WaysAreNested
    <3>. QED  BY <3>1
  <2>4. ASSUME NEW g \in S, G[g].parent \in In(G) PROVE G[g].parent \in S
    <3>0. g \in In(F)
      BY <1>1, <2>1
    <3>1. CASE g \in Up(F, to)
      <4>1. g # m /\ G[g] = F[g]
        BY <1>1, <1>2, <3>0, <3>1
      <4>. QED  BY <1>1, <2>4, <3>1, <4>1, UpIsAWalk DEF IsWalk
    <3>2. CASE g = m
      <4>1. to \in Up(F, to)
        BY <1>1, <2>4, <3>2, UpIsAWalk DEF IsWalk
      <4>. QED  BY <1>1, <3>2, <4>1
    <3>3. CASE g \in Up(F, f) \ Up(F, p) /\ g # m
      <4>1. G[g] = F[g] /\ F[g].parent \in Up(F, f)
        BY <1>1, <2>4, <3>0, <3>3, UpIsAWalk DEF IsWalk
      <4>2. g \notin Up(F, m)
        BY <3>3, OneStepUp
      <4>3. m \in Up(F, g)
        BY <1>4, <3>3, <4>2, WaysDoNotFork
      <4>4. m \in Up(F, F[g].parent)
        BY <3>0, <3>3, <4>3, OneStepUp
      <4>5. F[g].parent \notin Up(F, p)
        BY <1>2, <4>4, WaysAreNested
      <4>. QED  BY <4>1, <4>5
    <3>. QED  BY <3>1, <3>2, <3>3
  <2>5. IsWalk(G, f, S)
    BY <1>1, <2>2, <2>3, <2>4 DEF IsWalk
  <2>. QED  BY <2>1, <2>5, UpIsLeast
<1>5. ASSUME NEW f \in In(G) PROVE f \notin Up(G, G[f].parent)
  <2>0. f \in In(F)
    BY <1>1
  <2>1. CASE f = m
    BY <1>1, <1>2, <1>3, <2>1
  <2>. DEFINE q == F[f].parent
  <2>2. CASE f # m /\ m \notin Up(F, q)
    BY <1>1, <1>3, <2>0, <2>2 DEF IsForest
  <2>3. CASE f # m /\ m \in Up(F, q)
    <3>1. G[f] = F[f] /\ f \notin Up(F, q)
      BY <1>1, <2>0, <2>3 DEF IsForest
    <3>2. m \in Up(F, f)
      BY <2>0, <2>3, OneStepUp
    <3>3. f \notin Up(F, to)
      BY <1>2, <3>2, WaysAreNested
    <3>. QED  BY <1>4, <2>3, <3>1, <3>3
  <2>. QED  BY <2>1, <2>2, <2>3
<1>6. ASSUME NEW f \in In(G) PROVE Deep(G, f) <= MaxDepth
  <2>1. CASE m \notin Up(F, f)
    BY <1>1, <1>3, <2>1 DEF IsForest, Deep
  <2>2. CASE m \in Up(F, f)
    <3>. DEFINE rest == Up(F, f) \ Up(F, p)
    <3>1. Up(F, p) \subseteq Up(F, m) /\ Up(F, m) \subseteq Up(F, f)
      BY <2>2, OneStepUp, WaysAreNested
    <3>2. /\ IsFiniteSet(rest) /\ IsFiniteSet(Up(F, to)) /\ IsFiniteSet(rest \cup Up(F, to))
          /\ Cardinality(rest) = Cardinality(Up(F, f)) - Cardinality(Up(F, f) \cap Up(F, p))
      BY WaysAreFinite, FS_Difference, FS_Union
    <3>3. Cardinality(rest) = Deep(F, f) - Deep(F, p) /\ Up(F, f) \cap Up(F, p) = Up(F, p)
      BY <3>1, <3>2 DEF Deep
    <3>4. Cardinality(rest \cup Up(F, to)) =
            Cardinality(rest) + Deep(F, to) - Cardinality(rest \cap Up(F, to))
      BY <3>2, FS_Union DEF Deep
    <3>5. Cardinality(rest \cap Up(F, to)) \in Nat /\ Cardinality(rest) \in Nat
      BY <3>2, FS_Intersection, FS_CardinalityType
    <3>6. Deep(G, f) <= Cardinality(rest \cup Up(F, to))
      BY <1>4, <2>2, <3>2, FS_Subset DEF Deep
    <3>7. Deep(F, m) = Deep(F, p) + 1
      BY <1>2, OneDeeper
    <3>8. /\ Deep(F, f) \in Nat /\ Deep(F, p) \in Nat /\ Deep(F, to) \in Nat
          /\ Deep(G, f) \in Nat /\ Deep(F, m) \in Nat /\ MaxDepth \in Nat
      BY WaysAreFinite, FoldersAssumption
    <3>9. Deep(G, f) <= Deep(F, f) - Deep(F, p) + Deep(F, to)
      <4>. HIDE DEF rest
      <4>. QED  BY <3>3, <3>4, <3>5, <3>6, <3>8
    <3>10. CASE to # Unfiled
      <4>1. Deep(F, to) + 1 + Deep(F, f) <= MaxDepth + Deep(F, m)
        BY <1>1, <2>2, <3>10 DEF Below
      <4>. QED  BY <3>7, <3>8, <3>9, <4>1
    <3>11. CASE to = Unfiled
      <4>1. Deep(F, to) = 0
        BY <3>11, NowhereIsNotDeep, SavesAssumption DEF In
      <4>2. Deep(F, f) <= MaxDepth
        BY <1>1 DEF IsForest
      <4>. QED  BY <3>8, <3>9, <4>1, <4>2
    <3>. QED  BY <3>10, <3>11
  <2>. QED  BY <2>1, <2>2
<1>7. ASSUME NEW f \in In(G)
      PROVE  /\ G[f].default => G[f].parent = Unfiled
             /\ G[f].parent # Unfiled => G[f].parent \in In(G)
  BY <1>1, <1>7 DEF IsForest
<1>. QED  BY <1>1, <1>5, <1>6, <1>7 DEF IsForest

\* Which operation is at which step.
StepsAreOf(k) ==
    /\ k.pc = "get" => k.op \in {"move", "rename", "drop"}
    /\ k.pc \in {"default", "putDefault"} => k.op \in {"create", "drop", "list", "save", "assign"}
    /\ k.pc = "survey" => k.op \in {"create", "move", "rename", "drop"}
    /\ k.pc = "put" => k.op \in {"create", "move", "rename"}
    /\ k.pc \in {"empty", "delete"} => k.op = "drop"
    /\ k.pc \in {"find", "target", "file"} => k.op \in {"save", "assign"}

DefaultsIn(F) == {f \in FolderIds : F[f].default}

\* What a request is about to put among the rows F leaves a forest.
MayBePut(F, r, k) ==
    /\ k.pc = "put" /\ k.op = "create" =>
          /\ k.on = <<r, "own">> /\ k.row = Under(k.to)
          /\ k.to # Unfiled => k.to \in In(F)
          /\ Deep(F, k.to) < MaxDepth
    /\ k.pc \in {"survey", "put"} /\ k.op \in {"move", "rename"} =>
          /\ k.on \in In(F) \ DefaultsIn(F)
          /\ k.op = "rename" => k.row = F[k.on]
          /\ k.op = "move" /\ k.pc = "survey" => k.row = F[k.on]
    /\ k.pc = "put" /\ k.op = "move" =>
          /\ k.row = Under(k.to)
          /\ k.to # Unfiled => k.to \in In(F) \ Below(F, k.on)
          /\ k.to # Unfiled =>
                \A g \in Below(F, k.on) : Deep(F, k.to) + 1 + Deep(F, g) <= MaxDepth + Deep(F, k.on)

\* A deletion takes no default folder, takes who is below the folders it takes, and
\* has found every save in them or still will.
MayBeDropped(F, S, k) ==
    k.op = "drop" =>
      /\ k.pc \in {"default", "putDefault", "survey", "empty", "delete"} =>
            k.on \notin DefaultsIn(F) \cup (Requests \X {"default"})
      /\ k.pc \in {"survey", "empty", "delete"} => k.home \in DefaultsIn(F)
      /\ k.pc \in {"empty", "delete"} =>
            /\ k.left \cap DefaultsIn(F) = {}
            /\ \A g \in In(F) : F[g].parent \in k.left => g \in k.left
            /\ \A i \in Items : S[i].state = "visible" /\ S[i].folder \in k.left =>
                  k.pc = "empty" /\ (S[i].folder \in k.todo \/ i \in k.moving)

FiledWhereItIs(F, k) ==
    k.op \in {"save", "assign"} /\ k.pc = "file" /\ k.home # Unfiled => k.home \in In(F)

RequestFits(F, S, r, k) ==
    /\ StepsAreOf(k) /\ MayBePut(F, r, k) /\ MayBeDropped(F, S, k) /\ FiledWhereItIs(F, k)
    /\ k.pc # "done" => <<r, "own">> \notin In(F)

KeptApart ==
    \A r \in Requests : \A q \in Requests \ {r} :
        Working(r) /\ Working(q) => ~Clash(request[r].op, request[q].op)

DefaultsFit(F) ==
    /\ \A f, g \in DefaultsIn(F) : f = g
    /\ \A r \in Requests : <<r, "default">> \in In(F) => <<r, "default">> \in DefaultsIn(F)

SavesAreFiled(F, S) ==
    \A i \in Items : S[i].state = "visible" /\ S[i].folder # Unfiled => S[i].folder \in In(F)

\* Until requests overlap that are not kept apart.
TreeIsRight ==
    /\ KeptApart /\ IsForest(folders) /\ DefaultsFit(folders) /\ SavesAreFiled(folders, saves)
    /\ \A r \in Requests : RequestFits(folders, saves, r, request[r])

Over == [NoRequest EXCEPT !.pc = "done"]

\* A request that is done asks for nothing.
LEMMA WhoIsDoneFits == \A F, S, r : RequestFits(F, S, r, Over)
<1>1. Over.pc = "done" /\ Over.op = "list"
  BY DEF Over, NoRequest
<1>. HIDE DEF Over
<1>. QED  BY <1>1 DEF RequestFits, StepsAreOf, MayBePut, MayBeDropped, FiledWhereItIs

\* A step of one request: who else is there stays in its place.
LEMMA TreeStays ==
    ASSUME NEW r \in Requests, request \in RequestTypes, TreeIsRight,
           NEW k, request' = [request EXCEPT ![r] = k],
           k.pc = "done" \/ (Working(r) /\ k.op = request[r].op),
           IsForest(folders'), DefaultsFit(folders'), SavesAreFiled(folders', saves'),
           RequestFits(folders', saves', r, k),
           \A q \in Requests \ {r} : RequestFits(folders', saves', q, request[q])
    PROVE  TreeIsRight'
<1>1. request'[r] = k /\ \A q \in Requests \ {r} : request'[q] = request[q]
  BY DEF RequestTypes
<1>2. KeptApart'
  BY <1>1 DEF TreeIsRight, KeptApart, Working, Pc, Clash
<1>3. \A q \in Requests : RequestFits(folders', saves', q, request'[q])
  BY <1>1
<1>. QED  BY <1>2, <1>3 DEF TreeIsRight

\* A request that only goes on, or ends.
LEMMA TreeStaysAsItIs ==
    ASSUME NEW r \in Requests, request \in RequestTypes, TreeIsRight,
           NEW k, request' = [request EXCEPT ![r] = k],
           k.pc = "done" \/ (Working(r) /\ k.op = request[r].op),
           RequestFits(folders, saves, r, k), UNCHANGED <<folders, saves>>
    PROVE  TreeIsRight'
  BY TreeStays DEF TreeIsRight

\* A request that ends with its last write.
LEMMA TreeOutlastsItsRequests ==
    ASSUME NEW r \in Requests, request \in RequestTypes, TreeIsRight, Ends(r),
           IsForest(folders'), DefaultsFit(folders'), SavesAreFiled(folders', saves'),
           \A q \in Requests \ {r} : RequestFits(folders', saves', q, request[q])
    PROVE  TreeIsRight'
<1>1. request' = [request EXCEPT ![r] = Over] /\ Over.pc = "done"
  BY DEF Ends, Over, NoRequest
<1>. HIDE DEF Over
<1>. QED  BY <1>1, WhoIsDoneFits, TreeStays

\* A request that ends without one.
LEMMA RequestsMayEnd ==
    ASSUME NEW r \in Requests, request \in RequestTypes, TreeIsRight, Ends(r),
           UNCHANGED <<folders, saves>>
    PROVE  TreeIsRight'
  BY TreeOutlastsItsRequests DEF TreeIsRight

\* An arrival that overlaps nothing it is not kept apart from.
LEMMA TreeOutlastsArrivals ==
    ASSUME NEW r \in Requests, request \in RequestTypes, TreeIsRight,
           NEW op \in FolderOps, NEW on, NEW to, ArriveRequest(r, op, on, to), ~crossed'
    PROVE  TreeIsRight'
<1>. DEFINE k == [NoRequest EXCEPT !.op = op, !.pc = FirstStep(op), !.on = on, !.to = to]
<1>1. k.op = op /\ k.pc = FirstStep(op)
  BY DEF NoRequest
<1>2. /\ request' = [request EXCEPT ![r] = k] /\ request[r].pc = "idle"
      /\ UNCHANGED <<folders, saves>>
      /\ \A q \in Requests : Working(q) => ~Clash(op, request[q].op) /\ ~Clash(request[q].op, op)
  BY DEF ArriveRequest, Pc, saveVars
<1>. HIDE DEF k
<1>3. request'[r] = k /\ \A q \in Requests \ {r} : request'[q] = request[q]
  BY <1>2 DEF RequestTypes
<1>4. KeptApart'
  <2>1. ASSUME NEW p \in Requests, NEW q \in Requests \ {p}, Working(p)', Working(q)'
        PROVE  ~Clash(request'[p].op, request'[q].op)
    <3>1. CASE p # r /\ q # r
      BY <1>3, <2>1, <3>1 DEF TreeIsRight, KeptApart, Working, Pc
    <3>2. CASE p = r
      BY <1>1, <1>2, <1>3, <2>1, <3>2 DEF Working, Pc
    <3>3. CASE q = r
      BY <1>1, <1>2, <1>3, <2>1, <3>3 DEF Working, Pc
    <3>. QED  BY <3>1, <3>2, <3>3
  <2>. QED  BY <2>1 DEF KeptApart
<1>5. RequestFits(folders, saves, r, k)
  <2>1. <<r, "own">> \notin In(folders)
    BY <1>2 DEF TreeIsRight, RequestFits
  <2>2. FirstStep(op) \in {"get", "target", "find", "default"}
    BY DEF FirstStep
  <2>3. StepsAreOf(k)
    BY <1>1 DEF StepsAreOf, FirstStep, FolderOps
  <2>4. MayBeDropped(folders, saves, k)
    BY <1>1 DEF MayBeDropped, FirstStep
  <2>. QED  BY <1>1, <2>1, <2>2, <2>3, <2>4 DEF RequestFits, MayBePut, FiledWhereItIs
<1>6. \A q \in Requests : RequestFits(folders', saves', q, request'[q])
  BY <1>2, <1>3, <1>5 DEF TreeIsRight
<1>7. IsForest(folders') /\ DefaultsFit(folders') /\ SavesAreFiled(folders', saves')
  BY <1>2 DEF TreeIsRight
<1>. QED  BY <1>4, <1>6, <1>7 DEF TreeIsRight

\* What is modified or deleted is there and not the default folder.
LEMMA TreeOutlastsReadings ==
    ASSUME NEW r \in Requests, request \in RequestTypes, FilingFits, TreeIsRight, GetFolder(r)
    PROVE  TreeIsRight'
<1>. DEFINE f == request[r].on
            pc == IF request[r].op = "drop" THEN "default" ELSE "survey"
            k == [request[r] EXCEPT !.row = folders[f], !.pc = pc]
<1>1. UNCHANGED <<folders, saves>> /\ request[r].pc = "get" /\ f \in FolderIds
  BY DEF GetFolder, FilingFits, Pc, saveVars
<1>2. CASE Ends(r)
  BY <1>1, <1>2, RequestsMayEnd
<1>3. CASE ~Ends(r)
  <2>1. request' = [request EXCEPT ![r] = k] /\ Exists(f) /\ ~folders[f].default
    BY <1>3 DEF GetFolder
  <2>2. /\ k.pc = pc /\ k.op = request[r].op /\ k.row = folders[f] /\ k.on = f
    BY DEF RequestTypes, RequestRows
  <2>3. RequestFits(folders, saves, r, request[r])
    BY DEF TreeIsRight
  <2>4. f \in In(folders) /\ f \notin DefaultsIn(folders) /\ f \notin Requests \X {"default"}
    BY <1>1, <2>1 DEF In, Exists, DefaultsIn, TreeIsRight, DefaultsFit
  <2>. HIDE DEF k
  <2>5. RequestFits(folders, saves, r, k)
    BY <1>1, <2>2, <2>3, <2>4
       DEF RequestFits, StepsAreOf, MayBePut, MayBeDropped, FiledWhereItIs
  <2>6. Working(r)
    BY <1>1 DEF Working, Pc
  <2>. QED  BY <1>1, <2>1, <2>2, <2>5, <2>6, TreeStaysAsItIs
<1>. QED  BY <1>2, <1>3

\* The default folder is found: a deletion knows where the saves go, a request that
\* files something where to.
LEMMA TreeOutlastsDefaults ==
    ASSUME NEW r \in Requests, request \in RequestTypes, TreeIsRight,
           NEW home, AfterDefault(r, home), UNCHANGED <<folders, saves>>,
           home = Unfiled \/ home \in In(folders),
           \/ Pc(r) \in {"default", "putDefault"}
              /\ (home \in DefaultsIn(folders) \/ request[r].op = "save")
           \/ Pc(r) = "target"
    PROVE  TreeIsRight'
<1>. DEFINE pc == IF request[r].op \in {"create", "drop"} THEN "survey" ELSE "file"
            k == [request[r] EXCEPT !.home = home, !.at = clock, !.pc = pc]
<1>1. CASE Ends(r)
  BY <1>1, RequestsMayEnd
<1>2. CASE ~Ends(r)
  <2>1. request' = [request EXCEPT ![r] = k] /\ request[r].op # "list"
    BY <1>2 DEF AfterDefault
  <2>2. k.pc = pc /\ k.op = request[r].op /\ k.home = home /\ k.on = request[r].on
    BY DEF RequestTypes, RequestRows
  <2>3. RequestFits(folders, saves, r, request[r]) /\ Working(r)
    BY DEF TreeIsRight, Working, Pc
  <2>. HIDE DEF k
  <2>4. StepsAreOf(k)
    BY <2>1, <2>2, <2>3 DEF RequestFits, StepsAreOf, Pc
  <2>5. MayBePut(folders, r, k)
    BY <2>1, <2>2, <2>3 DEF RequestFits, StepsAreOf, MayBePut, Pc
  <2>6. MayBeDropped(folders, saves, k)
    BY <2>1, <2>2, <2>3 DEF RequestFits, StepsAreOf, MayBeDropped, Pc
  <2>7. FiledWhereItIs(folders, k)
    BY <2>1, <2>2, <2>3 DEF RequestFits, FiledWhereItIs, Pc
  <2>8. RequestFits(folders, saves, r, k)
    BY <2>2, <2>3, <2>4, <2>5, <2>6, <2>7 DEF RequestFits, Pc
  <2>. QED  BY <2>1, <2>2, <2>3, <2>8, TreeStaysAsItIs
<1>. QED  BY <1>1, <1>2

\* Below a folder are itself and its descendants.
LEMMA DescendantsAreBelow ==
    ASSUME NEW f \in Existing
    PROVE  Below(folders, f) = Descendants(f) \cup {f}
<1>1. f \in In(folders) /\ f \in Up(folders, f)
  BY TreeIsOfTheRows, UpIsAWalk DEF IsWalk
<1>2. ASSUME NEW g \in Descendants(f) PROVE g \in Below(folders, f)
  <2>1. PICK h \in Up(folders, g) : folders[h].parent = f
    BY <1>2, TreeIsOfTheRows DEF Descendants
  <2>2. f \in Up(folders, g)
    BY <1>1, <2>1, UpIsAWalk DEF IsWalk
  <2>. QED  BY <1>2, <2>2, TreeIsOfTheRows DEF Below, Descendants
<1>3. ASSUME NEW g \in Below(folders, f), g # f PROVE g \in Descendants(f)
  <2>1. g \in In(folders) /\ f \in Up(folders, g)
    BY <1>3 DEF Below
  <2>2. \E h \in Up(folders, g) : folders[h].parent = f
    BY <1>3, <2>1, WhoIsAboveIsAParent
  <2>. QED  BY <1>3, <2>1, <2>2, TreeIsOfTheRows DEF Descendants
<1>4. f \in Below(folders, f)
  BY <1>1 DEF Below
<1>. QED  BY <1>2, <1>3, <1>4

\* A row that is put under another parent.
LEMMA RowsAreMoved ==
    ASSUME NEW row \in FolderRows, ~row.default, NEW to \in FolderIds \cup {Unfiled}
    PROVE  [row EXCEPT !.parent = to] = Under(to)
<1>1. [row EXCEPT !.parent = to].parent = to /\ [row EXCEPT !.parent = to].default = FALSE
  BY DEF FolderRows
<1>2. [row EXCEPT !.parent = to] \in FolderRows
  BY DEF FolderRows
<1>3. Under(to) \in FolderRows /\ Under(to).parent = to /\ Under(to).default = FALSE
  BY DEF FolderRows, Under
<1>4. \A x, y \in FolderRows : x.parent = y.parent /\ x.default = y.default => x = y
  BY DEF FolderRows
<1>. QED  BY <1>1, <1>2, <1>3, <1>4

\* What was decided on the rows as they are fits them.
LEMMA TreeOutlastsSurveys ==
    ASSUME NEW r \in Requests, request \in RequestTypes, FilingFits, TreeIsRight,
           SurveyFolders(r)
    PROVE  TreeIsRight'
<1>. DEFINE q == request[r]
<1>0. /\ UNCHANGED <<folders, saves>> /\ q.pc = "survey" /\ Working(r)
      /\ RequestFits(folders, saves, r, q) /\ q \in RequestRows
  BY DEF SurveyFolders, Pc, saveVars, Working, TreeIsRight, RequestTypes
<1>1. CASE Ends(r)
  BY <1>0, <1>1, RequestsMayEnd
<1>2. CASE q.op = "create" /\ ~Ends(r)
  <2>. DEFINE k == [q EXCEPT !.pc = "put", !.row = Under(q.to), !.on = <<r, "own">>]
  <2>1. /\ request' = [request EXCEPT ![r] = k]
        /\ (q.to # Unfiled => Exists(q.to)) /\ MayGrow(q.to)
    BY <1>2 DEF SurveyFolders
  <2>2. /\ k.pc = "put" /\ k.op = "create" /\ k.row = Under(q.to) /\ k.on = <<r, "own">>
        /\ k.to = q.to
    BY <1>0, <1>2 DEF RequestRows
  <2>3. q.to \in FolderIds \cup {Unfiled}
    BY <1>0 DEF RequestRows
  <2>. HIDE DEF k
  <2>4. (q.to # Unfiled => q.to \in In(folders)) /\ Deep(folders, q.to) < MaxDepth
    BY <2>1, <2>3, TreeIsOfTheRows DEF MayGrow, In
  <2>5. RequestFits(folders, saves, r, k)
    BY <1>0, <2>2, <2>4
       DEF RequestFits, StepsAreOf, MayBePut, MayBeDropped, FiledWhereItIs
  <2>. QED  BY <1>0, <1>2, <2>1, <2>2, <2>5, TreeStaysAsItIs
<1>3. CASE q.op = "rename" /\ ~Ends(r)
  <2>. DEFINE k == [q EXCEPT !.pc = "put"]
  <2>1. request' = [request EXCEPT ![r] = k]
    BY <1>3 DEF SurveyFolders, Goes
  <2>2. k.pc = "put" /\ k.op = "rename" /\ k.row = q.row /\ k.on = q.on
    BY <1>0, <1>3 DEF RequestRows
  <2>. HIDE DEF k
  <2>3. RequestFits(folders, saves, r, k)
    BY <1>0, <1>3, <2>2
       DEF RequestFits, StepsAreOf, MayBePut, MayBeDropped, FiledWhereItIs
  <2>. QED  BY <1>0, <1>3, <2>1, <2>2, <2>3, TreeStaysAsItIs
<1>4. CASE q.op = "move" /\ ~Ends(r)
  <2>. DEFINE row == [q.row EXCEPT !.parent = q.to]
              k == [q EXCEPT !.pc = "put", !.row = row]
  <2>1. request' = [request EXCEPT ![r] = k] /\ MayMove(q.on, q.to)
    BY <1>4 DEF SurveyFolders
  <2>2. k.pc = "put" /\ k.op = "move" /\ k.row = row /\ k.on = q.on /\ k.to = q.to
    BY <1>0, <1>4 DEF RequestRows
  <2>3. /\ q.on \in In(folders) /\ q.on \notin DefaultsIn(folders) /\ q.row = folders[q.on]
        /\ q.to \in FolderIds \cup {Unfiled} /\ q.row \in FolderRows \cup {NoFolder}
    BY <1>0, <1>4 DEF RequestFits, MayBePut, RequestRows
  <2>4. row = Under(q.to)
    <3>1. q.row \in FolderRows /\ ~q.row.default
      BY <2>3 DEF In, DefaultsIn
    <3>. QED  BY <2>3, <3>1, RowsAreMoved DEF row
  <2>. HIDE DEF k, row
  <2>5. Below(folders, q.on) = Descendants(q.on) \cup {q.on}
    BY <2>3, TreeIsOfTheRows, DescendantsAreBelow
  <2>6. ASSUME q.to # Unfiled
        PROVE  /\ q.to \in In(folders) \ Below(folders, q.on)
               /\ \A g \in Below(folders, q.on) :
                     Deep(folders, q.to) + 1 + Deep(folders, g) <= MaxDepth + Deep(folders, q.on)
    <3>1. Exists(q.to) /\ q.to \notin Descendants(q.on) \cup {q.on} /\ Fits(q.on, q.to)
      BY <2>1, <2>6 DEF MayMove
    <3>2. q.to \in In(folders)
      BY <2>3, <2>6, <3>1 DEF Exists, In
    <3>3. \A g : Depth(g) = Deep(folders, g)
      BY TreeIsOfTheRows
    <3>. QED  BY <2>5, <3>1, <3>2, <3>3 DEF Fits
  <2>7. RequestFits(folders, saves, r, k)
    BY <1>0, <2>2, <2>3, <2>4, <2>6
       DEF RequestFits, StepsAreOf, MayBePut, MayBeDropped, FiledWhereItIs
  <2>. QED  BY <1>0, <1>4, <2>1, <2>2, <2>7, TreeStaysAsItIs
<1>5. CASE q.op = "drop" /\ ~Ends(r)
  <2>. DEFINE doomed == {q.on} \cup Descendants(q.on)
              k == [q EXCEPT !.pc = "empty", !.todo = doomed, !.left = doomed]
  <2>1. request' = [request EXCEPT ![r] = k]
    BY <1>5 DEF SurveyFolders
  <2>2. /\ k.pc = "empty" /\ k.op = "drop" /\ k.todo = doomed /\ k.left = doomed
        /\ k.on = q.on /\ k.home = q.home
    BY <1>0, <1>5 DEF RequestRows
  <2>3. /\ q.on \notin DefaultsIn(folders) \cup (Requests \X {"default"})
        /\ q.home \in DefaultsIn(folders)
    BY <1>0, <1>5 DEF RequestFits, MayBeDropped
  <2>. HIDE DEF k
  <2>4. ASSUME NEW g \in In(folders), folders[g].parent \in doomed PROVE g \in doomed
    <3>1. ASSUME folders[g].parent = q.on PROVE g \in doomed
      <4>1. g \in Above(g)
        BY TreeIsOfTheRows, UpIsAWalk DEF IsWalk
      <4>. QED  BY <3>1, <4>1, TreeIsOfTheRows DEF Descendants
    <3>2. ASSUME folders[g].parent \in Descendants(q.on) PROVE g \in doomed
      <4>. DEFINE p == folders[g].parent
      <4>1. p \in In(folders) /\ \E h \in Above(p) : folders[h].parent = q.on
        BY <3>2, TreeIsOfTheRows DEF Descendants
      <4>2. Above(p) \subseteq Above(g)
        BY TreeIsOfTheRows, OneStepUp
      <4>. QED  BY <4>1, <4>2, TreeIsOfTheRows DEF Descendants
    <3>. QED  BY <2>4, <3>1, <3>2
  <2>5. ASSUME NEW g \in doomed, g \in DefaultsIn(folders) PROVE FALSE
    <3>1. g \in Descendants(q.on)
      BY <2>3, <2>5
    <3>2. g \in In(folders) /\ folders[g].parent = Unfiled
      BY <2>5, <3>1, TreeIsOfTheRows DEF Descendants, DefaultsIn, TreeIsRight, IsForest
    <3>3. Above(g) = {g}
      <4>1. Unfiled \notin In(folders)
        BY SavesAssumption DEF In
      <4>. QED  BY <3>2, <4>1, TreeIsOfTheRows, OneStepUp, NoWayFromNowhere
    <3>4. Unfiled = q.on
      BY <3>1, <3>2, <3>3 DEF Descendants
    <3>. QED  BY <1>5, <3>4, SavesAssumption DEF FilingFits
  <2>6. RequestFits(folders, saves, r, k)
    BY <1>0, <2>2, <2>3, <2>4, <2>5
       DEF RequestFits, StepsAreOf, MayBePut, MayBeDropped, FiledWhereItIs
  <2>. QED  BY <1>0, <1>5, <2>1, <2>2, <2>6, TreeStaysAsItIs
<1>. QED  BY <1>0, <1>1, <1>2, <1>3, <1>4, <1>5 DEF SurveyFolders

\* The default folder is one of the rows that are there.
LEMMA DefaultsAreThere ==
    DefaultsIn(folders) = Defaults /\ (FoldersTypeOK => Defaults \subseteq In(folders))
  BY DEF DefaultsIn, Defaults, In, NoFolder

\* A deletion lists the saves it still has to move.
LEMMA TreeOutlastsLists ==
    ASSUME NEW r \in Requests, request \in RequestTypes, TreeIsRight, ListFolder(r)
    PROVE  TreeIsRight'
<1>. DEFINE q == request[r]
<1>0. /\ UNCHANGED <<folders, saves>> /\ q.pc = "empty" /\ Working(r) /\ q.moving = {}
      /\ RequestFits(folders, saves, r, q) /\ q \in RequestRows
  BY DEF ListFolder, Pc, saveVars, Working, TreeIsRight, RequestTypes
<1>1. q.op = "drop"
  BY <1>0 DEF RequestFits, StepsAreOf
<1>2. CASE Emptied(r)
  <2>. DEFINE k == [q EXCEPT !.pc = "delete"]
  <2>1. request' = [request EXCEPT ![r] = k] /\ q.todo = {}
    BY <1>2 DEF ListFolder, Goes, Emptied
  <2>2. /\ k.pc = "delete" /\ k.op = "drop" /\ k.on = q.on /\ k.home = q.home
        /\ k.left = q.left
    BY <1>0, <1>1 DEF RequestRows
  <2>. HIDE DEF k
  <2>3. MayBeDropped(folders, saves, k)
    BY <1>0, <1>1, <2>1, <2>2 DEF RequestFits, MayBeDropped
  <2>4. RequestFits(folders, saves, r, k)
    BY <1>0, <2>2, <2>3 DEF RequestFits, StepsAreOf, MayBePut, FiledWhereItIs
  <2>. QED  BY <1>0, <1>1, <2>1, <2>2, <2>4, TreeStaysAsItIs
<1>3. CASE ~Emptied(r)
  <2>1. PICK f \in q.todo :
           request' = [request EXCEPT
               ![r] = [request[r] EXCEPT
                          !.todo = @ \ {f},
                          !.moving = {i \in Items : Visible(i) /\ saves[i].folder = f}]]
    BY <1>3 DEF ListFolder
  <2>. DEFINE filed == {i \in Items : Visible(i) /\ saves[i].folder = f}
              k == [q EXCEPT !.todo = q.todo \ {f}, !.moving = filed]
  <2>2. /\ k.pc = "empty" /\ k.op = "drop" /\ k.on = q.on /\ k.home = q.home
        /\ k.left = q.left /\ k.todo = q.todo \ {f} /\ k.moving = filed
    BY <1>0, <1>1 DEF RequestRows
  <2>3. request' = [request EXCEPT ![r] = k]
    BY <2>1
  <2>. HIDE DEF k
  <2>4. ASSUME NEW i \in Items, saves[i].state = "visible", saves[i].folder \in k.left
        PROVE  saves[i].folder \in k.todo \/ i \in k.moving
    <3>1. saves[i].folder \in q.todo
      BY <1>0, <1>1, <2>2, <2>4 DEF RequestFits, MayBeDropped
    <3>2. saves[i].folder = f => i \in filed
      BY <2>4 DEF Visible
    <3>. QED  BY <2>2, <3>1, <3>2
  <2>5. MayBeDropped(folders, saves, k)
    BY <1>0, <1>1, <2>2, <2>4 DEF RequestFits, MayBeDropped
  <2>6. RequestFits(folders, saves, r, k)
    BY <1>0, <2>2, <2>5 DEF RequestFits, StepsAreOf, MayBePut, FiledWhereItIs
  <2>. QED  BY <1>0, <1>1, <2>2, <2>3, <2>6, TreeStaysAsItIs
<1>. QED  BY <1>2, <1>3

\* A step that only goes on to a step that asks for nothing.
LEMMA TreeOutlastsSearches ==
    ASSUME NEW r \in Requests, request \in RequestTypes, TreeIsRight, Working(r),
           NEW pc \in {"target", "default", "putDefault"}, Goes(r, pc),
           pc = "target" => Pc(r) = "find",
           pc = "default" => Pc(r) = "target", pc = "putDefault" => Pc(r) = "default",
           UNCHANGED <<folders, saves>>
    PROVE  TreeIsRight'
<1>. DEFINE q == request[r]
            k == [q EXCEPT !.pc = pc]
<1>1. RequestFits(folders, saves, r, q) /\ q \in RequestRows /\ q.pc = Pc(r)
  BY DEF TreeIsRight, RequestTypes, Pc
<1>2. k.pc = pc /\ k.op = q.op /\ k.on = q.on
  BY <1>1 DEF RequestRows
<1>3. request' = [request EXCEPT ![r] = k]
  BY DEF Goes
<1>. HIDE DEF k
<1>4. StepsAreOf(k)
  BY <1>1, <1>2 DEF RequestFits, StepsAreOf
<1>5. MayBeDropped(folders, saves, k)
  BY <1>1, <1>2 DEF RequestFits, StepsAreOf, MayBeDropped
<1>6. RequestFits(folders, saves, r, k)
  BY <1>1, <1>2, <1>4, <1>5 DEF RequestFits, MayBePut, FiledWhereItIs
<1>. QED  BY <1>2, <1>3, <1>6, TreeStaysAsItIs

\* Looking something up.
LEMMA TreeOutlastsTargets ==
    ASSUME NEW r \in Requests, request \in RequestTypes, FoldersTypeOK, TreeIsRight,
           EnsureDefault(r) \/ FindSave(r) \/ FindTarget(r) \/ SaveUnfiled(r) \/ RequestRaises(r)
    PROVE  TreeIsRight'
<1>0. UNCHANGED <<folders, saves>>
  BY DEF EnsureDefault, FindSave, FindTarget, SaveUnfiled, RequestRaises, saveVars
<1>1. CASE EnsureDefault(r)
  <2>1. Pc(r) = "default" /\ Working(r)
    BY <1>1 DEF EnsureDefault, Working
  <2>2. (\E f \in Defaults : AfterDefault(r, f)) \/ Goes(r, "putDefault")
    BY <1>1 DEF EnsureDefault
  <2>3. ASSUME NEW f \in Defaults, AfterDefault(r, f) PROVE TreeIsRight'
    BY <1>0, <2>1, <2>3, DefaultsAreThere, TreeOutlastsDefaults
  <2>4. CASE Goes(r, "putDefault")
    BY <1>0, <2>1, <2>4, TreeOutlastsSearches
  <2>. QED  BY <2>2, <2>3, <2>4
<1>2. CASE FindSave(r)
  <2>1. Pc(r) = "find" /\ Working(r) /\ (Goes(r, "target") \/ Ends(r))
    BY <1>2 DEF FindSave, Working
  <2>2. CASE Goes(r, "target")
    BY <1>0, <2>1, <2>2, TreeOutlastsSearches
  <2>. QED  BY <1>0, <2>1, <2>2, RequestsMayEnd
<1>3. CASE FindTarget(r)
  <2>. DEFINE to == request[r].to
  <2>1. Pc(r) = "target" /\ Working(r) /\ to \in FolderIds \cup {Unfiled}
    BY <1>3 DEF FindTarget, Working, RequestTypes, RequestRows
  <2>2. Goes(r, "default") \/ Ends(r) \/ (to # Unfiled /\ Exists(to) /\ AfterDefault(r, to))
    BY <1>3 DEF FindTarget
  <2>3. CASE Goes(r, "default")
    BY <1>0, <2>1, <2>3, TreeOutlastsSearches
  <2>4. CASE to # Unfiled /\ Exists(to) /\ AfterDefault(r, to)
    BY <1>0, <2>1, <2>4, TreeOutlastsDefaults DEF In, Exists
  <2>. QED  BY <1>0, <2>2, <2>3, <2>4, RequestsMayEnd
<1>4. CASE SaveUnfiled(r)
  BY <1>0, <1>4, TreeOutlastsDefaults DEF SaveUnfiled
<1>5. CASE RequestRaises(r)
  BY <1>0, <1>5, RequestsMayEnd DEF RequestRaises
<1>. QED  BY <1>1, <1>2, <1>3, <1>4, <1>5

\* Whoever is not kept apart from a request that adds a folder does not mind.
LEMMA RequestsOutlastLeaves ==
    ASSUME NEW F, NEW n, NEW row, NEW G, Leaf(F, n, row, G),
           row.default => n \in Requests \X {"default"},
           NEW S, NEW q \in Requests, NEW k \in RequestRows, RequestFits(F, S, q, k),
           n # <<q, "own">>,
           \/ k.pc \in {"idle", "done"}
           \/ row.default /\ (k.op = "drop" => k.pc \in {"get", "default", "putDefault"})
           \/ ~row.default /\ k.op \notin {"drop", "move"}
    PROVE  RequestFits(G, S, q, k)
<1>1. /\ G \in Rows
      /\ In(G) = In(F) \cup {n} /\ \A f \in In(F) : G[f] = F[f]
  BY LeavesAreAdded
<1>2. /\ G[n] = row /\ \A f \in FolderIds : f # n => G[f] = F[f]
      /\ n \notin In(F)
  BY DEF Rows, Leaf
<1>3. ASSUME NEW f, f # n PROVE Deep(G, f) = Deep(F, f) /\ Up(G, f) = Up(F, f)
  BY <1>3, LeavesChangeNoWay
<1>4. StepsAreOf(k) /\ FiledWhereItIs(G, k)
  BY <1>1 DEF RequestFits, FiledWhereItIs
<1>5. k.pc # "done" => <<q, "own">> \notin In(G)
  BY <1>1 DEF RequestFits
<1>6. \A f \in In(F) : f \in DefaultsIn(F) <=> f \in DefaultsIn(G)
  BY <1>1, <1>2 DEF DefaultsIn, In
<1>8. MayBeDropped(G, S, k)
  <2>1. CASE k.op # "drop" \/ k.pc \in {"get", "idle", "done"}
    BY <2>1 DEF MayBeDropped
  <2>2. CASE k.op = "drop" /\ row.default /\ k.pc \in {"default", "putDefault"}
    <3>1. k.on \notin DefaultsIn(F) \cup (Requests \X {"default"}) /\ k.on # n
      BY <2>2 DEF RequestFits, MayBeDropped
    <3>2. k.on \notin DefaultsIn(G)
      BY <1>2, <3>1 DEF DefaultsIn
    <3>. QED  BY <2>2, <3>1, <3>2 DEF MayBeDropped
  <2>. QED  BY <2>1, <2>2
<1>9. MayBePut(G, q, k)
  <2>0. MayBePut(F, q, k) /\ k.to \in FolderIds \cup {Unfiled}
    BY DEF RequestFits, RequestRows
  <2>1. CASE k.pc = "put" /\ k.op = "create"
    <3>1. k.to # n
      BY <1>2, <2>0, <2>1, SavesAssumption DEF MayBePut, Leaf
    <3>. QED  BY <1>1, <1>3, <2>0, <2>1, <3>1 DEF MayBePut
  <2>2. CASE k.pc \in {"survey", "put"} /\ k.op = "rename"
    BY <1>1, <1>6, <2>0, <2>2 DEF MayBePut
  <2>3. CASE k.pc = "survey" /\ k.op = "move"
    BY <1>1, <1>6, <2>0, <2>3 DEF MayBePut
  <2>4. CASE k.pc = "put" /\ k.op = "move"
    <3>1. row.parent = Unfiled /\ k.on \in In(F) /\ k.on # n
      BY <1>2, <2>0, <2>4 DEF MayBePut, Leaf
    <3>2. Up(G, n) = {n}
      <4>1. Unfiled \notin In(G)
        BY SavesAssumption DEF In
      <4>. QED  BY <1>1, <1>2, <3>1, <4>1, OneStepUp, NoWayFromNowhere
    <3>3. Below(G, k.on) = Below(F, k.on) /\ n \notin Below(F, k.on)
      BY <1>1, <1>2, <1>3, <3>1, <3>2 DEF Below
    <3>4. k.to # n
      BY <1>2, <2>0, <2>4, SavesAssumption DEF MayBePut, Leaf
    <3>5. \A g \in Below(F, k.on) : Deep(G, g) = Deep(F, g)
      BY <1>3, <3>3
    <3>6. k.on \in In(G) \ DefaultsIn(G)
      BY <1>1, <1>6, <2>0, <2>4 DEF MayBePut
    <3>7. k.to # Unfiled =>
                \A g \in Below(G, k.on) : Deep(G, k.to) + 1 + Deep(G, g) <= MaxDepth + Deep(G, k.on)
      BY <1>3, <2>0, <2>4, <3>1, <3>3, <3>4, <3>5 DEF MayBePut
    <3>. QED  BY <1>1, <2>0, <2>4, <3>3, <3>6, <3>7 DEF MayBePut
  <2>5. CASE k.pc \notin {"survey", "put"} \/ k.op \notin {"create", "rename", "move"}
    BY <2>5 DEF MayBePut
  <2>6. k.pc = "survey" /\ k.op = "create" => MayBePut(G, q, k)
    BY DEF MayBePut
  <2>. QED  BY <2>1, <2>2, <2>3, <2>4, <2>5, <2>6
<1>. QED  BY <1>4, <1>5, <1>8, <1>9 DEF RequestFits

\* The default folder is put when there is none.
LEMMA TreeOutlastsNewDefaults ==
    ASSUME NEW r \in Requests, request \in RequestTypes, FoldersTypeOK, TreeIsRight,
           PutDefault(r), ~crossed'
    PROVE  TreeIsRight'
<1>. DEFINE n == <<r, "default">>
<1>0. /\ Pc(r) = "default" \/ Pc(r) = "putDefault"
      /\ folders' = [folders EXCEPT ![n] = Default]
      /\ AfterDefault(r, n) /\ Defaults = {} /\ UNCHANGED saves /\ Working(r)
  BY DEF PutDefault, saveVars, Working
<1>1. folders \in Rows /\ n \in FolderIds
  BY DEF FoldersTypeOK, Rows, FolderIds
<1>2. DefaultsIn(folders) = {} /\ n \notin In(folders) /\ IsForest(folders)
  BY <1>0, DefaultsAreThere DEF TreeIsRight, DefaultsFit
<1>3. /\ Default \in FolderRows /\ Default # NoFolder /\ Default.parent = Unfiled
      /\ Default.default
  BY DEF Default, FolderRows, NoFolder
<1>4. Deep(folders, Default.parent) < MaxDepth
  <2>1. Deep(folders, Unfiled) = 0
    BY NowhereIsNotDeep, SavesAssumption DEF In
  <2>. QED  BY <1>3, <2>1, FoldersAssumption
<1>a. Leaf(folders, n, Default, folders')
  BY <1>0, <1>1, <1>2, <1>3, <1>4 DEF Leaf
<1>5. /\ folders' \in Rows /\ IsForest(folders')
      /\ In(folders') = In(folders) \cup {n} /\ \A f \in In(folders) : folders'[f] = folders[f]
  BY <1>a, LeavesAreAdded
<1>6. DefaultsIn(folders') = {n}
  BY <1>0, <1>1, <1>2, <1>3 DEF DefaultsIn, Rows
<1>7. DefaultsFit(folders')
  BY <1>2, <1>5, <1>6 DEF DefaultsFit, TreeIsRight
<1>8. SavesAreFiled(folders', saves')
  BY <1>0, <1>5 DEF SavesAreFiled, TreeIsRight
<1>9. ASSUME NEW q \in Requests PROVE RequestFits(folders', saves', q, request[q])
  <2>1. RequestFits(folders, saves, q, request[q]) /\ request[q] \in RequestRows
    BY DEF TreeIsRight, RequestTypes
  <2>2. request[q].op = "drop" => request[q].pc \notin {"survey", "empty", "delete"}
    BY <1>2, <2>1 DEF RequestFits, MayBeDropped
  <2>3. request[q].op = "drop" => request[q].pc \in {"idle", "done", "get", "default", "putDefault"}
    BY <2>1, <2>2 DEF RequestFits, StepsAreOf, RequestRows, RequestSteps
  <2>4. n # <<q, "own">> /\ n \in Requests \X {"default"}
    OBVIOUS
  <2>. HIDE DEF n, Default
  <2>. QED  BY <1>0, <1>3, <1>a, <2>1, <2>3, <2>4, RequestsOutlastLeaves
<1>10. CASE Ends(r)
  BY <1>5, <1>7, <1>8, <1>9, <1>10, TreeOutlastsItsRequests
<1>11. CASE ~Ends(r)
  <2>. DEFINE pc == IF request[r].op \in {"create", "drop"} THEN "survey" ELSE "file"
              k == [request[r] EXCEPT !.home = n, !.at = clock, !.pc = pc]
  <2>1. request' = [request EXCEPT ![r] = k] /\ request[r].op # "list"
    BY <1>0, <1>11 DEF AfterDefault
  <2>2. k.pc = pc /\ k.op = request[r].op /\ k.home = n /\ k.on = request[r].on
    BY DEF RequestTypes, RequestRows
  <2>3. RequestFits(folders', saves', r, request[r])
    BY <1>9
  <2>. HIDE DEF k
  <2>4. StepsAreOf(k)
    BY <1>0, <2>1, <2>2, <2>3 DEF RequestFits, StepsAreOf, Pc
  <2>5. MayBePut(folders', r, k)
    BY <2>1, <2>2, <2>3 DEF MayBePut
  <2>6. MayBeDropped(folders', saves', k)
    BY <1>0, <1>6, <2>1, <2>2, <2>3 DEF RequestFits, MayBeDropped, Pc
  <2>7. FiledWhereItIs(folders', k)
    BY <1>5, <2>2 DEF FiledWhereItIs
  <2>8. RequestFits(folders', saves', r, k)
    BY <1>0, <2>2, <2>3, <2>4, <2>5, <2>6, <2>7 DEF RequestFits, Pc
  <2>. HIDE DEF n
  <2>. QED  BY <1>0, <1>5, <1>7, <1>8, <1>9, <2>1, <2>2, <2>8, TreeStays
<1>. QED  BY <1>10, <1>11

\* A new folder is put under the parent that was found, not deeper than allowed.
LEMMA TreeOutlastsCreations ==
    ASSUME NEW r \in Requests, request \in RequestTypes, FoldersTypeOK, TreeIsRight,
           PutFolder(r), request[r].op = "create"
    PROVE  TreeIsRight'
<1>. DEFINE k == request[r]
            n == k.on
            row == k.row
<1>0. /\ k.pc = "put" /\ folders' = [folders EXCEPT ![n] = row] /\ Ends(r) /\ UNCHANGED saves
      /\ Working(r) /\ RequestFits(folders, saves, r, k) /\ k \in RequestRows
  BY DEF PutFolder, saveVars, Working, Pc, TreeIsRight, RequestTypes
<1>1. /\ n = <<r, "own">> /\ n \in FolderIds \ In(folders) /\ row = Under(k.to)
      /\ k.to # Unfiled => k.to \in In(folders)
      /\ Deep(folders, k.to) < MaxDepth
  BY <1>0 DEF RequestFits, MayBePut, FolderIds
<1>2. row \in FolderRows /\ row # NoFolder /\ row.parent = k.to /\ ~row.default
  BY <1>0, <1>1 DEF RequestRows, Under, FolderRows, NoFolder
<1>3. folders \in Rows /\ IsForest(folders)
  BY DEF FoldersTypeOK, Rows, TreeIsRight
<1>. HIDE DEF n, row
<1>4. Leaf(folders, n, row, folders')
  BY <1>0, <1>1, <1>2, <1>3 DEF Leaf
<1>5. /\ folders' \in Rows /\ IsForest(folders')
      /\ In(folders') = In(folders) \cup {n} /\ \A f \in In(folders) : folders'[f] = folders[f]
  BY <1>4, LeavesAreAdded
<1>6. DefaultsIn(folders') = DefaultsIn(folders)
  BY <1>0, <1>1, <1>2, <1>3 DEF DefaultsIn, Rows, In, NoFolder
<1>7. DefaultsFit(folders')
  BY <1>1, <1>5, <1>6 DEF DefaultsFit, TreeIsRight
<1>8. SavesAreFiled(folders', saves')
  BY <1>0, <1>5 DEF SavesAreFiled, TreeIsRight
<1>9. ASSUME NEW q \in Requests \ {r} PROVE RequestFits(folders', saves', q, request[q])
  <2>1. RequestFits(folders, saves, q, request[q]) /\ request[q] \in RequestRows
    BY DEF TreeIsRight, RequestTypes
  <2>2. Working(q) => request[q].op \notin {"drop", "move"}
    BY <1>0 DEF TreeIsRight, KeptApart, Clash
  <2>3. request[q].pc \in {"idle", "done"} \/ request[q].op \notin {"drop", "move"}
    BY <2>2 DEF Working, Pc
  <2>4. n # <<q, "own">>
    BY <1>1
  <2>. QED  BY <1>0, <1>2, <1>4, <2>1, <2>3, <2>4, RequestsOutlastLeaves
<1>. QED  BY <1>0, <1>5, <1>7, <1>8, <1>9, TreeOutlastsItsRequests

\* A row is put back as it was read.
LEMMA TreeOutlastsRenamings ==
    ASSUME NEW r \in Requests, request \in RequestTypes, FoldersTypeOK, TreeIsRight,
           PutFolder(r), request[r].op = "rename"
    PROVE  TreeIsRight'
<1>. DEFINE k == request[r]
<1>0. /\ k.pc = "put" /\ folders' = [folders EXCEPT ![k.on] = k.row] /\ Ends(r) /\ UNCHANGED saves
      /\ RequestFits(folders, saves, r, k)
  BY DEF PutFolder, saveVars, Pc, TreeIsRight
<1>1. k.row = folders[k.on]
  BY <1>0 DEF RequestFits, MayBePut
<1>2. folders' = folders
  BY <1>0, <1>1 DEF FoldersTypeOK
<1>. QED  BY <1>0, <1>2, RequestsMayEnd

\* Whoever is not kept apart from a move only wants the folders to be there.
LEMMA TreeOutlastsMoves ==
    ASSUME NEW r \in Requests, request \in RequestTypes, FoldersTypeOK, TreeIsRight,
           PutFolder(r), request[r].op = "move"
    PROVE  TreeIsRight'
<1>. DEFINE k == request[r]
            m == k.on
            row == k.row
<1>0. /\ k.pc = "put" /\ folders' = [folders EXCEPT ![m] = row] /\ Ends(r) /\ UNCHANGED saves
      /\ Working(r) /\ RequestFits(folders, saves, r, k) /\ k \in RequestRows
  BY DEF PutFolder, saveVars, Working, Pc, TreeIsRight, RequestTypes
<1>1. /\ m \in In(folders) /\ m \notin DefaultsIn(folders) /\ row = Under(k.to)
      /\ k.to # Unfiled => k.to \in In(folders) \ Below(folders, m)
      /\ k.to # Unfiled => \A g \in Below(folders, m) :
            Deep(folders, k.to) + 1 + Deep(folders, g) <= MaxDepth + Deep(folders, m)
  BY <1>0 DEF RequestFits, MayBePut
<1>2. row \in FolderRows /\ row # NoFolder /\ row.parent = k.to /\ ~row.default
  BY <1>0, <1>1 DEF RequestRows, Under, FolderRows, NoFolder
<1>3. folders \in Rows /\ IsForest(folders)
  BY DEF FoldersTypeOK, Rows, TreeIsRight
<1>. HIDE DEF m, row
<1>4. Fitting(folders, m, row, folders')
  BY <1>0, <1>1, <1>2, <1>3 DEF Fitting
<1>5. folders' \in Rows /\ IsForest(folders') /\ In(folders') = In(folders)
  BY <1>4, TreesAreMoved
<1>6. DefaultsIn(folders') = DefaultsIn(folders)
  BY <1>0, <1>1, <1>2, <1>3 DEF DefaultsIn, Rows, In
<1>7. DefaultsFit(folders')
  BY <1>5, <1>6 DEF DefaultsFit, TreeIsRight
<1>8. SavesAreFiled(folders', saves')
  BY <1>0, <1>5 DEF SavesAreFiled, TreeIsRight
<1>9. ASSUME NEW q \in Requests \ {r} PROVE RequestFits(folders', saves', q, request[q])
  <2>1. RequestFits(folders, saves, q, request[q])
    BY DEF TreeIsRight
  <2>2. Working(q) => request[q].op \in {"list", "save", "assign"}
    BY <1>0 DEF TreeIsRight, KeptApart, Clash, RequestTypes, RequestRows, FolderOps
  <2>3. request[q].pc \in {"idle", "done"} \/ request[q].op \in {"list", "save", "assign"}
    BY <2>2 DEF Working, Pc
  <2>4. MayBePut(folders', q, request[q]) /\ MayBeDropped(folders', saves', request[q])
    BY <2>3 DEF MayBePut, MayBeDropped
  <2>. QED  BY <1>5, <2>1, <2>4 DEF RequestFits, FiledWhereItIs
<1>. QED  BY <1>0, <1>5, <1>7, <1>8, <1>9, TreeOutlastsItsRequests

\* A new folder, a renamed and a moved one.
LEMMA TreeOutlastsPuts ==
    ASSUME NEW r \in Requests, request \in RequestTypes, FoldersTypeOK, TreeIsRight,
           PutFolder(r)
    PROVE  TreeIsRight'
<1>1. request[r].op \in {"create", "move", "rename"}
  BY DEF PutFolder, Pc, TreeIsRight, RequestFits, StepsAreOf
<1>. QED  BY <1>1, TreeOutlastsCreations, TreeOutlastsRenamings, TreeOutlastsMoves

\* What a deletion has not deleted yet is still emptied and without a folder below it that stays.
LEMMA TreeOutlastsDeletions ==
    ASSUME NEW r \in Requests, request \in RequestTypes, FoldersTypeOK, TreeIsRight,
           DeleteFolder(r)
    PROVE  TreeIsRight'
<1>. DEFINE k == request[r]
<1>0. /\ k.pc = "delete" /\ UNCHANGED saves /\ Working(r)
      /\ RequestFits(folders, saves, r, k) /\ k \in RequestRows
  BY DEF DeleteFolder, saveVars, Working, Pc, TreeIsRight, RequestTypes
<1>1. k.op = "drop"
  BY <1>0 DEF RequestFits, StepsAreOf
<1>2. PICK f \in k.left :
          /\ NextToDelete(r, f)
          /\ folders' = [folders EXCEPT ![f] = NoFolder]
          /\ IF k.left = {f} THEN Ends(r)
             ELSE request' = [request EXCEPT ![r].left = @ \ {f}]
  BY DEF DeleteFolder
<1>3. /\ k.home \in DefaultsIn(folders) /\ k.left \cap DefaultsIn(folders) = {}
      /\ \A g \in In(folders) : folders[g].parent \in k.left => g \in k.left
      /\ \A i \in Items : ~(saves[i].state = "visible" /\ saves[i].folder \in k.left)
  BY <1>0, <1>1 DEF RequestFits, MayBeDropped
<1>4. f \in FolderIds /\ folders \in Rows /\ IsForest(folders)
  BY <1>0 DEF RequestRows, FoldersTypeOK, Rows, TreeIsRight
<1>a. ASSUME NEW g \in In(folders) PROVE folders[g].parent # f
  BY <1>2, <1>3 DEF NextToDelete, Exists, In
<1>5. Bare(folders, f, folders')
  BY <1>2, <1>4, <1>a DEF Bare
<1>6. /\ folders' \in Rows /\ IsForest(folders')
      /\ In(folders') = In(folders) \ {f} /\ \A g \in In(folders') : folders'[g] = folders[g]
  BY <1>5, LeavesAreTaken
<1>7. DefaultsIn(folders') = DefaultsIn(folders)
  BY <1>2, <1>3, <1>4 DEF DefaultsIn, Rows, NoFolder
<1>8. DefaultsFit(folders')
  BY <1>6, <1>7 DEF DefaultsFit, TreeIsRight
<1>9. SavesAreFiled(folders', saves')
  BY <1>0, <1>2, <1>3, <1>6 DEF SavesAreFiled, TreeIsRight
<1>10. ASSUME NEW q \in Requests, Working(q) => request[q].op \in {"drop", "list"}
       PROVE  RequestFits(folders', saves', q, request[q])
  <2>1. RequestFits(folders, saves, q, request[q])
    BY DEF TreeIsRight
  <2>2. request[q].pc \in {"idle", "done"} \/ request[q].op \in {"list", "drop"}
    BY <1>10 DEF Working, Pc
  <2>3. MayBePut(folders', q, request[q]) /\ FiledWhereItIs(folders', request[q])
    BY <2>2 DEF MayBePut, FiledWhereItIs
  <2>4. MayBeDropped(folders', saves', request[q])
    BY <1>0, <1>6, <1>7, <2>1 DEF RequestFits, MayBeDropped
  <2>. QED  BY <1>6, <2>1, <2>3, <2>4 DEF RequestFits
<1>11. \A q \in Requests \ {r} : RequestFits(folders', saves', q, request[q])
  <2>1. ASSUME NEW q \in Requests \ {r}, Working(q) PROVE request[q].op \in {"drop", "list"}
    BY <1>0, <1>1, <2>1 DEF TreeIsRight, KeptApart, Clash, RequestTypes, RequestRows, FolderOps
  <2>. QED  BY <1>10, <2>1
<1>12. CASE k.left = {f}
  BY <1>2, <1>6, <1>8, <1>9, <1>11, <1>12, TreeOutlastsItsRequests
<1>13. CASE k.left # {f}
  <2>. DEFINE l == [k EXCEPT !.left = k.left \ {f}]
  <2>1. request' = [request EXCEPT ![r] = l]
    BY <1>2, <1>13
  <2>2. /\ l.pc = "delete" /\ l.op = "drop" /\ l.left = k.left \ {f} /\ l.on = k.on
        /\ l.home = k.home
    BY <1>0, <1>1 DEF RequestRows
  <2>. HIDE DEF l
  <2>3. RequestFits(folders', saves', r, k)
    BY <1>1, <1>10
  <2>4. ASSUME NEW g \in In(folders'), folders'[g].parent \in l.left PROVE g \in l.left
    BY <1>3, <1>6, <2>2, <2>4
  <2>5. MayBeDropped(folders', saves', l)
    BY <1>0, <1>1, <1>3, <1>7, <2>2, <2>3, <2>4 DEF RequestFits, MayBeDropped
  <2>6. RequestFits(folders', saves', r, l)
    BY <1>0, <2>2, <2>3, <2>5 DEF RequestFits, StepsAreOf, MayBePut, FiledWhereItIs
  <2>. QED  BY <1>0, <1>1, <1>6, <1>8, <1>9, <1>11, <2>1, <2>2, <2>6, TreeStays
<1>. QED  BY <1>12, <1>13

\* A save is filed under a folder that is there and that nobody is deleting.
LEMMA TreeOutlastsFiling ==
    ASSUME NEW r \in Requests, FilingFits, request \in RequestTypes, TreeIsRight, SavesTypeOK,
           FileSave(r)
    PROVE  TreeIsRight'
<1>. DEFINE k == request[r]
            i == k.on
            home == k.home
<1>0. /\ UNCHANGED folders /\ k.pc = "file" /\ Working(r) /\ Ends(r)
      /\ RequestFits(folders, saves, r, k)
  BY DEF FileSave, Working, Pc, TreeIsRight
<1>1. k.op \in {"save", "assign"} /\ (home # Unfiled => home \in In(folders))
  BY <1>0 DEF RequestFits, StepsAreOf, FiledWhereItIs
<1>2. ASSUME NEW j \in Items
      PROVE  saves'[j] = saves[j] \/ saves'[j].folder = home
  BY <1>2 DEF FileSave, Stored, Refile, SavesTypeOK, SaveRows, Held, NoSave, GoneSave
<1>3. ASSUME NEW j \in Items, saves'[j].state = "visible", saves'[j].folder # home
      PROVE  saves[j].state = "visible" /\ saves'[j].folder = saves[j].folder
  BY <1>2, <1>3
<1>4. SavesAreFiled(folders', saves')
  BY <1>0, <1>1, <1>3 DEF SavesAreFiled, TreeIsRight
<1>5. ASSUME NEW q \in Requests \ {r} PROVE RequestFits(folders', saves', q, request[q])
  <2>1. RequestFits(folders, saves, q, request[q])
    BY DEF TreeIsRight
  <2>2. Working(q) => request[q].op # "drop"
    BY <1>0, <1>1 DEF TreeIsRight, KeptApart, Clash
  <2>3. MayBeDropped(folders', saves', request[q])
    BY <2>2 DEF MayBeDropped, Working, Pc
  <2>. QED  BY <1>0, <2>1, <2>3 DEF RequestFits
<1>6. IsForest(folders') /\ DefaultsFit(folders')
  BY <1>0 DEF TreeIsRight
<1>. QED  BY <1>0, <1>4, <1>5, <1>6, TreeOutlastsItsRequests

\* A save that is moved to the default folder is out of the folders that go.
LEMMA TreeOutlastsEmptying ==
    ASSUME NEW r \in Requests, request \in RequestTypes, TreeIsRight, FoldersTypeOK, SavesTypeOK,
           MoveSave(r)
    PROVE  TreeIsRight'
<1>. DEFINE k == request[r]
            home == k.home
<1>0. /\ UNCHANGED folders /\ k.pc = "empty" /\ Working(r) /\ k \in RequestRows
      /\ RequestFits(folders, saves, r, k)
  BY DEF MoveSave, Working, Pc, TreeIsRight, RequestTypes
<1>1. k.op = "drop" /\ home \in DefaultsIn(folders) /\ home \in In(folders)
  <2>1. k.op = "drop" /\ home \in DefaultsIn(folders)
    BY <1>0 DEF RequestFits, StepsAreOf, MayBeDropped
  <2>. QED  BY <2>1, DefaultsAreThere
<1>2. PICK i \in k.moving : Refile(i, home) /\ request' = [request EXCEPT ![r].moving = @ \ {i}]
  BY DEF MoveSave
<1>. DEFINE l == [k EXCEPT !.moving = k.moving \ {i}]
<1>3. request' = [request EXCEPT ![r] = l]
  BY <1>2
<1>4. /\ l.pc = "empty" /\ l.op = "drop" /\ l.left = k.left /\ l.on = k.on
      /\ l.home = k.home /\ l.todo = k.todo /\ l.moving = k.moving \ {i}
  BY <1>0, <1>1 DEF RequestRows
<1>. HIDE DEF l
<1>5. ASSUME NEW j \in Items
      PROVE  /\ saves'[j] = saves[j] \/ saves'[j].folder = home
             /\ j = i /\ saves'[j].state = "visible" => saves'[j].folder = home
  BY <1>2, <1>5 DEF Refile, Held, SavesTypeOK, SaveRows, NoSave, GoneSave
<1>6. SavesAreFiled(folders', saves')
  BY <1>0, <1>1, <1>5 DEF SavesAreFiled, TreeIsRight
<1>7. ASSUME NEW q \in Requests PROVE RequestFits(folders', saves', q, request[q])
  <2>1. RequestFits(folders, saves, q, request[q])
    BY DEF TreeIsRight
  <2>2. MayBeDropped(folders', saves', request[q])
    BY <1>0, <1>1, <1>5, <2>1 DEF RequestFits, MayBeDropped
  <2>. QED  BY <1>0, <2>1, <2>2 DEF RequestFits
<1>8. RequestFits(folders', saves', r, l)
  <2>1. RequestFits(folders', saves', r, k)
    BY <1>7
  <2>2. ASSUME NEW j \in Items, saves'[j].state = "visible", saves'[j].folder \in l.left
        PROVE  saves'[j].folder \in l.todo \/ j \in l.moving
    <3>1. saves'[j].folder \in k.todo \/ j \in k.moving
      BY <1>0, <1>1, <1>4, <2>1, <2>2 DEF RequestFits, MayBeDropped
    <3>2. home \notin k.left
      BY <1>0, <1>1 DEF RequestFits, MayBeDropped
    <3>3. j # i
      BY <1>4, <1>5, <2>2, <3>2
    <3>. QED  BY <1>4, <3>1, <3>3
  <2>3. MayBeDropped(folders', saves', l)
    BY <1>0, <1>1, <1>4, <2>1, <2>2 DEF RequestFits, MayBeDropped
  <2>. QED  BY <1>0, <1>4, <2>1, <2>3 DEF RequestFits, StepsAreOf, MayBePut, FiledWhereItIs
<1>9. IsForest(folders') /\ DefaultsFit(folders')
  BY <1>0 DEF TreeIsRight
<1>. QED  BY <1>0, <1>1, <1>3, <1>4, <1>6, <1>7, <1>8, <1>9, TreeStays

\* Every step of a request keeps the tree.
LEMMA TreeSurvivesRequests ==
    ASSUME NEW r \in Requests, Filing, TreeIsRight, FolderStep(r), ~crossed'
    PROVE  TreeIsRight'
<1>1. request \in RequestTypes /\ FoldersTypeOK /\ SavesTypeOK /\ FilingFits
  BY DEF Filing, FoldersTypeOK, RequestTypes, RequestRows
<1>2. CASE Arrives(r)
  BY <1>1, <1>2, ArrivalsHaveASubject, TreeOutlastsArrivals
<1>. QED  BY <1>1, <1>2, TreeOutlastsReadings, TreeOutlastsTargets, TreeOutlastsNewDefaults,
             TreeOutlastsSurveys, TreeOutlastsPuts, TreeOutlastsLists, TreeOutlastsEmptying,
             TreeOutlastsDeletions, TreeOutlastsFiling DEF FolderStep

\* The other components delete and sweep saves, which are in no folder then.
LEMMA TreeSurvivesTheOthers ==
    ASSUME TreeIsRight, UNCHANGED folderVars,
           \A i \in Items : saves'[i].state = "visible" => saves'[i] = saves[i]
    PROVE  TreeIsRight'
<1>1. UNCHANGED <<folders, request>>
  BY DEF folderVars
<1>2. ASSUME NEW q \in Requests PROVE RequestFits(folders', saves', q, request'[q])
  <2>1. RequestFits(folders, saves, q, request[q])
    BY DEF TreeIsRight
  <2>2. MayBeDropped(folders', saves', request'[q])
    BY <1>1, <2>1 DEF RequestFits, MayBeDropped
  <2>. QED  BY <1>1, <2>1, <2>2 DEF RequestFits
<1>3. SavesAreFiled(folders', saves')
  BY <1>1 DEF SavesAreFiled, TreeIsRight
<1>4. KeptApart'
  BY <1>1 DEF TreeIsRight, KeptApart, Working, Pc
<1>. QED  BY <1>1, <1>2, <1>3, <1>4 DEF TreeIsRight

\* What the invariant says about the tree.
LEMMA RightTreesAreTrees ==
    ASSUME FoldersTypeOK, ~crossed => TreeIsRight
    PROVE  FoldersFormATree
<1>1. SUFFICES ASSUME ~crossed
      PROVE  /\ Cardinality(Defaults) <= 1
             /\ \A f \in Existing : /\ folders[f].parent # Unfiled => Exists(folders[f].parent)
                                    /\ ~Endless(f) /\ Depth(f) <= MaxDepth
             /\ \A i \in Items :
                   Visible(i) /\ saves[i].folder # Unfiled => Exists(saves[i].folder)
  BY DEF FoldersFormATree
<1>2. IsForest(folders) /\ DefaultsFit(folders) /\ SavesAreFiled(folders, saves)
  BY <1>1 DEF TreeIsRight
<1>3. Cardinality(Defaults) <= 1
  <2>1. CASE Defaults = {}
    BY <2>1, FS_EmptySet
  <2>2. CASE Defaults # {}
    <3>1. PICK f \in Defaults : TRUE
      BY <2>2
    <3>2. Defaults = {f}
      BY <1>2, <3>1, DefaultsAreThere DEF DefaultsFit
    <3>. QED  BY <3>2, FS_Singleton
  <2>. QED  BY <2>1, <2>2
<1>4. ASSUME NEW f \in Existing
      PROVE  /\ folders[f].parent # Unfiled => Exists(folders[f].parent)
             /\ ~Endless(f) /\ Depth(f) <= MaxDepth
  BY <1>2, TreeIsOfTheRows DEF IsForest, Endless, In, Exists
<1>5. ASSUME NEW i \in Items, Visible(i), saves[i].folder # Unfiled
      PROVE  Exists(saves[i].folder)
  BY <1>2, <1>5 DEF SavesAreFiled, Visible, In, Exists
<1>. QED  BY <1>3, <1>4, <1>5

\* A deletion and a sweep show no save, and leave alone what they do not hide.
LEMMA SearchesShowNothingNew ==
    ASSUME SavesTypeOK, SearchStep \/ UNCHANGED saves
    PROVE  \A i \in Items : saves'[i].state = "visible" => saves'[i] = saves[i]
<1>1. CASE UNCHANGED saves
  BY <1>1
<1>2. ASSUME NEW i \in Items, Swept(i)
      PROVE  \A j \in Items : saves'[j].state = "visible" => saves'[j] = saves[j]
  BY <1>2 DEF Swept, GoneSave, SavesTypeOK
<1>3. ASSUME NEW i, SoftDelete(i)
      PROVE  \A j \in Items : saves'[j].state = "visible" => saves'[j] = saves[j]
  BY <1>3 DEF SoftDelete, SavesTypeOK, SaveRows, Visible, NoSave, GoneSave
<1>4. CASE SearchStep
  BY <1>1, <1>2, <1>3, <1>4 DEF SearchStep, EnqueueIndexing, ReceiveNote, ClearForNote, SaveChunks,
     NoteRaises, FindRemoval, MarkDeleted, ClearForRemoval, RemovalRaises, SweepSave,
     CascadeToIndex, saveVars
<1>. QED  BY <1>1, <1>4

\* That requests overlapped is never forgotten.
LEMMA OverlapsAreRemembered ==
    ASSUME NEW r \in Requests, FolderStep(r)
    PROVE  crossed => crossed'
<1>1. CASE Arrives(r)
  BY <1>1 DEF Arrives, ArriveRequest
<1>. QED  BY <1>1 DEF FolderStep, GetFolder, EnsureDefault, PutDefault, SurveyFolders, PutFolder,
           ListFolder, MoveSave, DeleteFolder, FindSave, FindTarget, SaveUnfiled, FileSave,
           RequestRaises

\* The tree an account begins with.
LEMMA TreesAreGrown == ASSUME Init, FoldersTypeOK PROVE TreeIsRight
<1>1. PICK parents \in [Grown -> Grown \cup {Unfiled}], d \in SUBSET Grown :
          folders = [f \in FolderIds |->
             IF ~load.grown \/ f \notin Grown THEN NoFolder
             ELSE IF f \in d THEN Default ELSE Under(parents[f])]
  BY DEF Init
<1>2. Grown \subseteq FolderIds
  BY DEF FolderIds
<1>4. In(folders) = IF load.grown THEN Grown ELSE {}
  BY <1>1, <1>2 DEF In, NoFolder, Default, Under
<1>5. ASSUME NEW f \in In(folders)
      PROVE  /\ folders[f].default => folders[f].parent = Unfiled
             /\ folders[f].parent # Unfiled => folders[f].parent \in In(folders)
  BY <1>1, <1>2, <1>4 DEF Default, Under, NoFolder
<1>6. ASSUME NEW f \in In(folders)
      PROVE  f \notin Up(folders, folders[f].parent) /\ Deep(folders, f) <= MaxDepth
  <2>1. f \in Grown /\ f \in Existing
    BY <1>4, TreeIsOfTheRows
  <2>2. ~Endless(f) /\ Depth(f) <= MaxDepth
    BY <2>1 DEF Init
  <2>. QED  BY <2>1, <2>2, TreeIsOfTheRows DEF Endless, Existing
<1>7. IsForest(folders)
  BY <1>5, <1>6 DEF IsForest
<1>8. DefaultsFit(folders)
  <2>1. \A f, g \in Defaults : f = g
    <3>1. Cardinality(Defaults) <= 1 /\ IsFiniteSet(Defaults)
      BY FoldersAreFinite, FS_Subset DEF Init, Defaults
    <3>2. ASSUME NEW f \in Defaults, NEW g \in Defaults, f # g PROVE FALSE
      <4>1. IsFiniteSet({f, g}) /\ Cardinality({f, g}) = 2
        <5>1. IsFiniteSet({f}) /\ Cardinality({f}) = 1 /\ {f, g} = {f} \cup {g} /\ g \notin {f}
          BY <3>2, FS_Singleton
        <5>2. IsFiniteSet({f} \cup {g}) /\ Cardinality({f} \cup {g}) = Cardinality({f}) + 1
          BY <5>1, FS_AddElement
        <5>. QED  BY <5>1, <5>2
      <4>2. Cardinality({f, g}) <= Cardinality(Defaults) /\ Cardinality(Defaults) \in Nat
        BY <3>1, FS_Subset, FS_CardinalityType
      <4>. QED  BY <3>1, <4>1, <4>2
    <3>. QED  BY <3>2
  <2>2. \A r \in Requests : <<r, "default">> \notin In(folders)
    BY <1>4, SavesAssumption
  <2>. QED  BY <2>1, <2>2, DefaultsAreThere DEF DefaultsFit
<1>9. SavesAreFiled(folders, saves)
  <2>1. saves \in [Items -> {NoSave} \cup
          [state : {"visible"}, folder : {f \in Grown : Exists(f)} \cup {Unfiled},
           at : {1}, late : {FALSE}]]
    BY DEF Init
  <2>2. ASSUME NEW i \in Items, saves[i].state = "visible", saves[i].folder # Unfiled
        PROVE  saves[i].folder \in In(folders)
    <3>1. saves[i] # NoSave
      BY <2>2 DEF NoSave
    <3>2. saves[i].folder \in {f \in Grown : Exists(f)}
      BY <2>1, <2>2, <3>1
    <3>. QED  BY <1>2, <3>2 DEF In, Exists
  <2>. QED  BY <2>2 DEF SavesAreFiled
<1>10. ASSUME NEW r \in Requests
       PROVE  request[r] = NoRequest /\ RequestFits(folders, saves, r, request[r])
  <2>1. request[r] = NoRequest /\ request[r].op = "list" /\ request[r].pc = "idle"
    BY DEF Init, NoRequest
  <2>2. <<r, "own">> \notin In(folders)
    BY <1>4, SavesAssumption
  <2>. QED  BY <2>1, <2>2 DEF RequestFits, StepsAreOf, MayBePut, MayBeDropped, FiledWhereItIs
<1>11. KeptApart
  BY DEF Init, NoRequest, KeptApart, Working, Pc
<1>. QED  BY <1>7, <1>8, <1>9, <1>10, <1>11 DEF TreeIsRight

-----------------------------------------------------------------------------
(* The search index                                                        *)

LEMMA SearchIsKeptByOthers ==
    ASSUME UNCHANGED searchVars, IndexIsRight, SavesMove
    PROVE  IndexIsRight'
  BY DEF searchVars, IndexIsRight, SearchTypeOK, SavesMove, AboutToIndex

\* A worker that is about to write looked at a visible save, which no cleared save is.
LEMMA WorkersKeepTheIndex ==
    ASSUME NEW n \in Notes, SavesTypeOK, IndexIsRight,
           \/ \E i \in Items : EnqueueIndexing(n, i)
           \/ ReceiveNote(n) \/ ClearForNote(n) \/ SaveChunks(n) \/ NoteRaises(n)
    PROVE  IndexIsRight' /\ UNCHANGED saveVars
<1>. USE SearchAssumption DEF IndexIsRight, SearchTypeOK, AboutToIndex, NoteSteps, NoteAt,
         NoteTo, saveVars
<1>1. ASSUME NEW i \in Items, EnqueueIndexing(n, i)
      PROVE  IndexIsRight' /\ UNCHANGED saveVars
  <2>. DEFINE row == [note[n] EXCEPT !.on = {i}, !.pc = "queued"]
  <2>1. note' = [note EXCEPT ![n] = row]
    BY <1>1 DEF EnqueueIndexing
  <2>2. row \in [pc : NoteSteps, on : SUBSET Items, received : 0..MaxReceives]
        /\ row.pc = "queued"
    OBVIOUS
  <2>. HIDE DEF row, NoteSteps
  <2>3. UNCHANGED <<chunks, removal, cascade, cleared, saveVars>>
    BY <1>1 DEF EnqueueIndexing
  <2>4. QED
    BY <2>1, <2>2, <2>3
<1>2. CASE ReceiveNote(n)
  <2>1. PICK pc \in {"queued", "gone"} \cup
                 (IF \A i \in note[n].on : Indexable(i) THEN {"clear"} ELSE {}) :
          note' = [note EXCEPT ![n] = [note[n] EXCEPT !.received = @ + 1, !.pc = pc]]
    BY <1>2 DEF ReceiveNote
  <2>. DEFINE row == [note[n] EXCEPT !.received = @ + 1, !.pc = pc]
  <2>2. note' = [note EXCEPT ![n] = row]
    BY <2>1
  <2>3. note[n].received < MaxReceives /\ UNCHANGED <<chunks, removal, cascade, cleared, saveVars>>
    BY <1>2 DEF ReceiveNote
  <2>6. pc \in {"queued", "gone", "clear"} /\ note[n].received + 1 \in 0..MaxReceives
    BY <2>3
  <2>7. pc = "clear" => \A i \in note[n].on : saves[i].state = "visible"
    BY DEF Indexable, Visible
  <2>8. row.pc = pc /\ row.on = note[n].on
    OBVIOUS
  <2>9. row \in [pc : NoteSteps, on : SUBSET Items, received : 0..MaxReceives]
    BY <2>6
  <2>4. /\ row \in [pc : NoteSteps, on : SUBSET Items, received : 0..MaxReceives]
        /\ row.pc \in {"queued", "gone", "clear"} /\ row.on = note[n].on
        /\ row.pc = "clear" => \A i \in row.on : saves[i].state = "visible"
    BY <2>6, <2>7, <2>8, <2>9
  <2>. HIDE DEF row, NoteSteps
  <2>5. QED
    BY <2>2, <2>3, <2>4
<1>3. CASE ClearForNote(n)
  BY <1>3 DEF ClearForNote
<1>4. CASE SaveChunks(n)
  BY <1>4 DEF SaveChunks
<1>5. CASE NoteRaises(n)
  BY <1>5 DEF NoteRaises
<1>6. QED
  BY <1>1, <1>2, <1>3, <1>4, <1>5

\* What is taken out is deleted or gone, so that nobody will write it again.
LEMMA TakingOutIsFinal ==
    ASSUME NEW on \in SUBSET Items, IndexIsRight, TakeOut(on) \/ UNCHANGED <<chunks, cleared>>,
           UNCHANGED <<note, saves>>,
           \A i \in on : saves[i].state \in {"deleted", "gone"}
    PROVE  /\ chunks' \subseteq Items /\ cleared' \subseteq Items
           /\ \A i \in cleared' : /\ i \notin chunks' /\ ~AboutToIndex(i)'
                                  /\ saves'[i].state \in {"deleted", "gone"}
  BY DEF IndexIsRight, SearchTypeOK, TakeOut, AboutToIndex

LEMMA RowsCanRest ==
    ASSUME UNCHANGED saveVars, SavesTypeOK
    PROVE  /\ SavesTypeOK' /\ SavesMove
           /\ \A j \in Items : saves[j] = NoSave => saves'[j] = NoSave
  BY SavesCanRest DEF saveVars, SavesTypeOK

LEMMA DeletionsKeepTheIndex ==
    ASSUME NEW d \in Removals, SavesTypeOK, IndexIsRight,
           \/ \E i \in Items : FindRemoval(d, i)
           \/ MarkDeleted(d) \/ ClearForRemoval(d) \/ RemovalRaises(d)
    PROVE  /\ IndexIsRight' /\ SavesTypeOK' /\ SavesMove
           /\ \A j \in Items : saves[j] = NoSave => saves'[j] = NoSave
<1>. USE DEF IndexIsRight, SearchTypeOK, RemovalSteps
<1>1. ASSUME NEW i \in Items, FindRemoval(d, i)
      PROVE  IndexIsRight' /\ UNCHANGED saveVars
  BY <1>1 DEF FindRemoval, AboutToIndex, saveVars
<1>2. CASE MarkDeleted(d)
  <2>1. PICK i \in removal[d].on :
          /\ SoftDelete(i)
          /\ removal' = [removal EXCEPT ![d].pc = IF Held(i) THEN "clear" ELSE "done"]
    BY <1>2 DEF MarkDeleted
  <2>2. i \in Items /\ UNCHANGED clock /\ removal[d].pc = "mark"
        /\ UNCHANGED <<chunks, note, cascade, cleared>>
    BY <1>2 DEF MarkDeleted
  <2>3. /\ SavesTypeOK' /\ SavesMove
        /\ \A j \in Items : saves[j] = NoSave => saves'[j] = NoSave
        /\ saves'[i].state \in {"deleted", "gone"} \/ ~Held(i)
    BY <2>1, <2>2, DeletionsMoveSaves
  <2>4. \A j \in removal[d].on : j = i
    BY <2>2
  <2>. HIDE DEF Held
  <2>5. removal' \in [Removals -> [pc : RemovalSteps, on : SUBSET Items]]
    BY <2>1
  <2>6. \A e \in Removals : /\ removal'[e].on = removal[e].on
                            /\ e # d => removal'[e].pc = removal[e].pc
    BY <2>1
  <2>7. removal'[d].pc = "clear" => Held(i)
    BY <2>1
  <2>8. removal'[d].pc # "mark"
    BY <2>1
  <2>9. QED
    BY <2>2, <2>3, <2>4, <2>5, <2>6, <2>7, <2>8 DEF SavesMove, AboutToIndex
<1>3. CASE ClearForRemoval(d)
  <2>1. UNCHANGED <<note, cascade, saveVars>> /\ removal[d].pc = "clear"
        /\ (TakeOut(removal[d].on) \/ UNCHANGED <<chunks, cleared>>)
        /\ removal' = [removal EXCEPT ![d].pc = "done"]
    BY <1>3 DEF ClearForRemoval
  <2>2. /\ chunks' \subseteq Items /\ cleared' \subseteq Items
        /\ \A i \in cleared' : /\ i \notin chunks' /\ ~AboutToIndex(i)'
                               /\ saves'[i].state \in {"deleted", "gone"}
    BY <2>1, TakingOutIsFinal DEF saveVars
  <2>3. IndexIsRight'
    BY <2>1, <2>2 DEF saveVars
  <2>4. QED
    BY <2>1, <2>3, RowsCanRest
<1>4. CASE RemovalRaises(d)
  <2>1. IndexIsRight'
    BY <1>4 DEF RemovalRaises, AboutToIndex, saveVars
  <2>2. QED
    BY <1>4, <2>1, RowsCanRest DEF RemovalRaises
<1>. HIDE DEF IndexIsRight
<1>5. QED
  BY <1>1, <1>2, <1>3, <1>4, RowsCanRest

LEMMA SweepsKeepTheIndex ==
    ASSUME NEW i \in Items, SavesTypeOK, IndexIsRight, SweepSave(i) \/ CascadeToIndex(i)
    PROVE  /\ IndexIsRight' /\ SavesTypeOK' /\ SavesMove
           /\ \A j \in Items : saves[j] = NoSave => saves'[j] = NoSave
<1>. USE DEF IndexIsRight, SearchTypeOK
<1>1. CASE SweepSave(i)
  <2>1. /\ Swept(i) /\ UNCHANGED clock /\ cascade' = cascade \cup {i}
        /\ UNCHANGED <<chunks, note, removal, cleared>>
    BY <1>1 DEF SweepSave
  <2>2. /\ SavesTypeOK' /\ SavesMove
        /\ \A j \in Items : saves[j] = NoSave => saves'[j] = NoSave
        /\ saves'[i].state = "gone"
    BY <2>1, DeletionsMoveSaves
  <2>3. QED
    BY <2>1, <2>2 DEF SavesMove, AboutToIndex
<1>2. CASE CascadeToIndex(i)
  <2>1. /\ i \in cascade /\ cascade' = cascade \ {i}
        /\ TakeOut({i}) \/ UNCHANGED <<chunks, cleared>>
        /\ UNCHANGED <<note, removal, saveVars>>
    BY <1>2 DEF CascadeToIndex
  <2>2. {i} \in SUBSET Items
    OBVIOUS
  <2>3. /\ chunks' \subseteq Items /\ cleared' \subseteq Items
        /\ \A j \in cleared' : /\ j \notin chunks' /\ ~AboutToIndex(j)'
                               /\ saves'[j].state \in {"deleted", "gone"}
    BY <2>1, <2>2, TakingOutIsFinal DEF saveVars
  <2>4. SavesTypeOK' /\ SavesMove /\ \A j \in Items : saves[j] = NoSave => saves'[j] = NoSave
    BY <2>1, RowsCanRest
  <2>5. QED
    BY <2>1, <2>3, <2>4 DEF saveVars
<1>3. QED
  BY <1>1, <1>2

LEMMA SearchWorks ==
    ASSUME SavesTypeOK, IndexIsRight, SearchStep
    PROVE  /\ IndexIsRight' /\ SavesTypeOK' /\ SavesMove
           /\ \A j \in Items : saves[j] = NoSave => saves'[j] = NoSave
  BY RowsCanRest, WorkersKeepTheIndex, DeletionsKeepTheIndex, SweepsKeepTheIndex DEF SearchStep
-----------------------------------------------------------------------------
(* The digest: its capture and its announcement                            *)

LEMMA CapturesAreRows ==
    ASSUME NEW items, NEW published
    PROVE  [items |-> items, published |-> published] # NoCapture
<1>1. DOMAIN [items |-> items, published |-> published] = {"items", "published"}
  OBVIOUS
<1>2. DOMAIN NoCapture = {"published"}
  BY DEF NoCapture
<1>3. QED
  BY <1>1, <1>2

\* What is complete stays so: a save that is stored later is not of a closed period.
LEMMA CompleteForEver ==
    ASSUME SavesTypeOK, SavesMove, NEW p \in Periods, p < clock, NEW items, Complete(p, items)
    PROVE  /\ \A i \in Items : Visible(i)' /\ saves'[i].at = p /\ ~saves'[i].late => i \in items
           /\ p < clock'
<1>1. clock \in Nat /\ p \in Nat
  BY SavesAssumption DEF SavesTypeOK, Periods
<1>2. QED
  BY <1>1 DEF Complete, SavesMove, Visible

LEMMA DigestsAreKeptByOthers ==
    ASSUME UNCHANGED digestVars, DigestsAreRight, SavesTypeOK, SavesMove
    PROVE  DigestsAreRight'
<1>1. DigestsTypeOK'
  BY DEF DigestsAreRight, DigestsTypeOK, digestVars, Periods, Captures
<1>2. /\ \A x \in Readers : reader'[x] = reader[x] /\ reader[x].on \in Periods
      /\ \A p \in Periods : digests'[p] = digests[p] /\ notices'[p] = notices[p]
      /\ retaken' = retaken
  BY DEF DigestsAreRight, DigestsTypeOK, digestVars
<1>3. ASSUME NEW x \in Readers, reader'[x].pc # "idle"
      PROVE  reader'[x].on < clock'
  BY <1>2, <1>3, SavesAssumption DEF DigestsAreRight, CapturesAreRight, SavesMove,
     SavesTypeOK, Periods
<1>4. ASSUME NEW x \in Readers, reader'[x].pc = "save"
      PROVE  Complete(reader[x].on, reader[x].items)'
  <2>1. reader[x].on < clock /\ Complete(reader[x].on, reader[x].items)
    BY <1>2, <1>4 DEF DigestsAreRight, CapturesAreRight
  <2>2. QED
    BY <1>2, <2>1, CompleteForEver DEF Complete
<1>5. ASSUME NEW p \in Periods, digests'[p] # NoCapture
      PROVE  p < clock' /\ Complete(p, digests[p].items)'
  <2>1. p < clock /\ Complete(p, digests[p].items)
    BY <1>2, <1>5 DEF DigestsAreRight, CapturesAreRight
  <2>2. QED
    BY <1>2, <2>1, CompleteForEver DEF Complete
<1>6. ASSUME NEW p \in Periods \ retaken
      PROVE  AnnouncedOnce(p)'
  BY <1>2, <1>6 DEF DigestsAreRight, CapturesAreRight, AnnouncedOnce, ReaderOf, NoCapture
<1>7. CapturesAreRight'
  BY <1>2, <1>3, <1>4, <1>5, <1>6 DEF CapturesAreRight, NoCapture, Periods
<1>8. SignedOutAreLeft'
  BY DEF DigestsAreRight, SignedOutAreLeft, digestVars, Periods
<1>9. QED
  BY <1>1, <1>7, <1>8 DEF DigestsAreRight

\* One sweep or opening makes a step: what it does to its own variables.
ReaderRows == [pc : ReaderSteps, sweep : BOOLEAN, on : Periods, items : SUBSET Items]

\* A step that leaves the captures and the messages alone.
LEMMA ReadersLook ==
    ASSUME NEW x \in Readers, NEW row \in ReaderRows, DigestsAreRight, UNCHANGED saveVars,
           UNCHANGED <<digests, retaken, push, notices, receipts, registered, quiet>>,
           reader' = [reader EXCEPT ![x] = row],
           row.pc # "send",
           row.pc # "idle" => row.on < clock,
           row.pc = "save" => Complete(row.on, row.items),
           row.pc = "mark" => digests[row.on] # NoCapture /\ row.items = digests[row.on].items
    PROVE  DigestsAreRight'
<1>1. DigestsTypeOK'
  BY DEF DigestsAreRight, DigestsTypeOK, ReaderRows, Periods, Captures
<1>2. /\ \A y \in Readers : reader'[y] = IF y = x THEN row ELSE reader[y]
      /\ \A p \in Periods : digests'[p] = digests[p] /\ notices'[p] = notices[p]
      /\ retaken' = retaken /\ saves' = saves /\ clock' = clock
  BY DEF DigestsAreRight, DigestsTypeOK, saveVars
<1>3. ASSUME NEW p \in Periods \ retaken
      PROVE  AnnouncedOnce(p)'
  BY <1>2, <1>3 DEF DigestsAreRight, CapturesAreRight, AnnouncedOnce, ReaderOf, NoCapture
<1>4. CapturesAreRight'
  BY <1>2, <1>3 DEF DigestsAreRight, CapturesAreRight, NoCapture, Periods, Complete, Visible
<1>5. SignedOutAreLeft'
  BY DEF DigestsAreRight, SignedOutAreLeft, Periods
<1>6. QED
  BY <1>1, <1>4, <1>5 DEF DigestsAreRight

LEMMA ReadersKeepTheDigests ==
    ASSUME NEW x \in Readers, SavesTypeOK, DigestsAreRight,
           \/ ReadSettings(x) \/ GetDigest(x) \/ CollectItems(x) \/ SaveDigest(x)
           \/ MarkPublished(x) \/ SendNotice(x) \/ ReaderRaises(x)
    PROVE  DigestsAreRight' /\ UNCHANGED saveVars
<1>1. /\ reader \in [Readers -> ReaderRows] /\ digests \in [Periods -> Captures \cup {NoCapture}]
      /\ reader[x] \in ReaderRows /\ reader[x].on \in Periods /\ reader[x].items \in SUBSET Items
      /\ reader[x].sweep \in BOOLEAN
  BY DEF DigestsAreRight, DigestsTypeOK, ReaderRows
<1>2. /\ \A y \in Readers : /\ reader[y].pc # "idle" => reader[y].on < clock
                            /\ reader[y].pc = "save" => Complete(reader[y].on, reader[y].items)
      /\ \A p \in Periods : digests[p] # NoCapture => p < clock /\ Complete(p, digests[p].items)
      /\ \A p \in Periods \ retaken : AnnouncedOnce(p)
  BY DEF DigestsAreRight, CapturesAreRight
<1>. DEFINE At(pc) == [reader[x] EXCEPT !.pc = pc]
            Has(items) == [reader[x] EXCEPT !.items = items,
                                           !.pc = IF reader[x].sweep THEN "mark" ELSE "done"]
<1>3. ASSUME NEW pc \in ReaderSteps
      PROVE  /\ At(pc) \in ReaderRows /\ At(pc).pc = pc /\ At(pc).on = reader[x].on
             /\ At(pc).items = reader[x].items
             /\ ReaderTo(x, pc) => reader' = [reader EXCEPT ![x] = At(pc)]
  BY <1>1 DEF ReaderRows, ReaderTo
<1>4. ASSUME NEW items \in SUBSET Items
      PROVE  /\ Has(items) \in ReaderRows /\ Has(items).pc \in {"mark", "done"}
             /\ Has(items).on = reader[x].on /\ Has(items).items = items
             /\ HasCapture(x, items) => reader' = [reader EXCEPT ![x] = Has(items)]
  BY <1>1 DEF ReaderRows, HasCapture, ReaderSteps
<1>. HIDE DEF At, Has
<1>5. CASE ReadSettings(x)
  <2>1. PICK sweep \in BOOLEAN : reader' = [reader EXCEPT ![x] =
                        [pc |-> "get", sweep |-> sweep, on |-> LivePeriod, items |-> {}]]
    BY <1>5 DEF ReadSettings
  <2>. DEFINE row == [pc |-> "get", sweep |-> sweep, on |-> LivePeriod, items |-> {}]
  <2>2. /\ LivePeriod \in Periods /\ UNCHANGED saveVars
        /\ UNCHANGED <<digests, retaken, push, notices, receipts, registered, quiet>>
    BY <1>5 DEF ReadSettings
  <2>3. LivePeriod < clock
    BY SavesAssumption DEF LivePeriod, SavesTypeOK
  <2>4. row \in ReaderRows /\ row.pc = "get" /\ row.on = LivePeriod
    BY <2>2 DEF ReaderRows, ReaderSteps
  <2>. HIDE DEF row
  <2>5. reader' = [reader EXCEPT ![x] = row]
    BY <2>1 DEF row
  <2>6. QED
    BY <2>2, <2>3, <2>4, <2>5, ReadersLook
<1>6. CASE GetDigest(x)
  <2>1. /\ UNCHANGED <<digests, retaken, push, notices, receipts, registered, quiet>>
        /\ UNCHANGED saveVars /\ reader[x].pc = "get"
    BY <1>6 DEF GetDigest, ReaderAt
  <2>2. CASE digests[reader[x].on] = NoCapture
    <3>1. ReaderTo(x, "collect")
      BY <1>6, <2>2 DEF GetDigest
    <3>2. QED
      BY <1>2, <1>3, <2>1, <3>1, ReadersLook DEF ReaderSteps
  <2>3. CASE digests[reader[x].on] # NoCapture
    <3>1. digests[reader[x].on].items \in SUBSET Items
      BY <1>1, <2>3 DEF Captures
    <3>2. HasCapture(x, digests[reader[x].on].items)
      BY <1>6, <2>3 DEF GetDigest
    <3>3. QED
      BY <1>2, <1>4, <2>1, <2>3, <3>1, <3>2, ReadersLook
  <2>4. QED
    BY <2>2, <2>3
<1>7. CASE CollectItems(x)
  <2>. DEFINE made == {i \in Items : Visible(i) /\ saves[i].at = reader[x].on}
              step == IF made = {} THEN "done" ELSE "save"
              row == [reader[x] EXCEPT !.items = made, !.pc = step]
  <2>1. /\ reader' = [reader EXCEPT ![x] = row] /\ UNCHANGED saveVars
        /\ UNCHANGED <<digests, retaken, push, notices, receipts, registered, quiet>>
        /\ reader[x].pc = "collect"
    BY <1>7 DEF CollectItems, ReaderAt
  <2>2. made \in SUBSET Items /\ Complete(reader[x].on, made)
    BY DEF Complete
  <2>6. step \in {"done", "save"}
    OBVIOUS
  <2>. HIDE DEF made, step
  <2>4. row \in ReaderRows /\ row.pc \in {"done", "save"} /\ row.items = made
        /\ row.on = reader[x].on
    BY <1>1, <2>2, <2>6 DEF ReaderRows, ReaderSteps
  <2>. HIDE DEF row
  <2>5. QED
    BY <1>2, <2>1, <2>2, <2>4, ReadersLook
<1>8. CASE ReaderRaises(x)
  <2>1. /\ UNCHANGED <<digests, retaken, push, notices, receipts, registered, quiet>>
        /\ UNCHANGED saveVars /\ reader[x].pc # "idle" /\ ReaderTo(x, "done")
    BY <1>8 DEF ReaderRaises
  <2>2. QED
    BY <1>2, <1>3, <2>1, ReadersLook DEF ReaderSteps
<1>9. CASE SaveDigest(x)
  <2>0. PICK p \in Periods : p = reader[x].on
    BY <1>1
  <2>. DEFINE capture == [items |-> reader[x].items, published |-> FALSE]
              row == Has(reader[x].items)
  <2>1. /\ reader[x].pc = "save" /\ HasCapture(x, reader[x].items)
        /\ digests' = [digests EXCEPT ![p] = capture]
        /\ retaken' = IF digests[p] = NoCapture THEN retaken ELSE retaken \cup {p}
        /\ UNCHANGED <<push, notices, receipts, registered, quiet, saveVars>>
    BY <1>9, <2>0 DEF SaveDigest, ReaderAt
  <2>2. /\ row \in ReaderRows /\ row.pc \in {"mark", "done"} /\ row.on = p
        /\ row.items = reader[x].items /\ reader' = [reader EXCEPT ![x] = row]
    BY <1>1, <1>4, <2>0, <2>1
  <2>3. capture \in Captures /\ capture # NoCapture /\ capture.items = reader[x].items
    BY <1>1, CapturesAreRows DEF Captures
  <2>4. p \in Periods /\ p < clock /\ Complete(p, capture.items)
    BY <1>1, <1>2, <2>0, <2>1, <2>3
  <2>. HIDE DEF capture, row
  <2>5. DigestsTypeOK'
    BY <1>1, <2>1, <2>2, <2>3, <2>4
       DEF DigestsAreRight, DigestsTypeOK, ReaderRows, Periods, Captures
  <2>6. /\ \A y \in Readers : reader'[y] = IF y = x THEN row ELSE reader[y]
        /\ \A q \in Periods : /\ digests'[q] = IF q = p THEN capture ELSE digests[q]
                              /\ notices'[q] = notices[q]
        /\ retaken \subseteq retaken' /\ saves' = saves /\ clock' = clock
        /\ p \notin retaken' => digests[p] = NoCapture
    BY <1>1, <2>1, <2>2, <2>4 DEF saveVars
  <2>7. ASSUME NEW q \in Periods \ retaken'
        PROVE  AnnouncedOnce(q)'
    <3>1. AnnouncedOnce(q)
      BY <1>2, <2>6, <2>7
    <3>2. CASE q # p
      BY <2>2, <2>6, <3>1, <3>2 DEF AnnouncedOnce, ReaderOf, NoCapture
    <3>3. CASE q = p
      <4>1. digests[p] = NoCapture
        BY <2>6, <2>7, <3>3
      <4>2. /\ notices[p] = <<>>
            /\ \A y \in Readers : ~ReaderOf(y, p, "mark") /\ ~ReaderOf(y, p, "send")
        BY <3>1, <3>3, <4>1 DEF AnnouncedOnce
      <4>3. /\ \A y \in Readers : y # x => ~ReaderOf(y, p, "mark")' /\ ~ReaderOf(y, p, "send")'
            /\ ~ReaderOf(x, p, "send")'
        BY <2>2, <2>6, <4>2 DEF ReaderOf
      <4>4. digests'[q] # NoCapture' /\ digests'[q].items = reader'[x].items
        BY <2>2, <2>3, <2>4, <2>6, <3>3 DEF NoCapture
      <4>5. notices'[q] = <<>>
        BY <2>4, <2>6, <3>3, <4>2
      <4>6. QED
        BY <3>3, <4>3, <4>4, <4>5 DEF AnnouncedOnce
    <3>4. QED
      BY <3>2, <3>3
  <2>8. /\ \A y \in Readers : /\ reader'[y].pc # "idle" => reader'[y].on < clock'
                              /\ reader'[y].pc = "save" => Complete(reader[y].on, reader[y].items)'
        /\ \A q \in Periods : digests'[q] # NoCapture =>
              q < clock' /\ Complete(q, digests[q].items)'
    BY <1>2, <2>2, <2>3, <2>4, <2>6 DEF CapturesAreRight, Complete, Visible
  <2>9. CapturesAreRight'
    BY <2>7, <2>8 DEF CapturesAreRight, NoCapture, Periods
  <2>10. SignedOutAreLeft'
    BY <2>1 DEF DigestsAreRight, SignedOutAreLeft, Periods
  <2>11. QED
    BY <2>1, <2>5, <2>9, <2>10 DEF DigestsAreRight
<1>10. CASE MarkPublished(x)
  <2>0. PICK p \in Periods : p = reader[x].on
    BY <1>1
  <2>. DEFINE capture == [digests[p] EXCEPT !.published = TRUE]
              row == At("send")
  <2>1. /\ reader[x].pc = "mark" /\ UNCHANGED saveVars
        /\ UNCHANGED <<retaken, push, notices, receipts, registered, quiet>>
    BY <1>10 DEF MarkPublished, ReaderAt
  <2>2. CASE ~MayPublish(p)
    <3>1. ReaderTo(x, "done") /\ UNCHANGED digests
      BY <1>10, <2>0, <2>2 DEF MarkPublished
    <3>2. QED
      BY <1>2, <1>3, <2>1, <3>1, ReadersLook DEF ReaderSteps
  <2>3. CASE MayPublish(p)
    <3>1. digests' = [digests EXCEPT ![p] = capture] /\ ReaderTo(x, "send")
      BY <1>10, <2>0, <2>3 DEF MarkPublished
    <3>2. /\ digests[p] # NoCapture /\ ~digests[p].published /\ digests[p] \in Captures
      BY <1>1, <2>3 DEF MayPublish
    <3>3. /\ capture \in Captures /\ capture.published /\ capture.items = digests[p].items
          /\ capture # NoCapture
      BY <3>2 DEF Captures, NoCapture
    <3>4. /\ row \in ReaderRows /\ row.pc = "send" /\ row.on = p /\ row.items = reader[x].items
          /\ reader' = [reader EXCEPT ![x] = row]
      BY <1>3, <2>0, <3>1 DEF ReaderSteps
    <3>5. p \in Periods /\ p < clock /\ Complete(p, capture.items)
      BY <1>1, <1>2, <2>0, <2>1, <3>2, <3>3
    <3>. HIDE DEF capture, row
    <3>6. DigestsTypeOK'
      BY <1>1, <2>1, <3>1, <3>3, <3>4, <3>5
         DEF DigestsAreRight, DigestsTypeOK, ReaderRows, Periods, Captures
    <3>7. /\ \A y \in Readers : reader'[y] = IF y = x THEN row ELSE reader[y]
          /\ \A q \in Periods : /\ digests'[q] = IF q = p THEN capture ELSE digests[q]
                                /\ notices'[q] = notices[q]
          /\ retaken' = retaken /\ saves' = saves /\ clock' = clock
      BY <1>1, <2>1, <3>1, <3>4, <3>5 DEF saveVars
    <3>8. ASSUME NEW q \in Periods \ retaken
          PROVE  AnnouncedOnce(q)'
      <4>1. AnnouncedOnce(q)
        BY <1>2, <3>8
      <4>2. CASE q # p
        BY <3>4, <3>7, <4>1, <4>2 DEF AnnouncedOnce, ReaderOf, NoCapture
      <4>3. CASE q = p
        <5>1. /\ notices[p] = <<>> /\ \A y \in Readers : ~ReaderOf(y, p, "send")
          BY <3>2, <4>1, <4>3 DEF AnnouncedOnce
        <5>2. /\ notices'[q] = <<>> /\ digests'[q] = capture
              /\ \A y \in Readers : ReaderOf(y, p, "send")' => y = x
              /\ \A y \in Readers : ReaderOf(y, p, "mark")' => ReaderOf(y, p, "mark")
          BY <3>4, <3>5, <3>7, <4>3, <5>1 DEF ReaderOf
        <5>3. \A y \in Readers : ReaderOf(y, p, "mark")' \/ ReaderOf(y, p, "send")' =>
                 reader'[y].items = reader[y].items /\ ReaderOf(y, p, "mark")
          BY <2>0, <2>1, <3>4, <3>7, <5>2 DEF ReaderOf
        <5>4. \A y \in Readers : ReaderOf(y, p, "mark") => reader[y].items = digests[p].items
          BY <4>1, <4>3 DEF AnnouncedOnce
        <5>5. QED
          BY <3>3, <4>3, <5>2, <5>3, <5>4 DEF AnnouncedOnce, NoCapture
      <4>4. QED
        BY <4>2, <4>3
    <3>9. /\ \A y \in Readers : /\ reader'[y].pc # "idle" => reader'[y].on < clock'
                                /\ reader'[y].pc = "save" =>
                                        Complete(reader[y].on, reader[y].items)'
          /\ \A q \in Periods : digests'[q] # NoCapture =>
                q < clock' /\ Complete(q, digests[q].items)'
      BY <1>2, <3>3, <3>4, <3>5, <3>7 DEF CapturesAreRight, Complete, Visible
    <3>10. CapturesAreRight'
      BY <3>7, <3>8, <3>9 DEF CapturesAreRight, NoCapture, Periods
    <3>11. SignedOutAreLeft'
      BY <2>1 DEF DigestsAreRight, SignedOutAreLeft, Periods
    <3>12. QED
      BY <2>1, <3>6, <3>10, <3>11 DEF DigestsAreRight
  <2>4. QED
    BY <2>2, <2>3
<1>11. CASE SendNotice(x)
  <2>0. PICK p \in Periods : p = reader[x].on
    BY <1>1
  <2>. DEFINE row == At("done")
              message == [NoPush EXCEPT !.pc = "queued"]
  <2>1. /\ reader[x].pc = "send" /\ ReaderTo(x, "done")
        /\ notices' = [notices EXCEPT ![p] = Append(notices[p], reader[x].items)]
        /\ push' = [push EXCEPT ![p] = message]
        /\ UNCHANGED <<digests, retaken, receipts, registered, quiet, saveVars>>
    BY <1>11, <2>0 DEF SendNotice, ReaderAt
  <2>2. /\ row \in ReaderRows /\ row.pc = "done" /\ row.on = p
        /\ reader' = [reader EXCEPT ![x] = row]
    BY <1>3, <2>0, <2>1 DEF ReaderSteps
  <2>3. message \in [pc : PushSteps, received : 0..PushReceives, to : SUBSET Devices,
                     dead : SUBSET Devices] /\ message.pc = "queued"
    BY DigestsAssumption DEF NoPush, PushSteps
  <2>4. p \in Periods /\ Append(notices[p], reader[x].items) \in Seq(SUBSET Items)
        /\ notices \in [Periods -> Seq(SUBSET Items)]
    BY <1>1 DEF DigestsAreRight, DigestsTypeOK
  <2>. HIDE DEF row, message
  <2>5. DigestsTypeOK'
    BY <1>1, <2>1, <2>2, <2>3, <2>4
       DEF DigestsAreRight, DigestsTypeOK, ReaderRows, Periods, Captures
  <2>6. /\ \A y \in Readers : reader'[y] = IF y = x THEN row ELSE reader[y]
        /\ \A q \in Periods :
              /\ digests'[q] = digests[q]
              /\ notices'[q] = IF q = p THEN Append(notices[p], reader[x].items) ELSE notices[q]
              /\ push'[q] = IF q = p THEN message ELSE push[q]
        /\ retaken' = retaken /\ saves' = saves /\ clock' = clock
    BY <1>1, <2>1, <2>2, <2>4 DEF saveVars, DigestsAreRight, DigestsTypeOK
  <2>7. ASSUME NEW q \in Periods \ retaken
        PROVE  AnnouncedOnce(q)'
    <3>1. AnnouncedOnce(q)
      BY <1>2, <2>7
    <3>2. CASE q # p
      BY <2>2, <2>6, <3>1, <3>2 DEF AnnouncedOnce, ReaderOf, NoCapture
    <3>3. CASE q = p
      <4>1. ReaderOf(x, p, "send")
        BY <2>0, <2>1 DEF ReaderOf
      <4>2. /\ notices[p] = <<>> /\ digests[p] # NoCapture /\ digests[p].published
            /\ reader[x].items = digests[p].items
            /\ \A y \in Readers : ReaderOf(y, p, "send") => y = x
        BY <3>1, <3>3, <4>1 DEF AnnouncedOnce
      <4>3. notices'[q] = <<digests[p].items>>
        BY <2>4, <2>6, <3>3, <4>2
      <4>4. /\ \A y \in Readers : ~ReaderOf(y, p, "send")'
            /\ \A y \in Readers : ReaderOf(y, p, "mark")' => ReaderOf(y, p, "mark") /\ y # x
        BY <2>2, <2>6, <4>2 DEF ReaderOf
      <4>5. \A y \in Readers : ReaderOf(y, p, "mark") => reader[y].items = digests[p].items
        BY <3>1, <3>3 DEF AnnouncedOnce
      <4>6. QED
        BY <2>4, <2>6, <3>3, <4>2, <4>3, <4>4, <4>5 DEF AnnouncedOnce, NoCapture
    <3>4. QED
      BY <3>2, <3>3
  <2>11. /\ \A y \in Readers : /\ reader'[y].pc # "idle" => reader'[y].on < clock'
                               /\ reader'[y].pc = "save" => Complete(reader[y].on, reader[y].items)'
         /\ \A q \in Periods : digests'[q] # NoCapture =>
               q < clock' /\ Complete(q, digests[q].items)'
    BY <1>2, <2>0, <2>1, <2>2, <2>6 DEF Complete, Visible
  <2>8. CapturesAreRight'
    BY <2>6, <2>7, <2>11 DEF CapturesAreRight, NoCapture, Periods
  <2>9. SignedOutAreLeft'
    BY <2>1, <2>3, <2>6 DEF DigestsAreRight, SignedOutAreLeft, Periods
  <2>10. QED
    BY <2>1, <2>5, <2>8, <2>9 DEF DigestsAreRight
<1>12. QED
  BY <1>5, <1>6, <1>7, <1>8, <1>9, <1>10, <1>11
-----------------------------------------------------------------------------
(* The digest: its delivery                                                *)

\* No step of the delivery touches what was captured or who reads it.
LEMMA CapturesAreKept ==
    ASSUME DigestsAreRight, DigestsTypeOK', SignedOutAreLeft',
           UNCHANGED <<digests, reader, retaken, notices, saveVars>>
    PROVE  DigestsAreRight' /\ UNCHANGED saveVars
<1>1. /\ digests' = digests /\ reader' = reader /\ retaken' = retaken /\ notices' = notices
      /\ saves' = saves /\ clock' = clock /\ Periods' = Periods /\ NoCapture' = NoCapture
  BY DEF saveVars, Periods, NoCapture
<1>2. \A p \in Periods : AnnouncedOnce(p) => AnnouncedOnce(p)'
  BY <1>1 DEF AnnouncedOnce, ReaderOf
<1>3. CapturesAreRight'
  BY <1>1, <1>2 DEF DigestsAreRight, CapturesAreRight, Complete, Visible
<1>4. QED
  BY <1>3 DEF DigestsAreRight

LEMMA UnregisteredAreLeft ==
    ASSUME NEW d \in Devices, DigestsAreRight, Unregistered(d)
    PROVE  /\ registered' \subseteq Devices /\ quiet' \subseteq Devices
           /\ registered' \cap quiet' = {}
           /\ \A p \in Periods : push[p].pc = "post" => push[p].to \cap quiet' = {}
<1>1. quiet' \subseteq quiet \cup {d} /\ registered' = registered \ {d}
      /\ (d \in quiet' => d \in quiet \/ NoPostTo(d))
  BY DEF Unregistered
<1>2. QED
  BY <1>1 DEF DigestsAreRight, DigestsTypeOK, SignedOutAreLeft, NoPostTo

Pushes == [pc : PushSteps, received : 0..PushReceives, to : SUBSET Devices,
           dead : SUBSET Devices]

LEMMA DeliveriesLeaveTheQuiet ==
    ASSUME NEW p \in Periods, DigestsAreRight,
           \/ ListTokens(p) \/ PostToExpo(p) \/ DropDead(p) \/ ScheduleReceiptCheck(p)
           \/ DeliveryRaises(p)
    PROVE  DigestsAreRight' /\ UNCHANGED saveVars
<1>1. /\ push \in [Periods -> Pushes] /\ registered \subseteq Devices /\ quiet \subseteq Devices
      /\ receipts \subseteq Devices /\ push[p] \in Pushes /\ PushReceives \in Nat
      /\ push[p].to \in SUBSET Devices /\ push[p].dead \in SUBSET Devices
  BY DigestsAssumption DEF DigestsAreRight, DigestsTypeOK, Pushes
<1>2. ASSUME NEW row \in Pushes, push' = [push EXCEPT ![p] = row],
             UNCHANGED <<digests, reader, retaken, notices, saveVars>>,
             registered' \subseteq Devices, quiet' \subseteq Devices, receipts' \subseteq Devices,
             registered' \cap quiet' = {},
             \A q \in Periods : push[q].pc = "post" => push[q].to \cap quiet' = {},
             row.pc = "post" => row.to \cap quiet' = {}
      PROVE  DigestsAreRight' /\ UNCHANGED saveVars
  <2>1. push' \in [Periods -> Pushes]
    BY <1>1, <1>2
  <2>2. DigestsTypeOK'
    BY <1>2, <2>1 DEF DigestsAreRight, DigestsTypeOK, Periods, Captures, Pushes
  <2>3. SignedOutAreLeft'
    BY <1>1, <1>2 DEF SignedOutAreLeft, Periods
  <2>4. QED
    BY <1>2, <2>2, <2>3, CapturesAreKept
<1>3. SignedOutAreLeft
  BY DEF DigestsAreRight
<1>6. CASE ListTokens(p)
  <2>. DEFINE pc == IF Recipients = {} THEN "gone" ELSE "post"
              row == [push[p] EXCEPT !.received = push[p].received + 1, !.to = Recipients,
                                     !.pc = pc]
  <2>1. /\ push' = [push EXCEPT ![p] = row] /\ push[p].received < PushReceives
        /\ UNCHANGED <<digests, reader, retaken, notices, receipts, registered, quiet, saveVars>>
    BY <1>6 DEF ListTokens, Deliverable
  <2>2. push[p].received + 1 \in 0..PushReceives /\ pc \in {"gone", "post"}
        /\ Recipients \in SUBSET Devices
    BY <1>1, <2>1 DEF Pushes, Recipients
  <2>. HIDE DEF pc
  <2>3. row \in Pushes /\ row.to = registered
    BY <1>1, <2>2 DEF Pushes, PushSteps, Recipients
  <2>. HIDE DEF row
  <2>4. QED
    BY <1>1, <1>2, <1>3, <2>1, <2>3 DEF SignedOutAreLeft
<1>7. CASE PostToExpo(p)
  <2>1. PICK dead \in SUBSET push[p].to :
           push' = [push EXCEPT ![p] = [@ EXCEPT !.dead = dead, !.pc = "drop"]]
    BY <1>7 DEF PostToExpo
  <2>. DEFINE row == [push[p] EXCEPT !.dead = dead, !.pc = "drop"]
  <2>2. row \in Pushes /\ row.pc = "drop" /\ push' = [push EXCEPT ![p] = row]
    BY <1>1, <2>1 DEF Pushes, PushSteps
  <2>3. UNCHANGED <<digests, reader, retaken, notices, receipts, registered, quiet, saveVars>>
    BY <1>7 DEF PostToExpo
  <2>. HIDE DEF row
  <2>4. QED
    BY <1>1, <1>2, <1>3, <2>2, <2>3 DEF SignedOutAreLeft
<1>8. CASE DropDead(p)
  <2>1. PICK d \in push[p].dead :
           /\ Unregistered(d)
           /\ push' = [push EXCEPT ![p] = [push[p] EXCEPT !.dead = @ \ {d}, !.to = @ \ {d}]]
    BY <1>8 DEF DropDead
  <2>. DEFINE row == [push[p] EXCEPT !.dead = push[p].dead \ {d}, !.to = push[p].to \ {d}]
  <2>2. push[p].dead \ {d} \in SUBSET Devices /\ push[p].to \ {d} \in SUBSET Devices
    BY <1>1
  <2>3. row \in Pushes /\ row.pc = push[p].pc
    BY <1>1, <2>2 DEF Pushes
  <2>4. /\ UNCHANGED <<digests, reader, retaken, notices, receipts, saveVars>>
        /\ push[p].pc = "drop" /\ push' = [push EXCEPT ![p] = row]
    BY <1>8, <2>1 DEF DropDead
  <2>5. /\ registered' \subseteq Devices /\ quiet' \subseteq Devices
        /\ registered' \cap quiet' = {}
        /\ \A q \in Periods : push[q].pc = "post" => push[q].to \cap quiet' = {}
    BY <1>1, <2>1, UnregisteredAreLeft
  <2>. HIDE DEF row
  <2>6. QED
    BY <1>1, <1>2, <2>3, <2>4, <2>5
<1>9. CASE ScheduleReceiptCheck(p)
  <2>. DEFINE row == [push[p] EXCEPT !.pc = "gone", !.to = {}]
  <2>1. row \in Pushes /\ row.pc = "gone"
    BY <1>1 DEF Pushes, PushSteps
  <2>2. /\ UNCHANGED <<digests, reader, retaken, notices, registered, quiet, saveVars>>
        /\ receipts' = receipts \cup push[p].to /\ push' = [push EXCEPT ![p] = row]
    BY <1>9 DEF ScheduleReceiptCheck
  <2>. HIDE DEF row
  <2>3. QED
    BY <1>1, <1>2, <1>3, <2>1, <2>2 DEF SignedOutAreLeft
<1>10. CASE DeliveryRaises(p)
  <2>. DEFINE row == [push[p] EXCEPT !.pc = "queued", !.to = {}, !.dead = {}]
  <2>1. row \in Pushes /\ row.pc = "queued"
    BY <1>1 DEF Pushes, PushSteps
  <2>2. /\ UNCHANGED <<digests, reader, retaken, notices, receipts, registered, quiet, saveVars>>
        /\ push' = [push EXCEPT ![p] = row]
    BY <1>10 DEF DeliveryRaises
  <2>. HIDE DEF row
  <2>3. QED
    BY <1>1, <1>2, <1>3, <2>1, <2>2 DEF SignedOutAreLeft
<1>11. QED
  BY <1>6, <1>7, <1>8, <1>9, <1>10

LEMMA DevicesComeAndGo ==
    ASSUME NEW d \in Devices, DigestsAreRight,
           RegisterDevice(d) \/ UnregisterDevice(d) \/ HandleReceipt(d)
    PROVE  DigestsAreRight' /\ UNCHANGED saveVars
<1>1. ASSUME UNCHANGED <<digests, reader, retaken, push, notices, saveVars>>,
             registered' \subseteq Devices, quiet' \subseteq Devices, receipts' \subseteq Devices,
             registered' \cap quiet' = {},
             \A q \in Periods : push[q].pc = "post" => push[q].to \cap quiet' = {}
      PROVE  DigestsAreRight' /\ UNCHANGED saveVars
  <2>1. DigestsTypeOK'
    BY <1>1 DEF DigestsAreRight, DigestsTypeOK, Periods, Captures
  <2>2. SignedOutAreLeft'
    BY <1>1 DEF SignedOutAreLeft, Periods
  <2>3. QED
    BY <1>1, <2>1, <2>2, CapturesAreKept
<1>2. /\ registered \subseteq Devices /\ quiet \subseteq Devices /\ receipts \subseteq Devices
      /\ SignedOutAreLeft
  BY DEF DigestsAreRight, DigestsTypeOK
<1>3. CASE RegisterDevice(d)
  BY <1>1, <1>2, <1>3 DEF RegisterDevice, SignedOutAreLeft
<1>4. CASE UnregisterDevice(d)
  BY <1>1, <1>2, <1>4, UnregisteredAreLeft DEF UnregisterDevice
<1>5. CASE HandleReceipt(d)
  <2>1. /\ UNCHANGED <<digests, reader, retaken, push, notices, saveVars>>
        /\ receipts' = receipts \ {d}
        /\ Unregistered(d) \/ UNCHANGED <<registered, quiet>>
    BY <1>5 DEF HandleReceipt
  <2>2. CASE Unregistered(d)
    BY <1>1, <1>2, <2>1, <2>2, UnregisteredAreLeft
  <2>3. CASE UNCHANGED <<registered, quiet>>
    BY <1>1, <1>2, <2>1, <2>3 DEF SignedOutAreLeft
  <2>4. QED
    BY <2>1, <2>2, <2>3
<1>6. QED
  BY <1>3, <1>4, <1>5

LEMMA DigestWorks ==
    ASSUME SavesTypeOK, DigestsAreRight, DigestStep
    PROVE  DigestsAreRight' /\ UNCHANGED saveVars
  BY ReadersKeepTheDigests, DeliveriesLeaveTheQuiet, DevicesComeAndGo DEF DigestStep
-----------------------------------------------------------------------------
(* The feeds                                                               *)

LEMMA FeedsAreKeptByOthers ==
    ASSUME UNCHANGED feedVars, FeedsAreRight PROVE FeedsAreRight'
  BY DEF feedVars, marks, FeedsAreRight, FeedsTypeOK, FeedRows, Snapshots, NoFeed, Unused, SentOnce,
         Routing, SeenOf, Followed

FollowRows == [pc : FollowSteps, on : SUBSET Followers, to : {"active", "paused", "absent"},
               row : FeedRows \cup {NoFeed}]
PollRows == [pc : PollSteps, received : 0..PollReceives, single : BOOLEAN,
             work : SUBSET Snapshots, on : SUBSET Followers, items : Documents]

LEMMA RowsAreFollows ==
    ASSUME NEW row \in FeedRows PROVE row # NoFeed /\ row.seen \in SUBSET Guids
  BY DEF FeedRows, NoFeed

\* A request that changes its own variables only, and gets no new follow but one that
\* is there.
LEMMA RequestsLook ==
    ASSUME NEW q \in Followers, NEW row \in FollowRows, FeedsAreRight,
           follow' = [follow EXCEPT ![q] = row], UNCHANGED <<feeds, poll, routed, marks>>,
           indexed' \in {indexed, feeds'},
           row.pc = "write" => row.row # NoFeed,
           row.pc \in {"idle", "query", "put"} => follow[q].pc \in {"idle", "query", "put"},
           row.on \subseteq follow[q].on \cup {f \in Followers : Followed(f)}
    PROVE  FeedsAreRight'
<1>1. FeedsTypeOK'
  BY DEF marks, FeedsAreRight, FeedsTypeOK, FollowRows, FeedRows, Snapshots, NoFeed
<1>2. \A r \in Followers : follow'[r] = IF r = q THEN row ELSE follow[r]
  BY DEF marks, FeedsAreRight, FeedsTypeOK
<1>3. ASSUME NEW r \in Followers
      PROVE  Unused(r)' /\ (follow'[r].pc = "write" => follow'[r].row # NoFeed)
  BY <1>2 DEF marks, FeedsAreRight, Unused, Followed
<1>4. \A f \in Followers \ stale : SentOnce(f)'
  BY DEF marks, FeedsAreRight, SentOnce, Routing, SeenOf, Followed, NoFeed
<1>5. QED
  BY <1>1, <1>3, <1>4 DEF marks, FeedsAreRight, NoFeed

\* A poll that changes its own variables only, and lists only follows that are there or
\* that the index shows.
LEMMA PollsLook ==
    ASSUME NEW x \in Polls, NEW row \in PollRows, FeedsAreRight,
           poll' = [poll EXCEPT ![x] = row], UNCHANGED <<feeds, follow, routed, marks>>,
           indexed' \in {indexed, feeds'},
           row.pc = "route" =>
               row.items = NoItems,
           row.on \subseteq poll[x].on,
           \A snap \in row.work : snap \in poll[x].work \/ Followed(snap.feed) \/ indexed[snap.feed] # NoFeed
    PROVE  FeedsAreRight'
<1>1. FeedsTypeOK'
  BY DEF marks, FeedsAreRight, FeedsTypeOK, PollRows, FeedRows, Snapshots, NoFeed
<1>2. \A y \in Polls : poll'[y] = IF y = x THEN row ELSE poll[y]
  BY DEF marks, FeedsAreRight, FeedsTypeOK
<1>3. ASSUME NEW r \in Followers
      PROVE  Unused(r)' /\ (follow'[r].pc = "write" => follow'[r].row # NoFeed)
  BY <1>2 DEF marks, FeedsAreRight, Unused, Followed
<1>4. ASSUME NEW f \in Followers \ stale
      PROVE  SentOnce(f)'
  BY <1>2, <1>4 DEF marks, FeedsAreRight, SentOnce, Routing, SeenOf, Followed, NoFeed, NoItems
<1>5. QED
  BY <1>1, <1>3, <1>4 DEF marks, FeedsAreRight, NoFeed

\* Whoever puts a row back over the row it read forgets nothing that was seen.
LEMMA PuttingBackForgetsNothing ==
    ASSUME NEW f \in Followers, NEW read \in FeedRows, NEW row \in FeedRows,
           FeedsAreRight, PutBack(f, read, row), read.seen \subseteq row.seen
    PROVE  /\ feeds' \in [Followers -> FeedRows \cup {NoFeed}] /\ stale' \subseteq Followers
           /\ stale \subseteq stale' /\ (f \notin stale' => feeds[f] = read)
           /\ \A e \in Followers : feeds'[e] = IF e = f THEN row ELSE feeds[e]
           /\ \A e \in Followers \ stale', g \in Guids : SeenOf(e, g) => SeenOf(e, g)'
<1>1. /\ feeds \in [Followers -> FeedRows \cup {NoFeed}] /\ stale \subseteq Followers
      /\ feeds' = [feeds EXCEPT ![f] = row]
      /\ stale' = IF feeds[f] = read THEN stale ELSE stale \cup {f}
  BY DEF FeedsAreRight, FeedsTypeOK, PutBack
<1>2. /\ feeds' \in [Followers -> FeedRows \cup {NoFeed}] /\ stale' \subseteq Followers
      /\ stale \subseteq stale' /\ (f \notin stale' => feeds[f] = read)
      /\ \A e \in Followers : feeds'[e] = IF e = f THEN row ELSE feeds[e]
  BY <1>1
<1>3. read # NoFeed /\ row # NoFeed
  BY RowsAreFollows
<1>4. ASSUME NEW e \in Followers \ stale', NEW g \in Guids, SeenOf(e, g)
      PROVE  SeenOf(e, g)'
  BY <1>2, <1>3, <1>4 DEF SeenOf, Followed, NoFeed
<1>5. QED
  BY <1>2, <1>4

LEMMA RequestsKeepTheFeeds ==
    ASSUME NEW q \in Followers, FeedsAreRight, indexed' \in {indexed, feeds'},
           \/ FollowArrives(q) \/ QueryFeeds(q) \/ PutFeed(q) \/ GetFeed(q)
           \/ SetStatus(q) \/ DeleteFeed(q) \/ FollowRaises(q)
    PROVE  FeedsAreRight'
<1>1. /\ follow \in [Followers -> FollowRows] /\ feeds \in [Followers -> FeedRows \cup {NoFeed}]
      /\ follow[q] \in FollowRows /\ follow[q].on \subseteq Followers
  BY DEF FeedsAreRight, FeedsTypeOK, FollowRows
<1>. DEFINE End == [NoFollow EXCEPT !.pc = "done"]
            At(pc) == [follow[q] EXCEPT !.pc = pc]
<1>2. End \in FollowRows /\ End.pc = "done" /\ End.on = {}
      /\ (FollowEnds(q) => follow' = [follow EXCEPT ![q] = End])
  BY DEF FollowRows, NoFollow, FollowSteps, FollowEnds
<1>3. ASSUME NEW pc \in FollowSteps
      PROVE  /\ At(pc) \in FollowRows /\ At(pc).pc = pc /\ At(pc).on = follow[q].on
             /\ FollowTo(q, pc) => follow' = [follow EXCEPT ![q] = At(pc)]
  BY <1>1 DEF FollowRows, FollowTo
<1>. HIDE DEF End, At
<1>4. ASSUME FollowEnds(q), UNCHANGED <<feeds, poll, routed, marks>>
      PROVE  FeedsAreRight'
  BY <1>2, <1>4, RequestsLook
<1>5. CASE FollowArrives(q)
  <2>1. UNCHANGED <<feeds, poll, routed, marks>> /\ follow[q].pc = "idle"
    BY <1>5 DEF FollowArrives, FollowAt
  <2>2. CASE FollowTo(q, "query")
    BY <1>3, <2>1, <2>2, RequestsLook DEF FollowSteps
  <2>3. ASSUME NEW f \in Followers, NEW to \in {"active", "paused", "absent"}, Followed(f),
               follow' = [follow EXCEPT
                             ![q] = [@ EXCEPT !.pc = "get", !.on = {f}, !.to = to]]
        PROVE  FeedsAreRight'
    <3>. DEFINE row == [follow[q] EXCEPT !.pc = "get", !.on = {f}, !.to = to]
    <3>1. {f} \in SUBSET Followers
      OBVIOUS
    <3>2. row \in FollowRows /\ row.pc = "get" /\ row.on = {f}
      BY <1>1, <3>1 DEF FollowRows, FollowSteps
    <3>3. follow' = [follow EXCEPT ![q] = row]
      BY <2>3
    <3>. HIDE DEF row
    <3>4. QED
      BY <2>1, <2>3, <3>2, <3>3, RequestsLook, ZenonT(60)
  <2>4. QED
    BY <1>5, <2>2, <2>3 DEF FollowArrives
<1>6. CASE QueryFeeds(q)
  <2>1. UNCHANGED <<feeds, poll, routed, marks>> /\ follow[q].pc = "query"
        /\ (FollowEnds(q) \/ FollowTo(q, "put"))
    BY <1>6 DEF QueryFeeds, FollowAt
  <2>2. CASE FollowTo(q, "put")
    BY <1>3, <2>1, <2>2, RequestsLook DEF FollowSteps
  <2>3. QED
    BY <1>4, <2>1, <2>2
<1>7. CASE PutFeed(q)
  <2>. DEFINE row == [status |-> "active", seen |-> {}]
  <2>1. /\ follow[q].pc = "put" /\ follow' = [follow EXCEPT ![q] = End]
        /\ feeds' = [feeds EXCEPT ![q] = row] /\ UNCHANGED <<poll, routed, marks>>
    BY <1>2, <1>7 DEF PutFeed, FollowAt
  <2>2. row \in FeedRows
    BY DEF FeedRows
  <2>. HIDE DEF row
  <2>. HIDE DEF End
  <2>3. FeedsTypeOK'
    <3>1. feeds' \in [Followers -> FeedRows \cup {NoFeed}] /\ follow' \in [Followers -> FollowRows]
      BY <1>1, <1>2, <2>1, <2>2
    <3>2. indexed' \in [Followers -> FeedRows \cup {NoFeed}]
      BY <3>1 DEF FeedsAreRight, FeedsTypeOK
    <3>3. QED
      BY <2>1, <3>1, <3>2 DEF marks, FeedsAreRight, FeedsTypeOK, FollowRows
  <2>4. /\ \A r \in Followers : /\ follow'[r] = IF r = q THEN End ELSE follow[r]
                                /\ feeds'[r] = IF r = q THEN row ELSE feeds[r]
        /\ poll' = poll /\ routed' = routed /\ stale' = stale /\ repeated' = repeated
    BY <1>1, <2>1 DEF marks
  <2>5. ASSUME NEW r \in Followers
        PROVE  Unused(r)' /\ (follow'[r].pc = "write" => follow'[r].row # NoFeed)
    BY <1>2, <2>4 DEF FeedsAreRight, Unused, NoFeed
  <2>6. Unused(q) /\ feeds[q] = NoFeed /\ (\A g \in Guids : routed[q][g] = 0)
        /\ \A x \in Polls : q \notin poll[x].on
    BY <2>1 DEF FeedsAreRight, Unused
  <2>7. ASSUME NEW f \in Followers \ stale
        PROVE  SentOnce(f)'
    <3>1. SentOnce(f)
      BY <2>7 DEF FeedsAreRight
    <3>2. CASE f = q
      BY <2>4, <2>6, <3>2 DEF SentOnce, Routing
    <3>3. CASE f # q
      BY <2>4, <3>1, <3>3 DEF SentOnce, Routing, SeenOf, Followed, NoFeed
    <3>4. QED
      BY <3>2, <3>3
  <2>8. QED
    BY <2>3, <2>4, <2>5, <2>7 DEF FeedsAreRight, NoFeed
<1>8. CASE GetFeed(q)
  <2>1. UNCHANGED <<feeds, poll, routed, marks>>
    BY <1>8 DEF GetFeed
  <2>2. PICK f \in follow[q].on :
           IF ~Followed(f) THEN FollowEnds(q)
           ELSE follow' = [follow EXCEPT
                              ![q] = [@ EXCEPT !.pc = "write", !.row = feeds[f]]]
    BY <1>8 DEF GetFeed
  <2>3. CASE Followed(f)
    <3>. DEFINE row == [follow[q] EXCEPT !.pc = "write", !.row = feeds[f]]
    <3>1. feeds[f] \in FeedRows \cup {NoFeed} /\ feeds[f] # NoFeed
      BY <1>1, <2>3 DEF Followed
    <3>2. row \in FollowRows /\ row.pc = "write" /\ row.on = follow[q].on /\ row.row = feeds[f]
      BY <1>1, <3>1 DEF FollowRows, FollowSteps
    <3>3. follow' = [follow EXCEPT ![q] = row]
      BY <2>2, <2>3
    <3>. HIDE DEF row
    <3>4. QED
      BY <2>1, <3>1, <3>2, <3>3, RequestsLook
  <2>4. QED
    BY <1>4, <2>1, <2>2, <2>3
<1>9. CASE FollowRaises(q)
  BY <1>4, <1>9 DEF FollowRaises
<1>10. CASE SetStatus(q)
  <2>1. PICK f \in follow[q].on :
           PutBack(f, follow[q].row, [follow[q].row EXCEPT !.status = follow[q].to])
    BY <1>10 DEF SetStatus
  <2>. DEFINE row == [follow[q].row EXCEPT !.status = follow[q].to]
  <2>2. /\ follow[q].pc = "write" /\ follow[q].to # "absent"
        /\ follow' = [follow EXCEPT ![q] = End] /\ UNCHANGED <<poll, routed, repeated>>
    BY <1>2, <1>10 DEF SetStatus, FollowAt
  <2>3. follow[q].row \in FeedRows /\ follow[q].to \in {"active", "paused"} /\ f \in Followers
    BY <1>1, <2>2 DEF FeedsAreRight, FollowRows
  <2>4. row \in FeedRows /\ row.seen = follow[q].row.seen
    BY <2>3 DEF FeedRows
  <2>. HIDE DEF row
  <2>5. PutBack(f, follow[q].row, row)
    BY <2>1 DEF row
  <2>6. /\ feeds' \in [Followers -> FeedRows \cup {NoFeed}] /\ stale' \subseteq Followers
        /\ stale \subseteq stale'
        /\ \A e \in Followers : feeds'[e] = IF e = f THEN row ELSE feeds[e]
        /\ \A e \in Followers \ stale', g \in Guids : SeenOf(e, g) => SeenOf(e, g)'
    BY <2>3, <2>4, <2>5, PuttingBackForgetsNothing
  <2>7. FeedsTypeOK'
    BY <1>1, <1>2, <2>2, <2>6
       DEF FeedsAreRight, FeedsTypeOK, FollowRows, FeedRows, Snapshots, NoFeed
  <2>8. \A r \in Followers : follow'[r] = IF r = q THEN End ELSE follow[r]
    BY <1>1, <2>2
  <2>9. ASSUME NEW r \in Followers
        PROVE  Unused(r)' /\ (follow'[r].pc = "write" => follow'[r].row # NoFeed)
    BY <1>2, <2>2, <2>6, <2>8 DEF FeedsAreRight, Unused, NoFeed
  <2>10. ASSUME NEW e \in Followers \ stale'
         PROVE  SentOnce(e)'
    <3>1. SentOnce(e)
      BY <2>6, <2>10 DEF FeedsAreRight
    <3>2. QED
      BY <2>2, <2>6, <2>10, <3>1 DEF SentOnce, Routing
  <2>11. QED
    BY <2>7, <2>9, <2>10 DEF FeedsAreRight, NoFeed
<1>11. CASE DeleteFeed(q)
  <2>1. PICK f \in follow[q].on : feeds' = [feeds EXCEPT ![f] = NoFeed]
    BY <1>11 DEF DeleteFeed
  <2>2. follow' = [follow EXCEPT ![q] = End] /\ UNCHANGED <<poll, routed, stale, repeated>> /\ f \in Followers
    BY <1>1, <1>2, <1>11 DEF DeleteFeed, marks
  <2>3. FeedsTypeOK'
    BY <1>1, <1>2, <2>1, <2>2
       DEF FeedsAreRight, FeedsTypeOK, FollowRows, FeedRows, Snapshots, NoFeed
  <2>4. \A r \in Followers : /\ follow'[r] = IF r = q THEN End ELSE follow[r]
                             /\ feeds'[r] = IF r = f THEN NoFeed ELSE feeds[r]
    BY <1>1, <2>1, <2>2
  <2>5. ASSUME NEW r \in Followers
        PROVE  Unused(r)' /\ (follow'[r].pc = "write" => follow'[r].row # NoFeed)
    BY <1>2, <2>2, <2>4 DEF FeedsAreRight, Unused, NoFeed
  <2>6. ASSUME NEW e \in Followers \ stale
        PROVE  SentOnce(e)'
    <3>1. SentOnce(e)
      BY <2>6 DEF FeedsAreRight
    <3>2. \A g \in Guids : SeenOf(e, g) => SeenOf(e, g)'
      BY <2>4 DEF SeenOf, Followed, NoFeed
    <3>3. QED
      BY <2>2, <2>6, <3>1, <3>2 DEF SentOnce, Routing
  <2>7. QED
    BY <2>2, <2>3, <2>5, <2>6 DEF FeedsAreRight, NoFeed
<1>12. QED
  BY <1>5, <1>6, <1>7, <1>8, <1>9, <1>10, <1>11
LEMMA PollsKeepTheFeeds ==
    ASSUME NEW x \in Polls, FeedsAreRight, indexed' \in {indexed, feeds'},
           \/ ListFeeds(x) \/ PollFeed(x) \/ RouteItem(x) \/ NextFeed(x)
           \/ SkipFeed(x) \/ PollEnds(x) \/ PollRaises(x)
    PROVE  FeedsAreRight'
<1>1. /\ poll \in [Polls -> PollRows] /\ feeds \in [Followers -> FeedRows \cup {NoFeed}]
      /\ poll[x] \in PollRows /\ poll[x].work \subseteq Snapshots /\ poll[x].on \subseteq Followers
      /\ poll[x].items \in Documents /\ poll[x].received \in 0..PollReceives
      /\ poll[x].single \in BOOLEAN /\ PollReceives \in Nat /\ Listings \in Nat
      /\ routed \in [Followers -> [Guids -> Nat]]
  BY FeedsAssumption DEF FeedsAreRight, FeedsTypeOK, PollRows
<1>2. NoItems \in Documents
  BY FeedsAssumption DEF NoItems, Documents
<1>3. CASE ListFeeds(x)
  <2>1. UNCHANGED <<feeds, follow, routed, marks>> /\ poll[x].received < PollReceives
    BY <1>3 DEF ListFeeds
  <2>2. poll[x].received + 1 \in 0..PollReceives
    BY <1>1, <2>1
  <2>3. ASSUME NEW single \in BOOLEAN, NEW work \in SUBSET Snapshots, Listed(x, single, work),
               \A snap \in work : Followed(snap.feed) \/ indexed[snap.feed] # NoFeed
        PROVE  FeedsAreRight'
    <3>. DEFINE row == [NoPoll EXCEPT !.pc = "poll", !.received = poll[x].received + 1,
                                      !.single = single, !.work = work]
    <3>1. row \in PollRows /\ row.pc = "poll" /\ row.on = {} /\ row.work = work
      BY <1>2, <2>2 DEF PollRows, NoPoll, PollSteps
    <3>2. poll' = [poll EXCEPT ![x] = row]
      BY <2>3 DEF Listed
    <3>. HIDE DEF row
    <3>3. QED
      BY <2>1, <2>3, <3>1, <3>2, PollsLook
  <2>4. CASE \E f \in Followers : Active(f) /\ Listed(x, TRUE, {[feed |-> f, row |-> feeds[f]]})
    <3>1. PICK f \in Followers : Active(f) /\ Listed(x, TRUE, {[feed |-> f, row |-> feeds[f]]})
      BY <2>4
    <3>2. feeds[f] \in FeedRows /\ Followed(f)
      BY <1>1, <3>1 DEF Active, Followed, NoFeed
    <3>. DEFINE work == {[feed |-> f, row |-> feeds[f]]}
    <3>3. work \in SUBSET Snapshots /\ \A snap \in work : Followed(snap.feed)
      BY <3>2 DEF Snapshots
    <3>4. Listed(x, TRUE, work)
      BY <3>1
    <3>. HIDE DEF work
    <3>5. QED
      BY <2>3, <3>3, <3>4
  <2>. DEFINE active == {f \in Followers : indexed[f].status = "active"}
              work == {[feed |-> f, row |-> indexed[f]] : f \in active}
  <2>5. CASE Listed(x, FALSE, work)
    <3>1. indexed \in [Followers -> FeedRows \cup {NoFeed}]
      BY DEF FeedsAreRight, FeedsTypeOK
    <3>2. \A f \in active : indexed[f] \in FeedRows /\ indexed[f] # NoFeed
      BY <3>1 DEF NoFeed
    <3>3. work \in SUBSET Snapshots /\ \A snap \in work : indexed[snap.feed] # NoFeed
      BY <3>2 DEF Snapshots
    <3>. HIDE DEF work
    <3>4. QED
      BY <2>3, <2>5, <3>3
  <2>6. QED
    BY <1>3, <2>4, <2>5 DEF ListFeeds
<1>4. CASE PollFeed(x)
  <2>. DEFINE New(snap, document) == {g \in Guids : NewItems(snap.row, document)[g] > 0}
              Again(snap, document) == {g \in Guids : NewItems(snap.row, document)[g] > 1}
  <2>1. PICK snap \in poll[x].work, document \in Documents :
          /\ PutBack(snap.feed, snap.row,
                [snap.row EXCEPT !.seen = SeenAfter(snap.row.seen, New(snap, document))])
          /\ repeated' = repeated \cup Again(snap, document)
          /\ poll' = [poll EXCEPT
                ![x] = [poll[x] EXCEPT !.work = @ \ {snap}, !.on = {snap.feed},
                           !.items = NewItems(snap.row, document), !.pc = "route"]]
    BY <1>4 DEF PollFeed
  <2>2. poll[x].pc = "poll" /\ UNCHANGED <<follow, routed>>
    BY <1>4 DEF PollFeed
  <2>3. PICK f \in Followers, read \in FeedRows : snap.feed = f /\ snap.row = read
    BY <1>1 DEF Snapshots
  <2>. DEFINE items == NewItems(read, document)
              new == {g \in Guids : items[g] > 0}
              again == {g \in Guids : items[g] > 1}
              put == [read EXCEPT !.seen = SeenAfter(read.seen, new)]
              work == poll[x].work \ {snap}
              row == [poll[x] EXCEPT !.work = work, !.on = {f}, !.items = items, !.pc = "route"]
  <2>4. /\ items \in Documents
        /\ \A g \in Guids : items[g] > 0 => g \in new /\ g \notin read.seen
        /\ \A g \in Guids \ again : items[g] > 0 => items[g] = 1
        /\ new \in SUBSET Guids /\ again \in SUBSET Guids
    BY <1>1 DEF FeedRows, Documents, NewItems
  <2>. HIDE DEF items
  <2>4a. /\ put \in FeedRows /\ put.seen = read.seen \cup new
         /\ work \in SUBSET Snapshots /\ {f} \in SUBSET Followers
         /\ work \subseteq poll[x].work
    BY <1>1, <2>4 DEF FeedRows, SeenAfter
  <2>4b. repeated' = repeated \cup again
    BY <2>1, <2>3 DEF items
  <2>. HIDE DEF put, new, again, work
  <2>5. row \in PollRows /\ row.pc = "route" /\ row.on = {f} /\ row.items = items /\ row.work = work
    BY <1>1, <2>4, <2>4a DEF PollRows, PollSteps
  <2>6. poll' = [poll EXCEPT ![x] = row]
    BY <2>1, <2>3 DEF work, items
  <2>7. PutBack(f, read, put)
    BY <2>1, <2>3 DEF put, new, items
  <2>. HIDE DEF row
  <2>8. /\ feeds' \in [Followers -> FeedRows \cup {NoFeed}] /\ stale' \subseteq Followers
        /\ stale \subseteq stale' /\ (f \notin stale' => feeds[f] = read)
        /\ \A e \in Followers : feeds'[e] = IF e = f THEN put ELSE feeds[e]
        /\ \A e \in Followers \ stale', g \in Guids : SeenOf(e, g) => SeenOf(e, g)'
    BY <2>4a, <2>7, PuttingBackForgetsNothing
  <2>9. FeedsTypeOK'
    BY <1>1, <2>2, <2>4, <2>4b, <2>5, <2>6, <2>8
       DEF FeedsAreRight, FeedsTypeOK, PollRows, FeedRows, Snapshots, NoFeed
  <2>10. /\ \A y \in Polls : poll'[y] = IF y = x THEN row ELSE poll[y]
         /\ follow' = follow /\ routed' = routed
    BY <1>1, <2>2, <2>6
  <2>11. ASSUME NEW r \in Followers
         PROVE  Unused(r)' /\ (follow'[r].pc = "write" => follow'[r].row # NoFeed)
    <3>1. Unused(r) /\ (follow[r].pc = "write" => follow[r].row # NoFeed)
      BY DEF FeedsAreRight
    <3>2. r = f => follow[r].pc \notin {"idle", "query", "put"}
      BY <2>3, <3>1 DEF Unused
    <3>3. QED
      BY <2>4a, <2>5, <2>8, <2>10, <3>1, <3>2 DEF Unused, NoFeed
  <2>12. ASSUME NEW e \in Followers \ stale'
         PROVE  SentOnce(e)'
    <3>1. SentOnce(e)
      BY <2>8, <2>12 DEF FeedsAreRight
    <3>2. \A y \in Polls, g \in Guids : Routing(y, e, g)' =>
             \/ y # x /\ Routing(y, e, g) /\ poll'[y].items[g] = poll[y].items[g]
             \/ y = x /\ e = f /\ items[g] > 0 /\ poll'[y].items[g] = items[g]
      BY <2>5, <2>10 DEF Routing
    <3>3. CASE e # f
      BY <2>4b, <2>8, <2>10, <2>12, <3>1, <3>2, <3>3 DEF SentOnce
    <3>4. CASE e = f
      <4>1. feeds[e] = read /\ read # NoFeed /\ feeds'[e] = put
        BY <2>8, <2>12, <3>4, RowsAreFollows
      <4>2. \A g \in Guids : items[g] > 0 => ~SeenOf(e, g) /\ SeenOf(e, g)'
        BY <2>4, <2>4a, <4>1, RowsAreFollows DEF SeenOf, Followed
      <4>3. \A g \in Guids \ repeated : items[g] > 0 =>
               routed[e][g] = 0 /\ \A y \in Polls : ~Routing(y, e, g)
        BY <3>1, <4>2 DEF SentOnce
      <4>4. QED
        BY <2>4, <2>4b, <2>8, <2>10, <2>12, <3>1, <3>2, <4>2, <4>3 DEF SentOnce
    <3>5. QED
      BY <3>3, <3>4
  <2>13. QED
    BY <2>9, <2>11, <2>12 DEF FeedsAreRight, NoFeed
<1>5. CASE RouteItem(x)
  <2>1. PICK f \in poll[x].on, g \in {g \in Guids : poll[x].items[g] > 0} :
          /\ routed' \in {routed, [routed EXCEPT ![f][g] = @ + 1]}
          /\ poll' = [poll EXCEPT ![x].items[g] = @ - 1]
    BY <1>5 DEF RouteItem
  <2>2. poll[x].pc = "route" /\ UNCHANGED <<feeds, follow, stale, repeated>>
        /\ f \in Followers /\ g \in Guids /\ poll[x].items[g] > 0
    BY <1>1, <1>5 DEF RouteItem, marks
  <2>. DEFINE items == [poll[x].items EXCEPT ![g] = @ - 1]
              row == [poll[x] EXCEPT !.items = items]
  <2>3. /\ items \in Documents
        /\ \A h \in Guids : items[h] =
              IF h = g THEN poll[x].items[h] - 1 ELSE poll[x].items[h]
    BY <1>1, <2>2 DEF Documents
  <2>. HIDE DEF items
  <2>4. row \in PollRows /\ row.pc = "route" /\ row.on = poll[x].on /\ row.items = items
        /\ row.work = poll[x].work
    BY <1>1, <2>2, <2>3 DEF PollRows
  <2>5. poll' = [poll EXCEPT ![x] = row]
    BY <2>1 DEF items
  <2>. HIDE DEF row
  <2>6. /\ routed' \in [Followers -> [Guids -> Nat]]
        /\ \A e \in Followers, h \in Guids :
              \/ routed'[e][h] = routed[e][h]
              \/ e = f /\ h = g /\ routed'[e][h] = routed[e][h] + 1
    <3>1. CASE routed' = routed
      BY <1>1, <3>1
    <3>2. CASE routed' = [routed EXCEPT ![f][g] = @ + 1]
      <4>. DEFINE counts == [routed[f] EXCEPT ![g] = @ + 1]
      <4>1. counts \in [Guids -> Nat] /\ \A h \in Guids :
               counts[h] = IF h = g THEN routed[f][h] + 1 ELSE routed[f][h]
        BY <1>1, <2>2
      <4>2. routed' = [routed EXCEPT ![f] = counts]
        BY <3>2
      <4>. HIDE DEF counts
      <4>3. QED
        BY <1>1, <2>2, <4>1, <4>2
    <3>3. QED
      BY <2>1, <3>1, <3>2
  <2>7. FeedsTypeOK'
    BY <1>1, <2>2, <2>4, <2>5, <2>6
       DEF FeedsAreRight, FeedsTypeOK, PollRows, FeedRows, Snapshots, NoFeed
  <2>8. \A y \in Polls : poll'[y] = IF y = x THEN row ELSE poll[y]
    BY <1>1, <2>5
  <2>9. ASSUME NEW r \in Followers
        PROVE  Unused(r)' /\ (follow'[r].pc = "write" => follow'[r].row # NoFeed)
    <3>1. Unused(r) /\ (follow[r].pc = "write" => follow[r].row # NoFeed)
      BY DEF FeedsAreRight
    <3>2. r = f => follow[r].pc \notin {"idle", "query", "put"}
      BY <3>1 DEF Unused
    <3>3. QED
      BY <2>2, <2>4, <2>6, <2>8, <3>1, <3>2 DEF Unused, NoFeed
  <2>10. ASSUME NEW e \in Followers \ stale
         PROVE  SentOnce(e)'
    <3>1. SentOnce(e)
      BY <2>10 DEF FeedsAreRight
    <3>2. \A y \in Polls, h \in Guids : Routing(y, e, h)' =>
             Routing(y, e, h)
             /\ (y = x /\ h = g => poll[x].items[g] > 1)
             /\ (~(y = x /\ h = g) => poll'[y].items[h] = poll[y].items[h])
      <4>1. poll[x].items[g] \in Nat
        BY <1>1, <2>2 DEF Documents
      <4>2. QED
        BY <2>2, <2>3, <2>4, <2>8, <4>1 DEF Routing
    <3>3. \A h \in Guids : SeenOf(e, h) => SeenOf(e, h)'
      BY <2>2 DEF SeenOf, Followed, NoFeed
    <3>4. e = f => Routing(x, e, g)
      BY <2>1, <2>2 DEF Routing
    <3>5. \A h \in Guids \ repeated' : routed'[e][h] = 0 \/ (routed'[e][h] = 1 /\ SeenOf(e, h)')
      BY <2>2, <2>6, <3>1, <3>3, <3>4 DEF SentOnce
    <3>6. ASSUME NEW y \in Polls, NEW h \in Guids \ repeated', Routing(y, e, h)'
          PROVE  /\ poll'[y].items[h] = 1 /\ routed'[e][h] = 0 /\ SeenOf(e, h)'
                 /\ \A z \in Polls : Routing(z, e, h)' => y = z
      BY <2>2, <2>6, <3>1, <3>2, <3>3, <3>4, <3>6 DEF SentOnce
    <3>7. QED
      BY <3>5, <3>6 DEF SentOnce
  <2>11. QED
    BY <2>2, <2>7, <2>9, <2>10 DEF FeedsAreRight, NoFeed
<1>6. CASE NextFeed(x)
  <2>. DEFINE row == [poll[x] EXCEPT !.pc = "poll", !.on = {}]
  <2>1. row \in PollRows /\ row.pc = "poll" /\ row.on = {} /\ row.work = poll[x].work
    BY <1>1 DEF PollRows, PollSteps
  <2>2. UNCHANGED <<feeds, follow, routed, marks>> /\ poll' = [poll EXCEPT ![x] = row]
    BY <1>6 DEF NextFeed
  <2>. HIDE DEF row
  <2>3. QED
    BY <2>1, <2>2, PollsLook
<1>7. CASE SkipFeed(x)
  <2>1. PICK snap \in poll[x].work : poll' = [poll EXCEPT ![x].work = @ \ {snap}]
    BY <1>7 DEF SkipFeed
  <2>. DEFINE work == poll[x].work \ {snap}
              row == [poll[x] EXCEPT !.work = work]
  <2>2. work \in SUBSET Snapshots /\ work \subseteq poll[x].work
    BY <1>1
  <2>. HIDE DEF work
  <2>3. row \in PollRows /\ row.pc = poll[x].pc /\ row.on = poll[x].on /\ row.work = work
    BY <1>1, <2>2 DEF PollRows
  <2>4. UNCHANGED <<feeds, follow, routed, marks>> /\ poll[x].pc = "poll"
        /\ poll' = [poll EXCEPT ![x] = row]
    BY <1>7, <2>1 DEF SkipFeed, work
  <2>. HIDE DEF row
  <2>5. QED
    BY <2>2, <2>3, <2>4, PollsLook
<1>8. CASE PollEnds(x)
  <2>. DEFINE row == [NoPoll EXCEPT !.pc = "gone"]
  <2>0. 0 \in 0..PollReceives
    BY <1>1
  <2>1. row \in PollRows /\ row.pc = "gone" /\ row.on = {} /\ row.work = {}
    BY <1>2, <2>0 DEF PollRows, PollSteps, NoPoll
  <2>2. UNCHANGED <<feeds, follow, routed, marks>> /\ poll' = [poll EXCEPT ![x] = row]
    BY <1>8 DEF PollEnds
  <2>. HIDE DEF row
  <2>3. QED
    BY <2>1, <2>2, PollsLook
<1>9. CASE PollRaises(x)
  <2>. DEFINE row == [NoPoll EXCEPT !.received = poll[x].received]
  <2>1. row \in PollRows /\ row.pc = "queued" /\ row.on = {} /\ row.work = {}
    BY <1>1, <1>2 DEF PollRows, PollSteps, NoPoll
  <2>2. UNCHANGED <<feeds, follow, routed, marks>> /\ poll' = [poll EXCEPT ![x] = row]
    BY <1>9 DEF PollRaises
  <2>. HIDE DEF row
  <2>3. QED
    BY <2>1, <2>2, PollsLook
<1>10. QED
  BY <1>3, <1>4, <1>5, <1>6, <1>7, <1>8, <1>9

LEMMA FeedWorks ==
    ASSUME FeedsAreRight, FeedStep PROVE FeedsAreRight'
<1>1. CASE RequestStep /\ indexed' \in {indexed, feeds'}
  BY <1>1, RequestsKeepTheFeeds DEF RequestStep
<1>2. CASE PollStep /\ indexed' \in {indexed, feeds'}
  BY <1>2, PollsKeepTheFeeds DEF PollStep
<1>3. ASSUME NEW f \in Followers, IndexCatchesUp(f)
      PROVE  FeedsAreRight'
  <2>1. /\ indexed' = [indexed EXCEPT ![f] = feeds[f]]
        /\ feeds' = feeds /\ follow' = follow /\ poll' = poll /\ routed' = routed
        /\ stale' = stale /\ repeated' = repeated
    BY <1>3 DEF IndexCatchesUp, marks
  <2>2. FeedsTypeOK'
    BY <2>1 DEF FeedsAreRight, FeedsTypeOK, FeedRows, Snapshots, NoFeed
  <2>3. \A q \in Followers : indexed'[q] = IF q = f THEN feeds[q] ELSE indexed[q]
    BY <2>1 DEF FeedsAreRight, FeedsTypeOK
  <2>4. \A q \in Followers : Unused(q)'
    BY <2>1, <2>3 DEF FeedsAreRight, Unused, NoFeed
  <2>5. \A e \in Followers \ stale : SentOnce(e)'
    BY <2>1 DEF FeedsAreRight, SentOnce, Routing, SeenOf, Followed, NoFeed
  <2>6. QED
    BY <2>1, <2>2, <2>4, <2>5 DEF FeedsAreRight, NoFeed
<1>4. QED
  BY <1>1, <1>2, <1>3 DEF FeedStep

-----------------------------------------------------------------------------
(* The theorems                                                            *)

IInv ==
    /\ Filing /\ (~crossed => TreeIsRight)
    /\ IndexIsRight /\ DigestsAreRight /\ FeedsAreRight /\ load \in Loads

LEMMA Initially == Init => IInv
<1>. SUFFICES ASSUME Init PROVE IInv
  OBVIOUS
<1>. HIDE DEF FolderIds
<1>1. LastPeriod \in Nat \ {0} /\ 1 \in 1..LastPeriod
  BY SavesAssumption
<1>2. SavesTypeOK
  <2>1. Grown \subseteq FolderIds
    BY DEF FolderIds
  <2>2. [state : {"visible"}, folder : {f \in Grown : Exists(f)} \cup {Unfiled},
         at : {1}, late : {FALSE}] \subseteq SaveRows
    BY <1>1, <2>1 DEF SaveRows
  <2>3. saves \in [Items -> {NoSave} \cup
          [state : {"visible"}, folder : {f \in Grown : Exists(f)} \cup {Unfiled},
           at : {1}, late : {FALSE}]] /\ clock = 1
    BY DEF Init
  <2>. HIDE DEF SaveRows, NoSave, GoneSave
  <2>4. QED
    BY <1>1, <2>2, <2>3 DEF SavesTypeOK
<1>3. FoldersTypeOK
  <2>1. PICK parents \in [Grown -> Grown \cup {Unfiled}], d \in SUBSET Grown :
          folders = [f \in FolderIds |->
             IF ~load.grown \/ f \notin Grown THEN NoFolder
             ELSE IF f \in d THEN Default ELSE Under(parents[f])]
    BY DEF Init
  <2>2. Grown \subseteq FolderIds
    BY DEF FolderIds
  <2>3. folders \in [FolderIds -> FolderRows \cup {NoFolder}]
    BY <2>1, <2>2 DEF FolderRows, Default, Under
  <2>4. NoRequest \in RequestRows
    BY <1>1 DEF NoRequest, RequestRows, FolderOps, RequestSteps
  <2>5. request = [r \in Requests |-> NoRequest] /\ crossed = FALSE
    BY DEF Init
  <2>6. request \in [Requests -> RequestRows]
    BY <2>4, <2>5
  <2>7. QED
    BY <2>3, <2>5, <2>6 DEF FoldersTypeOK, RequestRows
<1>4. FilingFits
  BY DEF Init, FilingFits, NoRequest
<1>5. IndexIsRight
  BY SearchAssumption DEF Init, SearchInit, IndexIsRight, SearchTypeOK, NoNote, NoRemoval,
     NoteSteps, RemovalSteps
<1>6. DigestsTypeOK
  BY <1>1, DigestsAssumption DEF Init, DigestsInit, DigestsTypeOK, NoReader, ReaderSteps, NoPush,
     PushSteps, Periods
<1>7. CapturesAreRight /\ SignedOutAreLeft
  BY DEF Init, DigestsInit, CapturesAreRight, AnnouncedOnce, ReaderOf, SignedOutAreLeft, NoReader,
     NoPush, Periods
<1>8. FeedsAreRight
  BY FeedsAssumption DEF Init, FeedsInit, FeedsAreRight, FeedsTypeOK, NoFollow, FollowSteps,
     NoPoll, NoItems, Documents, PollSteps, Unused, SentOnce, Routing
<1>9. TreeIsRight
  BY <1>3, TreesAreGrown
<1>10. QED
  BY <1>2, <1>3, <1>4, <1>5, <1>6, <1>7, <1>8, <1>9 DEF IInv, Filing, DigestsAreRight, Init

\* A step of a component that leaves the folders alone.
LEMMA TreeSurvivesTheirSteps ==
    ASSUME ~crossed => TreeIsRight, UNCHANGED folderVars, SavesTypeOK,
           SearchStep \/ UNCHANGED saves
    PROVE  ~crossed' => TreeIsRight'
<1>1. crossed' = crossed
  BY DEF folderVars
<1>2. \A i \in Items : saves'[i].state = "visible" => saves'[i] = saves[i]
  BY SearchesShowNothingNew
<1>. QED  BY <1>1, <1>2, TreeSurvivesTheOthers

LEMMA StepsKeep == IInv /\ [Next]_vars => IInv'
<1>. SUFFICES ASSUME IInv, [Next]_vars PROVE IInv'
  OBVIOUS
<1>. USE DEF IInv
<1>1. CASE UNCHANGED vars
  <2>1. /\ UNCHANGED saveVars /\ UNCHANGED folderVars /\ UNCHANGED searchVars
        /\ UNCHANGED digestVars /\ UNCHANGED feedVars /\ UNCHANGED load
    BY <1>1 DEF vars
  <2>2. /\ SavesTypeOK' /\ SavesMove
        /\ \A j \in Items : saves[j] = NoSave => saves'[j] = NoSave
    BY <2>1, RowsCanRest DEF Filing
  <2>3. QED
    BY <2>1, <2>2, FilingSurvivesTheOthers, SearchIsKeptByOthers, DigestsAreKeptByOthers,
       FeedsAreKeptByOthers, TreeSurvivesTheirSteps DEF Filing, saveVars
<1>2. ASSUME Next PROVE IInv'
  <2>1. load' = load
    BY <1>2 DEF Next
  <2>2. CASE FolderWork
    <3>1. PICK r \in Requests : FolderStep(r)
      BY <2>2 DEF FolderWork
    <3>2. Filing' /\ SavesMove
      BY <3>1, FilingSurvivesRequests
    <3>3. UNCHANGED searchVars /\ UNCHANGED digestVars /\ UNCHANGED feedVars
      BY <2>2 DEF FolderWork
    <3>4. crossed => crossed'
      BY <3>1, OverlapsAreRemembered
    <3>5. ~crossed' => TreeIsRight'
      BY <3>1, <3>4, TreeSurvivesRequests
    <3>6. QED
      BY <2>1, <3>2, <3>3, <3>5, SearchIsKeptByOthers, DigestsAreKeptByOthers,
         FeedsAreKeptByOthers DEF Filing
  <2>3. CASE SearchWork
    <3>1. SearchStep /\ UNCHANGED folderVars /\ UNCHANGED digestVars /\ UNCHANGED feedVars
      BY <2>3 DEF SearchWork
    <3>2. /\ IndexIsRight' /\ SavesTypeOK' /\ SavesMove
          /\ \A j \in Items : saves[j] = NoSave => saves'[j] = NoSave
      BY <3>1, SearchWorks DEF Filing
    <3>3. QED
      BY <2>1, <3>1, <3>2, FilingSurvivesTheOthers, DigestsAreKeptByOthers, FeedsAreKeptByOthers,
         TreeSurvivesTheirSteps DEF Filing
  <2>4. CASE DigestWork
    <3>1. DigestStep /\ UNCHANGED folderVars /\ UNCHANGED searchVars /\ UNCHANGED feedVars
      BY <2>4 DEF DigestWork
    <3>2. DigestsAreRight' /\ UNCHANGED saveVars
      BY <3>1, DigestWorks DEF Filing
    <3>3. /\ SavesTypeOK' /\ SavesMove
          /\ \A j \in Items : saves[j] = NoSave => saves'[j] = NoSave
      BY <3>2, RowsCanRest DEF Filing
    <3>4. QED
      BY <2>1, <3>1, <3>2, <3>3, FilingSurvivesTheOthers, SearchIsKeptByOthers,
         FeedsAreKeptByOthers, TreeSurvivesTheirSteps DEF Filing, saveVars
  <2>5. CASE FeedWork
    <3>1. /\ FeedStep /\ UNCHANGED saveVars /\ UNCHANGED folderVars /\ UNCHANGED searchVars
          /\ UNCHANGED digestVars
      BY <2>5 DEF FeedWork
    <3>2. /\ SavesTypeOK' /\ SavesMove
          /\ \A j \in Items : saves[j] = NoSave => saves'[j] = NoSave
      BY <3>1, RowsCanRest DEF Filing
    <3>3. QED
      BY <2>1, <3>1, <3>2, FilingSurvivesTheOthers, SearchIsKeptByOthers, DigestsAreKeptByOthers,
         FeedWorks, TreeSurvivesTheirSteps DEF Filing, saveVars
  <2>6. CASE ClockTicks
    <3>1. /\ PeriodEnds /\ UNCHANGED folderVars /\ UNCHANGED searchVars /\ UNCHANGED digestVars
          /\ UNCHANGED feedVars
      BY <2>6 DEF ClockTicks
    <3>2. /\ SavesTypeOK' /\ SavesMove
          /\ \A j \in Items : saves[j] = NoSave => saves'[j] = NoSave
      BY <3>1, SavesAssumption DEF Filing, PeriodEnds, SavesTypeOK, SavesMove, SaveRows, NoSave,
         GoneSave
    <3>3. QED
      BY <2>1, <3>1, <3>2, FilingSurvivesTheOthers, SearchIsKeptByOthers, DigestsAreKeptByOthers,
         FeedsAreKeptByOthers, TreeSurvivesTheirSteps DEF Filing, PeriodEnds
  <2>7. QED
    BY <1>2, <2>2, <2>3, <2>4, <2>5, <2>6 DEF Next
<1>3. QED
  BY <1>1, <1>2

\* The inductive invariant holds in every behaviour.
THEOREM Invariance == Spec => []IInv
  BY Initially, StepsKeep, PTL DEF Spec

\* The rows, the requests, the messages and the captures keep their types, whatever is
\* deleted, put back or delivered again.
THEOREM TypesAreCorrect == Spec => []TypeOK
<1>1. IInv => TypeOK
  BY DEF IInv, TypeOK, Filing, IndexIsRight, DigestsAreRight, FeedsAreRight
<1>2. QED
  BY <1>1, Invariance, PTL

\* Until requests overlap that the code does not keep apart, the folders are a forest of
\* bounded depth with one default folder and no visible save is in a folder that is gone
\* (FoldersFormATree), wherever a request ends and however many there are.
THEOREM FoldersStayATree == Spec => []FoldersFormATree
<1>1. IInv => FoldersFormATree
  BY RightTreesAreTrees DEF IInv, Filing
<1>2. QED
  BY <1>1, Invariance, PTL

\* A save that was taken out of the search index after its deletion never comes back
\* into it (SearchForgets), however late or often its message is delivered.
THEOREM ClearedSavesStayOut == Spec => []SearchForgets
<1>1. IInv => SearchForgets
  BY DEF IInv, IndexIsRight, SearchForgets
<1>2. QED
  BY <1>1, Invariance, PTL

\* A period that nobody captured over a capture is announced at most once, as the
\* screen shows it, and misses no save stored before it closed (DigestIsTold).
THEOREM DigestsAreTold == Spec => []DigestIsTold
<1>1. ASSUME IInv, NEW p \in Periods \ retaken
      PROVE  /\ Len(notices[p]) <= 1
             /\ \A n \in DOMAIN notices[p] : notices[p][n] = digests[p].items
  <2>1. notices[p] = <<>> \/ notices[p] = <<digests[p].items>>
    BY <1>1 DEF IInv, DigestsAreRight, CapturesAreRight, AnnouncedOnce
  <2>2. /\ Len(<<>>) = 0 /\ DOMAIN <<>> = {}
        /\ Len(<<digests[p].items>>) = 1 /\ DOMAIN <<digests[p].items>> = {1}
        /\ <<digests[p].items>>[1] = digests[p].items
    OBVIOUS
  <2>3. CASE notices[p] = <<>>
    BY <2>2, <2>3
  <2>4. CASE notices[p] = <<digests[p].items>>
    BY <2>2, <2>4
  <2>5. QED
    BY <2>1, <2>3, <2>4
<1>2. ASSUME IInv, NEW p \in Periods, digests[p] # NoCapture, NEW i \in Items,
             Visible(i), saves[i].at = p, ~saves[i].late
      PROVE  i \in digests[p].items
  BY <1>2 DEF IInv, DigestsAreRight, CapturesAreRight, Complete
<1>3. IInv => DigestIsTold
  BY <1>1, <1>2 DEF DigestIsTold
<1>4. QED
  BY <1>3, Invariance, PTL

\* A device that was unregistered is never posted to again unless the post was under
\* way (QuietAfterSignOut).
THEOREM SignedOutDevicesAreQuiet == Spec => QuietAfterSignOut
<1>. DEFINE Told == \A p \in Periods : push[p].pc = "post" /\ push'[p].pc = "drop" =>
                        push[p].to \cap quiet = {}
<1>1. IInv /\ [Next]_vars => [Told]_vars
  BY DEF IInv, DigestsAreRight, SignedOutAreLeft
<1>2. QED
  BY <1>1, Invariance, PTL DEF Spec, QuietAfterSignOut

\* An item that no document listed twice while it was new is sent to be processed at
\* most once for a follow, while no whole row was put over a change made since it was
\* read (ItemRoutedOnce).
THEOREM ItemsAreRoutedOnce == Spec => []ItemRoutedOnce
<1>1. IInv => ItemRoutedOnce
  BY DEF IInv, FeedsAreRight, FeedsTypeOK, SentOnce, ItemRoutedOnce
<1>2. QED
  BY <1>1, Invariance, PTL
=============================================================================
