------------------------------ MODULE Digests ------------------------------
(***************************************************************************)
(* The digest of one kind of one account: the capture of a closed period,  *)
(* made by whoever needs it first, and its announcement, claimed by one    *)
(* sweep of the scheduler and sent to the devices that are registered when *)
(* the message is handled.                                                 *)
(*                                                                         *)
(* A sweep and the screen read the capture, make one from the library if   *)
(* there is none and put it, in calls that anything may come between.      *)
(* Whether a period is due and the digest switched on is left open.        *)
(***************************************************************************)
EXTENDS Saves, Sequences

CONSTANTS
    Readers,        \* the sweeps and the openings of the screen
    Devices,        \* the push tokens of the account
    PushReceives    \* maxReceiveCount of the push queue

ASSUME DigestsAssumption == PushReceives \in Nat \ {0}

VARIABLES
    digests,        \* the rows of user_digests, by period
    reader,         \* the sweeps and openings and their local variables
    retaken,        \* periods captured again over a capture that was there
    push,           \* the push message of each period that was announced
    notices,        \* the messages sent for each period
    receipts,       \* devices whose receipts a message will ask for
    registered,     \* the rows of user_push_tokens
    quiet           \* devices unregistered with no delivery to them under way

digestVars == <<digests, reader, retaken, push, notices, receipts, registered, quiet>>

Periods == 1..LastPeriod
Captures == [items : SUBSET Items, published : BOOLEAN]
NoCapture == [published |-> FALSE]
ReaderSteps == {"idle", "get", "collect", "save", "mark", "send", "done"}
NoReader == [pc |-> "idle", sweep |-> FALSE, on |-> 1, items |-> {}]
PushSteps == {"none", "queued", "post", "drop", "gone"}
NoPush == [pc |-> "none", received |-> 0, to |-> {}, dead |-> {}]

DigestsTypeOK ==
    /\ digests \in [Periods -> Captures \cup {NoCapture}]
    /\ reader \in [Readers -> [pc : ReaderSteps, sweep : BOOLEAN, on : Periods,
                               items : SUBSET Items]]
    /\ retaken \subseteq Periods
    /\ push \in [Periods -> [pc : PushSteps, received : 0..PushReceives,
                             to : SUBSET Devices, dead : SUBSET Devices]]
    /\ notices \in [Periods -> Seq(SUBSET Items)]
    /\ receipts \subseteq Devices
    /\ registered \subseteq Devices /\ quiet \subseteq Devices

DigestsInit ==
    /\ digests = [p \in Periods |-> NoCapture]
    /\ reader = [x \in Readers |-> NoReader]
    /\ retaken = {}
    /\ push = [p \in Periods |-> NoPush]
    /\ notices = [p \in Periods |-> <<>>]
    /\ receipts = {} /\ registered = {} /\ quiet = {}

-----------------------------------------------------------------------------
(* Capture                                                                 *)

ReaderAt(x, pc) == reader[x].pc = pc
ReaderTo(x, pc) == reader' = [reader EXCEPT ![x].pc = pc]

\* Mutant of LivePeriod: the period still in progress.
OpenPeriod == clock

\* resolve_daily_window, resolve_weekly_window: the last period that closed.
LivePeriod == clock - 1

ReadSettings(x) ==
    /\ ReaderAt(x, "idle") /\ LivePeriod \in Periods
    /\ \E sweep \in BOOLEAN :
          reader' = [reader EXCEPT ![x] =
                        [pc |-> "get", sweep |-> sweep, on |-> LivePeriod, items |-> {}]]
    /\ UNCHANGED <<digests, retaken, push, notices, receipts, registered, quiet, saveVars>>

\* A sweep goes on to claim the period, the screen shows it.
HasCapture(x, items) ==
    reader' = [reader EXCEPT ![x] = [@ EXCEPT !.items = items,
                                              !.pc = IF reader[x].sweep THEN "mark" ELSE "done"]]

GetDigest(x) ==
    LET capture == digests[reader[x].on] IN
    /\ ReaderAt(x, "get")
    /\ IF capture = NoCapture THEN ReaderTo(x, "collect") ELSE HasCapture(x, capture.items)
    /\ UNCHANGED <<digests, retaken, push, notices, receipts, registered, quiet, saveVars>>

\* _collect_window_items; an empty period is neither stored nor announced.
CollectItems(x) ==
    LET made == {i \in Items : Visible(i) /\ saves[i].at = reader[x].on} IN
    /\ ReaderAt(x, "collect")
    /\ reader' = [reader EXCEPT ![x] = [@ EXCEPT !.items = made,
                                                 !.pc = IF made = {} THEN "done" ELSE "save"]]
    /\ UNCHANGED <<digests, retaken, push, notices, receipts, registered, quiet, saveVars>>

\* save_digest puts the row, whatever is there.
SaveDigest(x) ==
    LET p == reader[x].on IN
    /\ ReaderAt(x, "save")
    /\ digests' = [digests EXCEPT ![p] = [items |-> reader[x].items, published |-> FALSE]]
    /\ retaken' = IF digests[p] = NoCapture THEN retaken ELSE retaken \cup {p}
    /\ HasCapture(x, reader[x].items)
    /\ UNCHANGED <<push, notices, receipts, registered, quiet, saveVars>>

-----------------------------------------------------------------------------
(* Announcement                                                            *)

\* mark_digest_published: the row is there and was not announced.
MayPublish(p) == digests[p] # NoCapture /\ ~digests[p].published

MarkPublished(x) ==
    LET p == reader[x].on IN
    /\ ReaderAt(x, "mark")
    /\ IF MayPublish(p)
       THEN /\ digests' = [digests EXCEPT ![p].published = TRUE]
            /\ ReaderTo(x, "send")
       ELSE ReaderTo(x, "done") /\ UNCHANGED digests
    /\ UNCHANGED <<retaken, push, notices, receipts, registered, quiet, saveVars>>

SendNotice(x) ==
    LET p == reader[x].on IN
    /\ ReaderAt(x, "send")
    /\ notices' = [notices EXCEPT ![p] = Append(@, reader[x].items)]
    /\ push' = [push EXCEPT ![p] = [NoPush EXCEPT !.pc = "queued"]]
    /\ ReaderTo(x, "done")
    /\ UNCHANGED <<digests, retaken, receipts, registered, quiet, saveVars>>

\* The account is skipped until the next sweep; the screen answers an error.
ReaderRaises(x) ==
    /\ reader[x].pc \notin {"idle", "done"}
    /\ ReaderTo(x, "done")
    /\ UNCHANGED <<digests, retaken, push, notices, receipts, registered, quiet, saveVars>>

-----------------------------------------------------------------------------
(* Delivery                                                                *)

\* Mutant of Recipients: every device the account ever had.
RecipientsEver == registered \cup quiet

\* The devices are read when the message is handled, not carried in it.
Recipients == registered

\* Mutant of Deliverable: one receive more than the queue allows.
DeliverableOnceMore(p) == push[p].received <= PushReceives

\* The redrive limit of the queue.
Deliverable(p) == push[p].received < PushReceives

ListTokens(p) ==
    /\ push[p].pc = "queued" /\ Deliverable(p)
    /\ push' = [push EXCEPT
          ![p] = [push[p] EXCEPT !.received = @ + 1, !.to = Recipients,
                                 !.pc = IF Recipients = {} THEN "gone" ELSE "post"]]
    /\ UNCHANGED <<digests, reader, retaken, notices, receipts, registered, quiet, saveVars>>

\* Expo answers device by device; it says of some that they are gone.
PostToExpo(p) ==
    /\ push[p].pc = "post"
    /\ \E dead \in SUBSET push[p].to : push' = [push EXCEPT
                                                   ![p] = [@ EXCEPT !.dead = dead, !.pc = "drop"]]
    /\ UNCHANGED <<digests, reader, retaken, notices, receipts, registered, quiet, saveVars>>

\* Nobody is about to post to it.
NoPostTo(d) == \A p \in Periods : push[p].pc = "post" => d \notin push[p].to
Unregistered(d) ==
    /\ registered' = registered \ {d}
    /\ quiet' = IF NoPostTo(d) THEN quiet \cup {d} ELSE quiet

DropDead(p) ==
    /\ push[p].pc = "drop"
    /\ \E d \in push[p].dead :
          /\ Unregistered(d)
          /\ push' = [push EXCEPT ![p] = [push[p] EXCEPT !.dead = @ \ {d}, !.to = @ \ {d}]]
    /\ UNCHANGED <<digests, reader, retaken, notices, receipts, saveVars>>

\* The receipts of the devices that were accepted are looked up by a second message.
ScheduleReceiptCheck(p) ==
    /\ push[p].pc = "drop" /\ push[p].dead = {}
    /\ receipts' = receipts \cup push[p].to
    /\ push' = [push EXCEPT ![p] = [@ EXCEPT !.pc = "gone", !.to = {}]]
    /\ UNCHANGED <<digests, reader, retaken, notices, registered, quiet, saveVars>>

\* The post raises, perhaps after it was taken, or a later call does: the message
\* comes back and the devices are listed again.
DeliveryRaises(p) ==
    /\ push[p].pc \in {"post", "drop"}
    /\ push' = [push EXCEPT ![p] = [@ EXCEPT !.pc = "queued", !.to = {}, !.dead = {}]]
    /\ UNCHANGED <<digests, reader, retaken, notices, receipts, registered, quiet, saveVars>>

\* A receipt, or none yet, and a device that is gone; a check that fails for good
\* leaves them all.
HandleReceipt(d) ==
    /\ d \in receipts
    /\ receipts' = receipts \ {d}
    /\ Unregistered(d) \/ UNCHANGED <<registered, quiet>>
    /\ UNCHANGED <<digests, reader, retaken, push, notices, saveVars>>

RegisterDevice(d) ==
    /\ registered' = registered \cup {d} /\ quiet' = quiet \ {d}
    /\ UNCHANGED <<digests, reader, retaken, push, notices, receipts, saveVars>>

\* At sign-out, or ninety days after it was last seen.
UnregisterDevice(d) ==
    /\ Unregistered(d)
    /\ UNCHANGED <<digests, reader, retaken, push, notices, receipts, saveVars>>

DigestStep ==
    \/ \E x \in Readers :
          \/ ReadSettings(x) \/ GetDigest(x) \/ CollectItems(x) \/ SaveDigest(x)
          \/ MarkPublished(x) \/ SendNotice(x) \/ ReaderRaises(x)
    \/ \E p \in Periods :
          \/ ListTokens(p) \/ PostToExpo(p) \/ DropDead(p) \/ ScheduleReceiptCheck(p)
          \/ DeliveryRaises(p)
    \/ \E d \in Devices : RegisterDevice(d) \/ UnregisterDevice(d) \/ HandleReceipt(d)
=============================================================================
