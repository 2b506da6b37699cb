------------------------------ MODULE Account ------------------------------
(***************************************************************************)
(* One account: its sessions, its subscriptions and its submissions.  They *)
(* meet in the erasure, which deletes all of them, in the trial, which     *)
(* lasts as long as the account's row, in what the account is granted, and *)
(* in the period that what it spends is charged to.                        *)
(***************************************************************************)
EXTENDS Sessions, Intake

CONSTANT Loads      \* bounds: how many requests, store events and submissions may come
                    \* together, the subscriptions that are sold, whether deliveries out
                    \* of turn are left out, the files and whether their calls may fail

VARIABLE load

vars == <<sessionVars, subscriptionVars, consumptionVars, intakeVars, load>>

ASSUME LoadAssumption == Loads \subseteq 
    [calls : Nat, events : Nat, sold : SUBSET Subs, orderly : BOOLEAN,
     work : SUBSET Work, files : SUBSET Files, faults : BOOLEAN]

TypeOK ==
    /\ SessionsTypeOK
    /\ SubscriptionsTypeOK
    /\ IntakeTypeOK
    /\ load \in Loads

Init ==
    /\ SessionsInit
    /\ SubscriptionsInit
    /\ IntakeInit
    /\ load \in Loads
    /\ \A f \in Shared \ load.files : entry[f] = Absent

Started == {c \in Calls : call[c].pc # "idle"}
MayArrive(c) == call[c].pc = "idle" => Cardinality(Started) < load.calls

\* The erasure deletes the library, the counters, the subscriptions and everything else
\* of the user, and then the events; deleted events will not be recognised when they are
\* delivered again.  Its way to the jobs and their objects is followed in ContentPurge.
Erases(c) ==
    \/ /\ EraseRows(c)
       /\ rows' = <<>> /\ debits' = {} /\ counts' = {}
       /\ row' = [r \in Work |-> IF row[r] = "held" THEN "deleted" ELSE row[r]]
       /\ odd' = Files
       /\ UNCHANGED <<today, store, events, recorded, delivery, wild, staged, req, job, stored,
                      entry, owing, load>>
    \/ /\ EraseEvents(c)
       /\ recorded' = {}
       /\ UNCHANGED <<today, store, events, rows, delivery, wild, consumptionVars, intakeVars,
                      load>>

Sessional ==
    \/ \E c \in Calls : MayArrive(c) /\ CallStep(c)
    \/ \E t \in Tokens : GraceCloses(t)

Billing ==
    \/ Len(events) < load.events /\ \E s \in load.sold : StoreStep(s)
    \/ load.events > 0 /\ DayPasses
    \/ \E d \in Deliveries :
          /\ WebhookStep(d)
          /\ load.orderly => wild' = {}

InTrial == user /\ today < TrialEnd

Submitting ==
    \/ \E k \in Keys : \/ \E f \in load.files \cap Uploads : SignUrl(k, f)
                      \/ PutFile(k)
    \/ \E r \in load.work :
          \/ RequestStep(r, InTrial)
          \/ \E f \in load.files : SubmitLink(r, f)
          \/ load.faults /\ RequestFault(r, InTrial)
    \/ \E f \in load.files \cap Shared, outcome \in Outcomes : OtherEnds(f, outcome)

Next ==
    \/ Sessional /\ UNCHANGED <<subscriptionVars, consumptionVars, intakeVars, load>>
    \/ \E c \in Calls : Erases(c)
    \/ Billing /\ UNCHANGED <<sessionVars, consumptionVars, intakeVars, load>>
    \/ Submitting /\ UNCHANGED <<sessionVars, subscriptionVars, load>>

Spec == Init /\ [][Next]_vars

-----------------------------------------------------------------------------
(* Safety                                                                  *)

\* A device that logged out stays logged out: once a logout of its session has
\* been answered, no token of the session is usable, unless a rotation of the
\* same session was under way beside the logout.
LogoutEndsSession == \A line \in closed : LiveOf(line) = {}

Erasing == \E c \in Calls : call[c].op = "erase" /\ call[c].pc # "idle"

\* What a device can still present: a live token, or one whose replay is live.
Usable(t) ==
    \/ tokens[t].state = "live"
    \/ tokens[t].state = "rotated" /\ tokens[tokens[t].next].state = "live"

\* No rotation, whatever raises, overtakes it or loses its answer, signs a device
\* out that asked for nothing of the kind: it holds a token that works, or one
\* that is replayed, as long as it comes for the successor in the grace window.
SessionIsKept ==
    \A d \in Devices :
        \/ Erasing
        \/ \E c \in Calls : call[c].op = "logout" /\ call[c].line = d
        \/ \E t \in Tokens : tokens[t].state = "faded" /\ tokens[t].next \notin handed
        \/ \E t \in handed : Present(t) /\ tokens[t].line = d /\ Usable(t)

\* The erasure can be retried until all is gone and nothing comes back: as long
\* as a session is left the account is there, and after the answer neither is,
\* unless a write of the account was under way at the end of the erasure.
ErasedIsGone ==
    ~raced => /\ gone => ~user
              /\ ~user => \A t \in Tokens : ~Present(t)

ShownStatus(t) ==
    CASE t.phase = "off" -> "expired"
      [] t.cancelled /\ t.phase # "off" -> "canceled"
      [] ~t.cancelled /\ t.phase = "issue" -> "grace_period"
      [] OTHER -> "active"

Settled(s) ==
    /\ store[s].phase # "none"
    /\ \A i \in DOMAIN events : events[i].sub = s => i \in recorded
    /\ \A d \in Deliveries : Busy(d) => Handling(d).sub # s

\* Repeated, broken off and retried, the events leave the row in the store's
\* state, and no other row of the subscription entitles; cancellation, expiration
\* and payment failure in any order.  Other reorderings, deliveries of one subscription
\* that overlap and, where the store names no identifier, changes back to the product of
\* an earlier purchase are excluded: the code does not survive them.
RowTellsTheStore ==
    \A s \in Subs \ wild :
        Settled(s) /\ ~Erasing =>
            LET mine == {i \in DOMAIN rows : rows[i].store = s}
                last == rows[Max(mine)]
                truth == store[s]
            IN /\ mine # {}
               /\ last.status = ShownStatus(truth)
               /\ last.cancels = truth.cancelled /\ last.renews = truth.renews
               /\ last.product = truth.product /\ last.plan = truth.plan
               /\ last.until = truth.until
               /\ \A i \in mine \ {Max(mine)} : ~Entitles(rows[i])

\* Buying a plan never takes anything away: neither the minutes nor the length of
\* an import that the trial or another subscription allows.
BuyingTakesNothing ==
    [][\A d \in Deliveries :
          /\ WriteSubscription(d)
          /\ Handling(d).kind = "INITIAL_PURCHASE" /\ Handling(d).sub \notin wild /\ ~Erasing
          => \/ Covers(Allowance(InTrial)', Allowance(InTrial))
             \/ Allowance(InTrial) = Nothing]_vars
=============================================================================
