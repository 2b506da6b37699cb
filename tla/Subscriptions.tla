--------------------------- MODULE Subscriptions ---------------------------
(***************************************************************************)
(* What the backend believes of a user's store subscriptions, and what it  *)
(* grants for them.  The stores sell, renew, cancel and end; each change   *)
(* is an event that RevenueCat delivers to a webhook, late, twice, out of  *)
(* order or two at a time, until an answer says it was processed.          *)
(*                                                                         *)
(* A delivery checks whether the event is recorded, reads the user's rows, *)
(* writes one of them whole and records the event: four remote calls, any  *)
(* of which may raise.                                                     *)
(***************************************************************************)
EXTENDS Naturals, FiniteSets, Sequences, SequencesExt

CONSTANTS
    Subs,           \* subscriptions the user may hold, each in a store of its own
    Named,          \* those whose events carry original_transaction_id
    Plans,          \* the tiers on sale; a product is named after its tier
    Minutes,        \* minutes_per_month of each plan and of "trial"
    Cap,            \* max_minutes_per_item of each; 0 is no cap
    Deliveries,     \* the webhook requests that may be in progress at once
    LastDay,        \* bound of the clock
    TrialEnd,       \* the day the free trial closes
    NoPlan

ASSUME SubscriptionsAssumption ==
    /\ Named \subseteq Subs
    /\ NoPlan \notin Plans /\ "trial" \notin Plans
    /\ Minutes \in [Plans \cup {"trial"} -> Nat]
    /\ Cap \in [Plans \cup {"trial"} -> Nat]
    /\ LastDay \in Nat /\ TrialEnd \in Nat

VARIABLES
    today,          \* the day
    store,          \* the truth: what each store knows of the subscription
    events,         \* the events the stores emitted, in that order
    recorded,       \* the events in revenucat_events
    rows,           \* the user's subscriptions, most recently written last
    delivery,       \* the webhook requests in progress
    wild            \* subscriptions whose events overlapped, were reordered or found a
                    \* row of an earlier purchase

subscriptionVars == <<today, store, events, recorded, rows, delivery, wild>>

-----------------------------------------------------------------------------
(* Data                                                                    *)

Phases == {"none", "on", "issue", "off"}
Kinds == {"INITIAL_PURCHASE", "RENEWAL", "CANCELLATION", "EXPIRATION",
          "BILLING_ISSUE_DETECTED", "PRODUCT_CHANGE"}
Statuses == {"active", "canceled", "expired", "grace_period"}
Days == 0..LastDay + 1

\* product: what the event names; former: the outgoing product of a change;
\* plan: the tier its entitlements resolve to.
Events == [sub : Subs, kind : Kinds, product : Plans, former : Plans \cup {NoPlan},
           plan : Plans, until : Days]

\* id: the primary key, named after the delivery that created the row and its
\* event; store: the platform; named: it carries the store's identifier.
RowIds == Nat \X Deliveries
Rows == [id : RowIds, store : Subs, named : BOOLEAN, product : Plans, plan : Plans,
         until : Days, status : Statuses, cancels : BOOLEAN, renews : BOOLEAN]
NoRowYet == [status |-> "none"]
NoDelivery == [pc |-> "idle", event |-> 0, row |-> NoRowYet]

SubscriptionsTypeOK ==
    /\ today \in 0..LastDay
    /\ store \in [Subs -> [phase : Phases, product : Plans \cup {NoPlan},
                           plan : Plans \cup {NoPlan}, until : Days, renews : BOOLEAN,
                           cancelled : BOOLEAN]]
    /\ events \in Seq(Events)
    /\ recorded \subseteq DOMAIN events
    /\ rows \in Seq(Rows)
    /\ delivery \in [Deliveries -> [pc : {"idle", "read", "write", "record"}, event : Nat,
                                    row : Rows \cup {NoRowYet}]]
    /\ wild \subseteq Subs

SubscriptionsInit ==
    /\ today = 0
    /\ store = [s \in Subs |-> [phase |-> "none", product |-> NoPlan, plan |-> NoPlan,
                                until |-> 0, renews |-> FALSE, cancelled |-> FALSE]]
    /\ events = <<>> /\ recorded = {} /\ rows = <<>>
    /\ delivery = [d \in Deliveries |-> NoDelivery]
    /\ wild = {}

-----------------------------------------------------------------------------
(* The stores                                                              *)

Emit(kind, s, former) ==
    events' = Append(events, [sub |-> s, kind |-> kind, former |-> former,
                              product |-> store'[s].product, plan |-> store'[s].plan,
                              until |-> store'[s].until])

Bought(plan) == [phase |-> "on", product |-> plan, plan |-> plan, until |-> today + 1,
                 renews |-> TRUE, cancelled |-> FALSE]

\* A period is one day.  A subscription that ended may be bought again ...
Buy(s, plan) ==
    /\ store[s].phase \in {"none", "off"}
    /\ store' = [store EXCEPT ![s] = Bought(plan)]
    /\ Emit("INITIAL_PURCHASE", s, NoPlan)

\* ... which is a renewal when it is the product it was; a change of product that
\* was deferred takes effect now.
Renew(s) ==
    /\ \/ /\ store[s].phase \in {"on", "issue"}
          /\ store[s].renews /\ store[s].until <= today
       \/ store[s].phase = "off"
    /\ store' = [store EXCEPT ![s] = Bought(store[s].product)]
    /\ Emit("RENEWAL", s, NoPlan)

Cancel(s) ==
    /\ store[s].phase \in {"on", "issue"} /\ store[s].renews
    /\ store' = [store EXCEPT ![s] = [@ EXCEPT !.renews = FALSE, !.cancelled = TRUE]]
    /\ Emit("CANCELLATION", s, NoPlan)

PaymentFails(s) ==
    /\ store[s].phase = "on" /\ store[s].renews /\ store[s].until = today
    /\ store' = [store EXCEPT ![s].phase = "issue"]
    /\ Emit("BILLING_ISSUE_DETECTED", s, NoPlan)

Expire(s) ==
    /\ store[s].phase \in (IF store[s].renews THEN {"issue"} ELSE {"on", "issue"})
    /\ store[s].until <= today
    /\ store' = [store EXCEPT ![s] = [@ EXCEPT !.phase = "off", !.renews = FALSE]]
    /\ Emit("EXPIRATION", s, NoPlan)

\* The tier follows at once or, deferred, with the next renewal.
ChangeProduct(s, product) ==
    /\ store[s].phase = "on" /\ product # store[s].product
    /\ \E plan \in {product, store[s].plan} :
          store' = [store EXCEPT ![s] = [@ EXCEPT !.product = product, !.plan = plan,
                                                  !.renews = TRUE, !.cancelled = FALSE]]
    /\ Emit("PRODUCT_CHANGE", s, store[s].product)

StoreStep(s) ==
    /\ \/ \E plan \in Plans : Buy(s, plan) \/ ChangeProduct(s, plan)
       \/ Renew(s) \/ Cancel(s) \/ PaymentFails(s) \/ Expire(s)
    /\ UNCHANGED <<today, recorded, rows, delivery, wild>>

\* A period that is due is renewed, failed or ended before the next day.
DayPasses ==
    /\ today < LastDay
    /\ \A s \in Subs : store[s].phase = "on" => store[s].until > today
    /\ today' = today + 1
    /\ UNCHANGED <<store, events, recorded, rows, delivery, wild>>

-----------------------------------------------------------------------------
(* Which row an event is about                                             *)

\* The keys from the sharpest to the broadest: the store's identifier, the
\* product in its store, the outgoing product of a change.
ByIdentifier(e, r) == e.sub \in Named /\ r.named /\ r.store = e.sub
ByProduct(e, r) == r.store = e.sub /\ r.product = e.product
ByFormer(e, r) == r.store = e.sub /\ r.product = e.former

Answering(e) ==
    LET byIdentifier == {i \in DOMAIN rows : ByIdentifier(e, rows[i])}
        byProduct == {i \in DOMAIN rows : ByProduct(e, rows[i])}
        byFormer == {i \in DOMAIN rows : ByFormer(e, rows[i])}
    IN CASE byIdentifier # {} -> byIdentifier
         [] byIdentifier = {} /\ byProduct # {} -> byProduct
         [] OTHER -> byFormer

\* The most recently written of them.
Match(e) == IF Answering(e) = {} THEN NoRowYet ELSE rows[Max(Answering(e))]

\* Without an identifier, a change to a product that the subscription was bought as
\* before is taken for a redelivery: it answers the row of that purchase, not the latest.
Returns(e) ==
    /\ e.kind = "PRODUCT_CHANGE" /\ e.sub \notin Named
    /\ \E i, k \in DOMAIN rows : /\ i < k /\ ByProduct(e, rows[i])
                                /\ rows[k].store = e.sub /\ ~ByProduct(e, rows[k])

WithIdentity(r, e) == [r EXCEPT !.named = r.named \/ e.sub \in Named]

-----------------------------------------------------------------------------
(* The handlers: what each writes on the row it matched                    *)

Purchased(r, e) ==
    [r EXCEPT !.product = e.product, !.plan = e.plan, !.until = e.until, !.status = "active",
              !.cancels = FALSE, !.renews = TRUE]

Renewed(r, e) ==
    [r EXCEPT !.product = e.product, !.plan = e.plan, !.until = e.until, !.status = "active",
              !.cancels = FALSE, !.renews = TRUE]

\* Mutant of Cancelled: only an active row is cancelled.
CancelledIfActive(r, e) ==
    IF r.status = "active"
    THEN [r EXCEPT !.cancels = TRUE, !.renews = FALSE, !.status = "canceled"] ELSE r

Cancelled(r, e) ==
    [r EXCEPT !.cancels = TRUE, !.renews = FALSE,
              !.status = IF r.status # "expired" THEN "canceled" ELSE @]

Expired(r, e) == [r EXCEPT !.status = "expired", !.renews = FALSE]

BillingFailed(r, e) == [r EXCEPT !.status = IF @ = "active" THEN "grace_period" ELSE @]

ProductChanged(r, e) ==
    LET moved == [r EXCEPT !.product = e.product, !.plan = e.plan, !.until = e.until]
    IN IF r.status = "expired" THEN moved
       ELSE [moved EXCEPT !.status = "active", !.cancels = FALSE, !.renews = TRUE]

Handled(r, e) ==
    CASE e.kind = "INITIAL_PURCHASE" -> Purchased(r, e)
      [] e.kind = "RENEWAL" -> Renewed(r, e)
      [] e.kind = "CANCELLATION" -> Cancelled(r, e)
      [] e.kind = "EXPIRATION" -> Expired(r, e)
      [] e.kind = "BILLING_ISSUE_DETECTED" -> BillingFailed(r, e)
      [] e.kind = "PRODUCT_CHANGE" -> ProductChanged(r, e)

NewRow(id, e) ==
    [id |-> id, store |-> e.sub, named |-> e.sub \in Named,
     product |-> e.product, plan |-> e.plan, until |-> e.until,
     status |-> "active", cancels |-> FALSE, renews |-> TRUE]

-----------------------------------------------------------------------------
(* The webhook                                                             *)

DeliveryAt(d, pc) == delivery[d].pc = pc
DeliveryTo(d, pc) == delivery' = [delivery EXCEPT ![d].pc = pc]
Handling(d) == events[delivery[d].event]
Busy(d) == delivery[d].pc # "idle"

\* These three say the same whichever of them is processed first.
Unordered == {"CANCELLATION", "EXPIRATION", "BILLING_ISSUE_DETECTED"}
Commute(i, j) == events[i].kind \in Unordered /\ events[j].kind \in Unordered

\* Event i is handled before an earlier event of its subscription, again after a
\* later one, or while another delivery of the same subscription is in progress.
OutOfTurn(d, i) ==
    \/ \E j \in DOMAIN events :
          /\ events[j].sub = events[i].sub /\ ~Commute(i, j)
          /\ \/ j < i /\ j \notin recorded
             \/ j > i /\ i \in recorded
    \/ \E o \in Deliveries \ {d} : Busy(o) /\ Handling(o).sub = events[i].sub

\* An event whose record is found is answered at once, which changes nothing; a
\* check that raises counts as not found, so that any event may be handled again.
CheckEvent(d) ==
    /\ DeliveryAt(d, "idle")
    /\ \E i \in DOMAIN events :
          /\ delivery' = [delivery EXCEPT ![d] = [pc |-> "read", event |-> i, row |-> NoRowYet]]
          /\ wild' = IF OutOfTurn(d, i) \/ Returns(events[i])
                     THEN wild \cup {events[i].sub} ELSE wild
    /\ UNCHANGED <<today, store, events, recorded, rows>>

\* Only a purchase creates a row; any other event that matches none is dropped.
ReadSubscriptions(d) ==
    LET e == Handling(d)
        r == Match(e)
    IN
    /\ DeliveryAt(d, "read")
    /\ delivery' = [delivery EXCEPT
          ![d] = [@ EXCEPT
             !.pc = IF r = NoRowYet /\ e.kind # "INITIAL_PURCHASE" THEN "record" ELSE "write",
             !.row = CASE r # NoRowYet -> WithIdentity(Handled(r, e), e)
                       [] r = NoRowYet /\ e.kind = "INITIAL_PURCHASE" -> NewRow(<<delivery[d].event, d>>, e)
                       [] OTHER -> NoRowYet]]
    /\ UNCHANGED <<today, store, events, recorded, rows, wild>>

Without(id) ==
    LET old == {i \in DOMAIN rows : rows[i].id = id}
    IN IF old = {} THEN rows ELSE RemoveAt(rows, Max(old))

\* The row is put whole; it is now the most recently written.
WriteSubscription(d) ==
    LET new == delivery[d].row IN
    /\ DeliveryAt(d, "write")
    /\ rows' = Append(Without(new.id), new)
    /\ delivery' = [delivery EXCEPT ![d] = [@ EXCEPT !.pc = "record", !.row = NoRowYet]]
    /\ UNCHANGED <<today, store, events, recorded, wild>>

RecordEvent(d) ==
    /\ DeliveryAt(d, "record")
    /\ recorded' = recorded \cup {delivery[d].event}
    /\ delivery' = [delivery EXCEPT ![d] = NoDelivery]
    /\ UNCHANGED <<today, store, events, rows, wild>>

\* A call raises, or the answer is lost: the event will be delivered again.
DeliveryRaises(d) ==
    /\ Busy(d)
    /\ delivery' = [delivery EXCEPT ![d] = NoDelivery]
    /\ UNCHANGED <<today, store, events, recorded, rows, wild>>

WebhookStep(d) ==
    \/ CheckEvent(d) \/ ReadSubscriptions(d) \/ WriteSubscription(d)
    \/ RecordEvent(d) \/ DeliveryRaises(d)

-----------------------------------------------------------------------------
(* What the rows grant                                                     *)

\* A cancelled subscription entitles until the end of what was paid.
Entitles(r) ==
    \/ r.status \in {"active", "grace_period"}
    \/ /\ r.status = "canceled"
       /\ r.until > today

Grant(tier) == [minutes |-> Minutes[tier], cap |-> Cap[tier]]
Nothing == [minutes |-> 0, cap |-> 0]

\* On the axis of the cap, 0 is the widest.
CapCovers(a, b) == a.cap = 0 \/ (b.cap # 0 /\ a.cap >= b.cap)
Covers(a, b) == a.minutes >= b.minutes /\ CapCovers(a, b)

RaisedBy(a, b) ==
    [minutes |-> IF a.minutes >= b.minutes THEN a.minutes ELSE b.minutes,
     cap |-> IF CapCovers(a, b) THEN a.cap ELSE b.cap]

Entitling == {rows[i] : i \in {k \in DOMAIN rows : Entitles(rows[k])}}

\* The row that decides: the larger minutes, then the larger cap, then the later end.
Outranks(q, r) ==
    LET a == Grant(q.plan)
        b == Grant(r.plan)
    IN \/ a.minutes > b.minutes
       \/ /\ a.minutes = b.minutes
          /\ a.cap > b.cap
       \/ /\ a = b
          /\ q.until > r.until

\* Mutant of Deciding: the row that was written last.
Freshest ==
    rows[CHOOSE i \in DOMAIN rows :
            /\ Entitles(rows[i])
            /\ \A k \in DOMAIN rows : Entitles(rows[k]) => k <= i]

Deciding == CHOOSE r \in Entitling : \A q \in Entitling : ~Outranks(q, r)

\* get_entitlement_snapshot; inTrial: the account exists and its trial is running.
Allowance(inTrial) ==
    CASE Entitling # {} /\ inTrial /\ ~Covers(Grant(Deciding.plan), Grant("trial")) ->
            RaisedBy(Grant(Deciding.plan), Grant("trial"))
      [] Entitling # {} /\ (~inTrial \/ Covers(Grant(Deciding.plan), Grant("trial"))) ->
            Grant(Deciding.plan)
      [] OTHER -> IF inTrial THEN Grant("trial") ELSE Nothing
=============================================================================
