---------------------------- MODULE Consumption ----------------------------
(***************************************************************************)
(* What an account may spend and what it spent: the counter rows of its    *)
(* billing periods and of its days, each with the tokens of the writes it  *)
(* took.                                                                   *)
(*                                                                         *)
(* A row is kept as the set of the writes applied to it, so that a total   *)
(* is a sum and a token is looked up.  The period is read anew from the    *)
(* subscriptions at every check and every debit; trial tells whether the   *)
(* account is there and its free trial is running.  The burst guards only  *)
(* log what they find in the daily rows, and costs in euros decide         *)
(* nothing: both are left out.                                             *)
(***************************************************************************)
EXTENDS Subscriptions, FiniteSetsExt

CONSTANT Work       \* the submissions; a job and a library row are named after theirs

VARIABLES
    debits,         \* the writes applied to the user's user_usage_monthly rows
    counts          \* the writes applied to the user's user_usage_daily rows

consumptionVars == <<debits, counts>>

DebitTokens == {"gate", "settle", "document"}
Periods == ({"sub"} \X Days) \cup {<<"trial", 0>>, <<"month", 0>>}

ConsumptionTypeOK ==
    /\ debits \subseteq [period : Periods, work : Work, token : DebitTokens, minutes : Nat]
    /\ counts \subseteq [day : 0..LastDay, work : Work, token : DebitTokens \cup {"item"},
                         items : {0, 1}]

ConsumptionInit == debits = {} /\ counts = {}

\* A subscription's row is named after the end of its period, a trial's after its
\* beginning; without either it is the calendar month, which does not turn here.
Period(trial) ==
    CASE Entitling # {} -> <<"sub", Deciding.until>>
      [] Entitling = {} /\ trial -> <<"trial", 0>>
      [] OTHER -> <<"month", 0>>

MinutesOf(writes) == MapThenSumSet(LAMBDA d : d.minutes, writes)
Used(period) == MinutesOf({d \in debits : d.period = period})

Entitled(trial) == Entitling # {} \/ trial

\* evaluate_submission: a plan, an import that is not too long, and minutes left; what
\* costs nothing needs only the plan.
Allows(minutes, trial) ==
    LET a == Allowance(trial) IN
    /\ Entitled(trial)
    /\ minutes > 0 => /\ a.cap > 0 => minutes <= a.cap
                      /\ minutes + Used(Period(trial)) <= a.minutes

\* _atomic_add: a token that the row already has refuses the write.
AddDebit(work, token, minutes, trial) ==
    LET p == Period(trial)
        found == \E d \in debits : d.period = p /\ d.work = work /\ d.token = token
    IN IF minutes = 0 \/ found THEN debits
       ELSE debits \cup {[period |-> p, work |-> work, token |-> token, minutes |-> minutes]}

AddCount(work, token, minutes, items) ==
    LET found == \E c \in counts : c.day = today /\ c.work = work /\ c.token = token
    IN IF minutes + items = 0 \/ found THEN counts
       ELSE counts \cup {[day |-> today, work |-> work, token |-> token, items |-> items]}

\* _debit: the month first, then the day under the same token.  It tells what it
\* charged: nothing when the token had been applied.
Debit(work, token, minutes, trial, told) ==
    /\ debits' = AddDebit(work, token, minutes, trial)
    /\ told = IF debits' = debits THEN 0 ELSE minutes
    /\ counts' = AddCount(work, token, minutes, 0)

\* A write raises, the first or the second, which is swallowed: it tells 0.
DebitRaises(work, token, minutes, trial) ==
    /\ debits' \in {debits, AddDebit(work, token, minutes, trial)}
    /\ UNCHANGED counts

\* Mutant of ItemToken: the token of the debit of the same submission.
GateToken == "gate"
ItemToken == "item"

CountItem(work) ==
    /\ counts' = AddCount(work, ItemToken, 0, 1)
    /\ UNCHANGED debits

ItemsOf(work) == {c \in counts : c.work = work /\ c.items = 1}
=============================================================================
