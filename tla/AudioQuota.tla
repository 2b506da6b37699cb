----------------------------- MODULE AudioQuota -----------------------------
(***************************************************************************)
(* The minutes one media costs its user: the debit of the gate that every  *)
(* producer of the transcription queue passes, the settlement of the       *)
(* difference by the transcription worker, the flat unit of bought         *)
(* captions and the pages of a document.  All of them write the same       *)
(* monthly counter, each under a token that a second write finds applied.  *)
(*                                                                         *)
(* What the user spends on other media is not followed, so whether the     *)
(* gate's check passes (it does when a read fails) is left to its caller.  *)
(* Minutes are never refunded, and the period does not change.             *)
(*                                                                         *)
(* A write that raises is swallowed: the work goes on as if nothing had    *)
(* been debited.  What was lost, and what was charged in silence, is kept  *)
(* beside the counter, where only the properties read it.                  *)
(***************************************************************************)
EXTENDS Naturals

CONSTANTS
    Known,                  \* minutes of the duration known at the gate; 0 if unknown
    Billed,                 \* minutes the provider bills
    Captions,               \* minutes of a caption set
    Pages,                  \* minutes of a parsed document or of a post's images
    Raising                 \* the tokens under which a write may raise

ASSUME QuotaAssumption ==
    /\ Known \in Nat
    /\ {Billed, Captions, Pages} \subseteq Nat \ {0}

VARIABLES
    charged,                \* minutes of the period charged for this media
    tokens,                 \* settled_jobs, the tokens applied
    lost,                   \* the tokens whose last write raised before it charged
    untold                  \* the tokens whose write charged, and then raised

quotaVars == <<charged, tokens, lost, untold>>

Tokens == {"gate", "settle"}

\* An unknown duration is provisionally one minute.
GateMinutes == IF Known = 0 THEN 1 ELSE Known

\* Mutant of Apply: the token is not looked at.
ApplyAlways(minutes, token) ==
    /\ charged' = charged + minutes
    /\ tokens' = tokens \cup {token}
    /\ lost' = lost \ {token}

\* _atomic_add on the month's row: a token is applied once.
Apply(minutes, token) ==
    /\ charged' = IF token \in tokens THEN charged ELSE charged + minutes
    /\ tokens' = tokens \cup {token}
    /\ lost' = lost \ {token}

\* _debit tells what it charged: nothing when the token was applied before.  The
\* write of the month may raise, or that of the day behind it: either way it tells 0.
Debit(minutes, token, told) ==
    \/ /\ Apply(minutes, token)
       /\ told = IF token \in tokens THEN 0 ELSE minutes
       /\ UNCHANGED untold
    \/ /\ token \in Raising \ tokens /\ told = 0
       /\ \/ lost' = lost \cup {token} /\ UNCHANGED <<charged, tokens, untold>>
          \/ Apply(minutes, token) /\ untold' = untold \cup {token}

\* A debit whose answer nobody reads.
Charge(minutes, token) == \E told \in {0, minutes} : Debit(minutes, token, told)

\* gate_transcription: a media the user already holds is free.
DebitGate(free, told) ==
    IF free THEN told = 0 /\ UNCHANGED quotaVars ELSE Debit(GateMinutes, "gate", told)

\* settle_transcription_minutes: what is left of the bill, if anything.
Settle(debited) ==
    IF Billed <= debited THEN UNCHANGED quotaVars
    ELSE Charge(Billed - debited, "settle")

QuotaInit == charged = 0 /\ tokens = {} /\ lost = {} /\ untold = {}

QuotaTypeOK == charged \in Nat /\ tokens \cup lost \cup untold \subseteq Tokens
=============================================================================
