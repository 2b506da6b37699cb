--------------------------- MODULE LibraryPromise ---------------------------
(***************************************************************************)
(* What the submission paths and the pipeline together promise about one   *)
(* content, whatever the interleaving and the failures:                    *)
(*   - at most one save owns the processing of the content at a time, and  *)
(*     only the owner's text is ever stored;                               *)
(*   - an owner may withdraw only while nothing of the content is readable *)
(*     or shown as ready, so what was once readable stays readable;        *)
(*   - a library row turns ready only when the owner's text is stored.     *)
(***************************************************************************)
CONSTANTS Saves, NoOwner, Shown

VARIABLES owner, stored, shown

promiseVars == <<owner, stored, shown>>

Readable == owner \in stored

Init ==
    /\ owner = NoOwner
    /\ stored = {}
    /\ shown = [s \in Saves |-> "none"]

Claim(s) ==
    /\ owner = NoOwner
    /\ owner' = s
    /\ UNCHANGED <<stored, shown>>

Withdraw ==
    /\ owner # NoOwner
    /\ ~Readable
    /\ \A s \in Saves : shown[s] # "ready"
    /\ owner' = NoOwner
    /\ UNCHANGED <<stored, shown>>

StoreText ==
    /\ owner # NoOwner
    /\ stored' = stored \cup {owner}
    /\ UNCHANGED <<owner, shown>>

\* Any number of rows change at once: a mirror reaches all of a content's saves.
Show ==
    /\ shown' \in [Saves -> Shown]
    /\ \A s \in Saves : shown'[s] = "ready" => shown[s] = "ready" \/ Readable
    /\ UNCHANGED <<owner, stored>>

Next == (\E s \in Saves : Claim(s)) \/ Withdraw \/ StoreText \/ Show

Spec == Init /\ [][Next]_promiseVars
=============================================================================
