----------------------------- MODULE MCAccount -----------------------------
(* TLC instance of Account: two devices, one subscription in each store, the *)
(* allowances of the smallest and the largest plan and of the trial, and one *)
(* file of each kind with a second audio file whose length is unknown.       *)
EXTENDS Account, TLC

CONSTANTS c1, c2, c3, d1, d2, ios, android, song, memo, voice, paper, plain, web

MCMinutes == [p \in {"S", "L", "trial"} |->
                CASE p = "S" -> 60 [] p = "L" -> 720 [] OTHER -> 300]
MCCap == [p \in {"S", "L", "trial"} |->
                CASE p = "S" -> 60 [] p = "L" -> 240 [] OTHER -> 180]

MCKind == [f \in Files |-> CASE f \in {song, memo} -> "audio" [] f = voice -> "shared"
                             [] f = paper -> "document" [] f = plain -> "text"
                             [] f = web -> "link"]
MCBilled == [f \in Files |-> CASE f = song -> 120 [] f \in {memo, voice} -> 70
                              [] f = paper -> 3 [] OTHER -> 0]
MCProbed == [f \in Files |-> CASE f = song -> 121 [] f = voice -> 70 [] OTHER -> 0]

Load(n, m, s, o) ==
    [calls |-> n, events |-> m, sold |-> s, orderly |-> o, work |-> {}, files |-> {},
     faults |-> FALSE]
Intakes(n, m, w, fs, b) ==
    [calls |-> n, events |-> m, sold |-> {ios}, orderly |-> TRUE, work |-> w, files |-> fs,
     faults |-> b]

\* Three requests; five events of one subscription; three of both; one event
\* beside an erasure; and two delivered in every order.  Three submissions of an audio
\* file, of a shared one, two of either with faults, and one beside a subscription
\* or an erasure.
MCLoads == {Load(3, 0, {}, TRUE), Load(0, 5, {ios}, TRUE), Load(0, 5, {android}, TRUE),
            Load(0, 3, {ios, android}, TRUE), Load(1, 1, {ios}, FALSE),
            Load(0, 2, {android}, FALSE),
            Intakes(0, 0, 1..3, {song}, FALSE), Intakes(0, 0, 1..3, {voice}, FALSE),
            Intakes(0, 0, {1}, {memo, song}, TRUE), Intakes(0, 0, 1..2, {voice}, TRUE),
            Intakes(0, 0, 1..2, {paper, plain, web}, TRUE), Intakes(0, 1, {1}, {memo}, FALSE),
            Intakes(1, 0, {1}, {song}, FALSE)}

Symmetry == Permutations({c1, c2, c3}) \cup Permutations({d1, d2})
=============================================================================
