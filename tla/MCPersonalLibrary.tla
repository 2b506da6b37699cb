------------------------- MODULE MCPersonalLibrary -------------------------
EXTENDS PersonalLibrary, TLC

CONSTANTS i1, i2, r1, r2, r3, f1, f2, n1, n2, d1, d2, x1, x2, q1, q2, p1, p2

Quiet == [items |-> {i1}, requests |-> 0, ops |-> FolderOps, orderly |-> TRUE,
          grown |-> FALSE, notes |-> 0, removals |-> 0, readers |-> 0, periods |-> 1,
          devices |-> FALSE, follows |-> 0, polls |-> 0, lag |-> FALSE, repeats |-> FALSE]

\* Three orderly requests; two that overlap as they like; the index of a save that is
\* stored and deleted; the digest while a save is stored, while one is deleted, and its
\* delivery to devices that come and go; the feeds, read through an index that keeps up,
\* and one follow read through one that lags, of a feed that lists an item twice.
MCLoads == {[Quiet EXCEPT !.requests = 3, !.grown = TRUE],
            [Quiet EXCEPT !.requests = 2, !.orderly = FALSE, !.grown = TRUE],
            [Quiet EXCEPT !.notes = 2, !.removals = 2],
            [Quiet EXCEPT !.readers = 2, !.periods = 2, !.requests = 1, !.ops = {"save"},
                          !.items = {i1, i2}],
            [Quiet EXCEPT !.readers = 2, !.periods = 2, !.removals = 1],
            [Quiet EXCEPT !.readers = 2, !.periods = 2, !.devices = TRUE],
            [Quiet EXCEPT !.follows = 2, !.polls = 2],
            [Quiet EXCEPT !.follows = 1, !.polls = 2, !.lag = TRUE, !.repeats = TRUE]}

Symmetry == Permutations({r1, r2, r3}) \cup Permutations({f1, f2})
=============================================================================
