------------------------ MODULE MCEpisodeSubmission ------------------------
(* TLC instance of EpisodeSubmission: two saves of one user, one of another. *)
EXTENDS EpisodeSubmission, TLC

CONSTANTS s1, s2, s3, u1, u2

MCUserOf == [s \in Saves |-> IF s = s3 THEN u2 ELSE u1]
\* The two saves of the first user are interchangeable.
SameUser == Permutations({s1, s2})
=============================================================================
