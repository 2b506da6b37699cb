-------------------------- MODULE MCUrlSubmission --------------------------
(* TLC instance of UrlSubmission: two saves of one user, one of another.   *)
EXTENDS UrlSubmission

CONSTANTS s1, s2, s3, u1, u2

MCUserOf == [s \in Saves |-> IF s = s3 THEN u2 ELSE u1]
=============================================================================
