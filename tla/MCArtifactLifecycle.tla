------------------------ MODULE MCArtifactLifecycle ------------------------
(* TLC instance of ArtifactLifecycle: two requests, two translation and two *)
(* generation messages.                                                     *)
EXTENDS ArtifactLifecycle, TLC

MCReaders == Requests \cup {OnMedia} \cup Messages
Symmetry == Permutations(Requests) \cup Permutations(Messages) \cup Permutations(Tasks)
=============================================================================
