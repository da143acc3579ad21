--------------------------- MODULE MCIncidentStore --------------------------
(***************************************************************************)
(* Small instances of IncidentStore for TLC.                               *)
(***************************************************************************)
EXTENDS IncidentStore, TLC

\* Workers, keys and conversation ids are told apart by equality only.
Symmetric ==
    Permutations(Workers) \cup Permutations(Fingerprints) \cup Permutations(Threads)
=============================================================================
