---------------------------- MODULE MCAutoTriage ----------------------------
(***************************************************************************)
(* Small instances of AutoTriage for TLC.                                  *)
(***************************************************************************)
EXTENDS AutoTriage, TLC

\* Alerts, requests and operators are told apart by equality only.  (Threads are
\* not permuted: CreateIncident chooses one.)
Symmetric ==
    Permutations(Fingerprints) \cup Permutations(Requests) \cup Permutations(Operators)
=============================================================================
