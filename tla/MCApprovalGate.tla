--------------------------- MODULE MCApprovalGate ---------------------------
(***************************************************************************)
(* Small instances of ApprovalGate for TLC.                                *)
(***************************************************************************)
EXTENDS ApprovalGate, TLC

\* Browsers and proposals are told apart by equality only.
Symmetric == Permutations(Browsers) \cup Permutations(Proposals)
=============================================================================
