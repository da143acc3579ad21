-------------------------- MODULE MCOperatorConsole --------------------------
(***************************************************************************)
(* One visit of the page while alerts fire.                                *)
(***************************************************************************)
EXTENDS OperatorConsole
=============================================================================
