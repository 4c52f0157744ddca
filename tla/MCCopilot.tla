----------------------------- MODULE MCCopilot ------------------------------
(***************************************************************************)
(* Two messages, a read and a write tool.                                   *)
(***************************************************************************)
EXTENDS Copilot
MCOffered == {"search_catalog", "create_goal"}
=============================================================================
