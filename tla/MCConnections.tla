---------------------------- MODULE MCConnections ----------------------------
(***************************************************************************)
(* Two peers: they fill both slots, or one negotiates, or wants a role     *)
(* that is taken, while the other is refused.  Two titles and revisions,   *)
(* so that a title may change and change back.                             *)
(***************************************************************************)
EXTENDS Connections
=============================================================================
