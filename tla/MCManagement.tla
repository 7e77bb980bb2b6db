---------------------------- MODULE MCManagement ----------------------------
(***************************************************************************)
(* Two peers, of which one may hold the connection while the other is told *)
(* that it is busy or takes the connection next.                           *)
(***************************************************************************)
EXTENDS Management
=============================================================================
