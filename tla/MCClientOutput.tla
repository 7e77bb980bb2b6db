--------------------------- MODULE MCClientOutput ---------------------------
(***************************************************************************)
(* A queue of four units and messages of one or two units: the bound is    *)
(* reached, messages are cut off in the middle, and every class meets      *)
(* every other at the back of the queue.                                   *)
(***************************************************************************)
EXTENDS ClientOutput

SmallSizes == {1, 2}
=============================================================================
