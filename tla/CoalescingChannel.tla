-------------------------- MODULE CoalescingChannel --------------------------
(***************************************************************************)
(* What a connection's output promises its reader, whatever the bytes do:  *)
(* messages arrive in the order they were put, each at most once, and the  *)
(* only ones that may go missing are replaceable ones at the back, dropped *)
(* before they arrive.  There is no byte bound, no offset and no class     *)
(* rule here; ClientOutput implements this specification.                  *)
(***************************************************************************)
EXTENDS Integers, Sequences

CONSTANTS
  Message,   \* what may be put
  Durable    \* the messages that are never dropped

VARIABLES
  waiting,    \* put and not yet arrived
  arrived     \* in the order of arrival

vars == <<waiting, arrived>>

Init == waiting = <<>> /\ arrived = <<>>

\* The n oldest waiting messages stay; nothing durable is behind them.
Keeps(n) ==
  /\ n \in 0 .. Len(waiting)
  /\ \A i \in n + 1 .. Len(waiting) : waiting[i] \notin Durable

Put ==
  /\ \E n \in 0 .. Len(waiting) :
       /\ Keeps(n)
       /\ Len(waiting') = n + 1
       /\ SubSeq(waiting', 1, n) = SubSeq(waiting, 1, n)
       /\ waiting'[n + 1] \in Message
  /\ UNCHANGED arrived

Retract ==
  /\ \E n \in 0 .. Len(waiting) : Keeps(n) /\ waiting' = SubSeq(waiting, 1, n)
  /\ UNCHANGED arrived

Arrive ==
  /\ waiting # <<>>
  /\ arrived' = Append(arrived, Head(waiting))
  /\ waiting' = Tail(waiting)

Next == Put \/ Retract \/ Arrive

Spec == Init /\ [][Next]_vars
=============================================================================
