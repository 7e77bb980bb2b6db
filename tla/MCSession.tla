------------------------------ MODULE MCSession ------------------------------
(***************************************************************************)
(* The requests and modes of the runs of Session.  A frame, a preview, a   *)
(* response and a text take two, two, one and two units of an output queue *)
(* of seven; a scroll outcome takes four, so that two frames and a small   *)
(* message refuse it, as in the code.                                      *)
(***************************************************************************)
EXTENDS Session

Asking(kind) == [NoRequest EXCEPT !.kind = kind]

Up(kind) == [Asking(kind) EXCEPT !.up = TRUE]

Ahead(kind) == [Asking(kind) EXCEPT !.ahead = TRUE]

VerticalRequests ==
  {Asking("Preview"), Ahead("Preview"), Asking("ReturnToLive"), Asking("Wheel"),
   Up("Wheel"), Asking("Scroll"), Ahead("Scroll"), Up("Scroll")}

SelectionRequests ==
  {Asking("Begin"), [Asking("Begin") EXCEPT !.shift = TRUE], Asking("Update"),
   Asking("Finish"), Asking("Copy"), Asking("Cancel"), Up("AutoscrollUp")}

InputRequests ==
  {Asking("Key"), Asking("Input"), Asking("Resize"), Asking("Preview"), Up("Scroll"),
   Asking("ReturnToLive"), Ahead("Begin")}

ReleaseRequests == {Asking("Begin"), Asking("Finish")}

Mode(mouse, alt) == [mouse |-> mouse, alt |-> alt, altScroll |-> alt]

PrimaryOnly == {Mode(FALSE, FALSE)}

MouseAndPrimary == {Mode(TRUE, FALSE), Mode(FALSE, FALSE)}

AlternateAndPrimary == {Mode(FALSE, TRUE), Mode(FALSE, FALSE)}
=============================================================================
