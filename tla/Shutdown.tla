------------------------------ MODULE Shutdown ------------------------------
(***************************************************************************)
(* The end of the PTY child: Pty.stop_and_reap and the drop of Pty         *)
(* (src/platform.rs), as run calls them (src/runtime.rs).  Beside it the   *)
(* child exits when it likes and the terminal's foreground group changes.  *)
(*                                                                         *)
(* A signal is sent to a number.  The number of the child's own group is   *)
(* safe as long as the child has not been waited for; another number is    *)
(* as good as the time at which the terminal named it.                     *)
(***************************************************************************)
EXTENDS Integers

CONSTANTS
  ChildGroup,   \* the number of the child and of its process group
  Jobs          \* the numbers of other groups that may be in the foreground

ASSUME ShutdownAssumption ==
  /\ Jobs \subseteq Nat \ {0}
  /\ ChildGroup \in Nat \ ({0} \cup Jobs)

VARIABLES
  step,        \* the next step of the owner
  child,       \* running, exited or reaped
  held,        \* Pty.child is there
  result,      \* what stop_and_reap has returned
  dropping,    \* it is called by the drop of Pty
  foreground,  \* the terminal's foreground group, 0 if it has none
  cached,      \* the foreground_group that was read last
  current,     \* history: the foreground groups since the last wait
  signal       \* history: the signal that the last step has sent

vars == <<step, child, held, result, dropping, foreground, cached, current, signal>>

NoSignal == [name |-> "none", to |-> 0]

Send(name, group) == signal' = [name |-> name, to |-> group]

Foreign(group) == group > 0 /\ group # ChildGroup

environment == <<foreground, current>>

Init ==
  /\ step = "serve"
  /\ child = "running"
  /\ held = TRUE
  /\ result = "none"
  /\ dropping = FALSE
  /\ foreground \in {0, ChildGroup} \cup Jobs
  /\ cached = 0
  /\ current = {foreground}
  /\ signal = NoSignal

ChildExits ==
  /\ child = "running"
  /\ child' = "exited"
  /\ signal' = NoSignal
  /\ UNCHANGED <<step, held, result, dropping, cached, environment>>

ForegroundChanges ==
  /\ step # "returned"
  /\ foreground' \in ({0, ChildGroup} \cup Jobs) \ {foreground}
  /\ current' = current \cup {foreground'}
  /\ signal' = NoSignal
  /\ UNCHANGED <<step, child, held, result, dropping, cached>>

-----------------------------------------------------------------------------
\* run finds that the child has exited, and so has reaped it, or is told to end
\* the session by a signal or a management Stop; or it fails.
NaturalExit ==
  /\ step = "serve"
  /\ child = "exited"
  /\ child' = "reaped"
  /\ step' = "look"
  /\ current' = {foreground}
  /\ signal' = NoSignal
  /\ UNCHANGED <<held, result, dropping, foreground, cached>>

Requested ==
  /\ step = "serve"
  /\ step' \in {"look", "drop"}
  /\ current' = {foreground}
  /\ signal' = NoSignal
  /\ UNCHANGED <<child, held, result, dropping, foreground, cached>>

Return(value) ==
  /\ step' = IF dropping THEN "returned" ELSE "drop"
  /\ result' = IF dropping THEN result ELSE value

\* The child is waited for: Pty forgets it.
Reap ==
  /\ child' = "reaped"
  /\ held' = FALSE
  /\ Return("status")

\* The first try_wait.  Its mutant signals without asking.
LookNever ==
  /\ step = "look"
  /\ IF held THEN step' = "readForeground" /\ UNCHANGED <<child, held, result>>
             ELSE Return("nothing") /\ UNCHANGED <<child, held>>
  /\ signal' = NoSignal
  /\ UNCHANGED <<dropping, cached, environment>>

Look ==
  /\ step = "look"
  /\ \/ /\ ~held
        /\ Return("nothing")
        /\ UNCHANGED <<child, held>>
     \/ /\ held /\ child # "running"
        /\ Reap
     \/ /\ held /\ child = "running"
        /\ step' = "readForeground"
        /\ UNCHANGED <<child, held, result>>
  /\ signal' = NoSignal
  /\ UNCHANGED <<dropping, cached, environment>>

\* tcgetpgrp, before the hangup and again before the kill.  Its mutant keeps the
\* number of the first time.
ReadForegroundOnce ==
  /\ step \in {"readForeground", "readAgain"}
  /\ step' = IF step = "readForeground" THEN "hupChild"
             ELSE IF Foreign(cached) THEN "killForeground" ELSE "limit"
  /\ cached' = IF step = "readForeground" THEN foreground ELSE cached
  /\ signal' = NoSignal
  /\ UNCHANGED <<child, held, result, dropping, environment>>

ReadForeground ==
  /\ step \in {"readForeground", "readAgain"}
  /\ cached' = foreground
  /\ step' = IF step = "readForeground" THEN "hupChild"
             ELSE IF Foreign(foreground) THEN "killForeground" ELSE "limit"
  /\ signal' = NoSignal
  /\ UNCHANGED <<child, held, result, dropping, environment>>

\* signal_process_group: an error other than ESRCH leaves stop_and_reap.
SignalGroup(at, name, group, next) ==
  /\ step = at
  /\ Send(name, group)
  /\ \/ step' = next /\ UNCHANGED result
     \/ Return("error")
  /\ UNCHANGED <<child, held, dropping, cached, environment>>

HupChild ==
  SignalGroup("hupChild", "HUP", ChildGroup,
              IF Foreign(cached) THEN "hupForeground" ELSE "grace")

HupForeground == SignalGroup("hupForeground", "HUP", cached, "grace")

\* The child is looked at until SHUTDOWN_GRACE has passed.
Grace ==
  /\ step = "grace"
  /\ child # "running"
  /\ Reap
  /\ signal' = NoSignal
  /\ UNCHANGED <<dropping, cached, environment>>

GraceEnds ==
  /\ step = "grace"
  /\ step' = "killChild"
  /\ current' = {foreground}
  /\ signal' = NoSignal
  /\ UNCHANGED <<child, held, result, dropping, foreground, cached>>

KillChild == SignalGroup("killChild", "KILL", ChildGroup, "readAgain")

KillForeground == SignalGroup("killForeground", "KILL", cached, "limit")

\* The child is looked at once more, and again until SHUTDOWN_LIMIT has passed.
\* Mutant: it is never given up.
LimitNever ==
  /\ step = "limit"
  /\ child # "running"
  /\ Reap
  /\ signal' = NoSignal
  /\ UNCHANGED <<dropping, cached, environment>>

Limit ==
  /\ step = "limit"
  /\ \/ /\ child # "running"
        /\ Reap
     \/ /\ child = "running"
        /\ Return("error")
        /\ UNCHANGED <<child, held>>
  /\ signal' = NoSignal
  /\ UNCHANGED <<dropping, cached, environment>>

\* The drop of Pty calls it again, whatever it returned.
DropPty ==
  /\ step = "drop"
  /\ dropping' = TRUE
  /\ step' = "look"
  /\ current' = {foreground}
  /\ signal' = NoSignal
  /\ UNCHANGED <<child, held, result, foreground, cached>>

Next ==
  \/ ChildExits \/ ForegroundChanges
  \/ NaturalExit \/ Requested \/ Look \/ ReadForeground
  \/ HupChild \/ HupForeground \/ Grace \/ GraceEnds
  \/ KillChild \/ KillForeground \/ Limit \/ DropPty

Spec == Init /\ [][Next]_vars

\* The owner proceeds and its deadlines pass; nothing makes the child exit.
Fairness ==
  /\ WF_vars(NaturalExit)
  /\ WF_vars(Look)
  /\ WF_vars(ReadForeground)
  /\ WF_vars(HupChild)
  /\ WF_vars(HupForeground)
  /\ WF_vars(GraceEnds)
  /\ WF_vars(KillChild)
  /\ WF_vars(KillForeground)
  /\ WF_vars(Limit)
  /\ WF_vars(DropPty)

FairSpec == Spec /\ Fairness

-----------------------------------------------------------------------------
Steps ==
  {"serve", "look", "readForeground", "hupChild", "hupForeground", "grace", "killChild",
   "readAgain", "killForeground", "limit", "drop", "returned"}

TypeOK ==
  /\ step \in Steps
  /\ child \in {"running", "exited", "reaped"}
  /\ held \in BOOLEAN
  /\ result \in {"none", "nothing", "status", "error"}
  /\ dropping \in BOOLEAN
  /\ foreground \in {0, ChildGroup} \cup Jobs
  /\ cached \in {0, ChildGroup} \cup Jobs
  /\ current \subseteq {0, ChildGroup} \cup Jobs
  /\ signal \in [name : {"none", "HUP", "KILL"}, to : {0, ChildGroup} \cup Jobs]

\* No signal is sent once the child has been waited for, when its number may
\* belong to somebody else: "If the child exits during grace, Orbit sends no later
\* signal to a cached foreground-group number", "An already-exited child is reaped
\* without signaling a recyclable PID" (docs/CONTRACTS.md, ORB-C12).
NoLateSignal == signal # NoSignal => child # "reaped"

\* Another group is signalled only if it was in the foreground since the last
\* wait: Orbit "rereads the current foreground group before escalation".
SignalsCurrent == Foreign(signal.to) => signal.to \in current

\* "Orbit succeeds only after reaping its direct PTY child", and Pty knows whether
\* it still has a child to reap.
ReapedOnSuccess ==
  /\ result = "status" => child = "reaped"
  /\ ~held => child = "reaped"

\* The owner gets away from its child, whatever the child does: "PID reuse,
\* foreground-group changes, child exit during grace, and writing descendants
\* cannot cause [...] unbounded server lifetime".
ShutdownEnds == step # "serve" ~> step = "returned"
=============================================================================
