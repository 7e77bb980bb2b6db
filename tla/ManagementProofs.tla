-------------------------- MODULE ManagementProofs --------------------------
(***************************************************************************)
(* Proofs about Shutdown and Management: what the shutdown promises alone; *)
(* that Management takes its steps and no others, so that the promises of  *)
(* stop_and_reap hold for the whole owner; that peers are answered in      *)
(* order; and that what a peer and the record are told of the end is true. *)
(***************************************************************************)
EXTENDS Management, TLAPS

-----------------------------------------------------------------------------
(***************************************************************************)
(* The shutdown alone, for every number of the child's group and every set *)
(* of other groups.                                                        *)
(*                                                                         *)
(* Why the invariant is needed: that no signal is late rests on where the  *)
(* owner is when it signals (Unwaited), and that a signal to another group *)
(* is current rests on when its number was read (CachedCurrent); neither   *)
(* is said by the properties.                                              *)
(***************************************************************************)
\* The steps from the first look at the child to the last.
Signalling ==
  {"readForeground", "hupChild", "hupForeground", "grace", "killChild", "readAgain",
   "killForeground", "limit"}

\* A child that is being shut down has not been waited for.
Unwaited == step \in Signalling => child # "reaped"

\* The number that is about to be signalled has been in the foreground since the
\* last wait.
CachedCurrent ==
  /\ foreground \in current
  /\ step \in {"hupChild", "hupForeground", "killForeground"} => cached \in current

IInv ==
  /\ TypeOK
  /\ Unwaited
  /\ CachedCurrent
  /\ NoLateSignal
  /\ SignalsCurrent
  /\ ReapedOnSuccess

\* Initially nothing was signalled or waited for.
LEMMA InitIInv == Init => IInv
<1> SUFFICES ASSUME Init PROVE IInv
  OBVIOUS
<1> USE ShutdownAssumption DEF Init
<1>1. TypeOK
  BY DEF TypeOK, Steps, NoSignal
<1>2. Unwaited /\ CachedCurrent
  BY DEF Unwaited, Signalling, CachedCurrent
<1>3. NoLateSignal /\ SignalsCurrent /\ ReapedOnSuccess
  BY DEF NoLateSignal, SignalsCurrent, ReapedOnSuccess, NoSignal, Foreign
<1> QED
  BY <1>1, <1>2, <1>3 DEF IInv

\* A signal to the group of the child, or to the one whose number was read, from a
\* step at which the child has not been waited for.
LEMMA SignalStep ==
  ASSUME IInv,
         NEW at \in Signalling, NEW name \in {"HUP", "KILL"}, NEW group, NEW next \in Signalling,
         group = ChildGroup \/ (group = cached /\ at \in {"hupForeground", "killForeground"}),
         next \in {"hupForeground", "killForeground"} => at = "hupChild",
         next # "hupChild",
         SignalGroup(at, name, group, next)
  PROVE  IInv'
<1> USE ShutdownAssumption DEF SignalGroup, Send, environment
<1>1. TypeOK'
  BY DEF IInv, TypeOK, Steps, Signalling, Return
<1>2. Unwaited'
  BY DEF IInv, Unwaited, Signalling, Return
<1>3. CachedCurrent'
  BY DEF IInv, CachedCurrent, Signalling, Return
<1>4. NoLateSignal'
  BY DEF IInv, NoLateSignal, Unwaited
<1>5. SignalsCurrent'
  BY DEF IInv, SignalsCurrent, CachedCurrent, Foreign
<1>6. ReapedOnSuccess'
  BY DEF IInv, ReapedOnSuccess, Return
<1> QED
  BY <1>1, <1>2, <1>3, <1>4, <1>5, <1>6 DEF IInv

\* Every step of the shutdown, and of the child and other groups, keeps the invariant.
LEMMA NextIInv == IInv /\ [Next]_vars => IInv'
<1> SUFFICES ASSUME IInv, [Next]_vars PROVE IInv'
  OBVIOUS
<1> USE ShutdownAssumption
<1>1. CASE ChildExits
  BY <1>1
  DEF ChildExits, IInv, TypeOK, Steps, Unwaited, Signalling, CachedCurrent, NoLateSignal,
      SignalsCurrent, ReapedOnSuccess, NoSignal, Foreign, environment
<1>2. CASE ForegroundChanges
  BY <1>2
  DEF ForegroundChanges, IInv, TypeOK, Steps, Unwaited, Signalling, CachedCurrent,
      NoLateSignal, SignalsCurrent, ReapedOnSuccess, NoSignal, Foreign
<1>3. CASE NaturalExit
  BY <1>3
  DEF NaturalExit, IInv, TypeOK, Steps, Unwaited, Signalling, CachedCurrent, NoLateSignal,
      SignalsCurrent, ReapedOnSuccess, NoSignal, Foreign
<1>4. CASE Requested
  BY <1>4
  DEF Requested, IInv, TypeOK, Steps, Unwaited, Signalling, CachedCurrent, NoLateSignal,
      SignalsCurrent, ReapedOnSuccess, NoSignal, Foreign
<1>5. CASE Look
  <2> USE <1>5 DEF Look, Reap, environment
  <2>1. TypeOK'
    BY DEF IInv, TypeOK, Steps, NoSignal, Return
  <2>2. Unwaited' /\ CachedCurrent'
    BY DEF IInv, Unwaited, Signalling, CachedCurrent, Return
  <2>3. NoLateSignal' /\ SignalsCurrent'
    BY DEF NoLateSignal, SignalsCurrent, NoSignal, Foreign
  <2>4. ReapedOnSuccess'
    BY DEF IInv, TypeOK, ReapedOnSuccess, Return
  <2> QED
    BY <2>1, <2>2, <2>3, <2>4 DEF IInv
<1>6. CASE ReadForeground
  BY <1>6
  DEF ReadForeground, IInv, TypeOK, Steps, Unwaited, Signalling, CachedCurrent, NoLateSignal,
      SignalsCurrent, ReapedOnSuccess, NoSignal, Foreign, environment
<1>7. CASE HupChild
  BY <1>7, SignalStep DEF HupChild, Signalling
<1>8. CASE HupForeground
  BY <1>8, SignalStep DEF HupForeground, Signalling
<1>9. CASE Grace
  <2> USE <1>9 DEF Grace, Reap, environment
  <2>1. TypeOK'
    BY DEF IInv, TypeOK, Steps, NoSignal, Return
  <2>2. Unwaited' /\ CachedCurrent'
    BY DEF IInv, Unwaited, Signalling, CachedCurrent, Return
  <2>3. NoLateSignal' /\ SignalsCurrent'
    BY DEF NoLateSignal, SignalsCurrent, NoSignal, Foreign
  <2>4. ReapedOnSuccess'
    BY DEF IInv, TypeOK, ReapedOnSuccess, Return
  <2> QED
    BY <2>1, <2>2, <2>3, <2>4 DEF IInv
<1>10. CASE GraceEnds
  BY <1>10
  DEF GraceEnds, IInv, TypeOK, Steps, Unwaited, Signalling, CachedCurrent, NoLateSignal,
      SignalsCurrent, ReapedOnSuccess, NoSignal, Foreign
<1>11. CASE KillChild
  BY <1>11, SignalStep DEF KillChild, Signalling
<1>12. CASE KillForeground
  BY <1>12, SignalStep DEF KillForeground, Signalling
<1>13. CASE Limit
  <2> USE <1>13 DEF Limit, Reap, environment
  <2>1. TypeOK'
    BY DEF IInv, TypeOK, Steps, NoSignal, Return
  <2>2. Unwaited' /\ CachedCurrent'
    BY DEF IInv, Unwaited, Signalling, CachedCurrent, Return
  <2>3. NoLateSignal' /\ SignalsCurrent'
    BY DEF NoLateSignal, SignalsCurrent, NoSignal, Foreign
  <2>4. ReapedOnSuccess'
    BY DEF IInv, TypeOK, ReapedOnSuccess, Return
  <2> QED
    BY <2>1, <2>2, <2>3, <2>4 DEF IInv
<1>14. CASE DropPty
  BY <1>14
  DEF DropPty, IInv, TypeOK, Steps, Unwaited, Signalling, CachedCurrent, NoLateSignal,
      SignalsCurrent, ReapedOnSuccess, NoSignal, Foreign
<1>15. CASE UNCHANGED vars
  BY <1>15
  DEF vars, IInv, TypeOK, Unwaited, CachedCurrent, NoLateSignal, SignalsCurrent,
      ReapedOnSuccess
<1> QED
  BY <1>1, <1>2, <1>3, <1>4, <1>5, <1>6, <1>7, <1>8, <1>9, <1>10, <1>11, <1>12, <1>13,
     <1>14, <1>15 DEF Next

\* Signals reach the child, or a group that was its foreground, and only before
\* the child is waited for.
THEOREM InvariantHolds == Spec => []IInv
  BY InitIInv, NextIInv, PTL DEF Spec

\* The child is never signalled once it has been waited for, in either call of
\* stop_and_reap, and nor is any other group.
THEOREM SignalsAreNotLate == Spec => []NoLateSignal
<1>1. IInv => NoLateSignal
  BY DEF IInv
<1> QED
  BY <1>1, InvariantHolds, PTL

\* Another group is signalled only if the terminal has named it since the last
\* wait, however its foreground changes.
THEOREM SignalsAreCurrent == Spec => []SignalsCurrent
<1>1. IInv => SignalsCurrent
  BY DEF IInv
<1> QED
  BY <1>1, InvariantHolds, PTL

\* stop_and_reap returns a status only of a child that it has waited for.
THEOREM SuccessIsReaped == Spec => []ReapedOnSuccess
<1>1. IInv => ReapedOnSuccess
  BY DEF IInv
<1> QED
  BY <1>1, InvariantHolds, PTL

-----------------------------------------------------------------------------
(***************************************************************************)
(* The inductive invariant.                                                *)
(***************************************************************************)
Loop == {"top", "accept", "read", "flush"}

\* Where the owner is in its loop, in the shutdown and at the end of run.
InStep ==
  /\ phase \in Loop <=> step = "serve"
  /\ phase \notin Ends => ~dropping
  /\ child # "running" => status # Nobody

\* An answer in order.
Answered(s) ==
  \A i \in 1 .. Len(s) :
    /\ s[i] = "Busy" => Len(s) = 1
    /\ s[i] = "Lease" => i = 1
    /\ s[i] = "Status" => s[1] = "Lease"
    /\ s[i] = "Failure" => i = Len(s)
    /\ s[i] = "Stopped" => i = Len(s) /\ s[1] = "Lease"

\* Every peer is answered in order.
InOrder == \A p \in Peers : Answered(Talk(p))

\* A lease, and status after status.
Opened(s) == s # <<>> /\ s[1] = "Lease" /\ \A i \in 2 .. Len(s) : s[i] = "Status"

\* What the connection is to be told, and has been told.
ClientTalk ==
  client # Nobody =>
    /\ client.peer \notin fresh
    /\ ~client.closing => IF client.leased THEN Opened(Talk(client.peer))
                          ELSE Talk(client.peer) = <<>>
    /\ client.closing => client.output # <<>> \/ phase = "flush"

FreshAreSilent == \A p \in fresh : told[p] = <<>>

\* Why the child is shut down.
PurposeIsTrue ==
  phase = "stopping" =>
    /\ purpose # "none"
    /\ purpose = "Signal" => signalled
    /\ purpose = "Stop" => /\ client # Nobody /\ client.leased /\ ~client.closing
                           /\ client.output = <<>> /\ stopper = client.peer

\* Nobody is told of the end before it.
StoppedAtTheEnd ==
  \A p \in Peers : \A i \in 1 .. Len(told[p]) : told[p][i] = "Stopped" => phase = "ended"

\* What peers are told, and the word that the session has stopped.
TalkInv == InOrder /\ ClientTalk /\ FreshAreSilent

EndInv == StoppedAtTheEnd /\ StoppedIsTrue

ManagedInv ==
  /\ IInv
  /\ ManagedTypeOK
  /\ InStep
  /\ PurposeIsTrue
  /\ TalkInv
  /\ EndInv

-----------------------------------------------------------------------------
(***************************************************************************)
(* The steps of Shutdown.                                                  *)
(***************************************************************************)
\* A section of the loop that meets an error gives up the child.
LEMMA QueueIsShutdown ==
  ASSUME NEW m, NEW c, Queue(m, c)
  PROVE  Requested \/ UNCHANGED vars
BY DEF Queue

\* Every step of the owner is one of Shutdown, or none.
LEMMA StepIsShutdown == [ManagedNext]_managed => [Next]_vars
<1> SUFFICES ASSUME [ManagedNext]_managed
             PROVE  Next \/ UNCHANGED vars
  OBVIOUS
<1>1. CASE UNCHANGED managed
  BY <1>1 DEF managed
<1>2. CASE Exit \/ Foreground \/ Signal \/ Replace \/ Expire \/ Terminate \/ EndNaturally
  BY <1>2 DEF Exit, Foreground, Signal, Replace, Expire, Terminate, EndNaturally, Begin, Next
<1>3. CASE Reaping \/ Conclude \/ Drop \/ Turn \/ AcceptEnd \/ ReadNothing
  BY <1>3 DEF Reaping, Conclude, Drop, Turn, AcceptEnd, ReadNothing, Next
<1>4. CASE \E p \in Peers : Accept(p)
  BY <1>4 DEF Accept
<1>5. CASE ReadRefused \/ ReadStatus \/ (\E right \in BOOLEAN : ReadAcquire(right))
  BY <1>5, QueueIsShutdown DEF ReadRefused, ReadStatus, ReadAcquire, Refuse, Next
<1>6. CASE ReadStop
  BY <1>6 DEF ReadStop, Begin, Next
<1>7. CASE FlushWrite \/ FlushEnd
  BY <1>7 DEF FlushWrite, FlushEnd
<1> QED
  BY <1>1, <1>2, <1>3, <1>4, <1>5, <1>6, <1>7 DEF ManagedNext

\* The owner of a session, its connection and its record around it, implements
\* the shutdown of the child: whatever Shutdown promises of signals and of the
\* wait for the child holds of the whole owner.
THEOREM OwnerImplementsShutdown == ManagedSpec => Spec
<1>1. ManagedInit => Init
  BY DEF ManagedInit
<1> QED
  BY <1>1, StepIsShutdown, PTL DEF ManagedSpec, Spec

\* A child that has been waited for stays so.
LEMMA ReapedStays ==
  ASSUME [Next]_vars, child = "reaped"
  PROVE  child' = "reaped"
BY DEF Next, vars, ChildExits, ForegroundChanges, NaturalExit, Requested, Look, Reap, ReadForeground,
       HupChild, HupForeground, SignalGroup, Grace, GraceEnds, KillChild, KillForeground, Limit, DropPty

-----------------------------------------------------------------------------
(***************************************************************************)
(* Answers in order.                                                       *)
(***************************************************************************)
\* What comes before an answer in order is in order.
LEMMA AnsweredShorter ==
  ASSUME NEW s \in Seq(Answers), NEW t \in Seq(Answers), Answered(t), Len(s) <= Len(t),
         \A i \in 1 .. Len(s) : s[i] = t[i]
  PROVE  Answered(s)
<1> SUFFICES ASSUME NEW i \in 1 .. Len(s)
             PROVE  /\ s[i] = "Busy" => Len(s) = 1
                    /\ s[i] = "Lease" => i = 1
                    /\ s[i] = "Status" => s[1] = "Lease"
                    /\ s[i] = "Failure" => i = Len(s)
                    /\ s[i] = "Stopped" => i = Len(s) /\ s[1] = "Lease"
  BY DEF Answered
<1>1. Len(s) \in Nat /\ Len(t) \in Nat /\ 1 \in 1 .. Len(s) /\ i \in 1 .. Len(t)
  OBVIOUS
<1>2. s[i] = t[i] /\ s[1] = t[1]
  BY <1>1
<1> QED
  BY <1>1, <1>2 DEF Answered

\* A lease followed by statuses is in order.
LEMMA OpenedAnswered ==
  ASSUME NEW s \in Seq(Answers), Opened(s)
  PROVE  Answered(s)
BY DEF Opened, Answered

\* What may follow a lease, and nothing.
LEMMA MoreAnswered ==
  ASSUME NEW s \in Seq(Answers), NEW m \in Answers
  PROVE  /\ s \o <<m>> \in Seq(Answers)
         /\ s = <<>> /\ m \in {"Busy", "Lease", "Failure"} => Answered(s \o <<m>>)
         /\ s = <<>> /\ m = "Lease" => Opened(s \o <<m>>)
         /\ Opened(s) /\ m = "Status" => Opened(s \o <<m>>)
         /\ Opened(s) /\ m \in {"Status", "Failure", "Stopped"} => Answered(s \o <<m>>)
<1> DEFINE t == s \o <<m>>
<1>1. /\ t \in Seq(Answers) /\ Len(t) = Len(s) + 1 /\ t[Len(s) + 1] = m
      /\ \A i \in 1 .. Len(s) : t[i] = s[i]
  OBVIOUS
<1>2. s = <<>> => Len(s) = 0
  OBVIOUS
<1>3. Opened(s) => Len(s) >= 1
  BY DEF Opened
<1> HIDE DEF t
<1>4. ASSUME s = <<>>, m \in {"Busy", "Lease", "Failure"}
      PROVE  Answered(t)
  <2>1. Len(t) = 1 /\ t[1] = m
    BY <1>1, <1>2, <1>4
  <2> QED
    BY <1>4, <2>1 DEF Answered
<1>5. s = <<>> /\ m = "Lease" => Opened(t)
  BY <1>1, <1>2 DEF Opened
<1>6. Opened(s) /\ m = "Status" => Opened(t)
  BY <1>1, <1>3 DEF Opened
<1>7. ASSUME Opened(s), m \in {"Failure", "Stopped"}
      PROVE  Answered(t)
  <2>1. Len(s) \in Nat /\ Len(s) >= 1 /\ t[1] = "Lease" /\ \A j \in 2 .. Len(s) : t[j] = "Status"
    BY <1>1, <1>3, <1>7 DEF Opened
  <2>2. \A i \in 1 .. Len(t) : i = 1 \/ i \in 2 .. Len(s) \/ i = Len(t)
    BY <1>1, <2>1
  <2>3. t[Len(t)] \in {"Failure", "Stopped"}
    BY <1>1, <1>7
  <2> QED
    BY <2>1, <2>2, <2>3 DEF Answered
<1>8. Opened(s) /\ m = "Status" => Answered(t)
  BY <1>1, <1>6, OpenedAnswered
<1> QED
  BY <1>1, <1>4, <1>5, <1>6, <1>7, <1>8 DEF t

\* What is said to a peer, by the values of the state.
LEMMA TalkIs ==
  ASSUME ManagedTypeOK, NEW p \in Peers
  PROVE  /\ Talk(p) \in Seq(Answers) /\ told[p] \in Seq(Answers)
         /\ client = Nobody \/ client.peer # p => Talk(p) = told[p]
         /\ client # Nobody /\ client.peer = p => Talk(p) = told[p] \o client.output
         /\ client # Nobody /\ client.peer = p /\ client.output = <<>> => Talk(p) = told[p]
<1>1. told[p] \in Seq(Answers)
  BY DEF ManagedTypeOK
<1>2. told[p] \o <<>> = told[p]
  BY <1>1
<1>3. client # Nobody => client.output \in Seq(Answers)
  <2>1. client # Nobody => client.output \in {<<>>} \cup {<<m>> : m \in Responses}
    BY DEF ManagedTypeOK, Connection
  <2>2. <<>> \in Seq(Answers) /\ \A m \in Responses : <<m>> \in Seq(Answers)
    BY DEF Responses, Answers
  <2> QED
    BY <2>1, <2>2
<1>4. client # Nobody => told[p] \o client.output \in Seq(Answers)
  BY <1>1, <1>3
<1>5. Talk(p) = told[p] \o IF client # Nobody /\ client.peer = p THEN client.output ELSE <<>>
  BY DEF Talk
<1> QED
  BY <1>1, <1>2, <1>4, <1>5

\* The same after a step.
LEMMA TalkIsNext ==
  ASSUME ManagedTypeOK', NEW p \in Peers
  PROVE  /\ Talk(p)' \in Seq(Answers) /\ told'[p] \in Seq(Answers)
         /\ client' = Nobody \/ client'.peer # p => Talk(p)' = told'[p]
         /\ client' # Nobody /\ client'.peer = p => Talk(p)' = told'[p] \o client'.output
         /\ client' # Nobody /\ client'.peer = p /\ client'.output = <<>> => Talk(p)' = told'[p]
<1>1. told'[p] \in Seq(Answers)
  BY DEF ManagedTypeOK
<1>2. told'[p] \o <<>> = told'[p]
  BY <1>1
<1>3. client' # Nobody => client'.output \in Seq(Answers)
  <2>1. client' # Nobody => client'.output \in {<<>>} \cup {<<m>> : m \in Responses}
    BY DEF ManagedTypeOK, Connection
  <2>2. <<>> \in Seq(Answers) /\ \A m \in Responses : <<m>> \in Seq(Answers)
    BY DEF Responses, Answers
  <2> QED
    BY <2>1, <2>2
<1>4. client' # Nobody => told'[p] \o client'.output \in Seq(Answers)
  BY <1>1, <1>3
<1>5. Talk(p)' = told'[p] \o IF client' # Nobody /\ client'.peer = p THEN client'.output ELSE <<>>
  BY DEF Talk
<1> QED
  BY <1>1, <1>2, <1>4, <1>5

\* An element of a sequence.
LEMMA ElementOfSeq ==
  ASSUME NEW S, NEW s \in Seq(S), NEW i \in 1 .. Len(s)
  PROVE  s[i] \in S
OBVIOUS

\* What a sequence begins with.
LEMMA BeginsWith ==
  ASSUME NEW S, NEW s \in Seq(S), NEW t \in Seq(S)
  PROVE  /\ Len(s) <= Len(s \o t)
         /\ \A i \in 1 .. Len(s) : s[i] = (s \o t)[i]
OBVIOUS

\* The property, one peer at a time.
LEMMA AnsweredInOrderIs == ManagedTypeOK => (AnsweredInOrder <=> InOrder)
<1> SUFFICES ASSUME ManagedTypeOK, NEW p \in Peers, NEW i \in 1 .. Len(Talk(p))
             PROVE  (CASE Talk(p)[i] = "Busy" -> Len(Talk(p)) = 1
                       [] Talk(p)[i] = "Lease" -> i = 1
                       [] Talk(p)[i] = "Status" -> Talk(p)[1] = "Lease"
                       [] Talk(p)[i] = "Failure" -> i = Len(Talk(p))
                       [] Talk(p)[i] = "Stopped" -> i = Len(Talk(p)) /\ Talk(p)[1] = "Lease")
                    <=> /\ Talk(p)[i] = "Busy" => Len(Talk(p)) = 1
                        /\ Talk(p)[i] = "Lease" => i = 1
                        /\ Talk(p)[i] = "Status" => Talk(p)[1] = "Lease"
                        /\ Talk(p)[i] = "Failure" => i = Len(Talk(p))
                        /\ Talk(p)[i] = "Stopped" => i = Len(Talk(p)) /\ Talk(p)[1] = "Lease"
  BY DEF AnsweredInOrder, InOrder, Answered
<1>1. Talk(p) \in Seq(Answers)
  BY TalkIs
<1>2. Talk(p)[i] \in Answers
  BY <1>1, ElementOfSeq
<1>3. CASE Talk(p)[i] = "Busy"
  BY <1>3
<1>3a. CASE Talk(p)[i] = "Lease"
  BY <1>3a
<1>4. CASE Talk(p)[i] = "Status"
  BY <1>4
<1>5. CASE Talk(p)[i] = "Failure"
  BY <1>5
<1>6. CASE Talk(p)[i] = "Stopped"
  BY <1>6
<1> QED
  BY <1>2, <1>3, <1>3a, <1>4, <1>5, <1>6 DEF Answers, Responses

-----------------------------------------------------------------------------
(***************************************************************************)
(* Steps that say nothing to a peer.                                       *)
(***************************************************************************)
\* A connection stays one, whatever a section does of it.
LEMMA ConnectionUpdates ==
  ASSUME NEW c \in Connection, NEW m \in Responses
  PROVE  /\ [c EXCEPT !.expired = TRUE] \in Connection
         /\ [c EXCEPT !.sent = TRUE] \in Connection
         /\ [c EXCEPT !.output = <<>>, !.sent = FALSE] \in Connection
         /\ [c EXCEPT !.output = <<m>>, !.sent = FALSE] \in Connection
         /\ [[c EXCEPT !.closing = TRUE] EXCEPT !.output = <<m>>, !.sent = FALSE] \in Connection
         /\ [[c EXCEPT !.leased = TRUE] EXCEPT !.output = <<m>>, !.sent = FALSE] \in Connection
<1> DEFINE Outputs == {<<>>} \cup {<<n>> : n \in Responses}
<1>1. /\ c.peer \in Peers /\ c.leased \in BOOLEAN /\ c.expired \in BOOLEAN
      /\ c.closing \in BOOLEAN /\ c.output \in Outputs /\ c.sent \in BOOLEAN
      /\ c = [peer |-> c.peer, leased |-> c.leased, expired |-> c.expired,
              closing |-> c.closing, output |-> c.output, sent |-> c.sent]
  BY DEF Connection
<1>2. <<>> \in Outputs /\ <<m>> \in Outputs
  OBVIOUS
<1>3. Connection = [peer : Peers, leased : BOOLEAN, expired : BOOLEAN, closing : BOOLEAN,
                    output : Outputs, sent : BOOLEAN]
  BY DEF Connection
<1> HIDE DEF Outputs
<1>4. [c EXCEPT !.expired = TRUE] \in Connection
  BY <1>1, <1>3
<1>5. [c EXCEPT !.sent = TRUE] \in Connection
  BY <1>1, <1>3
<1>6. [c EXCEPT !.output = <<>>, !.sent = FALSE] \in Connection
  BY <1>1, <1>2, <1>3
<1>7. [c EXCEPT !.output = <<m>>, !.sent = FALSE] \in Connection
  BY <1>1, <1>2, <1>3
<1>8. [[c EXCEPT !.closing = TRUE] EXCEPT !.output = <<m>>, !.sent = FALSE] \in Connection
  BY <1>1, <1>2, <1>3
<1>9. [[c EXCEPT !.leased = TRUE] EXCEPT !.output = <<m>>, !.sent = FALSE] \in Connection
  BY <1>1, <1>2, <1>3
<1> QED
  BY <1>4, <1>5, <1>6, <1>7, <1>8, <1>9

\* A step that leaves alone what is told, and of the connection all that matters
\* of it, or drops it.
LEMMA TalkKept ==
  ASSUME ManagedTypeOK, ManagedTypeOK', TalkInv,
         told' = told, fresh' = fresh,
         client' # Nobody =>
           /\ client # Nobody
           /\ client'.peer = client.peer /\ client'.output = client.output
           /\ client'.leased <=> client.leased
           /\ client'.closing <=> client.closing
           /\ client.closing => client.output # <<>> \/ phase' = "flush"
  PROVE  TalkInv'
<1>1. ASSUME NEW p \in Peers
      PROVE  Answered(Talk(p)')
  <2>1. /\ Talk(p) \in Seq(Answers) /\ told[p] \in Seq(Answers) /\ Talk(p)' \in Seq(Answers)
        /\ Answered(Talk(p))
    BY TalkIs, TalkIsNext DEF TalkInv, InOrder
  <2>2. CASE client' # Nobody /\ client'.peer = p
    <3>1. Talk(p)' = Talk(p)
      BY <2>2, TalkIs, TalkIsNext
    <3> QED
      BY <2>1, <3>1
  <2>3. CASE ~(client' # Nobody /\ client'.peer = p)
    <3>1. Talk(p)' = told[p]
      BY <2>3, TalkIsNext
    <3>2. CASE client # Nobody /\ client.peer = p
      <4>1. Talk(p) = told[p] \o client.output /\ client.output \in Seq(Answers)
        <5>1. client.output \in {<<>>} \cup {<<m>> : m \in Responses}
          BY <3>2 DEF ManagedTypeOK, Connection
        <5>2. <<>> \in Seq(Answers) /\ \A m \in Responses : <<m>> \in Seq(Answers)
          BY DEF Responses, Answers
        <5>3. client.output \in Seq(Answers)
          BY <5>1, <5>2
        <5> QED
          BY <5>3, <3>2, TalkIs
      <4>2. /\ Len(told[p]) <= Len(Talk(p))
            /\ \A i \in 1 .. Len(told[p]) : told[p][i] = Talk(p)[i]
        <5>1. /\ Len(told[p]) <= Len(told[p] \o client.output)
              /\ \A i \in 1 .. Len(told[p]) : told[p][i] = (told[p] \o client.output)[i]
          BY <2>1, <4>1, BeginsWith
        <5> QED
          BY <4>1, <5>1, Zenon
      <4> QED
        BY <2>1, <3>1, <4>2, AnsweredShorter
    <3>3. CASE ~(client # Nobody /\ client.peer = p)
      BY <3>1, <3>3, <2>1, TalkIs
    <3> QED
      BY <3>2, <3>3
  <2> QED
    BY <2>2, <2>3
<1>2. InOrder'
  BY <1>1 DEF InOrder
<1>3. FreshAreSilent'
  BY DEF TalkInv, FreshAreSilent
<1>4. ASSUME client' # Nobody
      PROVE  /\ client'.peer \notin fresh'
             /\ ~client'.closing => IF client'.leased THEN Opened(Talk(client.peer)')
                                    ELSE Talk(client.peer)' = <<>>
             /\ client'.closing => client'.output # <<>> \/ phase' = "flush"
  <2> DEFINE q == client.peer
  <2>1. client # Nobody /\ client'.peer = q /\ q \in Peers
    BY <1>4 DEF ManagedTypeOK, Connection
  <2>2. /\ q \notin fresh
        /\ ~client.closing => IF client.leased THEN Opened(Talk(q)) ELSE Talk(q) = <<>>
        /\ client.closing => client.output # <<>> \/ phase = "flush"
    BY <2>1 DEF TalkInv, ClientTalk
  <2>3. Talk(client.peer)' = Talk(q)
    <3>1. Talk(client.peer)' = told[q] \o client'.output
      BY <1>4, <2>1 DEF Talk
    <3>2. Talk(q) = told[q] \o client.output
      BY <2>1, TalkIs
    <3> QED
      BY <1>4, <3>1, <3>2
  <2> QED
    BY <1>4, <2>1, <2>2, <2>3
<1>5. ClientTalk'
  BY <1>4 DEF ClientTalk
<1> QED
  BY <1>2, <1>3, <1>5 DEF TalkInv

\* A step that tells nobody anything and leaves an end alone.
LEMMA EndKept ==
  ASSUME EndInv, told' = told,
         phase = "ended" => phase' = "ended" /\ record' = record /\ stopper' = stopper,
         child = "reaped" => child' = "reaped" /\ status' = status
  PROVE  EndInv'
BY DEF EndInv, StoppedAtTheEnd, StoppedIsTrue

\* Before the end nobody is told of it.
LEMMA NotTheEnd ==
  ASSUME \A p \in Peers : \A i \in 1 .. Len(told'[p]) : told'[p][i] # "Stopped"
  PROVE  EndInv'
BY DEF EndInv, StoppedAtTheEnd, StoppedIsTrue

\* All of the invariant but that of Shutdown.
Rest ==
  /\ ManagedTypeOK
  /\ InStep
  /\ PurposeIsTrue
  /\ TalkInv
  /\ EndInv

\* The child exits.
LEMMA ExitKeeps == ManagedInv /\ Exit => Rest'
<1> SUFFICES ASSUME ManagedInv, Exit
             PROVE  Rest'
  OBVIOUS
<1>1. ManagedTypeOK'
  BY ManagementAssumption DEF ManagedInv, ManagedTypeOK, Exit, ChildExits, vars, connections
<1>2. InStep'
  BY ManagementAssumption DEF ManagedInv, InStep, Loop, Ends, Exit, ChildExits, vars, connections
<1>3. PurposeIsTrue'
  BY DEF ManagedInv, InStep, Loop, Ends, PurposeIsTrue, ManagedTypeOK, ClientTalk, TalkInv, Exit, ChildExits, vars, connections
<1>4. TalkInv'
  BY <1>1, TalkKept DEF ManagedInv, TalkInv, ClientTalk, Exit, ChildExits, vars, connections
<1>5. EndInv'
  BY EndKept DEF ManagedInv, InStep, Loop, Ends, Exit, ChildExits, vars, connections
<1> QED
  BY <1>1, <1>2, <1>3, <1>4, <1>5 DEF Rest

\* The foreground group changes.
LEMMA ForegroundKeeps == ManagedInv /\ Foreground => Rest'
<1> SUFFICES ASSUME ManagedInv, Foreground
             PROVE  Rest'
  OBVIOUS
<1>1. ManagedTypeOK'
  BY ManagementAssumption DEF ManagedInv, ManagedTypeOK, Foreground, ForegroundChanges, vars, service, connections
<1>2. InStep'
  BY ManagementAssumption DEF ManagedInv, InStep, Loop, Ends, Foreground, ForegroundChanges, vars, service, connections
<1>3. PurposeIsTrue'
  BY DEF ManagedInv, InStep, Loop, Ends, PurposeIsTrue, ManagedTypeOK, ClientTalk, TalkInv, Foreground, ForegroundChanges, vars, service, connections
<1>4. TalkInv'
  BY <1>1, TalkKept DEF ManagedInv, TalkInv, ClientTalk, Foreground, ForegroundChanges, vars, service, connections
<1>5. EndInv'
  BY EndKept DEF ManagedInv, InStep, Loop, Ends, Foreground, ForegroundChanges, vars, service, connections
<1> QED
  BY <1>1, <1>2, <1>3, <1>4, <1>5 DEF Rest

\* A termination is requested.
LEMMA SignalKeeps == ManagedInv /\ Signal => Rest'
<1> SUFFICES ASSUME ManagedInv, Signal
             PROVE  Rest'
  OBVIOUS
<1>1. ManagedTypeOK'
  BY ManagementAssumption DEF ManagedInv, ManagedTypeOK, Signal, vars, connections
<1>2. InStep'
  BY ManagementAssumption DEF ManagedInv, InStep, Loop, Ends, Signal, vars, connections
<1>3. PurposeIsTrue'
  BY DEF ManagedInv, InStep, Loop, Ends, PurposeIsTrue, ManagedTypeOK, ClientTalk, TalkInv, Signal, vars, connections
<1>4. TalkInv'
  BY <1>1, TalkKept DEF ManagedInv, TalkInv, ClientTalk, Signal, vars, connections
<1>5. EndInv'
  BY EndKept DEF ManagedInv, InStep, Loop, Ends, Signal, vars, connections
<1> QED
  BY <1>1, <1>2, <1>3, <1>4, <1>5 DEF Rest

\* Somebody replaces the record.
LEMMA ReplaceKeeps == ManagedInv /\ Replace => Rest'
<1> SUFFICES ASSUME ManagedInv, Replace
             PROVE  Rest'
  OBVIOUS
<1>1. ManagedTypeOK'
  BY ManagementAssumption DEF ManagedInv, ManagedTypeOK, Replace, Replaced, Live, vars, connections
<1>2. InStep'
  BY ManagementAssumption DEF ManagedInv, InStep, Loop, Ends, Replace, Replaced, Live, vars, connections
<1>3. PurposeIsTrue'
  BY DEF ManagedInv, InStep, Loop, Ends, PurposeIsTrue, ManagedTypeOK, ClientTalk, TalkInv, Replace, Replaced, Live, vars, connections
<1>4. TalkInv'
  BY <1>1, TalkKept DEF ManagedInv, TalkInv, ClientTalk, Replace, Replaced, Live, vars, connections
<1>5. EndInv'
  BY EndKept DEF ManagedInv, InStep, Loop, Ends, Replace, Replaced, Live, vars, connections
<1> QED
  BY <1>1, <1>2, <1>3, <1>4, <1>5 DEF Rest

\* The owner obeys a termination.
LEMMA TerminateKeeps == ManagedInv /\ Terminate => Rest'
<1> SUFFICES ASSUME ManagedInv, Terminate
             PROVE  Rest'
  OBVIOUS
<1>1. ManagedTypeOK'
  BY ManagementAssumption DEF ManagedInv, ManagedTypeOK, Terminate, Begin, Requested, Leave, vars
<1>2. InStep'
  BY ManagementAssumption DEF ManagedInv, InStep, Loop, Ends, Terminate, Begin, Requested, Leave, vars
<1>3. PurposeIsTrue'
  BY DEF ManagedInv, InStep, Loop, Ends, PurposeIsTrue, ManagedTypeOK, ClientTalk, TalkInv, Terminate, Begin, Requested, Leave, vars
<1>4. TalkInv'
  BY <1>1, TalkKept DEF ManagedInv, TalkInv, ClientTalk, Terminate, Begin, Requested, Leave, vars
<1>5. EndInv'
  BY EndKept DEF ManagedInv, InStep, Loop, Ends, Terminate, Begin, Requested, Leave, vars
<1> QED
  BY <1>1, <1>2, <1>3, <1>4, <1>5 DEF Rest

\* The owner finds that the child has exited.
LEMMA EndNaturallyKeeps == ManagedInv /\ EndNaturally => Rest'
<1> SUFFICES ASSUME ManagedInv, EndNaturally
             PROVE  Rest'
  OBVIOUS
<1>1. ManagedTypeOK'
  BY ManagementAssumption DEF ManagedInv, ManagedTypeOK, EndNaturally, NaturalExit, Leave, vars
<1>2. InStep'
  BY ManagementAssumption DEF ManagedInv, InStep, Loop, Ends, EndNaturally, NaturalExit, Leave, vars
<1>3. PurposeIsTrue'
  BY DEF ManagedInv, InStep, Loop, Ends, PurposeIsTrue, ManagedTypeOK, ClientTalk, TalkInv, EndNaturally, NaturalExit, Leave, vars
<1>4. TalkInv'
  BY <1>1, TalkKept DEF ManagedInv, TalkInv, ClientTalk, EndNaturally, NaturalExit, Leave, vars
<1>5. EndInv'
  BY EndKept DEF ManagedInv, InStep, Loop, Ends, EndNaturally, NaturalExit, Leave, vars
<1> QED
  BY <1>1, <1>2, <1>3, <1>4, <1>5 DEF Rest

\* The child is given up.
LEMMA DropKeeps == ManagedInv /\ Drop => Rest'
<1> SUFFICES ASSUME ManagedInv, Drop
             PROVE  Rest'
  OBVIOUS
<1>1. ManagedTypeOK'
  BY ManagementAssumption DEF ManagedInv, ManagedTypeOK, Drop, DropPty, Ends, vars, service, connections
<1>2. InStep'
  BY ManagementAssumption DEF ManagedInv, InStep, Loop, Ends, Drop, DropPty, Ends, vars, service, connections
<1>3. PurposeIsTrue'
  BY DEF ManagedInv, InStep, Loop, Ends, PurposeIsTrue, ManagedTypeOK, ClientTalk, TalkInv, Drop, DropPty, Ends, vars, service, connections
<1>4. TalkInv'
  BY <1>1, TalkKept DEF ManagedInv, TalkInv, ClientTalk, Drop, DropPty, Ends, vars, service, connections
<1>5. EndInv'
  BY EndKept DEF ManagedInv, InStep, Loop, Ends, Drop, DropPty, Ends, vars, service, connections
<1> QED
  BY <1>1, <1>2, <1>3, <1>4, <1>5 DEF Rest

\* The owner has accepted.
LEMMA AcceptEndKeeps == ManagedInv /\ AcceptEnd => Rest'
<1> SUFFICES ASSUME ManagedInv, AcceptEnd
             PROVE  Rest'
  OBVIOUS
<1>1. ManagedTypeOK'
  BY ManagementAssumption DEF ManagedInv, ManagedTypeOK, AcceptEnd, vars, connections
<1>2. InStep'
  BY ManagementAssumption DEF ManagedInv, InStep, Loop, Ends, AcceptEnd, vars, connections
<1>3. PurposeIsTrue'
  BY DEF ManagedInv, InStep, Loop, Ends, PurposeIsTrue, ManagedTypeOK, ClientTalk, TalkInv, AcceptEnd, vars, connections
<1>4. TalkInv'
  BY <1>1, TalkKept DEF ManagedInv, TalkInv, ClientTalk, AcceptEnd, vars, connections
<1>5. EndInv'
  BY EndKept DEF ManagedInv, InStep, Loop, Ends, AcceptEnd, vars, connections
<1> QED
  BY <1>1, <1>2, <1>3, <1>4, <1>5 DEF Rest

\* A Stop is read.
LEMMA ReadStopKeeps == ManagedInv /\ ReadStop => Rest'
<1> SUFFICES ASSUME ManagedInv, ReadStop
             PROVE  Rest'
  OBVIOUS
<1>1. ManagedTypeOK'
  <2>1. client.peer \in Peers
    BY DEF ManagedInv, ManagedTypeOK, ReadStop, Readable, Connection
  <2> QED
    BY <2>1, ManagementAssumption
    DEF ManagedInv, ManagedTypeOK, ReadStop, Readable, Begin, Requested, Leave, vars
<1>2. InStep'
  BY ManagementAssumption DEF ManagedInv, InStep, Loop, Ends, ReadStop, Readable, Begin, Requested, Leave, vars
<1>3. PurposeIsTrue'
  BY DEF ManagedInv, InStep, Loop, Ends, PurposeIsTrue, ManagedTypeOK, ClientTalk, TalkInv, ReadStop, Readable, Begin, Requested, Leave, vars
<1>4. TalkInv'
  BY <1>1, TalkKept DEF ManagedInv, TalkInv, ClientTalk, ReadStop, Readable, Begin, Requested, Leave, vars
<1>5. EndInv'
  BY EndKept DEF ManagedInv, InStep, Loop, Ends, ReadStop, Readable, Begin, Requested, Leave, vars
<1> QED
  BY <1>1, <1>2, <1>3, <1>4, <1>5 DEF Rest

\* What a step of the shutdown does to what the owner knows.
LEMMA ReapingIs ==
  ASSUME Reaping
  PROVE  /\ step # "serve" /\ step' # "serve"
         /\ dropping' = dropping
         /\ child' = child \/ (child # "running" /\ child' = "reaped")
         /\ UNCHANGED service
<1>1. UNCHANGED service
  BY DEF Reaping
<1>2. CASE Look
  BY <1>1, <1>2 DEF Look, Return, Reap
<1>3. CASE ReadForeground
  BY <1>1, <1>3 DEF ReadForeground
<1>4. CASE HupChild \/ HupForeground
  BY <1>1, <1>4 DEF HupChild, HupForeground, SignalGroup, Return
<1>5. CASE Grace \/ GraceEnds
  BY <1>1, <1>5 DEF Grace, GraceEnds, Return, Reap
<1>6. CASE KillChild \/ KillForeground
  BY <1>1, <1>6 DEF KillChild, KillForeground, SignalGroup, Return
<1>7. CASE Limit
  BY <1>1, <1>7 DEF Limit, Return, Reap
<1> QED
  BY <1>2, <1>3, <1>4, <1>5, <1>6, <1>7 DEF Reaping

\* The child is stopped and waited for.
LEMMA ReapingKeeps == ManagedInv /\ Reaping => Rest'
<1> SUFFICES ASSUME ManagedInv, Reaping
             PROVE  Rest'
  OBVIOUS
<1>0. /\ step # "serve" /\ step' # "serve"
      /\ dropping' = dropping
      /\ child' = child \/ (child # "running" /\ child' = "reaped")
      /\ UNCHANGED service
  BY ReapingIs
<1>1. ManagedTypeOK'
  BY <1>0 DEF ManagedInv, ManagedTypeOK, service, connections
<1>2. InStep'
  BY <1>0 DEF ManagedInv, InStep, service
<1>3. PurposeIsTrue'
  BY <1>0 DEF ManagedInv, PurposeIsTrue, service, connections
<1>4. TalkInv'
  BY <1>0, <1>1, TalkKept DEF ManagedInv, TalkInv, ClientTalk, service, connections
<1>5. EndInv'
  BY <1>0, EndKept DEF ManagedInv, service, connections
<1> QED
  BY <1>1, <1>2, <1>3, <1>4, <1>5 DEF Rest

\* A step that is not the owner's.
LEMMA StutterKeeps == ManagedInv /\ UNCHANGED managed => Rest'
<1> SUFFICES ASSUME ManagedInv, UNCHANGED managed
             PROVE  Rest'
  OBVIOUS
<1> USE DEF managed, vars, service, connections
<1>1. ManagedTypeOK'
  BY DEF ManagedInv, ManagedTypeOK
<1>2. InStep'
  BY DEF ManagedInv, InStep
<1>3. PurposeIsTrue'
  BY DEF ManagedInv, PurposeIsTrue
<1>4. TalkInv'
  BY <1>1, TalkKept DEF ManagedInv, TalkInv, ClientTalk
<1>5. EndInv'
  BY EndKept DEF ManagedInv
<1> QED
  BY <1>1, <1>2, <1>3, <1>4, <1>5 DEF Rest

\* The negotiation deadline passes.
LEMMA ExpireKeeps == ManagedInv /\ Expire => Rest'
<1> SUFFICES ASSUME ManagedInv, Expire
             PROVE  Rest'
  OBVIOUS
<1>0. /\ client \in Connection /\ client' \in Connection
      /\ client'.peer = client.peer /\ client'.output = client.output
      /\ client'.leased <=> client.leased
      /\ client'.closing <=> client.closing
  <2>1. client \in Connection
    BY DEF ManagedInv, ManagedTypeOK, Expire
  <2>2. client' = [client EXCEPT !.expired = TRUE]
    BY DEF Expire
  <2>3. client' \in Connection
    BY <2>1, <2>2, ConnectionUpdates DEF Responses
  <2> QED
    BY <2>1, <2>2, <2>3 DEF Connection
<1>1. ManagedTypeOK'
  BY <1>0 DEF ManagedInv, ManagedTypeOK, Expire
<1>2. InStep'
  BY DEF ManagedInv, InStep, Loop, Ends, Expire, vars
<1>3. PurposeIsTrue'
  BY DEF ManagedInv, PurposeIsTrue, Expire
<1>4. TalkInv'
  BY <1>0, <1>1, TalkKept DEF ManagedInv, TalkInv, ClientTalk, Expire
<1>5. EndInv'
  BY EndKept DEF ManagedInv, Expire, vars
<1> QED
  BY <1>1, <1>2, <1>3, <1>4, <1>5 DEF Rest

\* A turn begins.
LEMMA TurnKeeps == ManagedInv /\ Turn => Rest'
<1> SUFFICES ASSUME ManagedInv, Turn
             PROVE  Rest'
  OBVIOUS
<1>0. client' = client \/ client' = Nobody
  BY DEF Turn, Released
<1>1. ManagedTypeOK'
  BY <1>0 DEF ManagedInv, ManagedTypeOK, Turn
<1>2. InStep'
  BY DEF ManagedInv, InStep, Loop, Ends, Turn, vars
<1>3. PurposeIsTrue'
  BY DEF ManagedInv, PurposeIsTrue, Turn
<1>4. TalkInv'
  BY <1>0, <1>1, TalkKept DEF ManagedInv, TalkInv, ClientTalk, Turn
<1>5. EndInv'
  BY EndKept DEF ManagedInv, Turn, vars
<1> QED
  BY <1>1, <1>2, <1>3, <1>4, <1>5 DEF Rest

\* Nothing is read.
LEMMA ReadNothingKeeps == ManagedInv /\ ReadNothing => Rest'
<1> SUFFICES ASSUME ManagedInv, ReadNothing
             PROVE  Rest'
  OBVIOUS
<1>0. client' = client \/ client' = Nobody
  BY DEF ReadNothing
<1>1. ManagedTypeOK'
  BY <1>0 DEF ManagedInv, ManagedTypeOK, ReadNothing
<1>2. InStep'
  BY DEF ManagedInv, InStep, Loop, Ends, ReadNothing, vars
<1>3. PurposeIsTrue'
  BY DEF ManagedInv, PurposeIsTrue, ReadNothing
<1>4. TalkInv'
  BY <1>0, <1>1, TalkKept DEF ManagedInv, TalkInv, ClientTalk, ReadNothing
<1>5. EndInv'
  BY EndKept DEF ManagedInv, ReadNothing, vars
<1> QED
  BY <1>1, <1>2, <1>3, <1>4, <1>5 DEF Rest

\* A closing connection goes when its response is sent.
LEMMA FlushEndKeeps == ManagedInv /\ FlushEnd => Rest'
<1> SUFFICES ASSUME ManagedInv, FlushEnd
             PROVE  Rest'
  OBVIOUS
<1>0. client' = client \/ client' = Nobody
  BY DEF FlushEnd
<1>1. ManagedTypeOK'
  BY <1>0 DEF ManagedInv, ManagedTypeOK, FlushEnd
<1>2. InStep'
  BY DEF ManagedInv, InStep, Loop, Ends, FlushEnd, vars
<1>3. PurposeIsTrue'
  BY DEF ManagedInv, PurposeIsTrue, FlushEnd
<1>4. TalkInv'
  <2>1. client' # Nobody => client' = client /\ (client.closing => client.output # <<>>)
    BY DEF FlushEnd
  <2> QED
    BY <1>1, <2>1, TalkKept DEF ManagedInv, FlushEnd
<1>5. EndInv'
  BY EndKept DEF ManagedInv, FlushEnd, vars
<1> QED
  BY <1>1, <1>2, <1>3, <1>4, <1>5 DEF Rest

-----------------------------------------------------------------------------
(***************************************************************************)
(* Steps that say something.                                               *)
(***************************************************************************)
\* Before the end nobody has been told of it.
LEMMA Untold ==
  ASSUME ManagedInv, phase # "ended"
  PROVE  \A p \in Peers : \A i \in 1 .. Len(told[p]) : told[p][i] # "Stopped"
BY DEF ManagedInv, EndInv, StoppedAtTheEnd

\* The second connection is told that the owner is busy.
LEMMA BusyKeeps ==
  ASSUME ManagedInv, NEW p \in Peers, Accept(p), client # Nobody
  PROVE  Rest'
<1>0. /\ phase = "accept" /\ phase' = "accept" /\ p \in fresh /\ fresh' = fresh \ {p}
      /\ client' = client /\ told' = [told EXCEPT ![p] = <<"Busy">>]
  BY DEF Accept
<1>1. ManagedTypeOK'
  <2>1. <<"Busy">> \in Seq(Answers)
    BY DEF Answers
  <2>2. told' \in [Peers -> Seq(Answers)]
    BY <1>0, <2>1 DEF ManagedInv, ManagedTypeOK
  <2> QED
    BY <1>0, <2>2 DEF ManagedInv, ManagedTypeOK, Accept
<1>2. InStep'
  BY DEF ManagedInv, InStep, Accept, vars
<1>3. PurposeIsTrue'
  BY <1>0 DEF PurposeIsTrue
<1>4. /\ told'[p] = <<"Busy">> /\ \A q \in Peers \ {p} : told'[q] = told[q]
      /\ client.peer \in Peers \ {p} /\ client.peer \notin fresh
  BY <1>0 DEF ManagedInv, ManagedTypeOK, Connection, TalkInv, ClientTalk
<1>5. Talk(p)' = <<"Busy">>
  BY <1>0, <1>1, <1>4, TalkIsNext
<1>6. ASSUME NEW q \in Peers \ {p}
      PROVE  Talk(q)' = Talk(q)
  BY <1>0, <1>4, <1>6 DEF Talk
<1>7. TalkInv'
  <2>1. Answered(<<"Busy">>)
    BY DEF Answered
  <2>2. InOrder'
    BY <1>5, <1>6, <2>1 DEF ManagedInv, TalkInv, InOrder
  <2>3. Talk(client.peer)' = Talk(client.peer)
    BY <1>0, <1>4 DEF Talk
  <2>4. ClientTalk'
    BY <1>0, <1>4, <2>3 DEF ManagedInv, TalkInv, ClientTalk
  <2>5. FreshAreSilent'
    BY <1>0, <1>4 DEF ManagedInv, ManagedTypeOK, TalkInv, FreshAreSilent
  <2> QED
    BY <2>2, <2>4, <2>5 DEF TalkInv
<1>8. EndInv'
  <2>1. \A q \in Peers : \A i \in 1 .. Len(told'[q]) : told'[q][i] # "Stopped"
    BY <1>0, <1>4, Untold
  <2> QED
    BY <2>1, NotTheEnd
<1> QED
  BY <1>1, <1>2, <1>3, <1>7, <1>8 DEF Rest

\* The only connection is accepted.
LEMMA NewKeeps ==
  ASSUME ManagedInv, NEW p \in Peers, Accept(p), client = Nobody
  PROVE  Rest'
<1>0. /\ phase = "accept" /\ phase' = "accept" /\ p \in fresh /\ fresh' = fresh \ {p}
      /\ client' = NewClient(p) /\ told' = told
  BY DEF Accept
<1>1. /\ client' \in Connection /\ client' # Nobody
      /\ client'.peer = p /\ client'.output = <<>> /\ ~client'.leased /\ ~client'.closing
  <2>1. NewClient(p) \in Connection
    BY DEF NewClient, Connection
  <2> QED
    BY <1>0, <2>1, NobodyAssumption DEF NewClient
<1>2. ManagedTypeOK'
  BY <1>0, <1>1 DEF ManagedInv, ManagedTypeOK, Accept
<1>3. InStep'
  BY DEF ManagedInv, InStep, Accept, vars
<1>4. PurposeIsTrue'
  BY <1>0 DEF PurposeIsTrue
<1>5. told[p] = <<>>
  BY <1>0 DEF ManagedInv, TalkInv, FreshAreSilent
<1>6. ASSUME NEW q \in Peers
      PROVE  Talk(q)' = told[q] /\ Talk(q) = told[q]
  <2>1. Talk(q) = told[q]
    BY TalkIs DEF ManagedInv
  <2> QED
    BY <1>0, <1>1, <1>2, <2>1, TalkIsNext
<1>7. InOrder'
  BY <1>6 DEF ManagedInv, TalkInv, InOrder
<1>8. ClientTalk'
  <2>1. Talk(client.peer)' = <<>>
    <3>1. Talk(client.peer)' = told[p] \o <<>>
      BY <1>0, <1>1 DEF Talk
    <3> QED
      BY <1>5, <3>1
  <2> QED
    BY <1>0, <1>1, <2>1 DEF ClientTalk
<1>9. FreshAreSilent'
  BY <1>0 DEF ManagedInv, TalkInv, FreshAreSilent
<1>10. EndInv'
  BY <1>0, EndKept DEF ManagedInv, Accept, vars
<1> QED
  BY <1>2, <1>3, <1>4, <1>7, <1>8, <1>9, <1>10 DEF Rest, TalkInv

\* A response is queued: there is none in flight, as the request was readable.
LEMMA QueueKeeps ==
  ASSUME ManagedInv, NEW m \in Responses, NEW c \in Connection,
         phase = "read", client # Nobody, client.output = <<>>,
         c.peer = client.peer,
         Queue(m, c),
         UNCHANGED <<polled, purpose, status, stopper, told, fresh, signalled>>,
         m = "Lease" => ~client.leased /\ c.leased /\ ~c.closing,
         m = "Status" => client.leased /\ c.leased /\ ~c.closing,
         m = "Failure" => c.closing
  PROVE  Rest'
<1>p. PICK p \in Peers : p = client.peer
  BY DEF ManagedInv, ManagedTypeOK, Connection
<1>0. /\ phase' = "flush" /\ client' = [c EXCEPT !.output = <<m>>, !.sent = FALSE]
      /\ UNCHANGED <<vars, record>>
  BY DEF Queue
<1>1. /\ client' \in Connection /\ client' # Nobody
      /\ client'.peer = p /\ client'.output = <<m>> /\ p \in Peers
      /\ client'.leased <=> c.leased
      /\ client'.closing <=> c.closing
  <2>1. client' \in Connection
    BY <1>0, ConnectionUpdates
  <2> QED
    BY <1>0, <1>p, <2>1, NobodyAssumption DEF Connection
<1>2. ManagedTypeOK'
  BY <1>0, <1>1 DEF ManagedInv, ManagedTypeOK
<1>3. InStep'
  BY <1>0 DEF ManagedInv, InStep, Loop, Ends, vars
<1>4. PurposeIsTrue'
  BY <1>0 DEF PurposeIsTrue
<1>5. /\ ~client.closing /\ p \notin fresh
      /\ IF client.leased THEN Opened(told[p]) ELSE told[p] = <<>>
  <2>1. Talk(p) = told[p]
    BY <1>1, <1>p, TalkIs DEF ManagedInv
  <2> QED
    BY <1>p, <2>1 DEF ManagedInv, TalkInv, ClientTalk
<1>6. told[p] \in Seq(Answers) /\ m \in Answers /\ Talk(p)' = told[p] \o <<m>>
  BY <1>1, <1>2, TalkIsNext DEF Answers
<1>7. /\ Answered(told[p] \o <<m>>)
      /\ m \in {"Lease", "Status"} => Opened(told[p] \o <<m>>)
  BY <1>5, <1>6, MoreAnswered DEF Responses
<1>8. ASSUME NEW q \in Peers, q # p
      PROVE  Talk(q)' = Talk(q)
  BY <1>1, <1>p, <1>8 DEF Talk
<1>9. InOrder'
  <2>1. Answered(Talk(p)')
    BY <1>6, <1>7
  <2>2. ASSUME NEW q \in Peers
        PROVE  Answered(Talk(q)')
    <3>1. CASE q = p
      BY <2>1, <3>1
    <3>2. CASE q # p
      BY <1>8, <3>2 DEF ManagedInv, TalkInv, InOrder
    <3> QED
      BY <3>1, <3>2
  <2> QED
    BY <2>2 DEF InOrder
<1>10. ClientTalk'
  <2>1. Talk(client.peer)' = told[p] \o <<m>>
    BY <1>1 DEF Talk
  <2> QED
    BY <1>1, <1>5, <1>7, <2>1 DEF ClientTalk, Responses
<1>11. FreshAreSilent'
  BY DEF ManagedInv, TalkInv, FreshAreSilent
<1>12. EndInv'
  BY <1>0, EndKept DEF ManagedInv, vars
<1> QED
  BY <1>2, <1>3, <1>4, <1>9, <1>10, <1>11, <1>12 DEF Rest, TalkInv

\* A request that is refused.
LEMMA RefuseKeeps ==
  ASSUME ManagedInv, phase = "read", Readable, Refuse,
         UNCHANGED <<polled, purpose, status, stopper, told, fresh, signalled>>
  PROVE  Rest'
<1> DEFINE c == [client EXCEPT !.closing = TRUE]
<1>1. client # Nobody /\ client.output = <<>> /\ client \in Connection
  BY DEF Readable, ManagedInv, ManagedTypeOK
<1>2. c \in Connection /\ c.peer = client.peer /\ c.closing
  BY <1>1 DEF Connection
<1>3. Queue("Failure", c)
  BY DEF Refuse
<1> HIDE DEF c
<1> QED
  BY <1>1, <1>2, <1>3, QueueKeeps DEF Responses

\* ReadRefused keeps the invariant.
LEMMA ReadRefusedKeeps == ManagedInv /\ ReadRefused => Rest'
BY RefuseKeeps DEF ReadRefused

\* An Acquire is granted, or refused.
LEMMA ReadAcquireKeeps ==
  ASSUME ManagedInv, NEW right \in BOOLEAN, ReadAcquire(right)
  PROVE  Rest'
<1>1. CASE ~Granted(right)
  BY <1>1, RefuseKeeps DEF ReadAcquire
<1>2. CASE Granted(right)
  <2> DEFINE c == [client EXCEPT !.leased = TRUE]
  <2>1. client # Nobody /\ client.output = <<>> /\ client \in Connection /\ ~client.leased
    BY DEF ReadAcquire, Readable, ManagedInv, ManagedTypeOK
  <2>2. ~client.closing
    BY <2>1 DEF ReadAcquire, ManagedInv, TalkInv, ClientTalk
  <2>3. c \in Connection /\ c.peer = client.peer /\ c.leased /\ ~c.closing
    BY <2>1, <2>2 DEF Connection
  <2>4. Queue("Lease", c)
    BY <1>2 DEF ReadAcquire
  <2> HIDE DEF c
  <2> QED
    BY <2>1, <2>3, <2>4, QueueKeeps DEF ReadAcquire, Responses
<1> QED
  BY <1>1, <1>2

\* A Status is answered.
LEMMA ReadStatusKeeps == ManagedInv /\ ReadStatus => Rest'
<1> SUFFICES ASSUME ManagedInv, ReadStatus
             PROVE  Rest'
  OBVIOUS
<1>1. client # Nobody /\ client.output = <<>> /\ client \in Connection /\ client.leased
  BY DEF ReadStatus, Readable, ManagedInv, ManagedTypeOK
<1>2. ~client.closing
  BY <1>1 DEF ReadStatus, ManagedInv, TalkInv, ClientTalk
<1> QED
  BY <1>1, <1>2, QueueKeeps DEF ReadStatus, Responses

\* A write of a part, of the rest, or of nothing as the peer is gone.
LEMMA FlushWriteKeeps == ManagedInv /\ FlushWrite => Rest'
<1> SUFFICES ASSUME ManagedInv, FlushWrite
             PROVE  Rest'
  OBVIOUS
<1>0. /\ phase = "flush" /\ client # Nobody /\ client.output # <<>> /\ client \in Connection
      /\ UNCHANGED <<vars, phase, polled, purpose, status, record, stopper, fresh, signalled>>
  BY DEF FlushWrite, ManagedInv, ManagedTypeOK
<1>1. InStep'
  BY <1>0 DEF ManagedInv, InStep, vars
<1>2. PurposeIsTrue'
  BY <1>0 DEF PurposeIsTrue
<1>3. CASE /\ \/ ~client.sent /\ client' = [client EXCEPT !.sent = TRUE]
              \/ client' = Nobody
           /\ told' = told
  <2>1. client' \in Connection \cup {Nobody}
    BY <1>0, <1>3, ConnectionUpdates DEF Responses
  <2>2. ManagedTypeOK'
    BY <1>0, <1>3, <2>1 DEF ManagedInv, ManagedTypeOK
  <2>3. client' # Nobody =>
          /\ client'.peer = client.peer /\ client'.output = client.output
          /\ client'.leased <=> client.leased
          /\ client'.closing <=> client.closing
    BY <1>0, <1>3 DEF Connection
  <2>4. TalkInv'
    BY <1>0, <1>3, <2>2, <2>3, TalkKept DEF ManagedInv
  <2>5. EndInv'
    BY <1>0, <1>3, EndKept DEF ManagedInv, vars
  <2> QED
    BY <1>1, <1>2, <2>2, <2>4, <2>5 DEF Rest
<1>4. CASE /\ client' = [client EXCEPT !.output = <<>>, !.sent = FALSE]
           /\ told' = [told EXCEPT ![client.peer] = @ \o client.output]
  <2>p. PICK p \in Peers : p = client.peer
    BY <1>0 DEF Connection
  <2>1. PICK m \in Responses : client.output = <<m>>
    BY <1>0 DEF Connection
  <2>2. /\ client' \in Connection /\ client' # Nobody
        /\ client'.peer = p /\ client'.output = <<>> /\ p \in Peers
        /\ client'.leased <=> client.leased
        /\ client'.closing <=> client.closing
    <3>1. client' \in Connection
      BY <1>0, <1>4, ConnectionUpdates DEF Responses
    <3> QED
      BY <1>0, <1>4, <2>p, <3>1, NobodyAssumption DEF Connection
  <2>3. told[p] \in Seq(Answers) /\ <<m>> \in Seq(Answers) /\ told[p] \o <<m>> \in Seq(Answers)
    BY <2>2 DEF ManagedInv, ManagedTypeOK, Answers
  <2>4. /\ told' \in [Peers -> Seq(Answers)]
        /\ told'[p] = told[p] \o <<m>>
        /\ \A q \in Peers \ {p} : told'[q] = told[q]
    BY <1>4, <2>p, <2>1, <2>2, <2>3 DEF ManagedInv, ManagedTypeOK
  <2>5. ManagedTypeOK'
    BY <1>0, <2>2, <2>4 DEF ManagedInv, ManagedTypeOK
  <2>6. Talk(p)' = Talk(p)
    <3>1. Talk(p) = told[p] \o <<m>>
      BY <1>0, <2>p, <2>1, <2>2, TalkIs DEF ManagedInv
    <3>2. Talk(p)' = told'[p]
      BY <2>2, <2>5, TalkIsNext
    <3> QED
      BY <2>4, <3>1, <3>2
  <2>7. ASSUME NEW q \in Peers, q # p
        PROVE  Talk(q)' = Talk(q)
    BY <2>p, <2>2, <2>4, <2>7 DEF Talk
  <2>8. InOrder'
    <3>1. ASSUME NEW q \in Peers
          PROVE  Answered(Talk(q)')
      <4>1. Talk(q)' = Talk(q)
        BY <2>6, <2>7
      <4> QED
        BY <4>1 DEF ManagedInv, TalkInv, InOrder
    <3> QED
      BY <3>1 DEF InOrder
  <2>9. ClientTalk'
    <3>1. Talk(client.peer)' = Talk(p)'
      BY <2>2 DEF Talk
    <3> QED
      BY <1>0, <2>p, <2>2, <2>6, <3>1 DEF ManagedInv, TalkInv, ClientTalk
  <2>10. FreshAreSilent'
    <3>1. p \notin fresh /\ fresh' = fresh /\ fresh \subseteq Peers
      BY <1>0, <2>p DEF ManagedInv, ManagedTypeOK, TalkInv, ClientTalk
    <3> QED
      BY <2>4, <3>1 DEF ManagedInv, TalkInv, FreshAreSilent
  <2>11. EndInv'
    <3>1. \A q \in Peers : \A i \in 1 .. Len(told[q]) : told[q][i] # "Stopped"
      BY <1>0, Untold
    <3>2. ASSUME NEW i \in 1 .. Len(told[p] \o <<m>>)
          PROVE  (told[p] \o <<m>>)[i] # "Stopped"
      <4>1. \/ i \in 1 .. Len(told[p]) /\ (told[p] \o <<m>>)[i] = told[p][i]
            \/ (told[p] \o <<m>>)[i] = m
        BY <2>3
      <4> QED
        BY <2>2, <3>1, <4>1 DEF Responses
    <3>3. \A q \in Peers : \A i \in 1 .. Len(told'[q]) : told'[q][i] # "Stopped"
      BY <2>4, <3>1, <3>2
    <3> QED
      BY <3>3, NotTheEnd
  <2> QED
    BY <1>1, <1>2, <2>5, <2>8, <2>9, <2>10, <2>11 DEF Rest, TalkInv
<1> QED
  BY <1>3, <1>4 DEF FlushWrite

\* What the record may become.
LEMMA RecordTypes ==
  ASSUME NEW o \in Statuses \cup {Nobody}, NEW r \in {"none", "NaturalExit", "ExplicitStop"}
  PROVE  LET Kept == [kind : {"live", "foreign", "gone", "tombstone"},
                      reason : {"none", "NaturalExit", "ExplicitStop"},
                      outcome : Statuses \cup {Nobody}]
         IN  /\ Tombstone(r, o) \in Kept /\ Gone \in Kept
             /\ Tombstone(r, o) # Live /\ Tombstone(r, o).kind = "tombstone"
             /\ Tombstone(r, o).outcome = o /\ Tombstone(r, o).reason = r
BY DEF Tombstone, Gone, Live

\* What the end of the shutdown finds and leaves.
LEMMA ConcludeIs ==
  ASSUME ManagedInv, Conclude
  PROVE  /\ phase = "stopping" /\ phase' \in Ends /\ client' = Nobody
         /\ \/ phase' = "failed" /\ told' = told /\ record' = IF record = Live THEN Gone ELSE record
            \/ /\ phase' = "ended" /\ result = "status" /\ record = Live
               /\ record' = Tombstone(IF purpose = "Exit" THEN "NaturalExit" ELSE "ExplicitStop", status)
               /\ told' = told \/ (purpose = "Stop" /\ told' \in Replied)
         /\ UNCHANGED <<vars, polled, fresh, purpose, status, stopper, signalled>>
<1>1. CASE result = "error"
  BY <1>1 DEF Conclude, Fail, Ends
<1>2. CASE result = "status" /\ record = Live
  BY <1>2 DEF Conclude, Finish, Fail, Ends
<1>3. CASE result = "status" /\ record # Live
  BY <1>3 DEF Conclude, Finish, Fail, Ends
<1> QED
  BY <1>1, <1>2, <1>3 DEF Conclude

\* The end of run.
LEMMA ConcludeKeeps == ManagedInv /\ Conclude => Rest'
<1> SUFFICES ASSUME ManagedInv, Conclude
             PROVE  Rest'
  OBVIOUS
<1>0. /\ phase = "stopping" /\ phase' \in Ends /\ client' = Nobody
      /\ \/ phase' = "failed" /\ told' = told /\ record' = IF record = Live THEN Gone ELSE record
         \/ /\ phase' = "ended" /\ result = "status" /\ record = Live
            /\ record' = Tombstone(IF purpose = "Exit" THEN "NaturalExit" ELSE "ExplicitStop", status)
            /\ told' = told \/ (purpose = "Stop" /\ told' \in Replied)
      /\ UNCHANGED <<vars, polled, fresh, purpose, status, stopper, signalled>>
  BY ConcludeIs
<1>1. record' \in [kind : {"live", "foreign", "gone", "tombstone"},
                   reason : {"none", "NaturalExit", "ExplicitStop"}, outcome : Statuses \cup {Nobody}]
  <2>1. /\ record \in [kind : {"live", "foreign", "gone", "tombstone"},
                       reason : {"none", "NaturalExit", "ExplicitStop"}, outcome : Statuses \cup {Nobody}]
        /\ status \in Statuses \cup {Nobody}
    BY DEF ManagedInv, ManagedTypeOK
  <2>2. CASE phase' = "failed"
    BY <1>0, <2>1, <2>2, RecordTypes
  <2>3. CASE phase' = "ended"
    <3>1. (IF purpose = "Exit" THEN "NaturalExit" ELSE "ExplicitStop") \in {"none", "NaturalExit", "ExplicitStop"}
      OBVIOUS
    <3> QED
      BY <1>0, <2>1, <2>3, <3>1, RecordTypes
  <2> QED
    BY <1>0, <2>2, <2>3 DEF Ends
<1>2. InStep'
  BY <1>0 DEF ManagedInv, InStep, Loop, Ends, vars
<1>3. PurposeIsTrue'
  BY <1>0 DEF PurposeIsTrue, Ends
<1>4. CASE told' = told
  <2>1. ManagedTypeOK'
    BY <1>0, <1>1, <1>4 DEF ManagedInv, ManagedTypeOK
  <2>2. TalkInv'
    BY <1>0, <1>4, <2>1, TalkKept DEF ManagedInv
  <2>3. EndInv'
    BY <1>0, <1>4, Untold, NotTheEnd
  <2> QED
    BY <1>2, <1>3, <2>1, <2>2, <2>3 DEF Rest
<1>5. CASE told' # told
  <2>1. /\ phase' = "ended" /\ result = "status" /\ record = Live
        /\ record' = Tombstone("ExplicitStop", status)
        /\ purpose = "Stop"
        /\ told' = [told EXCEPT ![client.peer] = Append(@, "Stopped")]
    BY <1>0, <1>5 DEF Replied
  <2>2. /\ client # Nobody /\ client.leased /\ ~client.closing
        /\ client.output = <<>> /\ stopper = client.peer /\ client \in Connection
    BY <1>0, <2>1 DEF ManagedInv, PurposeIsTrue, ManagedTypeOK
  <2>p. PICK p \in Peers : p = client.peer
    BY <2>2 DEF Connection
  <2>3. Opened(told[p]) /\ told[p] \in Seq(Answers) /\ p \notin fresh
    <3>1. Talk(p) = told[p] /\ told[p] \in Seq(Answers)
      BY <2>2, <2>p, TalkIs DEF ManagedInv
    <3> QED
      BY <2>2, <2>p, <3>1 DEF ManagedInv, TalkInv, ClientTalk
  <2>4. /\ told[p] \o <<"Stopped">> = Append(told[p], "Stopped")
        /\ told[p] \o <<"Stopped">> \in Seq(Answers)
        /\ Answered(told[p] \o <<"Stopped">>)
    <3>1. "Stopped" \in Answers
      BY DEF Answers
    <3>2. told[p] \o <<"Stopped">> = Append(told[p], "Stopped")
      BY <2>3
    <3> QED
      BY <2>3, <3>1, <3>2, MoreAnswered
  <2>5. /\ told' \in [Peers -> Seq(Answers)]
        /\ told'[p] = told[p] \o <<"Stopped">>
        /\ \A q \in Peers \ {p} : told'[q] = told[q]
    BY <2>p, <2>1, <2>4 DEF ManagedInv, ManagedTypeOK
  <2>6. ManagedTypeOK'
    BY <1>0, <1>1, <2>5 DEF ManagedInv, ManagedTypeOK
  <2>7. TalkInv'
    <3>1. ASSUME NEW q \in Peers
          PROVE  Answered(Talk(q)')
      <4>1. Talk(q)' = told'[q]
        BY <1>0, <2>6, TalkIsNext
      <4>2. CASE q = p
        BY <2>4, <2>5, <4>1, <4>2
      <4>3. CASE q # p
        <5>1. Talk(q) = told[q]
          BY <2>p, <4>3, TalkIs DEF ManagedInv
        <5> QED
          BY <2>5, <4>1, <4>3, <5>1 DEF ManagedInv, TalkInv, InOrder
      <4> QED
        BY <4>2, <4>3
    <3>2. FreshAreSilent'
      <4>1. fresh' = fresh /\ fresh \subseteq Peers
        BY <1>0 DEF ManagedInv, ManagedTypeOK
      <4> QED
        BY <2>3, <2>5, <4>1 DEF ManagedInv, TalkInv, FreshAreSilent
    <3> QED
      BY <1>0, <3>1, <3>2 DEF TalkInv, InOrder, ClientTalk
  <2>8. EndInv'
    <3>1. child' = "reaped"
      BY <1>0, <2>1 DEF ManagedInv, IInv, ReapedOnSuccess, vars
    <3>2. \A q \in Peers : \A i \in 1 .. Len(told[q]) : told[q][i] # "Stopped"
      BY <1>0, Untold
    <3>3. told'[p][1] = "Lease"
      BY <2>3, <2>5 DEF Opened
    <3>4. /\ phase' = "ended" /\ stopper' = p /\ child' = "reaped"
          /\ record' = Tombstone("ExplicitStop", status')
      BY <1>0, <2>1, <2>2, <2>p, <3>1
    <3>5. ASSUME NEW q \in Peers, NEW i \in 1 .. Len(told'[q]), told'[q][i] = "Stopped"
          PROVE  q = p
      BY <2>5, <3>2, <3>5
    <3>6. StoppedAtTheEnd'
      BY <3>4 DEF StoppedAtTheEnd
    <3>7. StoppedIsTrue'
      BY <3>3, <3>4, <3>5 DEF StoppedIsTrue
    <3> QED
      BY <3>6, <3>7 DEF EndInv
  <2> QED
    BY <1>2, <1>3, <2>6, <2>7, <2>8 DEF Rest
<1> QED
  BY <1>4, <1>5

-----------------------------------------------------------------------------
(***************************************************************************)
(* The invariant.                                                          *)
(***************************************************************************)
LEMMA InitManagedInv == ManagedInit => ManagedInv
<1> SUFFICES ASSUME ManagedInit
             PROVE  ManagedInv
  OBVIOUS
<1>1. IInv
  BY InitIInv DEF ManagedInit
<1>2. /\ phase = "top" /\ client = Nobody /\ fresh = Peers /\ told = [p \in Peers |-> <<>>]
      /\ step = "serve" /\ child = "running" /\ dropping = FALSE
  BY DEF ManagedInit, Init
<1>3. \A p \in Peers : told[p] = <<>> /\ Len(told[p]) = 0
  BY <1>2
<1>4. ManagedTypeOK
  <2>1. <<>> \in Seq(Answers)
    OBVIOUS
  <2>2. told \in [Peers -> Seq(Answers)]
    BY <1>2, <2>1
  <2> QED
    BY <2>2 DEF ManagedInit, ManagedTypeOK, Live
<1>5. InStep
  BY <1>2 DEF InStep, Loop
<1>6. PurposeIsTrue
  BY <1>2 DEF PurposeIsTrue
<1>7. TalkInv
  <2>1. ASSUME NEW p \in Peers
        PROVE  Answered(Talk(p))
    <3>1. Talk(p) = told[p]
      BY <1>2, <1>4, TalkIs
    <3> QED
      BY <1>3, <3>1 DEF Answered
  <2> QED
    BY <1>2, <1>3, <2>1 DEF TalkInv, InOrder, ClientTalk, FreshAreSilent
<1>8. EndInv
  BY <1>3 DEF EndInv, StoppedAtTheEnd, StoppedIsTrue
<1> QED
  BY <1>1, <1>4, <1>5, <1>6, <1>7, <1>8 DEF ManagedInv

\* Every action keeps the invariant.
LEMMA NextManagedInv == ManagedInv /\ [ManagedNext]_managed => ManagedInv'
<1> SUFFICES ASSUME ManagedInv, [ManagedNext]_managed
             PROVE  ManagedInv'
  OBVIOUS
<1>1. IInv'
  BY StepIsShutdown, NextIInv DEF ManagedInv
<1>2. Rest'
  <2>1. CASE UNCHANGED managed
    BY <2>1, StutterKeeps
  <2>2. CASE Exit \/ Foreground \/ Signal \/ Replace \/ Expire
    BY <2>2, ExitKeeps, ForegroundKeeps, SignalKeeps, ReplaceKeeps, ExpireKeeps
  <2>3. CASE Terminate \/ EndNaturally \/ Reaping \/ Conclude \/ Drop \/ Turn
    BY <2>3, TerminateKeeps, EndNaturallyKeeps, ReapingKeeps, ConcludeKeeps, DropKeeps, TurnKeeps
  <2>4. CASE \E p \in Peers : Accept(p)
    BY <2>4, BusyKeeps, NewKeeps
  <2>5. CASE AcceptEnd \/ ReadNothing \/ ReadRefused \/ ReadStatus \/ ReadStop
    BY <2>5, AcceptEndKeeps, ReadNothingKeeps, ReadRefusedKeeps, ReadStatusKeeps, ReadStopKeeps
  <2>6. CASE \E right \in BOOLEAN : ReadAcquire(right)
    BY <2>6, ReadAcquireKeeps
  <2>7. CASE FlushWrite \/ FlushEnd
    BY <2>7, FlushWriteKeeps, FlushEndKeeps
  <2> QED
    BY <2>1, <2>2, <2>3, <2>4, <2>5, <2>6, <2>7 DEF ManagedNext
<1> QED
  BY <1>1, <1>2 DEF Rest, ManagedInv

\* The management service keeps its invariant with that of the shutdown.
THEOREM ManagedInvariantHolds == ManagedSpec => []ManagedInv
BY InitManagedInv, NextManagedInv, PTL DEF ManagedSpec

\* Every variable of the owner keeps its type.
THEOREM ManagedTypeCorrect == ManagedSpec => []ManagedTypeOK
<1>1. ManagedInv => ManagedTypeOK
  BY DEF ManagedInv
<1> QED
  BY <1>1, ManagedInvariantHolds, PTL

\* Why run has failed, where the shutdown is once run has ended, and that run writes the
\* record only at its end.
CauseInv ==
  /\ FailsForCause
  /\ phase \in Ends => dropping \/ step = "drop"
  /\ phase \notin Ends => record \in {Live, Replaced}

\* What is read does not end run with an error: a request is read only when no
\* answer is in flight.
LEMMA ReadingGoesOn ==
  ASSUME ManagedInv,
         ReadRefused \/ ReadStatus \/ (\E right \in BOOLEAN : ReadAcquire(right))
  PROVE  phase' = "flush" /\ record' = record /\ phase = "read"
<1>1. client.output = <<>>
  BY DEF ReadRefused, ReadStatus, ReadAcquire, Readable
<1> QED
  BY <1>1 DEF ReadRefused, ReadStatus, ReadAcquire, Refuse, Queue

\* A step of the shutdown that is repeated leaves its first result.
LEMMA RepeatKeepsResult ==
  ASSUME Reaping, dropping
  PROVE  result' = result
BY DEF Reaping, Look, ReadForeground, HupChild, HupForeground, SignalGroup, Grace, GraceEnds,
       KillChild, KillForeground, Limit, Return, Reap

\* No step of the shutdown is taken from its end.
LEMMA ReapingNotAtEnd == Reaping => step # "drop"
BY DEF Reaping, Look, ReadForeground, HupChild, HupForeground, SignalGroup, Grace, GraceEnds,
       KillChild, KillForeground, Limit

\* Every action keeps the cause.
LEMMA NextCauseInv == ManagedInv /\ CauseInv /\ [ManagedNext]_managed => CauseInv'
<1> SUFFICES ASSUME ManagedInv, CauseInv, [ManagedNext]_managed
             PROVE  CauseInv'
  OBVIOUS
<1>0. (phase \in Loop <=> step = "serve") /\ (phase \notin Ends => ~dropping)
  BY DEF ManagedInv, InStep
<1>1. CASE UNCHANGED managed
  BY <1>1 DEF CauseInv, FailsForCause, managed, vars, service
<1>2. CASE Exit \/ Foreground \/ Signal \/ Replace \/ Expire
  BY <1>0, <1>2 DEF CauseInv, FailsForCause, Loop, Ends, Exit, ChildExits, Foreground,
     ForegroundChanges, Signal, Replace, Expire, vars, service
<1>3. CASE Terminate \/ EndNaturally \/ Turn \/ AcceptEnd \/ ReadNothing \/ ReadStop
  BY <1>0, <1>3 DEF CauseInv, FailsForCause, Ends, Terminate, EndNaturally, NaturalExit, Begin,
     Requested, Leave, Turn, AcceptEnd, ReadNothing, ReadStop
<1>4. CASE Reaping
  <2>1. UNCHANGED service /\ dropping' = dropping /\ step # "drop"
    BY <1>4, ReapingIs, ReapingNotAtEnd
  <2>2. phase \in Ends => dropping /\ result' = result
    BY <1>4, <2>1, RepeatKeepsResult DEF CauseInv
  <2> QED
    BY <2>1, <2>2 DEF CauseInv, FailsForCause, Ends, service
<1>5. CASE Conclude
  <2>1. purpose # "none" /\ step = "drop"
    BY <1>5 DEF Conclude, ManagedInv, PurposeIsTrue
  <2>2. /\ step' = "drop" /\ purpose' # "none" /\ result' = result
        /\ \/ phase' = "ended"
           \/ phase' = "failed" /\ result = "error"
           \/ phase' = "failed" /\ record # Live /\ record' = record
    BY <1>5, <2>1 DEF Conclude, Finish, Fail, vars
  <2>3. phase' = "failed" /\ result # "error" => record' = Replaced
    <3>1. SUFFICES ASSUME phase' = "failed", result # "error"
                   PROVE  record = Replaced
      BY <2>2
    <3> QED
      BY <2>2, <3>1, <1>5 DEF CauseInv, Conclude, Ends
  <2> QED
    BY <2>2, <2>3 DEF CauseInv, FailsForCause, Ends
<1>6. CASE Drop
  BY <1>6 DEF CauseInv, FailsForCause, Drop, DropPty, service
<1>7. CASE \E p \in Peers : Accept(p)
  BY <1>7 DEF CauseInv, FailsForCause, Ends, Accept, vars
<1>8. CASE ReadRefused \/ ReadStatus \/ (\E right \in BOOLEAN : ReadAcquire(right))
  BY <1>8, ReadingGoesOn DEF CauseInv, FailsForCause, Ends
<1>9. CASE FlushWrite \/ FlushEnd
  BY <1>9 DEF CauseInv, FailsForCause, Ends, FlushWrite, FlushEnd, vars
<1> QED
  BY <1>1, <1>2, <1>3, <1>4, <1>5, <1>6, <1>7, <1>8, <1>9 DEF ManagedNext

\* run fails only after the shutdown, for a cause that is not a peer's: no answer ever
\* meets another in flight.
THEOREM OwnerFailsForCause == ManagedSpec => []FailsForCause
<1>1. ManagedInit => CauseInv
  BY DEF ManagedInit, CauseInv, FailsForCause, Ends
<1>2. CauseInv => FailsForCause
  BY DEF CauseInv
<1> QED
  BY <1>1, <1>2, NextCauseInv, ManagedInvariantHolds, PTL DEF ManagedSpec

\* Whatever peers ask and however they come and go, each is answered in order, and none
\* makes run fail: no answer meets another in flight.
THEOREM PeersAreAnsweredInOrder == ManagedSpec => []WellAnswered
<1>1. ManagedInv => AnsweredInOrder
  BY AnsweredInOrderIs DEF ManagedInv, TalkInv
<1>2. AnsweredInOrder /\ FailsForCause => WellAnswered
  BY DEF WellAnswered
<1> QED
  BY <1>1, <1>2, ManagedInvariantHolds, OwnerFailsForCause, PTL

\* A peer that is told that the session has stopped is told the truth.
THEOREM StoppedMeansStopped == ManagedSpec => []StoppedIsTrue
<1>1. ManagedInv => StoppedIsTrue
  BY DEF ManagedInv, EndInv
<1> QED
  BY <1>1, ManagedInvariantHolds, PTL

\* No signal of the whole owner is late, and none goes to a group that the terminal
\* has not named since the last wait.
THEOREM OwnerSignalsNotLate == ManagedSpec => []NoLateSignal
BY OwnerImplementsShutdown, SignalsAreNotLate

\* Nor does the owner signal a process group that is not its child's.
THEOREM OwnerSignalsCurrent == ManagedSpec => []SignalsCurrent
BY OwnerImplementsShutdown, SignalsAreCurrent

-----------------------------------------------------------------------------
(***************************************************************************)
(* The tombstone.                                                          *)
(***************************************************************************)
\* What a step may do to the record.
TombstoneStep ==
  record' # record =>
    \/ record = Live /\ record'.kind = "foreign"
    \/ record = Live /\ record' = Gone /\ phase' = "failed"
    \/ /\ record = Live /\ record'.kind = "tombstone"
       /\ child = "reaped" /\ record'.outcome = status /\ status # Nobody
       /\ record'.reason = "ExplicitStop" =>
            signalled \/ (stopper # Nobody /\ Head(Talk(stopper)) = "Lease")

\* The end of run writes the truth.
LEMMA ConcludeWritesTruth == ManagedInv /\ Conclude => TombstoneStep
<1> SUFFICES ASSUME ManagedInv, Conclude, record' # record
             PROVE  \/ record = Live /\ record' = Gone /\ phase' = "failed"
                    \/ /\ record = Live /\ record'.kind = "tombstone"
                       /\ child = "reaped" /\ record'.outcome = status /\ status # Nobody
                       /\ record'.reason = "ExplicitStop" =>
                            signalled \/ (stopper # Nobody /\ Head(Talk(stopper)) = "Lease")
  BY DEF TombstoneStep
<1>1. /\ phase = "stopping" /\ phase' \in Ends
      /\ \/ phase' = "failed" /\ record' = IF record = Live THEN Gone ELSE record
         \/ /\ phase' = "ended" /\ result = "status" /\ record = Live
            /\ record' = Tombstone(IF purpose = "Exit" THEN "NaturalExit" ELSE "ExplicitStop", status)
  BY ConcludeIs
<1>2. CASE phase' = "failed"
  BY <1>1, <1>2
<1>3. CASE phase' = "ended"
  <2>1. result = "status" /\ record = Live /\ status \in Statuses \cup {Nobody}
    BY <1>1, <1>3 DEF ManagedInv, ManagedTypeOK
  <2>2. child = "reaped" /\ status # Nobody
    BY <2>1 DEF ManagedInv, IInv, ReapedOnSuccess, InStep
  <2>3. PICK r \in {"NaturalExit", "ExplicitStop"} :
          /\ record' = Tombstone(r, status)
          /\ r = "ExplicitStop" => purpose # "Exit"
    BY <1>1, <1>3
  <2>4. record'.kind = "tombstone" /\ record'.outcome = status /\ record'.reason = r
    BY <2>1, <2>3, RecordTypes
  <2>5. ASSUME purpose # "Exit", ~signalled
        PROVE  stopper # Nobody /\ Head(Talk(stopper)) = "Lease"
    <3>1. /\ client # Nobody /\ client.leased /\ ~client.closing
          /\ client.output = <<>> /\ stopper = client.peer /\ client \in Connection
      BY <1>1, <2>5 DEF ManagedInv, PurposeIsTrue, ManagedTypeOK
    <3>2. stopper \in Peers
      BY <3>1 DEF Connection
    <3>3. stopper # Nobody
      BY <3>2, ManagementAssumption
    <3>4. Opened(Talk(stopper))
      BY <3>1 DEF ManagedInv, TalkInv, ClientTalk
    <3>5. Head(Talk(stopper)) = "Lease"
      <4>1. Talk(stopper) \in Seq(Answers) /\ Talk(stopper) # <<>> /\ Talk(stopper)[1] = "Lease"
        BY <3>2, <3>4, TalkIs DEF ManagedInv, Opened
      <4> QED
        BY <4>1
    <3> QED
      BY <3>3, <3>5
  <2> QED
    BY <2>1, <2>2, <2>3, <2>4, <2>5
<1> QED
  BY <1>1, <1>2, <1>3 DEF Ends

\* No other step writes a tombstone.
LEMMA OthersWriteNone == ManagedInv /\ [ManagedNext]_managed /\ ~Conclude => TombstoneStep
<1> SUFFICES ASSUME ManagedInv, [ManagedNext]_managed, ~Conclude, record' # record
             PROVE  \/ record = Live /\ record'.kind = "foreign"
                    \/ record = Live /\ record' = Gone /\ phase' = "failed"
  BY DEF TombstoneStep
<1>1. CASE Replace
  BY <1>1 DEF Replace, Replaced, Live
<1>2. CASE ReadRefused \/ ReadStatus \/ (\E right \in BOOLEAN : ReadAcquire(right))
  BY <1>2 DEF ReadRefused, ReadStatus, ReadAcquire, Refuse, Queue, Fail
<1>3. CASE Exit \/ Foreground \/ Signal \/ Expire \/ Terminate \/ EndNaturally
  BY <1>3 DEF Exit, Foreground, Signal, Expire, Terminate, EndNaturally, service
<1>4. CASE Reaping \/ Drop \/ Turn \/ AcceptEnd \/ ReadNothing \/ ReadStop
  BY <1>4 DEF Reaping, Drop, Turn, AcceptEnd, ReadNothing, ReadStop, service
<1>5. CASE (\E p \in Peers : Accept(p)) \/ FlushWrite \/ FlushEnd
  BY <1>5 DEF Accept, FlushWrite, FlushEnd
<1>6. CASE UNCHANGED managed
  BY <1>6 DEF managed, service
<1> QED
  BY <1>1, <1>2, <1>3, <1>4, <1>5, <1>6 DEF ManagedNext

\* The tombstone tells the truth and is written once, over the record of this owner
\* and no other.
THEOREM TombstonesAreTrue == ManagedSpec => TombstoneIsTrue
<1>1. ManagedInv /\ [ManagedNext]_managed => [TombstoneStep]_managed
  BY ConcludeWritesTruth, OthersWriteNone
<1>2. [][TombstoneStep]_managed => TombstoneIsTrue
  BY PTL DEF TombstoneIsTrue, TombstoneStep
<1> QED
  BY <1>1, <1>2, ManagedInvariantHolds, PTL DEF ManagedSpec
=============================================================================
