----------------------------- MODULE Management -----------------------------
(***************************************************************************)
(* The management owner of one session (src/management.rs) and the end of  *)
(* the session: one connection that may acquire the lease and stop the     *)
(* session, the shutdown of the child (module Shutdown, whose steps are    *)
(* the owner's while it is in them), and what run does of its result       *)
(* (src/runtime.rs).                                                       *)
(*                                                                         *)
(* As in Connections, one action is one section of the loop, and the peers *)
(* act through the choices of the sections.  Beside them the child exits,  *)
(* a signal arrives, and somebody replaces the record or a socket, at any  *)
(* step of the shutdown too.  How the record is published and dropped is   *)
(* module Ownership.                                                       *)
(***************************************************************************)
EXTENDS Shutdown, Sequences

CONSTANTS
  Peers,       \* the peers that may connect, each once
  Statuses,    \* what a child may end with: its exit code or its signal
  Nobody,      \* no peer, no connection, no status
  MaxTalk      \* bound: the messages sent to one peer

ASSUME ManagementAssumption ==
  /\ Nobody \notin Peers \cup Statuses
  /\ MaxTalk \in Nat

\* What a connection may have in flight, and what a peer may be told.
Responses == {"Lease", "Status", "Failure"}
Answers == Responses \cup {"Busy", "Stopped"}

Connection ==
  [peer : Peers, leased : BOOLEAN, expired : BOOLEAN, closing : BOOLEAN,
   output : {<<>>} \cup {<<m>> : m \in Responses}, sent : BOOLEAN]

ASSUME NobodyAssumption == Nobody \notin Connection

VARIABLES
  phase,     \* the next section of the loop, or how run ended
  client,    \* Owner.client
  polled,    \* readiness.management_client
  purpose,   \* why the child is shut down
  status,    \* what the child ended with
  record,    \* what the record path holds
  signalled, \* a termination was requested
  stopper,   \* history: the peer whose Stop was read
  told,      \* history: what each peer has received
  fresh      \* the peers that have not connected

connections == <<client, polled, told, fresh>>
service == <<phase, purpose, status, record, stopper, connections, signalled>>
managed == <<vars, service>>

NewClient(p) ==
  [peer |-> p, leased |-> FALSE, expired |-> FALSE, closing |-> FALSE, output |-> <<>>,
   sent |-> FALSE]

Live == [kind |-> "live", reason |-> "none", outcome |-> Nobody]
Replaced == [Live EXCEPT !.kind = "foreign"]
Gone == [Live EXCEPT !.kind = "gone"]
Tombstone(reason, outcome) == [kind |-> "tombstone", reason |-> reason, outcome |-> outcome]

Ends == {"ended", "failed"}

-----------------------------------------------------------------------------
ManagedInit ==
  /\ Init /\ foreground = ChildGroup
  /\ phase = "top"
  /\ client = Nobody
  /\ polled = FALSE
  /\ purpose = "none"
  /\ status = Nobody
  /\ record = Live
  /\ signalled = FALSE
  /\ stopper = Nobody
  /\ told = [p \in Peers |-> <<>>]
  /\ fresh = Peers

Exit ==
  /\ step # "returned"
  /\ ChildExits
  /\ status' \in Statuses
  /\ UNCHANGED <<phase, purpose, record, stopper, connections, signalled>>

\* Before the shutdown it does not matter which group is in the foreground, nor in
\* it whether a termination is requested, and the record only at its end.
Foreground ==
  /\ phase = "stopping"
  /\ ForegroundChanges
  /\ UNCHANGED service

Signal ==
  /\ step = "serve"
  /\ signalled' = TRUE
  /\ UNCHANGED <<vars, phase, purpose, status, record, stopper, connections>>

\* Somebody replaces the record.
Replace ==
  /\ step = "serve" \/ (phase = "stopping" /\ step = "drop")
  /\ record = Live
  /\ record' = Replaced
  /\ UNCHANGED <<vars, phase, purpose, status, signalled, stopper, connections>>

\* One second passes: the negotiation deadline of a connection without lease.
Expire ==
  /\ phase = "top"
  /\ client # Nobody
  /\ ~client.leased /\ ~client.expired
  /\ client' = [client EXCEPT !.expired = TRUE]
  /\ UNCHANGED <<vars, phase, polled, purpose, status, record, stopper, told, fresh, signalled>>

-----------------------------------------------------------------------------
(***************************************************************************)
(* The ends of run.                                                        *)
(***************************************************************************)
\* The loop is left: what the turn has polled is gone.
Leave ==
  /\ phase' = "stopping"
  /\ polled' = FALSE

Begin(why) ==
  /\ Requested
  /\ step' = "look"
  /\ Leave
  /\ purpose' = why

Terminate ==
  /\ phase = "top"
  /\ signalled
  /\ Begin("Signal")
  /\ UNCHANGED <<client, told, fresh, status, record, stopper, signalled>>

\* The child has exited: try_wait has its status.
EndNaturally ==
  /\ phase = "top"
  /\ ~signalled
  /\ NaturalExit
  /\ Leave
  /\ purpose' = "Exit"
  /\ UNCHANGED <<client, told, fresh, status, record, stopper, signalled>>

\* The steps of stop_and_reap, and of its repetition by the drop of Pty.
Reaping ==
  /\ \/ Look \/ ReadForeground \/ HupChild \/ HupForeground \/ Grace \/ GraceEnds
     \/ KillChild \/ KillForeground \/ Limit
  /\ UNCHANGED service

\* An error leaves run, and a live record is dropped.
Fail ==
  /\ phase' = "failed"
  /\ record' = IF record = Live THEN Gone ELSE record

\* Owner.finish: only the record that was published is replaced.  Its mutant
\* replaces any.
FinishAny(reason) ==
  /\ phase' = "ended"
  /\ record' = Tombstone(reason, status)

Finish(reason) ==
  \/ /\ record = Live
     /\ phase' = "ended"
     /\ record' = Tombstone(reason, status)
  \/ /\ record # Live
     /\ Fail

\* reply_stopped, whose write may fail.
Replied ==
  {told, [told EXCEPT ![client.peer] = Append(@, "Stopped")]}

\* What run does when stop_and_reap has returned; the owner is dropped with its
\* connection, before Pty.
Conclude ==
  /\ phase = "stopping"
  /\ step = "drop"
  /\ \/ /\ result = "status"
        /\ Finish(IF purpose = "Exit" THEN "NaturalExit" ELSE "ExplicitStop")
        /\ told' \in IF purpose = "Stop" /\ phase' = "ended" THEN Replied ELSE {told}
     \/ /\ result = "error"
        /\ Fail
        /\ UNCHANGED told
  /\ client' = Nobody
  /\ UNCHANGED <<vars, polled, fresh, purpose, status, stopper, signalled>>

Drop ==
  /\ phase \in Ends
  /\ DropPty
  /\ UNCHANGED service

-----------------------------------------------------------------------------
(***************************************************************************)
(* The connection.                                                         *)
(***************************************************************************)
\* Owner.release_expired; its mutant spares a connection that is answered.
ReleasedIdle ==
  IF client # Nobody /\ client.expired /\ ~client.leased /\ client.output = <<>>
  THEN Nobody ELSE client

Released ==
  IF client # Nobody /\ client.expired /\ ~client.leased THEN Nobody ELSE client

\* The top of a turn and the poll.
Turn ==
  /\ phase = "top"
  /\ ~signalled
  /\ child # "exited"
  /\ phase' = "accept"
  /\ client' = Released
  /\ polled' \in {FALSE, client' # Nobody}
  /\ UNCHANGED <<vars, purpose, status, record, stopper, told, fresh, signalled>>

\* Owner.accept, one connection.
Accept(p) ==
  /\ phase = "accept"
  /\ p \in fresh
  /\ fresh' = fresh \ {p}
  /\ \/ /\ client # Nobody
        /\ told' = [told EXCEPT ![p] = <<"Busy">>]
        /\ UNCHANGED client
     \/ /\ client = Nobody
        /\ client' = NewClient(p)
        /\ UNCHANGED told
  /\ UNCHANGED <<vars, phase, polled, purpose, status, record, stopper, signalled>>

AcceptEnd ==
  /\ phase = "accept"
  /\ phase' = "read"
  /\ UNCHANGED <<vars, purpose, status, record, stopper, connections, signalled>>

\* queue_response and queue_failure.  One response may be in flight: another is
\* an error of run.
Queue(m, c) ==
  IF client.output # <<>>
  THEN Fail /\ Requested /\ step' = "drop" /\ UNCHANGED client
  ELSE /\ phase' = "flush"
       /\ client' = [c EXCEPT !.output = <<m>>, !.sent = FALSE]
       /\ UNCHANGED <<vars, record>>

\* Mutant: a refused connection stays open for more requests.
RefuseOpen == Queue("Failure", client)

Refuse == Queue("Failure", [client EXCEPT !.closing = TRUE])

\* Owner.read_request before it looks at a message.  Mutant: also while a
\* response is in flight.
ReadableAlways == polled /\ client # Nobody
Readable == polled /\ client # Nobody /\ client.output = <<>>

\* Nothing readable, or not a whole request yet, or the peer is gone.
ReadNothing ==
  /\ phase = "read"
  /\ phase' = "flush"
  /\ \/ UNCHANGED client
     \/ Readable /\ client' = Nobody
  /\ UNCHANGED <<vars, polled, purpose, status, record, stopper, told, fresh, signalled>>

\* A message that is malformed, too long or followed by another; a request before
\* the lease, or a second Acquire.
ReadRefused ==
  /\ phase = "read"
  /\ Readable
  /\ Len(told[client.peer]) < MaxTalk
  /\ Refuse
  /\ UNCHANGED <<polled, purpose, status, stopper, told, fresh, signalled>>

\* Acquire: right, what the peer expects is the identity of this owner, and the
\* sockets are still the ones it names.
Granted(right) == right /\ record = Live

ReadAcquire(right) ==
  /\ phase = "read"
  /\ Readable
  /\ ~client.leased
  /\ IF Granted(right) THEN Queue("Lease", [client EXCEPT !.leased = TRUE]) ELSE Refuse
  /\ UNCHANGED <<polled, purpose, status, stopper, told, fresh, signalled>>

ReadStatus ==
  /\ phase = "read"
  /\ Readable
  /\ client.leased
  /\ Len(told[client.peer]) < MaxTalk
  /\ Queue("Status", client)
  /\ UNCHANGED <<polled, purpose, status, stopper, told, fresh, signalled>>

\* A Stop.  If the child has exited meanwhile, the next turn ends the session.
\* Its mutant does not wait for the tombstone with the reply.
ReadStopReplyFirst ==
  /\ phase = "read"
  /\ Readable
  /\ client.leased
  /\ stopper' = client.peer
  /\ \/ child # "running" /\ phase' = "top" /\ polled' = FALSE /\ UNCHANGED <<vars, purpose, told>>
     \/ child = "running" /\ Begin("Signal") /\ told' \in Replied
  /\ UNCHANGED <<client, fresh, status, record, signalled>>

ReadStop ==
  /\ phase = "read"
  /\ Readable
  /\ client.leased
  /\ stopper' = client.peer
  /\ \/ child # "running" /\ phase' = "top" /\ polled' = FALSE /\ UNCHANGED <<vars, purpose>>
     \/ child = "running" /\ Begin("Stop")
  /\ UNCHANGED <<status, record, client, told, fresh, signalled>>

\* One write of Owner.flush: a part of the response, or what is left of it; or the
\* peer is gone.
FlushWrite ==
  /\ phase = "flush"
  /\ client # Nobody
  /\ client.output # <<>>
  /\ \/ /\ ~client.sent
        /\ client' = [client EXCEPT !.sent = TRUE]
        /\ UNCHANGED told
     \/ /\ client' = [client EXCEPT !.output = <<>>, !.sent = FALSE]
        /\ told' = [told EXCEPT ![client.peer] = @ \o client.output]
     \/ /\ client' = Nobody
        /\ UNCHANGED told
  /\ UNCHANGED <<vars, phase, polled, purpose, status, record, stopper, fresh, signalled>>

\* A closing connection goes when its response is sent.
FlushEnd ==
  /\ phase = "flush"
  /\ phase' = "top"
  /\ polled' = FALSE
  /\ client' = IF client # Nobody /\ client.closing /\ client.output = <<>>
               THEN Nobody ELSE client
  /\ UNCHANGED <<vars, purpose, status, record, stopper, told, fresh, signalled>>

ManagedNext ==
  \/ Exit \/ Foreground \/ Signal \/ Replace \/ Expire
  \/ Terminate \/ EndNaturally \/ Reaping \/ Conclude \/ Drop \/ Turn
  \/ \E p \in Peers : Accept(p)
  \/ AcceptEnd \/ ReadNothing \/ ReadRefused \/ ReadStatus \/ ReadStop
  \/ \E right \in BOOLEAN : ReadAcquire(right)
  \/ FlushWrite \/ FlushEnd

\* The loop turns, time passes and the shutdown proceeds; nothing makes the child
\* exit.
ManagedFairness ==
  /\ WF_managed(Terminate)
  /\ WF_managed(EndNaturally)
  /\ WF_managed(Reaping)
  /\ WF_managed(Conclude)
  /\ WF_managed(Drop)
  /\ WF_managed(Turn)
  /\ WF_managed(AcceptEnd)
  /\ WF_managed(ReadNothing)
  /\ WF_managed(FlushEnd)
  /\ SF_managed(Expire)

ManagedSpec == ManagedInit /\ [][ManagedNext]_managed /\ ManagedFairness

-----------------------------------------------------------------------------
ManagedTypeOK ==
  /\ phase \in {"top", "accept", "read", "flush", "stopping"} \cup Ends
  /\ client \in Connection \cup {Nobody}
  /\ polled \in BOOLEAN
  /\ purpose \in {"none", "Exit", "Signal", "Stop"}
  /\ status \in Statuses \cup {Nobody}
  /\ record \in [kind : {"live", "foreign", "gone", "tombstone"},
                 reason : {"none", "NaturalExit", "ExplicitStop"}, outcome : Statuses \cup {Nobody}]
  /\ signalled \in BOOLEAN
  /\ stopper \in Peers \cup {Nobody}
  /\ told \in [Peers -> Seq(Answers)]
  /\ fresh \subseteq Peers

Talk(p) ==
  told[p] \o IF client # Nobody /\ client.peer = p THEN client.output ELSE <<>>

\* Every peer is answered in order: Busy and nothing else, or a lease and then
\* status after status, until at most one failure or the word that the session
\* has stopped ends it ("one request and response in flight", docs/CONTRACTS.md,
\* ORB-C13).
AnsweredInOrder ==
  \A p \in Peers :
    LET talk == Talk(p)
        last == Len(talk)
    IN  \A i \in 1 .. last :
          CASE talk[i] = "Busy" -> last = 1
            [] talk[i] = "Lease" -> i = 1
            [] talk[i] = "Status" -> talk[1] = "Lease"
            [] talk[i] = "Failure" -> i = last
            [] talk[i] = "Stopped" -> i = last /\ talk[1] = "Lease"

\* Serving management never ends run with an error.  It fails only after it has shut
\* the child down, because the child was not reaped or the record is not this owner's
\* any more.  So whatever a peer requests and however slowly it reads, no answer meets
\* another in flight, which queue_response takes for an error of the owner.  (Errors of
\* system calls and of the presentation are not part of this module.)
FailsForCause ==
  phase = "failed" => purpose # "none" /\ (result = "error" \/ record = Replaced)

\* Peers are answered in order, and no answer meets another in flight
\* (Owner.queue_response, Owner.read_request, Owner.accept).
WellAnswered == AnsweredInOrder /\ FailsForCause

\* "Stop succeeds only through the validated lease" (ORB-C13), and only if it
\* succeeds is the peer told: then there is a tombstone that says so, of a child
\* that was waited for, and of the run that the peer was shown.
StoppedIsTrue ==
  \A p \in Peers :
    \A i \in 1 .. Len(told[p]) :
      told[p][i] = "Stopped" =>
        /\ stopper = p
        /\ told[p][1] = "Lease"
        /\ child = "reaped"
        /\ record = Tombstone("ExplicitStop", status)

\* The tombstone tells the truth and is written once, over the record of this
\* owner and no other: it is of a child that was waited for, its outcome is the
\* child's, and an explicit stop was asked for by a signal or by a peer that had
\* the lease.
TombstoneIsTrue ==
  [][record' # record =>
       \/ record = Live /\ record'.kind = "foreign"
       \/ record = Live /\ record' = Gone /\ phase' = "failed"
       \/ /\ record = Live /\ record'.kind = "tombstone"
          /\ child = "reaped" /\ record'.outcome = status /\ status # Nobody
          /\ record'.reason = "ExplicitStop" =>
               signalled \/ (stopper # Nobody /\ Head(Talk(stopper)) = "Lease")]_managed

\* A peer without lease does not keep the only connection, although it never
\* reads its refusal: "Orbit incomplete handshake: one second".
HandshakeEnds ==
  (client # Nobody /\ ~client.leased) ~> (client = Nobody \/ client.leased)
=============================================================================
