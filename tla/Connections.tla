----------------------------- MODULE Connections -----------------------------
(***************************************************************************)
(* The connections of one session: the pending slot in which a peer        *)
(* negotiates its role, the interactive slot and the observer slot         *)
(* (src/attachment.rs, src/runtime.rs), and the metadata the observer is   *)
(* sent.  What the interactive client asks for and is shown is module      *)
(* Session; here it only moves the revision.                               *)
(*                                                                         *)
(* As in Session, one action is one section of the loop of run, and the    *)
(* peers act through the choices the sections make: which peer connects,   *)
(* what a read yields, how many bytes a write takes.                       *)
(***************************************************************************)
EXTENDS OutputQueue

CONSTANTS
  Peers,         \* the peers that may connect, each once
  Titles,        \* the titles and working directories the terminal may have
  NoTitle,       \* last_metadata before the first
  NoConn,        \* the value of an empty slot
  MaxRevision    \* bound: the revision

ASSUME ConnectionsAssumption ==
  /\ Titles # {}
  /\ NoTitle \notin Titles
  /\ MaxRevision \in Nat

\* The messages of this module, and what a slot holds when it is not empty.
Kinds == {"Attached", "ObservingMetadata", "Busy", "Failure", "Exited", "Metadata"}

Sent ==
  [kind : Kinds, class : {"Ordered", "Metadata"}, size : Nat \ {0}, rev : Nat,
   title : Titles \cup {NoTitle}]

Connection ==
  [peer : Peers, queue : [messages : Seq(Sent), offset : Nat, bytes : Nat],
   closing : BOOLEAN, expired : BOOLEAN, initial : BOOLEAN, last : Titles \cup {NoTitle}]

ASSUME NoConnAssumption == NoConn \notin Connection

VARIABLES
  phase,       \* the next section of the loop
  pending,     \* the connection that negotiates
  client,      \* the interactive connection
  observer,    \* the metadata observer
  screen,      \* revision, title, held: a synchronized_until is set
  told,        \* history: what each peer has received, whole messages
  fresh        \* the peers that have not connected

vars == <<phase, pending, client, observer, screen, told, fresh>>

Slots == {"client", "observer", "pending"}

\* finish_session after the child's exit, or after a signal or a Stop.
Endings == {"exiting", "stopping"}

-----------------------------------------------------------------------------
(***************************************************************************)
(* Messages and connections.                                               *)
(***************************************************************************)
Response(kind) ==
  [kind |-> kind, class |-> "Ordered", size |-> HeaderBytes, rev |-> 0, title |-> NoTitle]

Metadata(class) ==
  [kind |-> "Metadata", class |-> class, size |-> 2 * HeaderBytes, rev |-> screen'.revision,
   title |-> screen'.title]

NewConn(p) ==
  [peer |-> p, queue |-> Empty, closing |-> FALSE, expired |-> FALSE, initial |-> FALSE,
   last |-> NoTitle]

\* A refused push costs the connection.
Push1(c, m) ==
  IF c # NoConn /\ FitsReplaceable(c.queue, m)
  THEN [c EXCEPT !.queue = PushReplaceable(@, m)]
  ELSE NoConn

\* Client.close_when_flushed
Close(c) == IF c = NoConn THEN c ELSE [c EXCEPT !.closing = TRUE]

\* Mutant: what was last published is not remembered after the first time.
PushMetadataOnce(c) ==
  IF c.last = screen'.title THEN c
  ELSE LET pushed == Push1(c, Metadata(IF c.initial THEN "Ordered" ELSE "Metadata"))
       IN  IF pushed = NoConn THEN NoConn
           ELSE [pushed EXCEPT !.initial = FALSE,
                               !.last = IF c.initial THEN screen'.title ELSE c.last]

\* Mutant: the first metadata is as replaceable as the later ones.
PushMetadataReplaceable(c) ==
  IF c.last = screen'.title THEN c
  ELSE LET pushed == Push1(c, Metadata("Metadata"))
       IN  IF pushed = NoConn THEN NoConn
           ELSE [pushed EXCEPT !.initial = FALSE, !.last = screen'.title]

\* Client.push_metadata: nothing when nothing changed since the last push; the
\* first is ordered, later ones replace.
PushMetadata(c) ==
  IF c.last = screen'.title THEN c
  ELSE LET pushed == Push1(c, Metadata(IF c.initial THEN "Ordered" ELSE "Metadata"))
       IN  IF pushed = NoConn THEN NoConn
           ELSE [pushed EXCEPT !.initial = FALSE, !.last = screen'.title]

\* Presentation.publish_metadata
PublishMetadata(c) ==
  IF screen'.held \/ c = NoConn \/ c.closing THEN c ELSE PushMetadata(c)

Reject(c) == Close(Push1(c, Response("Failure")))

\* What next_incoming does with a first message that names no free role.
Refusals(c) ==
  {NoConn,         \* end of stream, or an unsupported version
   Reject(c)}      \* malformed, or not a role

-----------------------------------------------------------------------------
Init ==
  /\ phase = "top"
  /\ pending = NoConn
  /\ client = NoConn
  /\ observer = NoConn
  /\ screen \in [revision : {0}, title : Titles, held : {FALSE}]
  /\ told = [p \in Peers |-> <<>>]
  /\ fresh = Peers

\* One second passes: the negotiation deadline of the pending connection.
Expire ==
  /\ phase = "top"
  /\ pending # NoConn
  /\ ~pending.expired
  /\ pending' = [pending EXCEPT !.expired = TRUE]
  /\ UNCHANGED <<phase, client, observer, screen, told, fresh>>

\* Client.is_expired; its mutant spares a connection that has been answered.
IsExpiredUnanswered(c) == c # NoConn /\ c.expired /\ ~c.closing
IsExpired(c) == c # NoConn /\ c.expired

\* The top of a turn: the expired negotiation is dropped, an expired hold is
\* released, metadata published.
Turn ==
  /\ phase = "top"
  /\ phase' = "accept"
  /\ pending' = IF IsExpired(pending) THEN NoConn ELSE pending
  /\ screen' \in {screen, [screen EXCEPT !.held = FALSE]}
  /\ observer' = PublishMetadata(observer)
  /\ UNCHANGED <<client, told, fresh>>

\* attachment::accept, one connection.
Accept(p) ==
  /\ phase = "accept"
  /\ p \in fresh
  /\ fresh' = fresh \ {p}
  /\ \/ /\ pending # NoConn \/ (client # NoConn /\ observer # NoConn)
        /\ told' = [told EXCEPT ![p] = <<Response("Busy")>>]
        /\ UNCHANGED pending
     \/ /\ pending = NoConn
        /\ client = NoConn \/ observer = NoConn
        /\ pending' = NewConn(p)
        /\ UNCHANGED told
  /\ UNCHANGED <<phase, client, observer, screen>>

AcceptEnd ==
  /\ phase = "accept"
  /\ phase' = "negotiate"
  /\ UNCHANGED <<pending, client, observer, screen, told, fresh>>

\* read_pending.  A closing candidate is not read any more.
Negotiate ==
  /\ phase = "negotiate"
  /\ phase' = "observe"
  /\ UNCHANGED <<screen, told, fresh>>
  /\ \/ UNCHANGED <<pending, client, observer>>     \* no candidate, or no whole message
     \/ /\ pending # NoConn /\ ~pending.closing
        /\ \/ /\ pending' \in Refusals(pending)
              /\ UNCHANGED <<client, observer>>
           \/ \* the role is taken
              /\ client # NoConn \/ observer # NoConn
              /\ pending' = Close(Push1(pending, Response("Busy")))
              /\ UNCHANGED <<client, observer>>
           \/ \* Hello; the first frame may not be extracted
              /\ client = NoConn
              /\ pending' = NoConn
              /\ client' \in {NoConn, Push1(pending, Response("Attached"))}
              /\ UNCHANGED observer
           \/ \* ObserveMetadata
              /\ observer = NoConn
              /\ pending' = NoConn
              /\ LET c == Push1(pending, Response("ObservingMetadata"))
                 IN  observer' = IF c = NoConn THEN NoConn
                                 ELSE PublishMetadata([c EXCEPT !.initial = TRUE])
              /\ UNCHANGED client

\* read_observer: whatever an observer sends is refused.
Observe ==
  /\ phase = "observe"
  /\ phase' = "pty"
  /\ \/ UNCHANGED observer
     \/ /\ observer # NoConn /\ ~observer.closing
        /\ observer' \in Refusals(observer)
  /\ UNCHANGED <<pending, client, screen, told, fresh>>

\* What PTY output, or a request of the interactive client, does to the screen:
\* publish_change advances unless a hold is on.  Its mutant never does.
ChangedInPlace ==
  [revision : {screen.revision}, title : Titles, held : BOOLEAN]

Changed ==
  [revision : {IF screen.held THEN screen.revision ELSE screen.revision + 1},
   title : Titles, held : BOOLEAN]

\* One read of the PTY.
ReadPty ==
  /\ phase = "pty"
  /\ phase' = "client"
  /\ \/ /\ screen' = screen
        /\ UNCHANGED observer
     \/ /\ screen.revision < MaxRevision
        /\ screen' \in Changed
        /\ observer' = PublishMetadata(observer)
  /\ UNCHANGED <<pending, client, told, fresh>>

\* The interactive connection is read: a request may move the revision and, when
\* it is a resize, end a hold; a second role or a malformed message is refused;
\* the connection may be lost, here or by pressure, and its selection with it,
\* which moves the revision as well (disconnect_client).
ServeClient ==
  /\ phase = "client"
  /\ phase' = "flush"
  /\ \/ UNCHANGED <<client, screen>>
     \/ /\ client # NoConn /\ ~client.closing
        /\ client' \in Refusals(client)
        /\ UNCHANGED screen
     \/ /\ client # NoConn /\ ~client.closing
        /\ screen.revision < MaxRevision
        /\ screen' \in [revision : {screen.revision + 1}, title : {screen.title},
                        held : {screen.held, FALSE}]
        /\ client' \in {client, NoConn}
  /\ UNCHANGED <<pending, observer, told, fresh>>

-----------------------------------------------------------------------------
(***************************************************************************)
(* Flushing, in a turn and in finish_session.                              *)
(***************************************************************************)
Conn(slot) == [client |-> client, observer |-> observer, pending |-> pending][slot]

Set(slot, c) ==
  /\ client' = IF slot = "client" THEN c ELSE client
  /\ observer' = IF slot = "observer" THEN c ELSE observer
  /\ pending' = IF slot = "pending" THEN c ELSE pending

\* One write of OutputQueue.flush.
FlushWrite(slot, n) ==
  /\ phase = "flush" \/ (phase \in Endings /\ slot # "pending")
  /\ Conn(slot) # NoConn
  /\ LET c == Conn(slot)
     IN  /\ c.queue.messages # <<>>
         /\ LET m == Head(c.queue.messages)
            IN  /\ n \in 1 .. m.size - c.queue.offset
                /\ told' = IF c.queue.offset + n = m.size
                           THEN [told EXCEPT ![c.peer] = Append(@, m)] ELSE told
         /\ Set(slot, [c EXCEPT !.queue = Write(@, n)])
  /\ UNCHANGED <<phase, screen, fresh>>

\* The peer is gone.
PeerGone(slot) ==
  /\ phase \in {"flush"} \cup Endings
  /\ Conn(slot) # NoConn
  /\ Conn(slot).queue.messages # <<>>
  /\ Set(slot, NoConn)
  /\ UNCHANGED <<phase, screen, told, fresh>>

\* Client.flush is done with a closing connection when its output is sent.
Drained(c) ==
  IF c # NoConn /\ c.closing /\ c.queue.messages = <<>> THEN NoConn ELSE c

FlushEnd ==
  /\ phase = "flush"
  /\ phase' = "top"
  /\ client' = Drained(client)
  /\ observer' = Drained(observer)
  /\ pending' = Drained(pending)
  /\ UNCHANGED <<screen, told, fresh>>

\* finish_session, up to its flush: Exited, unless the connection is closing.
\* A refused push is ignored.  Its mutant tells closing ones as well.
FinishedToAll(c) ==
  IF c # NoConn /\ Fits(c.queue, Response("Exited")) THEN Push1(c, Response("Exited")) ELSE c

Finished(c) ==
  IF c # NoConn /\ ~c.closing /\ Fits(c.queue, Response("Exited"))
  THEN Push1(c, Response("Exited")) ELSE c

\* The child has exited: its last output is drained, a hold released, and both
\* roles are told; a peer that still negotiates is not.
ChildExited ==
  /\ phase = "top"
  /\ phase' = "exiting"
  /\ \/ screen' = [screen EXCEPT !.held = FALSE]
     \/ /\ screen.revision < MaxRevision
        /\ screen' \in {s \in Changed : ~s.held}
  /\ client' \in {Finished(client), NoConn}
  /\ observer' = Finished(PublishMetadata(observer))
  /\ UNCHANGED <<pending, told, fresh>>

\* A signal or a management Stop: only the observer is told.
Stop ==
  /\ phase \in {"top", "flush"}
  /\ phase' = "stopping"
  /\ client' = NoConn
  /\ observer' = Finished(observer)
  /\ UNCHANGED <<pending, screen, told, fresh>>

\* Everything is sent, or FINISH_TIMEOUT has passed; run returns.
End ==
  /\ phase \in Endings
  /\ phase' = "ended"
  /\ client' = NoConn
  /\ observer' = NoConn
  /\ pending' = NoConn
  /\ UNCHANGED <<screen, told, fresh>>

Next ==
  \/ Expire \/ Turn
  \/ \E p \in Peers : Accept(p)
  \/ AcceptEnd \/ Negotiate \/ Observe \/ ReadPty \/ ServeClient
  \/ \E slot \in Slots, n \in 1 .. 2 * HeaderBytes : FlushWrite(slot, n)
  \/ \E slot \in Slots : PeerGone(slot)
  \/ FlushEnd \/ ChildExited \/ Stop \/ End

Spec == Init /\ [][Next]_vars

\* The loop turns and time passes; no peer reads, writes or closes for sure.
Fairness ==
  /\ WF_vars(Turn)
  /\ WF_vars(AcceptEnd)
  /\ WF_vars(Negotiate)
  /\ WF_vars(Observe)
  /\ WF_vars(ReadPty)
  /\ WF_vars(ServeClient)
  /\ WF_vars(FlushEnd)
  /\ WF_vars(End)
  /\ SF_vars(Expire)

FairSpec == Spec /\ Fairness

-----------------------------------------------------------------------------
Phases == {"top", "accept", "negotiate", "observe", "pty", "client", "flush", "ended"} \cup Endings

TypeOK ==
  /\ phase \in Phases
  /\ \A s \in Slots :
       Conn(s) # NoConn =>
         /\ Conn(s) \in Connection
         /\ Conn(s).peer \notin fresh
  /\ \A s, r \in Slots :
       s # r /\ Conn(s) # NoConn /\ Conn(r) # NoConn => Conn(s).peer # Conn(r).peer
  /\ screen \in [revision : 0 .. MaxRevision, title : Titles, held : BOOLEAN]
  /\ told \in [Peers -> Seq(Sent)]
  /\ fresh \subseteq Peers

\* What a peer has received and what still waits for it.
Waiting(p) ==
  LET mine == {c \in {pending, client, observer} : c # NoConn /\ c.peer = p}
  IN  IF mine = {} THEN <<>> ELSE (CHOOSE c \in mine : TRUE).queue.messages

Talk(p) == told[p] \o Waiting(p)

\* Where the metadata is in it.
Metas(talk) == {i \in 1 .. Len(talk) : talk[i].kind = "Metadata"}

\* Every peer is spoken to as its role demands, whatever happens meanwhile: one
\* refusal and nothing else, or one acknowledgement, then what the role is
\* sent, and at most one farewell with nothing behind it (negotiation,
\* publish_metadata, reject_protocol, finish_session).
WellSpoken ==
  \A p \in Peers :
    LET talk == Talk(p)
        last == Len(talk)
    IN  \A i \in 1 .. last :
          CASE talk[i].kind \in {"Attached", "ObservingMetadata"} -> i = 1
            [] talk[i].kind = "Busy" -> i = 1 /\ last = 1
            [] talk[i].kind = "Failure" -> i = last
            [] talk[i].kind = "Exited" -> i = last /\ i > 1
            [] talk[i].kind = "Metadata" -> i > 1 /\ talk[1].kind = "ObservingMetadata"

\* "bounded coalescible title/CWD metadata at exact presentation revisions"
\* (docs/LIFECYCLE.md): an observer sees each revision at most once, and never
\* goes back, although the title may return to an earlier one.
MetadataOrdered ==
  \A p \in Peers :
    LET talk == Talk(p)
    IN  \A i \in Metas(talk) :
          /\ talk[i].rev <= screen.revision
          /\ \A j \in Metas(talk) : i < j => talk[i].rev < talk[j].rev

\* "receives only initial and changed" metadata (docs/CONTRACTS.md, ORB-C3): where
\* the loop may wait, and when it is over, the newest one is what the terminal
\* says, unless output is held.
MetadataConverges ==
  /\ observer # NoConn /\ ~observer.closing
  /\ phase \in {"accept", "negotiate", "observe", "pty", "client", "exiting"}
  /\ ~screen.held
  => LET talk == Talk(observer.peer)
     IN  \E i \in Metas(talk) :
           talk[i].title = screen.title /\ \A j \in Metas(talk) : j <= i

\* The initial metadata is not coalesced away: the first that an observer is to
\* be sent is the first that it gets.
InitialKept ==
  [][\A p \in Peers :
       \A i \in Metas(Talk(p)) :
         (\A j \in Metas(Talk(p)) : i <= j) =>
           \/ Metas(Talk(p))' = {}
           \/ i \in Metas(Talk(p))' /\ Talk(p)'[i] = Talk(p)[i]]_vars

\* A peer cannot keep the pending slot, not even one that was refused and does
\* not read its refusal: "negotiation to one second" (docs/LIFECYCLE.md).
NegotiationEnds ==
  \A p \in Peers :
    (pending # NoConn /\ pending.peer = p)
      ~> (pending = NoConn \/ pending.peer # p)
=============================================================================
