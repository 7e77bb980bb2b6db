------------------------------- MODULE Session -------------------------------
(***************************************************************************)
(* The owner of one session: the loop of run in src/runtime.rs, with the   *)
(* presentation state, the deferred vertical request, the selection state  *)
(* and the interactive connection it serves.                               *)
(*                                                                         *)
(* One turn of the loop is a walk through phases, one action per section   *)
(* of the loop's body; phase says which section comes next.  The loop is   *)
(* single-threaded, so the environment (the terminal library, the child,   *)
(* the peer, the clock) acts through the choices the sections make.        *)
(*                                                                         *)
(* A frame is its revision and what it shows: the view, a number that      *)
(* grows with every visible change, and whether cells are selected.        *)
(***************************************************************************)
EXTENDS OutputQueue

CONSTANTS
  Requests,       \* the requests a peer may send in this run
  Modes,          \* the mouse and screen modes the child may set
  NoClient,       \* the value of an empty connection slot
  MaxWrites,      \* MAX_PTY_WRITE_BYTES, in inputs
  MaxClips,       \* the clipboard writes of one read, at most
  MaxRequests,    \* bound: requests handled in a behaviour
  MaxReads        \* bound: PTY reads in a behaviour

RequestKinds ==
  {"Key", "Input", "Resize", "Preview", "Scroll", "ReturnToLive", "Wheel",
   "Begin", "Update", "Finish", "Cancel", "Copy", "AutoscrollUp"}

\* ahead: the request names a revision the authority has not reached.
Request == [kind : RequestKinds, ahead : BOOLEAN, up : BOOLEAN, shift : BOOLEAN]

NoRequest == [kind |-> "None", ahead |-> FALSE, up |-> FALSE, shift |-> FALSE]

ASSUME SessionAssumption ==
  /\ Requests \subseteq Request
  /\ Modes \subseteq [mouse : BOOLEAN, alt : BOOLEAN, altScroll : BOOLEAN]
  /\ Modes # {}
  /\ MaxWrites \in Nat /\ MaxClips \in Nat
  /\ MaxRequests \in Nat /\ MaxReads \in Nat

VARIABLES
  phase,        \* the next section of the loop, or how the owner ended
  terminal,     \* what the terminal library holds
  selection,    \* SelectionState
  revision,     \* Presentation.revision
  timer,        \* Presentation.synchronized_until: "none", "running", "expired"
  deferred,     \* Presentation.deferred_vertical
  pty,          \* pty_open; "closing" between a closed read and its cleanup
  writes,       \* the inputs and replies queued for the PTY
  clipboard,    \* PendingClipboardWrites.enabled
  client,       \* the interactive connection
  peer,         \* history: what this connection's peer has received
  asked,        \* history: requests handled
  reads         \* history: PTY reads

vars == <<phase, terminal, selection, revision, timer, deferred, pty, writes,
          clipboard, client, peer, asked, reads>>

Phases == {"top", "resolve", "read", "resolveRead", "write", "client", "flush", "finish"}

\* The owner returns, or fails: a reply of the terminal found the PTY queue
\* full; a push was refused that its preflight had admitted; the frame of an
\* outcome could not be extracted.
Endings == {"ended", "overflowed", "contradicted", "failed"}

NothingReceived ==
  [frame |-> [rev |-> -1, view |-> 0, selected |-> FALSE], finished |-> -1,
   text |-> 0]

-----------------------------------------------------------------------------
(***************************************************************************)
(* Messages.  Their sizes are the largest of each kind.                    *)
(***************************************************************************)
Message(kind, class, size, rev, view, selected, text) ==
  [kind |-> kind, class |-> class, size |-> size, rev |-> rev, view |-> view,
   selected |-> selected, text |-> text]

Small(kind, n) == Message(kind, "Ordered", HeaderBytes, n, 0, FALSE, 0)

Text(kind, text) ==
  Message(kind, "Ordered", MaxCopyBytes + TagBytes + HeaderBytes, 0, 0, FALSE, text)

Preview(rev) ==
  Message("Preview", "Preview", MaxFrameBytes + HeaderBytes, rev, 0, FALSE, 0)

\* A message that carries a complete frame.
WithFrame(kind, class, size, rev, t, sel) ==
  Message(kind, class, size, rev, t.view, sel.has, 0)

FrameKinds == {"Frame", "ScrollOutcome", "WheelOutcome"}

FrameOf(m) == [rev |-> m.rev, view |-> m.view, selected |-> m.selected]

\* The messages, a connection, and what a peer has received.
Kinds ==
  FrameKinds \cup
  {"Attached", "Accepted", "Failure", "Preview", "TerminalOwned", "TerminalRouted",
   "SelectionFinished", "CopiedSelection", "CopiedStandard", "ClipboardWrite", "Exited"}

Sent ==
  [kind : Kinds, class : Classes, size : Nat \ {0}, rev : Nat, view : Nat,
   selected : BOOLEAN, text : Nat]

Connection ==
  [queue : [messages : Seq(Sent), offset : Nat, bytes : Nat],
   closing : BOOLEAN, initial : BOOLEAN]

Received ==
  [frame : [rev : Nat \cup {-1}, view : Nat, selected : BOOLEAN],
   finished : Nat \cup {-1}, text : Nat]

ASSUME NoClientAssumption == NoClient \notin Connection

-----------------------------------------------------------------------------
(***************************************************************************)
(* Pushing to a connection.  A refused push is the empty slot: every       *)
(* caller drops the connection.                                            *)
(***************************************************************************)
NewClient == [queue |-> Empty, closing |-> FALSE, initial |-> TRUE]

Accepts(c) == c # NoClient /\ ~c.closing

Push1(c, m) ==
  IF c # NoClient /\ FitsReplaceable(c.queue, m)
  THEN [c EXCEPT !.queue = PushReplaceable(@, m)]
  ELSE NoClient

\* Client.push_frame: the initial frame is ordered, later ones replace.
PushFrame(c, rev, t, sel) ==
  Push1([c EXCEPT !.initial = FALSE],
        WithFrame("Frame", IF c.initial THEN "Ordered" ELSE "Frame",
               MaxFrameBytes + HeaderBytes, rev, t, sel))

\* Mutants of publish: it waits for an empty queue; it ignores the hold.
PublishedWhenDrained(c, rev, t, sel) ==
  IF ~t.sync /\ Accepts(c) /\ c.queue.messages = <<>>
  THEN {PushFrame(c, rev, t, sel), NoClient} ELSE {c}

PublishedThroughHold(c, rev, t, sel) ==
  IF Accepts(c) THEN {PushFrame(c, rev, t, sel), NoClient} ELSE {c}

\* Presentation.publish: the connections it may leave.  A frame that cannot be
\* extracted costs the connection.
Published(c, rev, t, sel) ==
  IF ~t.sync /\ Accepts(c) THEN {PushFrame(c, rev, t, sel), NoClient} ELSE {c}

\* ... and the hold it leaves; the caller has pushed its response before, and
\* does not get here when that was refused.
Hold(t) ==
  IF ~t.sync THEN "none" ELSE IF timer = "none" THEN "running" ELSE timer

-----------------------------------------------------------------------------
(***************************************************************************)
(* The selection: clear_selection and clear_pointer_sequence.              *)
(***************************************************************************)
NoSelection == [route |-> "none", has |-> FALSE, copied |-> 0]

ClearSelection(sel, forget) ==
  [route  |-> IF sel.route = "host" THEN "none" ELSE sel.route,
   has    |-> FALSE,
   copied |-> IF forget THEN 0 ELSE sel.copied]

ClearPointer(sel, forget) == [ClearSelection(sel, forget) EXCEPT !.route = "none"]

Advance(rev, sel) == IF sel.has THEN rev + 1 ELSE rev

\* Mutant: a lost connection leaves its copied text behind.
LeaveKeepingCopy(next, c, sel, rev, def) ==
  /\ phase' = next
  /\ client' = c
  /\ peer' = IF c = NoClient THEN NothingReceived ELSE peer
  /\ IF c # NoClient \/ client = NoClient
     THEN selection' = sel /\ revision' = rev /\ deferred' = def
     ELSE /\ selection' = ClearPointer(sel, FALSE)
          /\ revision' = Advance(rev, sel)
          /\ deferred' = NoRequest

(***************************************************************************)
(* The end of a section that leaves the connection as c, or drops it when  *)
(* c is the empty slot: disconnect_client.                                 *)
(***************************************************************************)
Leave(next, c, sel, rev, def) ==
  /\ phase' = next
  /\ client' = c
  /\ peer' = IF c = NoClient THEN NothingReceived ELSE peer
  /\ IF c # NoClient \/ client = NoClient
     THEN selection' = sel /\ revision' = rev /\ deferred' = def
     ELSE /\ selection' = ClearPointer(sel, TRUE)
          /\ revision' = Advance(rev, sel)
          /\ deferred' = NoRequest

\* The section after this one; requests are read until the input runs out or
\* the connection closes.
Following(c) ==
  CASE phase = "top"         -> "resolve"
    [] phase = "resolve"     -> "read"
    [] phase = "read"        -> "resolveRead"
    [] phase = "resolveRead" -> "write"
    [] phase = "write"       -> "client"
    [] phase = "client"      -> IF Accepts(c) THEN "client" ELSE "flush"
    [] phase = "flush"       -> IF c = NoClient THEN "top" ELSE "flush"

Settle(c, sel, rev, def) == Leave(Following(c), c, sel, rev, def)

\* run returns, and drops the connection and what it held for it.
Die(ending) ==
  /\ phase' = ending
  /\ client' = NoClient
  /\ peer' = NothingReceived
  /\ selection' = NoSelection
  /\ timer' = "none"
  /\ deferred' = NoRequest
  /\ writes' = 0
  /\ UNCHANGED <<terminal, revision>>

-----------------------------------------------------------------------------
(***************************************************************************)
(* The handlers of handle_client_message.  def is the deferred request as  *)
(* the handler finds it: none when the handled request is the one taken    *)
(* from the slot.                                                          *)
(***************************************************************************)
Reply(m, def) ==
  /\ Settle(Push1(client, m), selection, revision, def)
  /\ UNCHANGED <<terminal, timer, writes>>

\* A response and then the frame of revision rev.
ReplyAndPublish(m, t, sel, rev, def) ==
  LET c == Push1(client, m)
  IN  /\ terminal' = t
      /\ timer' = IF c # NoClient THEN Hold(t) ELSE timer
      /\ \E d \in Published(c, rev, t, sel) : Settle(d, sel, rev, def)

Fail(def) == Reply(Small("Failure", 0), def)

\* A failure that closes the connection: reject_protocol, and a full queue of
\* PTY input.
FailAndClose(def) ==
  /\ LET c == Push1(client, Small("Failure", 0))
     IN  Settle(IF c = NoClient THEN c ELSE [c EXCEPT !.closing = TRUE],
                selection, revision, def)
  /\ UNCHANGED <<terminal, timer, writes>>

\* clear_selection, then a failure: nothing is advanced and nothing published.
ClearAndFail(def) ==
  /\ Settle(Push1(client, Small("Failure", 0)), ClearSelection(selection, FALSE),
            revision, def)
  /\ UNCHANGED <<terminal, timer, writes>>

\* defer_vertical: one slot.
Defer(req, def) ==
  \/ /\ def = NoRequest
     /\ Settle(client, selection, revision, req)
     /\ UNCHANGED <<terminal, timer, writes>>
  \/ /\ def # NoRequest
     /\ Fail(def)

\* can_queue_pty_write
CanQueue(n) == writes + n <= MaxWrites

\* routes_vertical_wheel_to_terminal
RoutesToTerminal ==
  terminal.mode.mouse \/ (terminal.mode.alt /\ terminal.mode.altScroll)

\* Where a scroll by rows in one direction may leave the viewport.
Scrolled(up) ==
  {terminal} \cup
  {[terminal EXCEPT !.view = @ + 1, !.scrolled = s] :
     s \in IF terminal.mode.alt THEN {}
           ELSE IF up THEN {TRUE}
           ELSE IF terminal.scrolled THEN BOOLEAN ELSE {}}

\* scroll_viewport to the bottom.
Live ==
  IF terminal.scrolled
  THEN [terminal EXCEPT !.scrolled = FALSE, !.view = @ + 1]
  ELSE terminal

\* A key, or focus, paste and other mouse input: encoded and queued for the
\* PTY.  A key that emits bytes returns primary history to the live area.
HandleInput(req, def) ==
  \/ Fail(def)
  \/ \E n \in 0 .. 1 :
       \/ /\ ~CanQueue(n)
          /\ FailAndClose(def)
       \/ /\ CanQueue(n)
          /\ writes' = writes + n
          /\ IF /\ req.kind = "Key" /\ n > 0
                /\ ~terminal.mode.alt /\ terminal.scrolled
             THEN ReplyAndPublish(Small("Accepted", 0), Live,
                                  ClearSelection(selection, FALSE), revision + 1, def)
             ELSE /\ Settle(Push1(client, Small("Accepted", 0)), selection, revision, def)
                  /\ UNCHANGED <<terminal, timer>>

\* Whether a resize ends synchronized output, and where it leaves the viewport,
\* is the terminal library's choice.
HandleResize(def) ==
  /\ \E sync \in {FALSE, terminal.sync}, scrolled \in {FALSE, terminal.scrolled} :
       ReplyAndPublish(Small("Accepted", 0),
                       [terminal EXCEPT !.view = @ + 1, !.sync = sync, !.scrolled = scrolled],
                       ClearPointer(selection, FALSE), revision + 1, def)
  /\ UNCHANGED writes

HandlePreview(req, def) ==
  \/ /\ req.ahead \/ (~RoutesToTerminal /\ ~terminal.sync)    \* or no row can be read
     /\ Fail(def)
  \/ /\ ~req.ahead
     /\ RoutesToTerminal \/ ~terminal.sync
     /\ Reply(Preview(revision), def)
  \/ /\ ~req.ahead /\ ~RoutesToTerminal /\ terminal.sync
     /\ Defer(req, def)

\* An outcome that carries its frame.  Extraction and admission have no answer
\* for the client when they fail here: the owner ends.
PushOutcome(kind, size, t, sel, def) ==
  LET rev == revision + 1
      c == Push1(client, WithFrame(kind, IF kind = "WheelOutcome" THEN "Frame" ELSE kind,
                                  size + HeaderBytes, rev, t, sel))
  IN  \/ Die("failed")
      \/ /\ c = NoClient
         /\ Die("contradicted")
      \/ /\ c # NoClient
         /\ terminal' = t
         /\ timer' = "none"
         /\ Settle(c, sel, rev, def)
         /\ UNCHANGED writes

HandleScroll(req, def) ==
  \/ /\ req.ahead
     /\ Fail(def)
  \/ /\ ~req.ahead /\ RoutesToTerminal
     /\ Reply(Small("TerminalOwned", 0), def)
  \/ /\ ~req.ahead /\ ~RoutesToTerminal /\ terminal.sync
     /\ Defer(req, def)
  \/ /\ ~req.ahead /\ ~RoutesToTerminal /\ ~terminal.sync
     /\ ~CanPushScrollOutcome(client.queue)
     /\ Fail(def)
  \/ /\ ~req.ahead /\ ~RoutesToTerminal /\ ~terminal.sync
     /\ CanPushScrollOutcome(client.queue)
     /\ \E t \in Scrolled(req.up) :
          PushOutcome("ScrollOutcome", MaxPayloadBytes, t, ClearSelection(selection, FALSE), def)

HandleReturnToLive(req, def) ==
  \/ /\ terminal.mode.alt \/ RoutesToTerminal
     /\ Fail(def)
  \/ /\ ~terminal.mode.alt /\ ~RoutesToTerminal /\ terminal.sync
     /\ Defer(req, def)
  \/ /\ ~terminal.mode.alt /\ ~RoutesToTerminal /\ ~terminal.sync
     /\ ~CanPushFrameMessage(client.queue)
     /\ Fail(def)
  \/ /\ ~terminal.mode.alt /\ ~RoutesToTerminal /\ ~terminal.sync
     /\ CanPushFrameMessage(client.queue)
     /\ LET sel == ClearSelection(selection, FALSE)
        IN  /\ terminal' = Live
            /\ timer' = "none"
            /\ \E c \in Published(client, revision + 1, Live, sel) :
                 Settle(c, sel, revision + 1, def)
            /\ UNCHANGED writes

HandleWheel(req, def) ==
  \/ /\ RoutesToTerminal
     /\ \/ Fail(def)    \* the position cannot be encoded
        \/ /\ Fits(client.queue, Small("TerminalRouted", 0))
           /\ \/ /\ ~CanQueue(1)
                 /\ FailAndClose(def)
              \/ /\ CanQueue(1)
                 /\ writes' = writes + 1
                 /\ Settle(Push1(client, Small("TerminalRouted", 0)), selection, revision, def)
                 /\ UNCHANGED <<terminal, timer>>
  \/ /\ ~RoutesToTerminal
     /\ terminal.sync \/ ~CanPushFrameMessage(client.queue)
     /\ Fail(def)
  \/ /\ ~RoutesToTerminal /\ ~terminal.sync
     /\ CanPushFrameMessage(client.queue)
     /\ \E t \in Scrolled(req.up) :
          PushOutcome("WheelOutcome", MaxFrameBytes, t, ClearSelection(selection, FALSE), def)

-----------------------------------------------------------------------------
(***************************************************************************)
(* Selection phases.                                                       *)
(***************************************************************************)
HandleCancel(def) ==
  \/ /\ ~CanPushResultFrame(client.queue)
     /\ Fail(def)
  \/ /\ CanPushResultFrame(client.queue)
     /\ ReplyAndPublish(Small("Accepted", 0), terminal, ClearPointer(selection, FALSE),
                        revision + 1, def)
     /\ UNCHANGED writes

\* Mutant: the text of the selection as it is now.
HandleCopyAfresh(def) ==
  \/ /\ selection.copied = 0
     /\ Fail(def)
  \/ /\ selection.copied # 0
     /\ Reply(Text("CopiedStandard", revision), def)

HandleCopy(def) ==
  \/ /\ selection.copied = 0
     /\ Fail(def)
  \/ /\ selection.copied # 0
     /\ Reply(Text("CopiedStandard", selection.copied), def)

\* The selection after a gesture phase: apply_selection_gesture.
Gestured(kind, has) ==
  CASE kind = "Begin"  -> [route |-> "host", has |-> has, copied |-> 0]
    [] kind = "Update" -> [selection EXCEPT !.has = has]
    [] kind = "Finish" -> [route |-> "none", has |-> has,
                           copied |-> IF has THEN revision + 1 ELSE 0]

\* One host phase: the pending frame is superseded, the response names the new
\* revision, the frame and at last the copied text follow it.
HostPhase(req, def) ==
  LET finishing == req.kind = "Finish"
  IN  \/ Fail(def)    \* the position is outside the viewport
      \/ /\ CanPushHostSelectionResult(client.queue, finishing)
         /\ ClearAndFail(def)    \* the gesture failed
      \/ /\ CanPushHostSelectionResult(client.queue, finishing)
         /\ \E has \in BOOLEAN :
              LET sel == Gestured(req.kind, has)
                  rev == revision + 1
                  t == [terminal EXCEPT !.view = @ + 1]
                  c0 == [client EXCEPT !.queue = SupersedePendingFrame(@)]
                  c1 == Push1(c0, IF finishing THEN Small("SelectionFinished", rev)
                                               ELSE Small("Accepted", 0))
              IN  /\ terminal' = t
                  /\ timer' = IF c1 # NoClient THEN Hold(t) ELSE timer
                  /\ \E c2 \in Published(c1, rev, t, sel) :
                       Settle(IF finishing /\ has
                              THEN Push1(c2, Text("CopiedSelection", sel.copied)) ELSE c2,
                              sel, rev, def)
                  /\ UNCHANGED writes

\* One phase that goes to the application: handle_terminal_pointer.
TerminalPhase(req, def) ==
  LET changed == req.kind = "Begin" /\ selection.has
      response == IF req.kind = "Finish" THEN Small("SelectionFinished", revision)
                                         ELSE Small("Accepted", 0)
      admitted == IF changed THEN CanPushResultFrame(client.queue)
                             ELSE Fits(client.queue, response)
      sel == CASE req.kind = "Begin"  -> [NoSelection EXCEPT !.route = "terminal"]
               [] req.kind = "Update" -> selection
               [] req.kind = "Finish" -> [selection EXCEPT !.route = "none"]
  IN  \/ Fail(def)    \* not admitted, or the position cannot be encoded
      \/ \E n \in 0 .. 1 :
           /\ admitted
           /\ \/ /\ ~CanQueue(n)
                 /\ FailAndClose(def)
              \/ /\ CanQueue(n)
                 /\ writes' = writes + n
                 /\ IF changed
                    THEN ReplyAndPublish(response, terminal, sel, revision + 1, def)
                    ELSE /\ Settle(Push1(client, response), sel, revision, def)
                         /\ UNCHANGED <<terminal, timer>>

HandlePointer(req, def) ==
  LET starts == req.kind = "Begin"
      route == IF ~starts THEN selection.route
               ELSE IF terminal.mode.mouse /\ ~req.shift THEN "terminal" ELSE "host"
  IN  \/ /\ IF starts THEN req.ahead \/ selection.route # "none" ELSE selection.route = "none"
         /\ Fail(def)
      \/ /\ IF starts THEN ~req.ahead /\ selection.route = "none" ELSE selection.route # "none"
         /\ IF route = "terminal" THEN TerminalPhase(req, def) ELSE HostPhase(req, def)

HandleAutoscroll(req, def) ==
  LET active == selection.route = "host" /\ ~terminal.mode.alt
  IN  \/ Fail(def)    \* no active gesture, or not in the top row
      \/ /\ active
         /\ ClearAndFail(def)    \* no valid anchor, or the gesture failed
      \/ /\ active /\ terminal.sync
         /\ Defer(req, def)
      \/ /\ active /\ ~terminal.sync
         /\ CanPushScrollOutcome(client.queue)
         /\ \E has \in BOOLEAN, t \in Scrolled(TRUE) :
              PushOutcome("ScrollOutcome", MaxPayloadBytes,
                          [t EXCEPT !.view = terminal.view + 1],
                          [selection EXCEPT !.has = has], def)

\* handle_client_message
Handle(req, def) ==
  \/ /\ pty # "open"
     /\ Fail(def)
  \/ /\ pty = "open"
     /\ \/ req.kind \in {"Key", "Input"} /\ HandleInput(req, def)
        \/ req.kind = "Resize" /\ HandleResize(def)
        \/ req.kind = "Preview" /\ HandlePreview(req, def)
        \/ req.kind = "Scroll" /\ HandleScroll(req, def)
        \/ req.kind = "ReturnToLive" /\ HandleReturnToLive(req, def)
        \/ req.kind = "Wheel" /\ HandleWheel(req, def)
        \/ req.kind = "Cancel" /\ HandleCancel(def)
        \/ req.kind = "Copy" /\ HandleCopy(def)
        \/ req.kind = "AutoscrollUp" /\ HandleAutoscroll(req, def)
        \/ req.kind \in {"Begin", "Update", "Finish"} /\ HandlePointer(req, def)

-----------------------------------------------------------------------------
(***************************************************************************)
(* The loop.  First the terminal's output: what one read, or the drain     *)
(* after the child's exit, may do to the terminal and the selection.       *)
(***************************************************************************)
Init ==
  /\ phase = "top"
  /\ terminal \in [view : {0}, sync : {FALSE}, scrolled : {FALSE}, mode : Modes]
  /\ selection = NoSelection
  /\ revision = 0
  /\ timer = "none"
  /\ deferred = NoRequest
  /\ pty = "open"
  /\ writes = 0
  /\ clipboard = FALSE
  /\ client = NoClient
  /\ peer = NothingReceived
  /\ asked = 0
  /\ reads = 0

\* Output scrolled into history may carry the viewport to the live area.
Outputs ==
  [view : {terminal.view + 1}, sync : BOOLEAN, scrolled : {FALSE, terminal.scrolled},
   mode : Modes]

\* apply_pty_output: new mouse tracking, or an anchor the output destroyed,
\* ends host selection.
SelectionsAfter(t) ==
  {ClearSelection(selection, FALSE)} \cup
  IF t.mode.mouse /\ ~terminal.mode.mouse THEN {} ELSE {selection}

\* PendingClipboardWrites.capture: how many writes one turn may capture; one more
\* than the bound stands for its overflow.
Captured(enabled) == IF enabled THEN 0 .. MaxClips + 1 ELSE {0}

\* The connection after the first i of n pushes of m, as a function of i.
Pushes(c, m, n) ==
  LET pushed[i \in 0 .. n] == IF i = 0 THEN c ELSE Push1(pushed[i - 1], m)
  IN  pushed

\* publish_clipboard_writes: n writes were captured in this turn, whose frame
\* has revision rev.
PublishClips(c, n, rev) ==
  IF ~Accepts(c) THEN c
  ELSE IF n > MaxClips THEN NoClient
  ELSE Pushes(c, [Text("ClipboardWrite", 0) EXCEPT !.rev = rev], n)[n]

\* publish_change: the revision of a change, unless one is held already.  Its
\* mutant never advances.
ChangedInPlace(rev) == rev
Changed(rev) == IF timer = "none" THEN rev + 1 ELSE rev

\* A section that finds nothing to do.
Skip ==
  /\ phase' = Following(client)
  /\ UNCHANGED <<terminal, selection, revision, timer, deferred, writes, client, peer>>

Expire ==
  /\ phase = "top"
  /\ timer = "running"
  /\ timer' = "expired"
  /\ UNCHANGED <<phase, terminal, selection, revision, deferred, pty, writes, clipboard,
                 client, peer, asked, reads>>

\* SIGTERM or SIGINT, noticed at the top of a turn, or a management Stop, read
\* before the flush: the child is killed and reaped, the interactive client is
\* told nothing.
Terminate ==
  /\ phase \in {"top", "flush"}
  /\ Die("ended")
  /\ clipboard' = IF phase = "top" THEN Accepts(client) ELSE clipboard
  /\ UNCHANGED <<pty, asked, reads>>

\* The child has exited: what it still wrote is drained, a hold is released,
\* whether or not that output began it, and the client is sent the last frame
\* and the exit.  The modes and the viewport matter to nobody any more.
ChildExited ==
  /\ phase = "top"
  /\ clipboard' = Accepts(client)
  /\ reads' = reads
  /\ \/ /\ \E drained \in BOOLEAN, n \in Captured(Accepts(client)) :
            /\ n > 0 => drained
            /\ LET changed == selection.has \/ drained
                   sel == ClearPointer(selection, TRUE)
                   rev == IF changed THEN Changed(revision) ELSE revision
                   live == [terminal EXCEPT !.view = IF drained THEN @ + 1 ELSE @,
                                            !.sync = FALSE]
                   c == PublishClips(client, n, rev)
               IN  /\ terminal' = live
                   /\ timer' = "none"
                   /\ \E d \in IF changed \/ timer # "none"
                              THEN Published(c, rev, live, sel) ELSE {c} :
                        Leave("finish",
                              IF Accepts(d) /\ Fits(d.queue, Small("Exited", 0))
                              THEN Push1(d, Small("Exited", 0)) ELSE d,
                              sel, rev, deferred)
         /\ UNCHANGED writes
     \/ Die("overflowed")
  /\ UNCHANGED <<pty, asked>>

\* Mutant: a hold is released for an attached client only.
TurnForClient ==
  /\ phase = "top"
  /\ clipboard' = Accepts(client)
  /\ \/ /\ timer # "expired" \/ client = NoClient
        /\ Skip
     \/ /\ timer = "expired" /\ client # NoClient
        /\ terminal' = [terminal EXCEPT !.sync = FALSE]
        /\ timer' = "none"
        /\ \E c \in Published(client, revision, terminal', selection) :
             Settle(c, selection, revision, deferred)
        /\ UNCHANGED writes
  /\ UNCHANGED <<pty, asked, reads>>

\* The loop's first sections in a turn that goes on: release_if_expired.
Turn ==
  /\ phase = "top"
  /\ clipboard' = Accepts(client)
  /\ \/ /\ timer # "expired"
        /\ Skip
     \/ /\ timer = "expired"
        /\ terminal' = [terminal EXCEPT !.sync = FALSE]
        /\ timer' = "none"
        /\ \E c \in Published(client, revision, terminal', selection) :
             Settle(c, selection, revision, deferred)
        /\ UNCHANGED writes
  /\ UNCHANGED <<pty, asked, reads>>

\* Mutants: the slot keeps the request; the call before the poll is missing.
FlushDeferredAgain ==
  /\ phase \in {"resolve", "resolveRead"}
  /\ \/ /\ terminal.sync \/ deferred = NoRequest
        /\ Skip
     \/ /\ ~terminal.sync /\ deferred # NoRequest /\ client # NoClient
        /\ Handle(deferred, deferred)
  /\ UNCHANGED <<pty, clipboard, asked, reads>>

FlushDeferredOnRead ==
  /\ phase \in {"resolve", "resolveRead"}
  /\ \/ /\ terminal.sync \/ deferred = NoRequest \/ phase = "resolve"
        /\ Skip
     \/ /\ ~terminal.sync /\ deferred # NoRequest /\ phase = "resolveRead"
        /\ Handle(deferred, NoRequest)
  /\ UNCHANGED <<pty, clipboard, asked, reads>>

\* flush_deferred_vertical, before the poll and after a read.
FlushDeferred ==
  /\ phase \in {"resolve", "resolveRead"}
  /\ \/ /\ terminal.sync \/ deferred = NoRequest
        /\ Skip
     \/ /\ ~terminal.sync /\ deferred # NoRequest
        /\ IF client = NoClient
           THEN /\ Settle(client, selection, revision, NoRequest)
                /\ UNCHANGED <<terminal, timer, writes>>
           ELSE Handle(deferred, NoRequest)
  /\ UNCHANGED <<pty, clipboard, asked, reads>>

\* A pending connection negotiates, if one does, before the PTY is read:
\* read_pending.
Attach ==
  /\ phase = "read"
  /\ client = NoClient
  /\ timer' = Hold(terminal)
  /\ \E c \in Published(Push1(NewClient, Small("Attached", 0)), revision, terminal,
                      selection) :
       Leave("read", c, selection, revision, deferred)
  /\ UNCHANGED <<terminal, writes, pty, clipboard, asked, reads>>

\* Mutant: the frame goes before the clipboard writes of its turn.
ReadFrameFirst ==
  /\ phase = "read"
  /\ pty = "open"
  /\ reads < MaxReads
  /\ reads' = reads + 1
  /\ \E t \in Outputs, n \in Captured(clipboard) :
       /\ terminal' = t
       /\ timer' = Hold(t)
       /\ \E c \in Published(client, Changed(revision), t, selection) :
            Settle(PublishClips(c, n, Changed(revision)), selection, Changed(revision), deferred)
  /\ UNCHANGED <<pty, writes, clipboard, asked>>

\* One read of the PTY that returned bytes.  The terminal may answer them, and
\* may write the clipboard while that is enabled.
Read ==
  /\ phase = "read"
  /\ pty = "open"
  /\ reads < MaxReads
  /\ reads' = reads + 1
  /\ \E replies \in 0 .. 1 :
       \/ /\ ~CanQueue(replies)
          /\ Die("overflowed")
       \/ /\ CanQueue(replies)
          /\ writes' = writes + replies
          /\ \E t \in Outputs, n \in Captured(clipboard) :
               /\ terminal' = t
               /\ timer' = Hold(t)
               /\ \E sel \in SelectionsAfter(t) :
                    \E c \in Published(PublishClips(client, n, Changed(revision)),
                                      Changed(revision), t, sel) :
                      Settle(c, sel, Changed(revision), deferred)
  /\ UNCHANGED <<pty, clipboard, asked>>

\* The PTY is not readable, or the read finds nothing or the end.
ReadNothing ==
  /\ phase = "read"
  /\ \/ /\ phase' = "write"
        /\ pty' = pty
        /\ UNCHANGED <<terminal, selection, revision, timer, deferred, writes, client, peer>>
     \/ /\ pty = "open"
        /\ pty' \in {"open", "closing"}
        /\ Skip
  /\ UNCHANGED <<clipboard, asked, reads>>

\* Mutant: the input queued for a closed PTY is kept.
WritePtyKeepingInput ==
  /\ phase = "write"
  /\ \/ /\ pty # "closing"
        /\ Skip
        /\ UNCHANGED pty
     \/ /\ pty = "closing" \/ (pty = "open" /\ writes > 0)
        /\ pty' = "closed"
        /\ Settle(client, ClearPointer(selection, FALSE), Advance(revision, selection), deferred)
        /\ UNCHANGED <<terminal, timer, writes>>
  /\ UNCHANGED <<clipboard, asked, reads>>

\* flush_pty, and what follows in the turn that found the PTY closed.
WritePty ==
  /\ phase = "write"
  /\ \/ /\ pty = "closed"
        /\ Skip
        /\ UNCHANGED pty
     \/ /\ pty = "open"
        /\ writes' \in 0 .. writes
        /\ Settle(client, selection, revision, deferred)
        /\ UNCHANGED <<pty, terminal, timer>>
     \/ /\ pty = "closing" \/ (pty = "open" /\ writes > 0)
        /\ pty' = "closed"
        /\ writes' = 0
        /\ Settle(client, ClearPointer(selection, FALSE), Advance(revision, selection), deferred)
        /\ UNCHANGED <<terminal, timer>>
  /\ UNCHANGED <<clipboard, asked, reads>>

\* read_client, one request at a time.
HandleRequest ==
  /\ phase = "client"
  /\ Accepts(client)
  /\ asked < MaxRequests
  /\ asked' = asked + 1
  /\ \E req \in Requests : Handle(req, deferred)
  /\ UNCHANGED <<pty, clipboard, reads>>

\* Bytes that are no request: the failure is told and the connection closes.
Malformed ==
  /\ phase = "client"
  /\ Accepts(client)
  /\ FailAndClose(deferred)
  /\ UNCHANGED <<pty, clipboard, asked, reads>>

\* The peer has closed, on a read or on a write.
PeerGone ==
  /\ client # NoClient
  /\ \/ phase = "client" /\ Accepts(client)
     \/ phase = "flush" /\ client.queue.messages # <<>>
  /\ Settle(NoClient, selection, revision, deferred)
  /\ UNCHANGED <<terminal, timer, pty, writes, clipboard, asked, reads>>

EndClient ==
  /\ phase = "client"
  /\ phase' = "flush"
  /\ UNCHANGED <<terminal, selection, revision, timer, deferred, pty, writes, clipboard,
                 client, peer, asked, reads>>

\* What the peer knows after a message.
Delivered(m) ==
  CASE m.kind \in FrameKinds       -> [peer EXCEPT !.frame = FrameOf(m)]
    [] m.kind = "SelectionFinished" -> [peer EXCEPT !.finished = m.rev]
    [] m.kind = "CopiedSelection"   -> [peer EXCEPT !.text = m.text]
    [] OTHER -> peer

\* One write of Client.flush, or of finish_session.
FlushWrite(n) ==
  /\ phase \in {"flush", "finish"}
  /\ client # NoClient
  /\ client.queue.messages # <<>>
  /\ LET m == Head(client.queue.messages)
     IN  /\ n \in 1 .. m.size - client.queue.offset
         /\ peer' = IF client.queue.offset + n = m.size THEN Delivered(m) ELSE peer
  /\ client' = [client EXCEPT !.queue = Write(@, n)]
  /\ UNCHANGED <<phase, terminal, selection, revision, timer, deferred, pty, writes,
                 clipboard, asked, reads>>

\* The flush stops, because the socket is full or the queue empty; a closing
\* connection whose queue is empty is dropped.
FlushEnd ==
  /\ phase = "flush"
  /\ IF client # NoClient /\ client.closing /\ client.queue.messages = <<>>
     THEN Leave("top", NoClient, selection, revision, deferred)
     ELSE Leave("top", client, selection, revision, deferred)
  /\ UNCHANGED <<terminal, timer, pty, writes, clipboard, asked, reads>>

\* finish_session gives up, or is done.
FinishEnd ==
  /\ phase = "finish"
  /\ Die("ended")
  /\ UNCHANGED <<pty, clipboard, asked, reads>>

Next ==
  \/ Expire \/ Terminate \/ ChildExited \/ Turn
  \/ FlushDeferred \/ Attach \/ Read \/ ReadNothing \/ WritePty
  \/ HandleRequest \/ Malformed \/ PeerGone \/ EndClient
  \/ \E n \in 1 .. MaxOutputBytes : FlushWrite(n)
  \/ FlushEnd \/ FinishEnd

Spec == Init /\ [][Next]_vars

\* The loop never stops by itself, and time passes; the peer reads, the child
\* writes and exits as they please.
Fairness ==
  /\ WF_vars(Turn)
  /\ WF_vars(FlushDeferred)
  /\ WF_vars(ReadNothing)
  /\ WF_vars(WritePty)
  /\ WF_vars(EndClient)
  /\ WF_vars(FlushEnd)
  /\ WF_vars(FinishEnd)
  /\ SF_vars(Expire)

FairSpec == Spec /\ Fairness

-----------------------------------------------------------------------------
TypeOK ==
  /\ phase \in Phases \cup Endings
  /\ terminal \in [view : Nat, sync : BOOLEAN, scrolled : BOOLEAN, mode : Modes]
  /\ selection \in [route : {"none", "host", "terminal"}, has : BOOLEAN, copied : Nat]
  /\ revision \in Nat
  /\ timer \in {"none", "running", "expired"}
  /\ deferred \in Requests \cup {NoRequest}
  /\ pty \in {"open", "closing", "closed"}
  /\ writes \in 0 .. MaxWrites
  /\ clipboard \in BOOLEAN
  /\ client \in Connection \cup {NoClient}
  /\ peer \in Received
  /\ asked \in 0 .. MaxRequests
  /\ reads \in 0 .. MaxReads

Messages == IF client = NoClient THEN <<>> ELSE client.queue.messages

\* The last of the first n messages that is of one of these kinds; 0 if none is.
LastOf(messages, n, kinds) ==
  LET found == {0} \cup {i \in 1 .. n : messages[i].kind \in kinds}
  IN  CHOOSE i \in found : \A j \in found : j <= i

\* The frames that wait.
Shown == {FrameOf(Messages[i]) : i \in {j \in 1 .. Len(Messages) : Messages[j].kind \in FrameKinds}}

\* The frame the peer shows when it has received all that waits.
LastFrame ==
  LET i == LastOf(Messages, Len(Messages), FrameKinds)
  IN  IF i = 0 THEN peer.frame ELSE FrameOf(Messages[i])

Queued(kind) == {m \in {Messages[i] : i \in 1 .. Len(Messages)} : m.kind = kind}

\* "strictly ordered later complete-frame revisions" (docs/CONTRACTS.md, ORB-C4):
\* no revision is presented twice, none goes back, and none is ahead of the
\* authority, whichever of the frame, scroll and wheel paths sends it.
RevisionsIncrease ==
  /\ \A i, j \in 1 .. Len(Messages) :
       i < j /\ Messages[i].kind \in FrameKinds /\ Messages[j].kind \in FrameKinds
         => Messages[i].rev < Messages[j].rev
  /\ \A frame \in Shown : peer.frame.rev < frame.rev
  /\ LastFrame.rev <= revision

\* Whenever output is not held, the newest frame of a connection shows the
\* terminal as it is, and a selection that exists is shown: no change is left
\* unpublished (publish_change and every handler that moves the viewport).
Converges ==
  Accepts(client) /\ timer = "none" =>
    /\ LastFrame.view = terminal.view
    /\ selection.has => LastFrame.selected

\* A press and the loss of the client forget the text frozen before: while a
\* gesture is under way there is nothing to copy, and the next client inherits no
\* gesture and no text ("client loss ... clears them", docs/CONTRACTS.md, ORB-C9).
CopyForgotten ==
  /\ selection.route # "none" => selection.copied = 0
  /\ client = NoClient => selection = NoSelection

\* "Once PTY closure is observed, semantic requests fail instead of accumulating
\* undeliverable input" (docs/TERMINAL.md), a deferred one included.
ClosedPtyTakesNothing == pty = "closed" => writes = 0

\* A push never contradicts the preflight that admitted it: scroll, wheel and
\* autoscroll would end the owner.
NeverContradicted == phase # "contradicted"

\* A completion names a revision that the connection's newest frame reaches as
\* soon as output is not held.
CompletionConverges ==
  Accepts(client) /\ timer = "none" =>
    /\ peer.finished <= LastFrame.rev
    /\ \A m \in Queued("SelectionFinished") : m.rev <= LastFrame.rev

\* A copy repeats the text frozen by the latest completion that the peer knows
\* or will know of, whatever happened to the terminal or the selection since.
CopyIsFrozen ==
  \A i \in 1 .. Len(Messages) :
    Messages[i].kind = "CopiedStandard" =>
      LET k == LastOf(Messages, i, {"CopiedSelection"})
      IN  Messages[i].text = IF k = 0 THEN peer.text ELSE Messages[k].text

\* A clipboard write precedes the frame of its own PTY turn (ORB-C11).
ClipboardBeforeFrame ==
  \A i, j \in 1 .. Len(Messages) :
    /\ i < j
    /\ Messages[i].kind \in FrameKinds
    /\ Messages[j].kind = "ClipboardWrite"
    => Messages[i].rev < Messages[j].rev

\* Nothing is presented while the child holds its output, by any path, not even
\* to a client that attaches ("New attachments wait for release",
\* docs/TERMINAL.md).
HoldHides == [][terminal'.sync => Shown' \subseteq Shown]_vars

\* A deferred request leaves its slot with exactly one answer, or with its
\* client, and the next client does not inherit it: "resolves the request once"
\* (ORB-C8).
Answers(req) ==
  {"Failure"} \cup
  CASE req.kind = "Preview"      -> {"Preview"}
    [] req.kind = "Scroll"       -> {"ScrollOutcome", "TerminalOwned"}
    [] req.kind = "AutoscrollUp" -> {"ScrollOutcome"}
    [] req.kind = "ReturnToLive" -> {"Frame"}

DeferralAnswered ==
  [][\/ deferred = NoRequest \/ phase' \in Endings
     \/ client' = NoClient /\ deferred' = NoRequest
     \/ IF deferred' = deferred
        THEN phase \in {"resolve", "resolveRead"} => Messages' = Messages
        ELSE /\ deferred' = NoRequest
             /\ Messages' # <<>>
             /\ Messages'[Len(Messages')].kind \in Answers(deferred)]_vars

Over == phase \in Endings \cup {"finish"}

\* Output is not held forever: the child resumes it, or the watchdog does.
HoldEnds == terminal.sync ~> ~terminal.sync \/ Over

\* A deferred request is not left in its slot.
DeferralEnds == deferred # NoRequest ~> deferred = NoRequest \/ Over

-----------------------------------------------------------------------------
(***************************************************************************)
(* What the documents say and the code does not do.                        *)
(***************************************************************************)

\* "After a fatal protocol response, the client cannot ... receive later frames
\* while the bounded error drains" (docs/TERMINAL.md): nothing that carries a
\* frame is behind the failure that closes the connection.
NoFrameAfterFailure ==
  client # NoClient /\ client.closing /\ Messages # <<>>
    => Messages[Len(Messages)].kind \notin FrameKinds

\* "no stale final presentation" (docs/CONTRACTS.md, ORB-C4): at the top of a
\* turn the newest frame is what the terminal shows, selected cells included.
NoStalePresentation ==
  Accepts(client) /\ timer = "none" /\ phase = "top" =>
    /\ LastFrame.view = terminal.view
    /\ LastFrame.selected = selection.has
=============================================================================
