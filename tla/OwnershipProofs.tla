-------------------------- MODULE OwnershipProofs --------------------------
(***************************************************************************)
(* Proofs about Ownership: why owners that start, end and die in every     *)
(* order never take a socket, a record or a claim from each other.  The    *)
(* presentation socket is the key: whoever deals with the management       *)
(* socket or the record is listening on a presentation socket that the     *)
(* path names, so there is one such process at a time.                     *)
(***************************************************************************)
EXTENDS Ownership, TLAPS

-----------------------------------------------------------------------------
(***************************************************************************)
(* The inductive invariant.                                                *)
(***************************************************************************)
\* The calls before the socket of a path is bound.
Early == {"off", "lock", "stat", "connect", "remove", "bind"}

\* The calls under the claim on the directory.
Claiming == {"stat", "connect", "remove", "bind", "identify"}

\* What the call says of the path it is about.
WellPlaced(p) ==
  /\ at[p].path = "management" => p \in Managed
  /\ at[p].call \in {"off", "serve", "dead"} => at[p].path = "presentation"
  /\ at[p].call \in {"open", "tryLock", "mark", "publish", "entomb", "recordCheck", "recordUnlink"}
       => at[p].path = "management"

\* The claim on the directory is exclusive, and freed before the owner goes on.
LockIsExclusive(p) ==
  /\ at[p].call \in Claiming => lock = p
  /\ lock = p => at[p].call \in Claiming \cup {"check", "unlink", "close"}

\* The path names the socket that the process listens on.
Holds(p, k) == bound[p][k] # None /\ path[k] = [ino |-> bound[p][k], by |-> p]

\* The processes that have their presentation socket.
Presenting(p) ==
  \/ at[p].path = "management"
  \/ at[p].call \in {"serve", "identify", "check", "unlink"}

\* A process that has started to serve, or deals with its management socket, has
\* its presentation socket; who has not, has none.
PresentationHeld(p) ==
  /\ Presenting(p) => Holds(p, "presentation")
  /\ p \notin past.crashed /\ ~Presenting(p) => path["presentation"].by # p

\* The processes that have their management socket.
Managing(p) ==
  \/ at[p].call \in {"open", "tryLock", "mark", "publish", "entomb"}
  \/ at[p].call = "serve" /\ p \in Managed
  \/ at[p] = Step("identify", "management")
  \/ at[p] = Step("close", "management") /\ lock # p

\* The processes that are about to remove it.
Leaving(p) == at[p] = Step("check", "management") \/ at[p] = Step("unlink", "management")

ManagementHeld(p) ==
  /\ Managing(p) => Holds(p, "management")
  /\ at[p] = Step("check", "management") => path["management"].by = p
  /\ p \notin past.crashed /\ ~Managing(p) /\ ~Leaving(p) => path["management"].by # p

\* A guard that knows a socket knows that of its process.
GuardsKnow(p) ==
  /\ Presenting(p) => guard[p]["presentation"] \in {None, path["presentation"].ino}
  /\ Managing(p) \/ at[p] = Step("check", "management")
       => guard[p]["management"] \in {None, path["management"].ino}
  /\ at[p].call \in Early => guard[p]["management"] = None
  /\ at[p] = Step("identify", "presentation") => guard[p]["management"] = None
  /\ at[p].call \in Early /\ at[p].path = "presentation" => guard[p]["presentation"] = None

\* Nobody listens on the socket that is about to be removed as stale.
StaleIsStale(p) == \A k \in Paths : at[p] = Step("remove", k) => ~Listening(k)

SocketsOf(p) ==
  /\ WellPlaced(p)
  /\ LockIsExclusive(p)
  /\ PresentationHeld(p)
  /\ ManagementHeld(p)
  /\ GuardsKnow(p)
  /\ StaleIsStale(p)

SocketInv == \A p \in Owners : SocketsOf(p)

\* A live record names a process that was killed, or that still has the
\* record to remove.
LiveIsOwned ==
  \A p \in Owners :
    record = LiveRecord(p) =>
      /\ p \in past.served /\ p \in Managed
      /\ \/ p \in past.crashed /\ at[p].call = "dead"
         \/ /\ lock # p
            /\ \/ at[p].call \in {"serve", "entomb", "recordCheck", "recordUnlink"}
               \/ at[p].path = "management" /\ at[p].call \in {"close", "check", "unlink"}

\* A process that replaces or removes a record has found its own.
ReplacesItsOwn ==
  \A p \in Owners : at[p].call \in {"entomb", "recordUnlink"} => record = LiveRecord(p)

RecordInv == LiveIsOwned /\ ReplacesItsOwn

\* A process opens one claim, and holds it from the lock to the record.
OneClaim ==
  \A p, q \in Owners :
    <<p, q>> \in claimed =>
      /\ at[p].call \notin Early \cup {"identify", "open"}
      /\ at[p].call = "mark" => claimLock[q] = p
      /\ \A r \in Owners : <<p, r>> \in claimed => r = q

\* As long as the claim of a launcher is unmarked it is what the record path names, and no
\* process has come as far as the record.
ClaimIsOpen(p) ==
  /\ record = Claim(p)
  /\ p \notin past.served
  /\ \A q \in Managed :
       /\ at[q].call \notin {"publish", "serve", "entomb", "recordCheck", "recordUnlink"}
       /\ at[q].call \notin {"off", "dead"} => q \notin past.served
       /\ \A r \in Owners : at[q].call \in {"tryLock", "mark"} /\ <<q, r>> \in claimed => r = p

LauncherInv ==
  \A p \in Owners :
    /\ launcher[p] # "none" => p \in Managed
    /\ launcher[p] \in {"waiting", "won"} /\ p \notin marked => ClaimIsOpen(p)
    /\ launcher[p] = "won" => claimLock[p] = "launcher" /\ p \notin marked
    /\ at[p].call = "off" => p \notin past.served

Inv ==
  /\ TypeOK
  /\ SocketInv
  /\ RecordInv
  /\ OneClaim
  /\ LauncherInv


-----------------------------------------------------------------------------
(***************************************************************************)
(* What the invariant says of a process at a call.                         *)
(***************************************************************************)
\* The two paths.
LEMMA PathsAre ==
  /\ "presentation" \in Paths /\ "management" \in Paths
  /\ \A k \in Paths : k = "presentation" \/ k = "management"
BY DEF Paths

\* Two processes with the presentation socket are one.
LEMMA OnePresents ==
  ASSUME Inv, NEW p \in Owners, NEW q \in Owners, Presenting(p), Presenting(q)
  PROVE  p = q
<1>1. Holds(p, "presentation") /\ Holds(q, "presentation")
  BY DEF Inv, SocketInv, SocketsOf, PresentationHeld
<1>2. path["presentation"].by = p /\ path["presentation"].by = q
  BY <1>1 DEF Holds
<1> QED
  BY <1>2

\* A socket guard finds the socket of its process.
LEMMA CheckFinds ==
  ASSUME Inv, NEW p \in Owners, NEW k \in Paths, In(p, "check", k)
  PROVE  path[k] # Nothing /\ path[k].by = p /\ guard[p][k] \in {None, path[k].ino}
<1>1. Presenting(p)
  BY DEF In, Step, Presenting
<1>2. path[k].by = p
  <2>1. CASE k = "presentation"
    <3>1. Holds(p, "presentation")
      BY <1>1 DEF Inv, SocketInv, SocketsOf, PresentationHeld
    <3> QED
      BY <2>1, <3>1 DEF Holds
  <2>2. CASE k = "management"
    BY <2>2 DEF Inv, SocketInv, SocketsOf, ManagementHeld, In
  <2> QED
    BY <2>1, <2>2, PathsAre
<1>3. path[k] # Nothing
  BY <1>2, OwnershipAssumption DEF Nothing
<1>4. guard[p][k] \in {None, path[k].ino}
  <2>1. CASE k = "presentation"
    BY <1>1, <2>1 DEF Inv, SocketInv, SocketsOf, GuardsKnow
  <2>2. CASE k = "management"
    BY <2>2 DEF Inv, SocketInv, SocketsOf, GuardsKnow, In
  <2> QED
    BY <2>1, <2>2, PathsAre
<1> QED
  BY <1>2, <1>3, <1>4

-----------------------------------------------------------------------------
(***************************************************************************)
(* What a step of one process leaves alone.                                *)
(***************************************************************************)
\* What the other processes must find of a path that changes.
Needs(q, k) ==
  \/ k = "presentation" /\ Presenting(q)
  \/ k = "management" /\ (Managing(q) \/ Leaving(q))

\* A step of one process keeps the sockets of another one that does not need the
\* path it changes.
LEMMA OthersKeep ==
  ASSUME Inv, NEW p \in Owners, NEW q \in Owners \ {p},
         at'[q] = at[q], bound'[q] = bound[q], guard'[q] = guard[q],
         q \in past'.crashed <=> q \in past.crashed,
         lock' = q <=> lock = q,
         \A k \in Paths : path'[k] = path[k] \/ (path'[k].by \in {None, p} /\ ~Needs(q, k)),
         \/ at[q].call # "remove"
         \/ \A k \in Paths : /\ path'[k] \in {path[k], Nothing}
                             /\ \A r \in Owners : bound'[r][k] \in {bound[r][k], None}
  PROVE  SocketsOf(q)'
<1>1. q \in Owners /\ SocketsOf(q) /\ None \notin Owners
  BY OwnershipAssumption DEF Inv, SocketInv
<1>2. /\ Presenting(q)' <=> Presenting(q)
      /\ Managing(q)' <=> Managing(q)
      /\ Leaving(q)' <=> Leaving(q)
  BY DEF Presenting, Managing, Leaving
<1>3. WellPlaced(q)' /\ LockIsExclusive(q)'
  BY <1>1 DEF SocketsOf, WellPlaced, LockIsExclusive
<1>4. PresentationHeld(q)'
  BY <1>1, <1>2, PathsAre DEF SocketsOf, PresentationHeld, Holds, Needs
<1>5. ManagementHeld(q)'
  BY <1>1, <1>2, PathsAre DEF SocketsOf, ManagementHeld, Holds, Needs, Leaving
<1>6. GuardsKnow(q)'
  BY <1>1, <1>2, PathsAre DEF SocketsOf, GuardsKnow, Needs, Leaving
<1>7. StaleIsStale(q)'
  BY <1>1 DEF SocketsOf, StaleIsStale, Listening, Step, Nothing
<1> QED
  BY <1>3, <1>4, <1>5, <1>6, <1>7 DEF SocketsOf

\* Steps that touch no record and come to none keep what is known of records.
LEMMA RecordsAlike ==
  ASSUME Inv, NEW p \in Owners, NEW s \in [call : Calls, path : Paths],
         at' = [at EXCEPT ![p] = s], UNCHANGED <<record>>,
         past.served \subseteq past'.served, past.crashed \subseteq past'.crashed,
         lock' \in {lock, None, p}, s.call \notin {"entomb", "recordUnlink"},
         record = LiveRecord(p) =>
           \/ s.call = "dead" /\ p \in past'.crashed
           \/ lock' # p /\ (s.call \in {"serve", "recordCheck"} \/ s = Step("close", "management")
                            \/ s = Step("check", "management") \/ s = Step("unlink", "management"))
  PROVE  RecordInv'
<1>1. \A q \in Owners : at'[q] = IF q = p THEN s ELSE at[q]
  BY DEF Inv, TypeOK
<1>2. LiveIsOwned'
  BY <1>1, OwnershipAssumption DEF Inv, RecordInv, LiveIsOwned, LiveRecord, Step
<1>3. ReplacesItsOwn'
  BY <1>1 DEF Inv, RecordInv, ReplacesItsOwn, LiveRecord
<1> QED
  BY <1>2, <1>3 DEF RecordInv

\* Steps that stay clear of claims and records keep what launchers rely on.
LEMMA ClaimsAlike ==
  ASSUME Inv, NEW p \in Owners, NEW s \in [call : Calls, path : Paths],
         at' = [at EXCEPT ![p] = s], UNCHANGED records,
         past'.served = past.served \/ (p \notin Managed /\ past'.served = past.served \cup {p}),
         s.call \notin {"off", "tryLock", "mark"},
         s.call \in Early \cup {"identify", "open"} => at[p].call \in Early \cup {"identify"},
         at[p].call = "off" => s.call = "lock",
         at[p].call # "dead",
         p \in Managed /\ s.call \in {"publish", "serve", "entomb", "recordCheck", "recordUnlink"} =>
           at[p].call \in {"publish", "serve", "entomb", "recordCheck", "recordUnlink"}
             \/ p \in past.served
  PROVE  OneClaim' /\ LauncherInv'
<1>1. \A q \in Owners : at'[q] = IF q = p THEN s ELSE at[q]
  BY DEF Inv, TypeOK
<1>2. OneClaim'
  BY <1>1 DEF Inv, OneClaim, records, Early
<1>3. ASSUME NEW r \in Managed, ClaimIsOpen(r)
      PROVE  ClaimIsOpen(r)'
  <2>1. /\ record' = Claim(r)' /\ r \notin past.served /\ claimed' = claimed
    BY <1>3 DEF ClaimIsOpen, records, Claim
  <2>2. r \notin past'.served
    BY <2>1
  <2>3. ASSUME NEW q \in Managed
        PROVE  /\ at'[q].call \notin {"publish", "serve", "entomb", "recordCheck", "recordUnlink"}
               /\ at'[q].call \notin {"off", "dead"} => q \notin past'.served
               /\ \A t \in Owners : at'[q].call \in {"tryLock", "mark"} /\ <<q, t>> \in claimed'
                                      => t = r
    <3>1. CASE q = p
      BY <1>1, <1>3, <2>1, <3>1, OwnershipAssumption DEF ClaimIsOpen, Inv, LauncherInv
    <3>2. CASE q # p
      BY <1>1, <1>3, <2>1, <3>2, OwnershipAssumption DEF ClaimIsOpen
    <3> QED
      BY <3>1, <3>2
  <2> QED
    BY <2>1, <2>2, <2>3 DEF ClaimIsOpen
<1>4. LauncherInv'
  BY <1>1, <1>3 DEF Inv, LauncherInv, records
<1> QED
  BY <1>2, <1>4


\* A claim stays open as long as no process comes to the record.
LEMMA OpenKept ==
  ASSUME Inv, NEW p \in Owners, NEW s, at' = [at EXCEPT ![p] = s], record' = record,
         NEW r \in Owners, ClaimIsOpen(r), r \notin past'.served,
         p \in Managed =>
           /\ s.call \notin {"publish", "serve", "entomb", "recordCheck", "recordUnlink"}
           /\ s.call \notin {"off", "dead"} => p \notin past'.served
           /\ \A t \in Owners : s.call \in {"tryLock", "mark"} /\ <<p, t>> \in claimed' => t = r,
         \A q \in Owners \ {p} : q \in past'.served <=> q \in past.served,
         \A q \in Owners \ {p}, t \in Owners : <<q, t>> \in claimed' <=> <<q, t>> \in claimed
  PROVE  ClaimIsOpen(r)'
<1>1. \A q \in Owners : at'[q] = IF q = p THEN s ELSE at[q]
  BY DEF Inv, TypeOK
<1>2. record' = Claim(r)'
  BY DEF ClaimIsOpen, Claim
<1>3. ASSUME NEW q \in Managed
      PROVE  /\ at'[q].call \notin {"publish", "serve", "entomb", "recordCheck", "recordUnlink"}
             /\ at'[q].call \notin {"off", "dead"} => q \notin past'.served
             /\ \A t \in Owners : at'[q].call \in {"tryLock", "mark"} /\ <<q, t>> \in claimed' => t = r
  <2>1. CASE q = p
    BY <1>1, <2>1
  <2>2. CASE q # p
    BY <1>1, <2>2, OwnershipAssumption DEF ClaimIsOpen
  <2> QED
    BY <2>1, <2>2
<1> QED
  BY <1>2, <1>3 DEF ClaimIsOpen

\* A step that touches no file.
LEMMA FilesAlike ==
  ASSUME Inv, NEW p \in Owners, NEW s, at' = [at EXCEPT ![p] = s], UNCHANGED files,
         past'.crashed = past.crashed,
         lock' = lock \/ (lock \in {None, p} /\ lock' \in {None, p}),
         SocketsOf(p)'
  PROVE  SocketInv'
<1>1. ASSUME NEW q \in Owners \ {p}
      PROVE  SocketsOf(q)'
  <2>1. at'[q] = at[q] /\ bound' = bound /\ guard' = guard /\ path' = path
    BY DEF Inv, TypeOK, files
  <2>2. lock' = q <=> lock = q
    BY OwnershipAssumption
  <2> QED
    BY <2>1, <2>2, OthersKeep
<1> QED
  BY <1>1 DEF SocketInv

\* A process with both sockets may come to the record, serve and leave: nothing
\* changes for the sockets.
LEMMA ManagingAlike ==
  ASSUME Inv, NEW p \in Managed, NEW s \in [call : Calls, path : Paths],
         at' = [at EXCEPT ![p] = s], UNCHANGED <<files, lock>>,
         past'.crashed = past.crashed, Managing(p), at[p].call # "identify",
         \/ s.call \in {"open", "tryLock", "mark", "publish", "entomb", "close"} /\ s.path = "management"
         \/ s = Step("serve", "presentation")
  PROVE  SocketInv'
<1>1. p \in Owners /\ at'[p] = s /\ SocketsOf(p)
  BY OwnershipAssumption DEF Inv, TypeOK, SocketInv
<1>2. lock # p /\ Presenting(p) /\ at[p].call \notin Early
  BY <1>1 DEF SocketsOf, LockIsExclusive, WellPlaced, Managing, Presenting, Step, Claiming, Early
<1>3. /\ Holds(p, "presentation") /\ Holds(p, "management")
      /\ \A k \in Paths : guard[p][k] \in {None, path[k].ino}
  BY <1>1, <1>2, PathsAre DEF SocketsOf, PresentationHeld, ManagementHeld, GuardsKnow
<1>4. SocketsOf(p)'
  <2>1. Managing(p)' /\ Presenting(p)' /\ ~Leaving(p)'
    <3>1. lock' # p
      BY <1>2
    <3> QED
      BY <1>1, <3>1 DEF Managing, Presenting, Leaving, Step
  <2>2. /\ s.call \notin Early \cup Claiming \cup {"check", "unlink", "off", "dead"}
    BY <1>1 DEF Early, Claiming, Step
  <2> HIDE DEF Managing, Presenting, Leaving
  <2> QED
    BY <1>1, <1>2, <1>3, <2>1, <2>2, PathsAre
       DEF SocketsOf, WellPlaced, LockIsExclusive, PresentationHeld, ManagementHeld, GuardsKnow,
           StaleIsStale, Holds, Step, Claiming, Early, files
<1> QED
  BY <1>1, <1>4, FilesAlike

\* What goes wrong is noted, and changes nothing else of the history.
LEMMA FailureNoted ==
  ASSUME TypeOK, NEW p \in Owners,
         past' = past \/ past' = [past EXCEPT !.failed = @ \cup {p}]
  PROVE  /\ past' \in [served : SUBSET Owners, crashed : SUBSET Owners, failed : SUBSET Owners]
         /\ past'.served = past.served /\ past'.crashed = past.crashed
<1>1. CASE past' = past
  BY <1>1 DEF TypeOK
<1>2. CASE past' = [past EXCEPT !.failed = @ \cup {p}]
  <2>1. past' = [served |-> past.served, crashed |-> past.crashed, failed |-> past.failed \cup {p}]
    BY <1>2 DEF TypeOK
  <2> QED
    BY <2>1 DEF TypeOK
<1> QED
  BY <1>1, <1>2

\* The new position of a process, and its lock, are of their types.
LEMMA MoveTyped ==
  ASSUME TypeOK, NEW p \in Owners, NEW s \in [call : Calls, path : Paths],
         at' = [at EXCEPT ![p] = s], lock' \in {lock, None, p}
  PROVE  /\ at' \in [Owners -> [call : Calls, path : Paths]]
         /\ lock' \in Owners \cup {None}
         /\ at'[p] = s
         /\ \A q \in Owners \ {p} : at'[q] = at[q]
BY DEF TypeOK

-----------------------------------------------------------------------------
(***************************************************************************)
(* create_listener.                                                        *)
(***************************************************************************)
LEMMA StartKeeps ==
  ASSUME Inv, NEW p \in Owners, Start(p)
  PROVE  Inv'
<1> DEFINE s == Step("lock", "presentation")
<1>1. /\ s \in [call : Calls, path : Paths] /\ at' = [at EXCEPT ![p] = s]
      /\ at[p] = Step("off", "presentation")
  BY DEF Start, Go, In, Step, Calls, Paths
<1>2. UNCHANGED <<files, records>> /\ lock' = lock /\ past' = past
  BY DEF Start
<1>3. TypeOK'
  BY <1>1, <1>2, MoveTyped DEF Inv, TypeOK, files, records
<1>4. at'[p] = s
  BY <1>1, <1>2, MoveTyped DEF Inv
<1>5. SocketsOf(p)'
  BY <1>1, <1>2, <1>4
     DEF Inv, SocketInv, SocketsOf, WellPlaced, LockIsExclusive, PresentationHeld, ManagementHeld,
         GuardsKnow, StaleIsStale, Presenting, Managing, Leaving, Holds, Step, Claiming, Early, files
<1>6. SocketInv'
  BY <1>1, <1>2, <1>5, FilesAlike
<1>7. RecordInv'
  <2>1. record # LiveRecord(p)
    BY <1>1 DEF Step, Inv, RecordInv, LiveIsOwned
  <2> QED
    BY <1>1, <1>2, <2>1, RecordsAlike DEF Step, records
<1>8. OneClaim' /\ LauncherInv'
  <2>1. past'.served = past.served /\ at[p].call = "off" /\ s.call = "lock"
    BY <1>1, <1>2 DEF Step
  <2> HIDE DEF s
  <2> QED
    BY <1>1, <1>2, <2>1, ClaimsAlike DEF Early
<1> QED
  BY <1>3, <1>6, <1>7, <1>8 DEF Inv

\* Stat keeps the invariant.
LEMMA StatKeeps ==
  ASSUME Inv, NEW p \in Owners, NEW k \in Paths, Stat(p, k)
  PROVE  Inv'
<1> PICK s \in {Step("bind", k), Step("connect", k)} : at' = [at EXCEPT ![p] = s]
  BY DEF Stat, Go
<1>1. s \in [call : Calls, path : Paths] /\ at[p] = Step("stat", k)
  BY DEF Stat, In, Step, Calls
<1>2. UNCHANGED <<files, records>> /\ lock' = lock /\ past' = past
  BY DEF Stat
<1>3. TypeOK'
  BY <1>1, <1>2, MoveTyped DEF Inv, TypeOK, files, records
<1>4. at'[p] = s
  BY <1>1, <1>2, MoveTyped DEF Inv
<1>5. SocketsOf(p)'
  BY <1>1, <1>2, <1>4
     DEF Inv, SocketInv, SocketsOf, WellPlaced, LockIsExclusive, PresentationHeld, ManagementHeld,
         GuardsKnow, StaleIsStale, Presenting, Managing, Leaving, Holds, Step, Claiming, Early, files
<1>6. SocketInv'
  BY <1>1, <1>2, <1>5, FilesAlike
<1>7. RecordInv'
  <2>1. record # LiveRecord(p)
    BY <1>1 DEF Step, Inv, RecordInv, LiveIsOwned
  <2> QED
    BY <1>1, <1>2, <2>1, RecordsAlike DEF Step, records
<1>8. OneClaim' /\ LauncherInv'
  <2>1. past'.served = past.served /\ at[p].call = "stat" /\ s.call \in {"bind", "connect"}
    BY <1>1, <1>2 DEF Step
  <2> QED
    BY <1>1, <1>2, <2>1, ClaimsAlike DEF Early
<1> QED
  BY <1>3, <1>6, <1>7, <1>8 DEF Inv

\* Giving up before anything is bound.
LEMMA AbandonKeeps ==
  ASSUME Inv, NEW p \in Owners, NEW k \in Paths, Abandon(p, k), Unlock(p),
         at[p].call \in {"lock", "connect", "remove", "bind"}, at[p].path = k,
         UNCHANGED <<files, records>>,
         past' = past \/ past' = [past EXCEPT !.failed = @ \cup {p}]
  PROVE  Inv'
<1> DEFINE s == IF k = "management" THEN Step("check", "presentation")
                ELSE Step("dead", "presentation")
<1>1. s \in [call : Calls, path : Paths] /\ at' = [at EXCEPT ![p] = s]
  BY DEF Abandon, Go, Step, Calls, Paths
<1>2. lock' = IF lock = p THEN None ELSE lock
  BY DEF Unlock
<1>3. TypeOK'
  BY <1>1, <1>2, MoveTyped, FailureNoted DEF Inv, TypeOK, files, records
<1>4. at'[p] = s /\ past'.served = past.served /\ past'.crashed = past.crashed
  BY <1>1, <1>2, MoveTyped, FailureNoted DEF Inv
<1>5. SocketsOf(p)'
  <2>1. SocketsOf(p) /\ lock' # p
    BY <1>2, OwnershipAssumption DEF Inv, SocketInv
  <2>2. CASE k = "management"
    BY <1>2, <1>4, <2>1, <2>2
       DEF SocketsOf, WellPlaced, LockIsExclusive, PresentationHeld, ManagementHeld,
           GuardsKnow, StaleIsStale, Presenting, Managing, Leaving, Holds, Step, Claiming, Early, files
  <2>3. CASE k = "presentation"
    BY <1>2, <1>4, <2>1, <2>3
       DEF SocketsOf, WellPlaced, LockIsExclusive, PresentationHeld, ManagementHeld,
           GuardsKnow, StaleIsStale, Presenting, Managing, Leaving, Holds, Step, Claiming, Early, files
  <2> QED
    BY <2>2, <2>3, PathsAre
<1>6. SocketInv'
  BY <1>1, <1>2, <1>4, <1>5, FilesAlike
<1>7. RecordInv'
  <2>1. record # LiveRecord(p)
    BY OwnershipAssumption DEF Inv, RecordInv, LiveIsOwned
  <2> QED
    BY <1>1, <1>2, <1>4, <2>1, RecordsAlike DEF Step, records
<1>8. OneClaim' /\ LauncherInv'
  BY <1>1, <1>2, <1>4, ClaimsAlike DEF Step, Early
<1> QED
  BY <1>3, <1>6, <1>7, <1>8 DEF Inv


\* Lock keeps the invariant.
LEMMA LockKeeps ==
  ASSUME Inv, NEW p \in Owners, NEW k \in Paths, Lock(p, k)
  PROVE  Inv'
<1>1. CASE lock = None /\ lock' = p /\ Go(p, "stat", k)
  <2> DEFINE s == Step("stat", k)
  <2>1. /\ s \in [call : Calls, path : Paths] /\ at' = [at EXCEPT ![p] = s]
        /\ at[p] = Step("lock", k)
    BY <1>1 DEF Lock, Go, In, Step, Calls
  <2>2. UNCHANGED <<files, records>> /\ past' = past
    BY DEF Lock
  <2>3. TypeOK'
    BY <1>1, <2>1, <2>2, MoveTyped DEF Inv, TypeOK, files, records
  <2>4. at'[p] = s
    BY <1>1, <2>1, <2>2, MoveTyped DEF Inv
  <2>5. SocketsOf(p)'
    BY <1>1, <2>1, <2>2, <2>4
       DEF Inv, SocketInv, SocketsOf, WellPlaced, LockIsExclusive, PresentationHeld, ManagementHeld,
         GuardsKnow, StaleIsStale, Presenting, Managing, Leaving, Holds, Step, Claiming, Early, files
  <2>6. SocketInv'
    BY <1>1, <2>1, <2>2, <2>5, FilesAlike
  <2>7. RecordInv'
    <3>1. record # LiveRecord(p)
      BY <2>1 DEF Step, Inv, RecordInv, LiveIsOwned
    <3> QED
      BY <1>1, <2>1, <2>2, <3>1, RecordsAlike DEF Step, records
  <2>8. OneClaim' /\ LauncherInv'
    <3>1. past'.served = past.served /\ at[p].call = "lock" /\ s.call = "stat"
      BY <2>1, <2>2 DEF Step
    <3> HIDE DEF s
    <3> QED
      BY <2>1, <2>2, <3>1, ClaimsAlike DEF Early
  <2> QED
    BY <2>3, <2>6, <2>7, <2>8 DEF Inv
<1>2. CASE lock # None /\ Abandon(p, k) /\ UNCHANGED lock
  <2>1. at[p].call = "lock" /\ at[p].path = k
    BY DEF Lock, In, Step
  <2>2. Unlock(p)
    BY <1>2, <2>1 DEF Unlock, Inv, SocketInv, SocketsOf, LockIsExclusive, Claiming
  <2> QED
    BY <1>2, <2>1, <2>2, AbandonKeeps DEF Lock
<1> QED
  BY <1>1, <1>2 DEF Lock

\* Connect keeps the invariant.
LEMMA ConnectKeeps ==
  ASSUME Inv, NEW p \in Owners, NEW k \in Paths, Connect(p, k)
  PROVE  Inv'
<1>1. CASE ~Listening(k) /\ Go(p, "remove", k) /\ UNCHANGED lock
  <2> DEFINE s == Step("remove", k)
  <2>1. /\ s \in [call : Calls, path : Paths] /\ at' = [at EXCEPT ![p] = s]
        /\ at[p] = Step("connect", k)
    BY <1>1 DEF Connect, Go, In, Step, Calls
  <2>2. UNCHANGED <<files, records>> /\ past' = past /\ lock' = lock
    BY <1>1 DEF Connect
  <2>3. TypeOK'
    BY <2>1, <2>2, MoveTyped DEF Inv, TypeOK, files, records
  <2>4. at'[p] = s
    BY <2>1, <2>2, MoveTyped DEF Inv
  <2>5. SocketsOf(p)'
    <3>1. ~Listening(k)'
      BY <1>1, <2>2 DEF Listening, files
    <3> QED
      BY <2>1, <2>2, <2>4, <3>1
         DEF Inv, SocketInv, SocketsOf, WellPlaced, LockIsExclusive, PresentationHeld, ManagementHeld,
         GuardsKnow, StaleIsStale, Presenting, Managing, Leaving, Holds, Step, Claiming, Early, files
  <2>6. SocketInv'
    BY <2>1, <2>2, <2>5, FilesAlike
  <2>7. RecordInv'
    <3>1. record # LiveRecord(p)
      BY <2>1 DEF Step, Inv, RecordInv, LiveIsOwned
    <3> QED
      BY <2>1, <2>2, <3>1, RecordsAlike DEF Step, records
  <2>8. OneClaim' /\ LauncherInv'
    <3>1. past'.served = past.served /\ at[p].call = "connect" /\ s.call = "remove"
      BY <2>1, <2>2 DEF Step
    <3> HIDE DEF s
    <3> QED
      BY <2>1, <2>2, <3>1, ClaimsAlike DEF Early
  <2> QED
    BY <2>3, <2>6, <2>7, <2>8 DEF Inv
<1>2. CASE Abandon(p, k) /\ Unlock(p)
  BY <1>2, AbandonKeeps DEF Connect, In, Step
<1> QED
  BY <1>1, <1>2 DEF Connect

\* Remove keeps the invariant.
LEMMA RemoveKeeps ==
  ASSUME Inv, NEW p \in Owners, NEW k \in Paths, Remove(p, k)
  PROVE  Inv'
<1>1. CASE path[k] # Nothing /\ Go(p, "bind", k) /\ UNCHANGED lock
  <2> DEFINE s == Step("bind", k)
  <2>1. /\ s \in [call : Calls, path : Paths] /\ at' = [at EXCEPT ![p] = s]
        /\ at[p] = Step("remove", k)
    BY <1>1 DEF Remove, Go, In, Step, Calls
  <2>2. UNCHANGED <<bound, guard, records>> /\ past' = past /\ lock' = lock
        /\ path' = [path EXCEPT ![k] = Nothing]
    BY <1>1 DEF Remove
  <2>3. TypeOK'
    BY <2>1, <2>2, MoveTyped DEF Inv, TypeOK, records
  <2>4. at'[p] = s /\ \A q \in Owners \ {p} : at'[q] = at[q]
    BY <2>1, <2>2, MoveTyped DEF Inv
  <2>5. \A j \in Paths : path'[j] = IF j = k THEN Nothing ELSE path[j]
    BY <2>2 DEF Inv, TypeOK
  <2>6. SocketsOf(p)'
    BY <2>1, <2>2, <2>4, <2>5, PathsAre, OwnershipAssumption
       DEF Nothing, Inv, SocketInv, SocketsOf, WellPlaced, LockIsExclusive, PresentationHeld, ManagementHeld,
         GuardsKnow, StaleIsStale, Presenting, Managing, Leaving, Holds, Step, Claiming, Early, files
  <2>7. ASSUME NEW q \in Owners \ {p}
        PROVE  SocketsOf(q)'
    <3>1. ~Listening(k)
      BY <2>1 DEF Inv, SocketInv, SocketsOf, StaleIsStale
    <3>2. ~Holds(q, k)
      BY <3>1 DEF Listening, Holds
    <3>3. ~Needs(q, k)
      <4>1. CASE k = "presentation"
        BY <3>2, <4>1 DEF Needs, Inv, SocketInv, SocketsOf, PresentationHeld
      <4>2. CASE k = "management"
        <5>1. Presenting(p) /\ ~Presenting(q)
          BY <2>1, <4>2, OnePresents DEF Presenting, Step
        <5>2. ~(at[q].call = "serve") /\ at[q].path # "management"
          BY <5>1 DEF Presenting
        <5> QED
          BY <4>2, <5>2 DEF Needs, Managing, Leaving, Step, Inv, SocketInv, SocketsOf, WellPlaced
      <4> QED
        BY <4>1, <4>2, PathsAre
    <3>4. /\ \A j \in Paths : path'[j] \in {path[j], Nothing}
          /\ \A j \in Paths : path'[j] = path[j] \/ (path'[j].by = None /\ ~Needs(q, j))
      BY <2>5, <3>3 DEF Nothing
    <3> QED
      BY <2>2, <2>4, <3>4, OthersKeep
  <2>8. RecordInv'
    <3>1. record # LiveRecord(p)
      BY <2>1 DEF Step, Inv, RecordInv, LiveIsOwned
    <3> QED
      BY <2>1, <2>2, <3>1, RecordsAlike DEF Step, records
  <2>9. OneClaim' /\ LauncherInv'
    <3>1. past'.served = past.served /\ at[p].call = "remove" /\ s.call = "bind"
      BY <2>1, <2>2 DEF Step
    <3> HIDE DEF s
    <3> QED
      BY <2>1, <2>2, <3>1, ClaimsAlike DEF Early
  <2> QED
    BY <2>3, <2>6, <2>7, <2>8, <2>9 DEF Inv, SocketInv
<1>2. CASE path[k] = Nothing /\ Abandon(p, k) /\ Unlock(p)
  <2>1. path' = path
    BY <1>2 DEF Remove, Inv, TypeOK
  <2> QED
    BY <1>2, <2>1, AbandonKeeps DEF Remove, In, Step, files
<1> QED
  BY <1>1, <1>2 DEF Remove


\* Who has claimed the directory for the management path is the only one to deal
\* with it.
LEMMA NobodyNeeds ==
  ASSUME Inv, NEW p \in Owners, NEW q \in Owners \ {p}, Presenting(p)
  PROVE  ~Needs(q, "management") /\ ~Presenting(q)
<1>1. ~Presenting(q)
  BY OnePresents
<1>2. at[q].call # "serve" /\ at[q].path # "management"
  BY <1>1 DEF Presenting
<1> QED
  BY <1>1, <1>2 DEF Needs, Managing, Leaving, Step, Inv, SocketInv, SocketsOf, WellPlaced

\* Bind keeps the invariant.
LEMMA BindKeeps ==
  ASSUME Inv, NEW p \in Owners, NEW k \in Paths, Bind(p, k)
  PROVE  Inv'
<1>1. ASSUME path[k] = Nothing, NEW i \in FreeInodes,
             path' = [path EXCEPT ![k] = [ino |-> i, by |-> p]],
             bound' = [bound EXCEPT ![p][k] = i], Go(p, "identify", k), UNCHANGED <<lock, past>>
      PROVE  Inv'
  <2> DEFINE s == Step("identify", k)
  <2>1. /\ s \in [call : Calls, path : Paths] /\ at' = [at EXCEPT ![p] = s]
        /\ at[p] = Step("bind", k)
    BY <1>1 DEF Bind, Go, In, Step, Calls
  <2>2. UNCHANGED <<guard, records>> /\ past' = past /\ lock' = lock /\ i \in Inodes /\ i # None
    BY <1>1, OwnershipAssumption DEF Bind, FreeInodes
  <2>3. TypeOK'
    <3>1. /\ path' \in [Paths -> {Nothing} \cup [ino : Inodes, by : Owners \cup {None}]]
          /\ bound' \in [Owners -> [Paths -> Inodes \cup {None}]]
      BY <1>1, <2>2 DEF Inv, TypeOK
    <3> QED
      BY <2>1, <2>2, <3>1, MoveTyped DEF Inv, TypeOK, records
  <2>4. at'[p] = s /\ \A q \in Owners \ {p} : at'[q] = at[q]
    BY <2>1, <2>2, MoveTyped DEF Inv
  <2>5. /\ \A j \in Paths : path'[j] = IF j = k THEN [ino |-> i, by |-> p] ELSE path[j]
        /\ \A j \in Paths : bound'[p][j] = IF j = k THEN i ELSE bound[p][j]
        /\ \A q \in Owners \ {p} : bound'[q] = bound[q]
    BY <1>1 DEF Inv, TypeOK
  <2>6. SocketsOf(p)'
    <3>1. SocketsOf(p)
      BY DEF Inv, SocketInv
    <3>2. CASE k = "management"
      BY <2>1, <2>2, <2>4, <2>5, <3>1, <3>2, PathsAre, OwnershipAssumption
         DEF SocketsOf, WellPlaced, LockIsExclusive, PresentationHeld, ManagementHeld,
         GuardsKnow, StaleIsStale, Presenting, Managing, Leaving, Holds, Step, Claiming, Early, files
    <3>3. CASE k = "presentation"
      BY <2>1, <2>2, <2>4, <2>5, <3>1, <3>3, PathsAre, OwnershipAssumption
         DEF SocketsOf, WellPlaced, LockIsExclusive, PresentationHeld, ManagementHeld,
         GuardsKnow, StaleIsStale, Presenting, Managing, Leaving, Holds, Step, Claiming, Early, files
    <3> QED
      BY <3>2, <3>3, PathsAre
  <2>7. ASSUME NEW q \in Owners \ {p}
        PROVE  SocketsOf(q)'
    <3>1. lock = p
      BY <2>1 DEF Inv, SocketInv, SocketsOf, LockIsExclusive, Step, Claiming
    <3>2. at[q].call # "remove"
      BY <3>1 DEF Inv, SocketInv, SocketsOf, LockIsExclusive, Claiming
    <3>3. ~Needs(q, k)
      <4>1. CASE k = "presentation"
        <5>1. ~Holds(q, k)
          BY <1>1, OwnershipAssumption DEF Holds, Nothing
        <5> QED
          BY <4>1, <5>1 DEF Needs, Inv, SocketInv, SocketsOf, PresentationHeld
      <4>2. CASE k = "management"
        BY <2>1, <4>2, NobodyNeeds DEF Presenting, Step
      <4> QED
        BY <4>1, <4>2, PathsAre
    <3>4. \A j \in Paths : path'[j] = path[j] \/ (path'[j].by \in {None, p} /\ ~Needs(q, j))
      BY <2>5, <3>3
    <3> QED
      BY <2>2, <2>4, <2>5, <3>2, <3>4, OthersKeep
  <2>8. RecordInv'
    <3>1. record # LiveRecord(p)
      BY <2>1 DEF Step, Inv, RecordInv, LiveIsOwned
    <3> QED
      BY <2>1, <2>2, <3>1, RecordsAlike DEF Step, records
  <2>9. OneClaim' /\ LauncherInv'
    <3>1. past'.served = past.served /\ at[p].call = "bind" /\ s.call = "identify"
      BY <2>1, <2>2 DEF Step
    <3> HIDE DEF s
    <3> QED
      BY <2>1, <2>2, <3>1, ClaimsAlike DEF Early
  <2> QED
    BY <2>3, <2>6, <2>7, <2>8, <2>9 DEF Inv, SocketInv
<1>2. CASE /\ Abandon(p, k) /\ Unlock(p) /\ UNCHANGED <<path, bound>>
           /\ past' = IF path[k] = Nothing THEN [past EXCEPT !.failed = @ \cup {p}] ELSE past
  BY <1>2, AbandonKeeps DEF Bind, In, Step, files
<1> QED
  BY <1>1, <1>2 DEF Bind

\* Identify keeps the invariant.
LEMMA IdentifyKeeps ==
  ASSUME Inv, NEW p \in Owners, NEW k \in Paths, Identify(p, k)
  PROVE  Inv'
<1>1. /\ at[p] = Step("identify", k) /\ SocketsOf(p) /\ Presenting(p) /\ lock = p
      /\ UNCHANGED <<path, bound, records>>
  BY DEF Identify, In, Inv, SocketInv, SocketsOf, Presenting, Step, LockIsExclusive, Claiming
<1>2. Holds(p, k) /\ guard[p][k] \in {None, path[k].ino}
  <2>1. k = "management" => Managing(p)
    BY <1>1 DEF Managing
  <2> QED
    BY <1>1, <2>1, PathsAre DEF SocketsOf, PresentationHeld, ManagementHeld, GuardsKnow
<1>3. /\ path[k].ino \in Inodes /\ bound[p][k] = path[k].ino /\ path[k].by = p
  BY <1>2, OwnershipAssumption DEF Holds, Inv, TypeOK
<1>4. CASE /\ guard' = [guard EXCEPT ![p][k] = path[k].ino]
           /\ Unlock(p)
           /\ IF p \in Managed
              THEN IF k = "presentation" THEN Go(p, "lock", "management") ELSE Go(p, "open", k)
              ELSE Go(p, "serve", k)
           /\ past' = IF p \in Managed THEN past ELSE [past EXCEPT !.served = @ \cup {p}]
  <2> DEFINE s == IF p \in Managed
                  THEN IF k = "presentation" THEN Step("lock", "management") ELSE Step("open", k)
                  ELSE Step("serve", k)
  <2>1. s \in [call : Calls, path : Paths] /\ at' = [at EXCEPT ![p] = s]
    BY <1>4 DEF Go, Step, Calls, Paths
  <2>2. lock' = None
    BY <1>1, <1>4 DEF Unlock
  <2>3. /\ past' \in [served : SUBSET Owners, crashed : SUBSET Owners, failed : SUBSET Owners]
        /\ past'.crashed = past.crashed
        /\ past'.served = IF p \in Managed THEN past.served ELSE past.served \cup {p}
    <3>1. CASE p \in Managed
      BY <1>4, <3>1 DEF Inv, TypeOK
    <3>2. CASE p \notin Managed
      <4>1. past' = [served |-> past.served \cup {p}, crashed |-> past.crashed,
                     failed |-> past.failed]
        BY <1>4, <3>2 DEF Inv, TypeOK
      <4> QED
        BY <3>2, <4>1 DEF Inv, TypeOK
    <3> QED
      BY <3>1, <3>2
  <2>4. TypeOK'
    <3>1. guard' \in [Owners -> [Paths -> Inodes \cup {None}]]
      BY <1>3, <1>4 DEF Inv, TypeOK
    <3> QED
      BY <1>1, <2>1, <2>2, <2>3, <3>1, MoveTyped DEF Inv, TypeOK, records
  <2>5. at'[p] = s /\ \A q \in Owners \ {p} : at'[q] = at[q]
    BY <2>1, <2>2, MoveTyped DEF Inv
  <2>6. /\ \A j \in Paths : guard'[p][j] = IF j = k THEN path[k].ino ELSE guard[p][j]
        /\ \A q \in Owners \ {p} : guard'[q] = guard[q]
    BY <1>4 DEF Inv, TypeOK
  <2>7. SocketsOf(p)'
    <3>1. p \notin Managed => k = "presentation"
      BY <1>1, PathsAre DEF SocketsOf, WellPlaced, Step
    <3>2. CASE k = "management"
      BY <1>1, <1>2, <2>2, <2>3, <2>5, <2>6, <3>1, <3>2, PathsAre, OwnershipAssumption
         DEF SocketsOf, WellPlaced, LockIsExclusive, PresentationHeld, ManagementHeld,
         GuardsKnow, StaleIsStale, Presenting, Managing, Leaving, Holds, Step, Claiming, Early, files
    <3>3. CASE k = "presentation"
      BY <1>1, <1>2, <2>2, <2>3, <2>5, <2>6, <3>1, <3>3, PathsAre, OwnershipAssumption
         DEF SocketsOf, WellPlaced, LockIsExclusive, PresentationHeld, ManagementHeld,
         GuardsKnow, StaleIsStale, Presenting, Managing, Leaving, Holds, Step, Claiming, Early, files
    <3> QED
      BY <3>2, <3>3, PathsAre
  <2>8. ASSUME NEW q \in Owners \ {p}
        PROVE  SocketsOf(q)'
    BY <1>1, <2>2, <2>3, <2>5, <2>6, OthersKeep, OwnershipAssumption
  <2>9. RecordInv'
    <3>1. record # LiveRecord(p)
      BY <1>1 DEF Step, Inv, RecordInv, LiveIsOwned
    <3>2. s.call \notin {"entomb", "recordUnlink"} /\ lock' \in {lock, None, p}
      BY <2>2 DEF Step
    <3> HIDE DEF s
    <3> QED
      BY <1>1, <2>1, <2>3, <3>1, <3>2, RecordsAlike DEF records
  <2>10. OneClaim' /\ LauncherInv'
    <3>1. /\ at[p].call = "identify" /\ s.call \in {"lock", "open", "serve"}
          /\ s.call = "serve" => p \notin Managed
      BY <1>1 DEF Step
    <3> HIDE DEF s
    <3> QED
      BY <1>1, <2>1, <2>3, <3>1, ClaimsAlike DEF Early
  <2> QED
    BY <2>4, <2>7, <2>8, <2>9, <2>10 DEF Inv, SocketInv
<1>5. CASE /\ Go(p, "check", k)
           /\ guard' \in {guard, [guard EXCEPT ![p][k] = path[k].ino]}
           /\ past' = [past EXCEPT !.failed = @ \cup {p}]
           /\ UNCHANGED lock
  <2> DEFINE s == Step("check", k)
  <2>1. s \in [call : Calls, path : Paths] /\ at' = [at EXCEPT ![p] = s]
    BY <1>5 DEF Go, Step, Calls
  <2>2. /\ past' \in [served : SUBSET Owners, crashed : SUBSET Owners, failed : SUBSET Owners]
        /\ past'.crashed = past.crashed /\ past'.served = past.served
    BY <1>5, FailureNoted DEF Inv
  <2>3. /\ guard'[p][k] \in {None, path[k].ino}
        /\ \A j \in Paths \ {k} : guard'[p][j] = guard[p][j]
        /\ \A q \in Owners \ {p} : guard'[q] = guard[q]
        /\ guard' \in [Owners -> [Paths -> Inodes \cup {None}]]
    <3>1. CASE guard' = guard
      BY <1>2, <3>1 DEF Inv, TypeOK
    <3>2. CASE guard' = [guard EXCEPT ![p][k] = path[k].ino]
      BY <1>3, <3>2 DEF Inv, TypeOK
    <3> QED
      BY <1>5, <3>1, <3>2
  <2>4. TypeOK'
    BY <1>1, <1>5, <2>1, <2>2, <2>3, MoveTyped DEF Inv, TypeOK, records
  <2>5. at'[p] = s /\ \A q \in Owners \ {p} : at'[q] = at[q]
    BY <1>5, <2>1, <2>2, MoveTyped DEF Inv
  <2>6. SocketsOf(p)'
    BY <1>1, <1>2, <1>3, <1>5, <2>2, <2>3, <2>5, PathsAre, OwnershipAssumption
       DEF SocketsOf, WellPlaced, LockIsExclusive, PresentationHeld, ManagementHeld,
         GuardsKnow, StaleIsStale, Presenting, Managing, Leaving, Holds, Step, Claiming, Early, files
  <2>7. ASSUME NEW q \in Owners \ {p}
        PROVE  SocketsOf(q)'
    BY <1>1, <1>5, <2>2, <2>3, <2>5, OthersKeep, OwnershipAssumption
  <2>8. RecordInv'
    <3>1. record # LiveRecord(p)
      BY <1>1 DEF Step, Inv, RecordInv, LiveIsOwned
    <3> QED
      BY <1>1, <1>5, <2>1, <2>2, <3>1, RecordsAlike DEF Step, records
  <2>9. OneClaim' /\ LauncherInv'
    <3>1. at[p].call = "identify" /\ s.call = "check"
      BY <1>1 DEF Step
    <3> HIDE DEF s
    <3> QED
      BY <1>1, <2>1, <2>2, <3>1, ClaimsAlike DEF Early
  <2> QED
    BY <2>4, <2>6, <2>7, <2>8, <2>9 DEF Inv, SocketInv
<1> QED
  BY <1>4, <1>5 DEF Identify


-----------------------------------------------------------------------------
(***************************************************************************)
(* The end of an owner.                                                    *)
(***************************************************************************)
LEMMA CloseListenerKeeps ==
  ASSUME Inv, NEW p \in Owners, NEW k \in Paths, CloseListener(p, k)
  PROVE  Inv'
<1> DEFINE s == IF k = "management"
                THEN IF lock = p THEN Step("check", "presentation") ELSE Step("check", k)
                ELSE Step("dead", k)
<1>1. s \in [call : Calls, path : Paths] /\ at' = [at EXCEPT ![p] = s]
  BY DEF CloseListener, Go, Step, Calls, Paths
<1>2. /\ at[p] = Step("close", k) /\ lock' = IF lock = p THEN None ELSE lock
      /\ UNCHANGED <<path, guard, records>> /\ past' = past
      /\ bound' = [bound EXCEPT ![p][k] = None]
  BY DEF CloseListener, In, Unlock
<1>3. TypeOK'
  <2>1. bound' \in [Owners -> [Paths -> Inodes \cup {None}]]
    BY <1>2 DEF Inv, TypeOK
  <2> QED
    BY <1>1, <1>2, <2>1, MoveTyped DEF Inv, TypeOK, records
<1>4. at'[p] = s /\ \A q \in Owners \ {p} : at'[q] = at[q]
  BY <1>1, <1>2, MoveTyped DEF Inv
<1>5. /\ \A j \in Paths : bound'[p][j] = IF j = k THEN None ELSE bound[p][j]
      /\ \A q \in Owners \ {p} : bound'[q] = bound[q]
  BY <1>2 DEF Inv, TypeOK
<1>6. SocketsOf(p)'
  <2>1. SocketsOf(p)
    BY DEF Inv, SocketInv
  <2>2. CASE k = "management" /\ lock = p
    BY <1>2, <1>4, <1>5, <2>1, <2>2, PathsAre, OwnershipAssumption
       DEF SocketsOf, WellPlaced, LockIsExclusive, PresentationHeld, ManagementHeld,
         GuardsKnow, StaleIsStale, Presenting, Managing, Leaving, Holds, Step, Claiming, Early, files
  <2>3. CASE k = "management" /\ lock # p
    BY <1>2, <1>4, <1>5, <2>1, <2>3, PathsAre, OwnershipAssumption
       DEF SocketsOf, WellPlaced, LockIsExclusive, PresentationHeld, ManagementHeld,
         GuardsKnow, StaleIsStale, Presenting, Managing, Leaving, Holds, Step, Claiming, Early, files
  <2>4. CASE k = "presentation"
    BY <1>2, <1>4, <1>5, <2>1, <2>4, PathsAre, OwnershipAssumption
       DEF SocketsOf, WellPlaced, LockIsExclusive, PresentationHeld, ManagementHeld,
         GuardsKnow, StaleIsStale, Presenting, Managing, Leaving, Holds, Step, Claiming, Early, files
  <2> QED
    BY <2>2, <2>3, <2>4, PathsAre
<1>7. ASSUME NEW q \in Owners \ {p}
      PROVE  SocketsOf(q)'
  <2>1. lock' = q <=> lock = q
    BY <1>2, OwnershipAssumption
  <2>2. /\ \A j \in Paths : path'[j] = path[j]
        /\ \A j \in Paths, r \in Owners : bound'[r][j] \in {bound[r][j], None}
    BY <1>2, <1>5
  <2> QED
    BY <1>2, <1>4, <1>5, <2>1, <2>2, OthersKeep
<1>8. RecordInv'
  <2>1. /\ record = LiveRecord(p) => k = "management" /\ lock # p
        /\ lock' \in {lock, None, p} /\ s.call \notin {"entomb", "recordUnlink"}
    BY <1>2, PathsAre DEF Step, Inv, RecordInv, LiveIsOwned
  <2>2. record = LiveRecord(p) => s = Step("check", "management") /\ lock' # p
    BY <1>2, <2>1
  <2> HIDE DEF s
  <2> QED
    BY <1>1, <1>2, <2>1, <2>2, RecordsAlike DEF records
<1>9. OneClaim' /\ LauncherInv'
  <2>1. at[p].call = "close" /\ s.call \in {"check", "dead"} /\ past'.served = past.served
    BY <1>2 DEF Step
  <2> HIDE DEF s
  <2> QED
    BY <1>1, <1>2, <2>1, ClaimsAlike DEF Early
<1> QED
  BY <1>3, <1>6, <1>7, <1>8, <1>9 DEF Inv, SocketInv

\* Check keeps the invariant.
LEMMA CheckKeeps ==
  ASSUME Inv, NEW p \in Owners, NEW k \in Paths, Check(p, k)
  PROVE  Inv'
<1> DEFINE s == Step("unlink", k)
<1>1. at[p] = Step("check", k) /\ UNCHANGED <<files, records>> /\ past' = past /\ lock' = lock
  BY DEF Check, In
<1>2. s \in [call : Calls, path : Paths] /\ at' = [at EXCEPT ![p] = s]
  BY CheckFinds DEF Check, Go, Step, Calls
<1>3. TypeOK'
  BY <1>1, <1>2, MoveTyped DEF Inv, TypeOK, files, records
<1>4. at'[p] = s
  BY <1>1, <1>2, MoveTyped DEF Inv
<1>5. SocketsOf(p)'
  BY <1>1, <1>4, PathsAre
     DEF Inv, SocketInv, SocketsOf, WellPlaced, LockIsExclusive, PresentationHeld, ManagementHeld,
         GuardsKnow, StaleIsStale, Presenting, Managing, Leaving, Holds, Step, Claiming, Early, files
<1>6. SocketInv'
  BY <1>1, <1>2, <1>5, FilesAlike
<1>7. RecordInv'
  <2>1. record = LiveRecord(p) => k = "management" /\ lock # p
    BY <1>1, PathsAre DEF Step, Inv, RecordInv, LiveIsOwned
  <2> QED
    BY <1>1, <1>2, <2>1, RecordsAlike DEF Step, records
<1>8. OneClaim' /\ LauncherInv'
  <2>1. at[p].call = "check" /\ s.call = "unlink" /\ past'.served = past.served
    BY <1>1 DEF Step
  <2> HIDE DEF s
  <2> QED
    BY <1>1, <1>2, <2>1, ClaimsAlike DEF Early
<1> QED
  BY <1>3, <1>6, <1>7, <1>8 DEF Inv

\* Unlink keeps the invariant.
LEMMA UnlinkKeeps ==
  ASSUME Inv, NEW p \in Owners, NEW k \in Paths, Unlink(p, k)
  PROVE  Inv'
<1> DEFINE s == IF k = "management" /\ lock # p
                THEN IF p \in past.served THEN Step("recordCheck", k) ELSE Step("check", "presentation")
                ELSE Step("close", k)
<1>1. /\ at[p] = Step("unlink", k) /\ UNCHANGED <<bound, guard, records>> /\ past' = past /\ lock' = lock
      /\ path' = [path EXCEPT ![k] = Nothing]
  BY DEF Unlink, In
<1>2. s \in [call : Calls, path : Paths] /\ at' = [at EXCEPT ![p] = s]
  BY DEF Unlink, AfterGuard, Go, Step, Calls, Paths
<1>3. TypeOK'
  <2>1. path' \in [Paths -> {Nothing} \cup [ino : Inodes, by : Owners \cup {None}]]
    BY <1>1 DEF Inv, TypeOK
  <2> QED
    BY <1>1, <1>2, <2>1, MoveTyped DEF Inv, TypeOK, records
<1>4. at'[p] = s /\ \A q \in Owners \ {p} : at'[q] = at[q]
  BY <1>1, <1>2, MoveTyped DEF Inv
<1>5. \A j \in Paths : path'[j] = IF j = k THEN Nothing ELSE path[j]
  BY <1>1 DEF Inv, TypeOK
<1>6. Presenting(p) /\ SocketsOf(p)
  BY <1>1 DEF Presenting, Step, Inv, SocketInv
<1>7. SocketsOf(p)'
  <2>1. Nothing.by = None /\ p # None
    BY OwnershipAssumption DEF Nothing
  <2>2. CASE k = "management" /\ lock # p /\ p \in past.served
    BY <1>1, <1>4, <1>5, <1>6, <2>1, <2>2, PathsAre
       DEF SocketsOf, WellPlaced, LockIsExclusive, PresentationHeld, ManagementHeld,
         GuardsKnow, StaleIsStale, Presenting, Managing, Leaving, Holds, Step, Claiming, Early, files
  <2>3. CASE k = "management" /\ lock # p /\ p \notin past.served
    BY <1>1, <1>4, <1>5, <1>6, <2>1, <2>3, PathsAre
       DEF SocketsOf, WellPlaced, LockIsExclusive, PresentationHeld, ManagementHeld,
         GuardsKnow, StaleIsStale, Presenting, Managing, Leaving, Holds, Step, Claiming, Early, files
  <2>4. CASE k = "management" /\ lock = p
    BY <1>1, <1>4, <1>5, <1>6, <2>1, <2>4, PathsAre
       DEF SocketsOf, WellPlaced, LockIsExclusive, PresentationHeld, ManagementHeld,
         GuardsKnow, StaleIsStale, Presenting, Managing, Leaving, Holds, Step, Claiming, Early, files
  <2>5. CASE k = "presentation"
    BY <1>1, <1>4, <1>5, <1>6, <2>1, <2>5, PathsAre
       DEF SocketsOf, WellPlaced, LockIsExclusive, PresentationHeld, ManagementHeld,
         GuardsKnow, StaleIsStale, Presenting, Managing, Leaving, Holds, Step, Claiming, Early, files
  <2> QED
    BY <2>2, <2>3, <2>4, <2>5, PathsAre
<1>8. ASSUME NEW q \in Owners \ {p}
      PROVE  SocketsOf(q)'
  <2>1. ~Needs(q, k)
    BY <1>6, NobodyNeeds, PathsAre DEF Needs
  <2>2. /\ \A j \in Paths : path'[j] \in {path[j], Nothing}
        /\ \A j \in Paths : path'[j] = path[j] \/ (path'[j].by = None /\ ~Needs(q, j))
    BY <1>5, <2>1 DEF Nothing
  <2> QED
    BY <1>1, <1>4, <2>2, OthersKeep
<1>9. RecordInv'
  <2>1. /\ record = LiveRecord(p) => k = "management" /\ lock # p /\ p \in past.served
        /\ s.call \notin {"entomb", "recordUnlink"}
    BY <1>1, PathsAre DEF Step, Inv, RecordInv, LiveIsOwned
  <2>2. record = LiveRecord(p) => s.call = "recordCheck"
    BY <2>1 DEF Step
  <2> HIDE DEF s
  <2> QED
    BY <1>1, <1>2, <2>1, <2>2, RecordsAlike DEF records
<1>10. OneClaim' /\ LauncherInv'
  <2>1. /\ at[p].call = "unlink" /\ s.call \in {"check", "recordCheck", "close"}
        /\ s.call = "recordCheck" => p \in past.served
    BY <1>1 DEF Step
  <2> HIDE DEF s
  <2> QED
    BY <1>1, <1>2, <2>1, ClaimsAlike DEF Early
<1> QED
  BY <1>3, <1>7, <1>8, <1>9, <1>10 DEF Inv, SocketInv


\* Crash keeps the invariant.
LEMMA CrashKeeps ==
  ASSUME Inv, NEW p \in Owners, Crash(p)
  PROVE  Inv'
<1> DEFINE s == Step("dead", "presentation")
<1>1. /\ s \in [call : Calls, path : Paths] /\ at' = [at EXCEPT ![p] = s]
      /\ at[p].call \notin {"off", "dead"}
  BY DEF Crash, Go, Step, Calls, Paths
<1>2. /\ lock' = IF lock = p THEN None ELSE lock
      /\ UNCHANGED <<path, guard, record, marked, claimed, launcher>>
      /\ bound' = [bound EXCEPT ![p] = [k \in Paths |-> None]]
      /\ \A q \in Owners : claimLock'[q] = IF claimLock[q] = p THEN "free" ELSE claimLock[q]
  BY DEF Crash, Unlock, FreeClaims
<1>3. /\ past' \in [served : SUBSET Owners, crashed : SUBSET Owners, failed : SUBSET Owners]
      /\ past'.crashed = past.crashed \cup {p} /\ past'.served = past.served
  <2>1. past' = [served |-> past.served, crashed |-> past.crashed \cup {p}, failed |-> past.failed]
    BY DEF Crash, Inv, TypeOK
  <2> QED
    BY <2>1 DEF Inv, TypeOK
<1>4. TypeOK'
  <2>1. /\ bound' \in [Owners -> [Paths -> Inodes \cup {None}]]
        /\ claimLock' \in [Owners -> Owners \cup {"free", "launcher"}]
    BY <1>2 DEF Inv, TypeOK, Crash, FreeClaims
  <2> QED
    BY <1>1, <1>2, <1>3, <2>1, MoveTyped DEF Inv, TypeOK
<1>5. at'[p] = s /\ \A q \in Owners \ {p} : at'[q] = at[q]
  BY <1>1, <1>2, MoveTyped DEF Inv
<1>6. /\ \A j \in Paths : bound'[p][j] = None
      /\ \A q \in Owners \ {p} : bound'[q] = bound[q]
  BY <1>2 DEF Inv, TypeOK
<1>7. SocketsOf(p)'
  BY <1>2, <1>3, <1>5, OwnershipAssumption
     DEF SocketsOf, WellPlaced, LockIsExclusive, PresentationHeld, ManagementHeld,
         GuardsKnow, StaleIsStale, Presenting, Managing, Leaving, Holds, Step, Claiming, Early, files
<1>8. ASSUME NEW q \in Owners \ {p}
      PROVE  SocketsOf(q)'
  <2>1. lock' = q <=> lock = q
    BY <1>2, OwnershipAssumption
  <2>2. /\ \A j \in Paths : path'[j] = path[j]
        /\ \A j \in Paths, r \in Owners : bound'[r][j] \in {bound[r][j], None}
        /\ q \in past'.crashed <=> q \in past.crashed
    BY <1>2, <1>3, <1>6
  <2> QED
    BY <1>2, <1>5, <1>6, <2>1, <2>2, OthersKeep
<1>9. RecordInv'
  BY <1>1, <1>2, <1>3, RecordsAlike DEF Step
<1>10. OneClaim'
  BY <1>2, <1>5 DEF Inv, OneClaim, Step, Early
<1>11. ASSUME NEW r \in Owners, ClaimIsOpen(r)
       PROVE  ClaimIsOpen(r)'
  <2>1. r \notin past'.served /\ s.call = "dead"
    BY <1>3, <1>11 DEF ClaimIsOpen, Step
  <2> HIDE DEF s
  <2> QED
    BY <1>1, <1>2, <1>3, <1>11, <2>1, OpenKept
<1>12. LauncherInv'
  BY <1>2, <1>3, <1>5, <1>11, OwnershipAssumption DEF Inv, LauncherInv, Step
<1> QED
  BY <1>4, <1>7, <1>8, <1>9, <1>10, <1>12 DEF Inv, SocketInv

\* Finish keeps the invariant.
LEMMA FinishKeeps ==
  ASSUME Inv, NEW p \in Owners, Finish(p)
  PROVE  Inv'
<1>1. /\ at[p] = Step("serve", "presentation") /\ SocketsOf(p) /\ lock # p
      /\ UNCHANGED <<files, records>> /\ past' = past /\ lock' = lock
  BY DEF Finish, Step, Inv, SocketInv, SocketsOf, WellPlaced, LockIsExclusive, Claiming, TypeOK
<1> PICK s \in {Step("entomb", "management"), Step("close", "management"), Step("check", "presentation")} :
      /\ at' = [at EXCEPT ![p] = s]
      /\ s.call \in {"entomb", "close"} => p \in Managed
      /\ s.call = "check" => p \notin Managed
      /\ s.call = "entomb" => record = LiveRecord(p)
  BY DEF Finish, Drop, Go, Step
<1>2. s \in [call : Calls, path : Paths]
  BY DEF Step, Calls, Paths
<1>3. TypeOK'
  BY <1>1, <1>2, MoveTyped DEF Inv, TypeOK, files, records
<1>4. at'[p] = s /\ \A q \in Owners \ {p} : at'[q] = at[q]
  BY <1>1, <1>2, MoveTyped DEF Inv
<1>5. SocketInv'
  <2>1. CASE p \in Managed
    <3>1. /\ Managing(p) /\ at[p].call # "identify" /\ past'.crashed = past.crashed
          /\ s.call \in {"entomb", "close"} /\ s.path = "management" /\ UNCHANGED <<files, lock>>
      BY <1>1, <2>1 DEF Managing, Step
    <3> QED
      BY <1>2, <2>1, <3>1, ManagingAlike
  <2>2. CASE p \notin Managed
    <3>1. s = Step("check", "presentation")
      BY <2>2 DEF Step
    <3>2. SocketsOf(p)'
      BY <1>1, <1>4, <2>2, <3>1
         DEF SocketsOf, WellPlaced, LockIsExclusive, PresentationHeld, ManagementHeld,
         GuardsKnow, StaleIsStale, Presenting, Managing, Leaving, Holds, Step, Claiming, Early, files
    <3> QED
      BY <1>1, <1>2, <3>2, FilesAlike
  <2> QED
    BY <2>1, <2>2
<1>6. RecordInv'
  <2>1. record = LiveRecord(p) => p \in Managed
    BY DEF Inv, RecordInv, LiveIsOwned
  <2>2. CASE s.call = "entomb"
    <3>1. LiveIsOwned'
      BY <1>1, <1>4, <2>1, <2>2 DEF Inv, RecordInv, LiveIsOwned, LiveRecord, records
    <3>2. ReplacesItsOwn'
      BY <1>1, <1>4, <2>2 DEF Inv, RecordInv, ReplacesItsOwn, LiveRecord, records
    <3> QED
      BY <3>1, <3>2 DEF RecordInv
  <2>3. CASE s.call # "entomb"
    <3>1. s.call # "recordUnlink" /\ (p \in Managed => s = Step("close", "management"))
      BY <2>3 DEF Step
    <3> QED
      BY <1>1, <1>2, <2>1, <2>3, <3>1, RecordsAlike DEF records
  <2> QED
    BY <2>2, <2>3
<1>7. OneClaim' /\ LauncherInv'
  <2>1. /\ at[p].call = "serve" /\ s.call \in {"entomb", "close", "check"}
        /\ past'.served = past.served
    BY <1>1 DEF Step
  <2> QED
    BY <1>1, <1>2, <2>1, ClaimsAlike DEF Early
<1> QED
  BY <1>3, <1>5, <1>6, <1>7 DEF Inv

\* RecordCheck keeps the invariant.
LEMMA RecordCheckKeeps ==
  ASSUME Inv, NEW p \in Owners, RecordCheck(p)
  PROVE  Inv'
<1>1. /\ at[p] = Step("recordCheck", "management") /\ SocketsOf(p)
      /\ UNCHANGED <<files, records>> /\ past' = past /\ lock' = lock
  BY DEF RecordCheck, In, Inv, SocketInv
<1> DEFINE s == IF record = LiveRecord(p) THEN Step("recordUnlink", "management")
                ELSE Step("check", "presentation")
<1>2. s \in [call : Calls, path : Paths] /\ at' = [at EXCEPT ![p] = s]
  BY DEF RecordCheck, Go, Step, Calls, Paths
<1>3. TypeOK'
  BY <1>1, <1>2, MoveTyped DEF Inv, TypeOK, files, records
<1>4. at'[p] = s /\ \A q \in Owners \ {p} : at'[q] = at[q]
  BY <1>1, <1>2, MoveTyped DEF Inv
<1>5. SocketsOf(p)'
  BY <1>1, <1>4
     DEF SocketsOf, WellPlaced, LockIsExclusive, PresentationHeld, ManagementHeld,
         GuardsKnow, StaleIsStale, Presenting, Managing, Leaving, Holds, Step, Claiming, Early, files
<1>6. SocketInv'
  BY <1>1, <1>2, <1>5, FilesAlike
<1>7. RecordInv'
  <2>1. record = LiveRecord(p) => p \in past.served /\ p \in Managed /\ lock # p
    BY <1>1 DEF Step, Inv, RecordInv, LiveIsOwned
  <2>2. LiveIsOwned'
    BY <1>1, <1>4, <2>1 DEF Inv, RecordInv, LiveIsOwned, LiveRecord, records, Step
  <2>3. ReplacesItsOwn'
    BY <1>1, <1>4 DEF Inv, RecordInv, ReplacesItsOwn, LiveRecord, records, Step
  <2> QED
    BY <2>2, <2>3 DEF RecordInv
<1>8. OneClaim' /\ LauncherInv'
  <2>1. /\ at[p].call = "recordCheck" /\ s.call \in {"recordUnlink", "check"}
        /\ past'.served = past.served
    BY <1>1 DEF Step
  <2> HIDE DEF s
  <2> QED
    BY <1>1, <1>2, <2>1, ClaimsAlike DEF Early
<1> QED
  BY <1>3, <1>6, <1>7, <1>8 DEF Inv

\* Who replaces or removes the record is the only one that may.
LEMMA OneReplaces ==
  ASSUME Inv, NEW p \in Owners, Presenting(p), NEW q \in Owners \ {p}
  PROVE  at[q].call \notin {"entomb", "recordUnlink"}
<1>1. at[q].call \in {"entomb", "recordUnlink"} => Presenting(q)
  BY DEF Presenting, Inv, SocketInv, SocketsOf, WellPlaced
<1> QED
  BY <1>1, OnePresents

\* A record that is not live and a process that is done with it.
LEMMA RecordGone ==
  ASSUME Inv, NEW p \in Owners, NEW s, at' = [at EXCEPT ![p] = s], Presenting(p),
         s.call \notin {"entomb", "recordUnlink"}, \A q \in Owners : record' # LiveRecord(q)
  PROVE  RecordInv'
<1>1. at'[p] = s /\ \A q \in Owners \ {p} : at'[q] = at[q]
  BY DEF Inv, TypeOK
<1>2. \A q \in Owners : at'[q].call \notin {"entomb", "recordUnlink"}
  BY <1>1, OneReplaces
<1>3. \A q \in Owners : record' # LiveRecord(q)'
  BY DEF LiveRecord
<1> QED
  BY <1>2, <1>3 DEF RecordInv, LiveIsOwned, ReplacesItsOwn

\* No launcher relies on its claim once a process has come to the record.
LEMMA NoneOpen ==
  ASSUME Inv, NEW p \in Managed, NEW r \in Owners,
         at[p].call \in {"publish", "serve", "entomb", "recordCheck", "recordUnlink"}
  PROVE  ~(launcher[r] \in {"waiting", "won"} /\ r \notin marked)
BY DEF Inv, LauncherInv, ClaimIsOpen

\* Entomb keeps the invariant.
LEMMA EntombKeeps ==
  ASSUME Inv, NEW p \in Owners, Entomb(p)
  PROVE  Inv'
<1>1. /\ at[p] = Step("entomb", "management") /\ SocketsOf(p) /\ p \in Managed
      /\ UNCHANGED <<files, marked, claimed, claimLock, launcher>> /\ past' = past /\ lock' = lock
      /\ record' = Tombstone(p)
  BY DEF Entomb, In, Step, Inv, SocketInv, SocketsOf, WellPlaced
<1> DEFINE s == Step("close", "management")
<1>2. s \in [call : Calls, path : Paths] /\ at' = [at EXCEPT ![p] = s]
  BY <1>1 DEF Entomb, Drop, Go, Step, Calls, Paths
<1>3. TypeOK'
  BY <1>1, <1>2, MoveTyped DEF Inv, TypeOK, files, Records
<1>4. at'[p] = s /\ \A q \in Owners \ {p} : at'[q] = at[q]
  BY <1>1, <1>2, MoveTyped DEF Inv
<1>5. SocketInv'
  <2>1. /\ Managing(p) /\ at[p].call # "identify" /\ past'.crashed = past.crashed
        /\ s.call = "close" /\ s.path = "management" /\ UNCHANGED <<files, lock>>
    BY <1>1 DEF Step, Managing
  <2> HIDE DEF s
  <2> QED
    BY <1>1, <1>2, <2>1, ManagingAlike
<1>6. RecordInv'
  <2>1. /\ Presenting(p) /\ s.call \notin {"entomb", "recordUnlink"}
        /\ \A q \in Owners : record' # LiveRecord(q)
    BY <1>1 DEF Step, Presenting, LiveRecord, Tombstone
  <2> HIDE DEF s
  <2> QED
    BY <1>2, <2>1, RecordGone
<1>7. OneClaim'
  BY <1>1, <1>4 DEF Inv, OneClaim, Step, Early
<1>8. LauncherInv'
  <2>1. \A r \in Owners : ~(launcher[r] \in {"waiting", "won"} /\ r \notin marked)
    BY <1>1, NoneOpen DEF Step
  <2> QED
    BY <1>1, <1>4, <2>1 DEF Inv, LauncherInv, Step
<1> QED
  BY <1>3, <1>5, <1>6, <1>7, <1>8 DEF Inv

\* RecordUnlink keeps the invariant.
LEMMA RecordUnlinkKeeps ==
  ASSUME Inv, NEW p \in Owners, RecordUnlink(p)
  PROVE  Inv'
<1>1. /\ at[p] = Step("recordUnlink", "management") /\ SocketsOf(p) /\ p \in Managed
      /\ UNCHANGED <<files, marked, claimed, claimLock, launcher>> /\ past' = past /\ lock' = lock
      /\ record' = NoRecord
  BY DEF RecordUnlink, In, Step, Inv, SocketInv, SocketsOf, WellPlaced
<1> DEFINE s == Step("check", "presentation")
<1>2. s \in [call : Calls, path : Paths] /\ at' = [at EXCEPT ![p] = s]
  BY DEF RecordUnlink, Go, Step, Calls, Paths
<1>3. TypeOK'
  BY <1>1, <1>2, MoveTyped DEF Inv, TypeOK, files, Records
<1>4. at'[p] = s /\ \A q \in Owners \ {p} : at'[q] = at[q]
  BY <1>1, <1>2, MoveTyped DEF Inv
<1>5. SocketsOf(p)'
  BY <1>1, <1>4
     DEF SocketsOf, WellPlaced, LockIsExclusive, PresentationHeld, ManagementHeld,
         GuardsKnow, StaleIsStale, Presenting, Managing, Leaving, Holds, Step, Claiming, Early, files
<1>6. SocketInv'
  BY <1>1, <1>2, <1>5, FilesAlike
<1>7. RecordInv'
  <2>1. /\ Presenting(p) /\ s.call \notin {"entomb", "recordUnlink"}
        /\ \A q \in Owners : record' # LiveRecord(q)
    BY <1>1 DEF Step, Presenting, LiveRecord, NoRecord
  <2> HIDE DEF s
  <2> QED
    BY <1>2, <2>1, RecordGone
<1>8. OneClaim'
  BY <1>1, <1>4 DEF Inv, OneClaim, Step, Early
<1>9. LauncherInv'
  <2>1. \A r \in Owners : ~(launcher[r] \in {"waiting", "won"} /\ r \notin marked)
    BY <1>1, NoneOpen DEF Step
  <2> QED
    BY <1>1, <1>4, <2>1 DEF Inv, LauncherInv, Step
<1> QED
  BY <1>3, <1>6, <1>7, <1>8, <1>9 DEF Inv


-----------------------------------------------------------------------------
(***************************************************************************)
(* The record and its claims.                                              *)
(***************************************************************************)
\* A process between its sockets and its record: where it is, and where it may go.
LEMMA ManagingMoves ==
  ASSUME Inv, NEW p \in Owners, at[p].call \in {"open", "tryLock", "mark", "publish"},
         NEW s \in [call : Calls, path : Paths], at' = [at EXCEPT ![p] = s],
         \/ s.call \in {"tryLock", "mark", "publish", "close"} /\ s.path = "management"
         \/ s = Step("serve", "presentation"),
         UNCHANGED <<files, lock>>, past'.crashed = past.crashed
  PROVE  /\ p \in Managed /\ lock # p /\ Presenting(p) /\ record # LiveRecord(p)
         /\ SocketInv'
         /\ at'[p] = s /\ \A q \in Owners \ {p} : at'[q] = at[q]
<1>1. p \in Managed /\ lock # p /\ Presenting(p)
  BY DEF Inv, SocketInv, SocketsOf, WellPlaced, LockIsExclusive, Claiming, Presenting
<1>2. record # LiveRecord(p)
  BY <1>1, OwnershipAssumption DEF Inv, RecordInv, LiveIsOwned
<1>3. Managing(p)
  BY DEF Managing
<1>4. SocketInv'
  BY <1>1, <1>3, ManagingAlike
<1>5. at'[p] = s /\ \A q \in Owners \ {p} : at'[q] = at[q]
  BY DEF Inv, TypeOK
<1> QED
  BY <1>1, <1>2, <1>4, <1>5

\* An error before the record is there.
LEMMA FailPublishKeeps ==
  ASSUME Inv, NEW p \in Owners, at[p].call \in {"open", "tryLock"}, FailPublish(p),
         past' = [past EXCEPT !.failed = @ \cup {p}], UNCHANGED <<files, lock, records>>
  PROVE  Inv'
<1> DEFINE s == Step("close", "management")
<1>1. /\ s \in [call : Calls, path : Paths] /\ at' = [at EXCEPT ![p] = s]
      /\ s.call = "close" /\ s.path = "management"
  BY DEF FailPublish, Go, Step, Calls, Paths
<1>2. /\ past' \in [served : SUBSET Owners, crashed : SUBSET Owners, failed : SUBSET Owners]
      /\ past'.served = past.served /\ past'.crashed = past.crashed
  BY FailureNoted DEF Inv
<1> HIDE DEF s
<1>3. record # LiveRecord(p) /\ SocketInv'
  BY <1>1, <1>2, ManagingMoves
<1>4. TypeOK'
  BY <1>1, <1>2, MoveTyped DEF Inv, TypeOK, files, records
<1>5. RecordInv'
  BY <1>1, <1>2, <1>3, RecordsAlike DEF records
<1>6. OneClaim' /\ LauncherInv'
  BY <1>1, <1>2, ClaimsAlike DEF Early
<1> QED
  BY <1>3, <1>4, <1>5, <1>6 DEF Inv

\* SpawnFails keeps the invariant.
LEMMA SpawnFailsKeeps ==
  ASSUME Inv, NEW p \in Owners, SpawnFails(p)
  PROVE  Inv'
BY FailPublishKeeps DEF SpawnFails, In, Step

\* OpenClaim keeps the invariant.
LEMMA OpenClaimKeeps ==
  ASSUME Inv, NEW p \in Owners, OpenClaim(p)
  PROVE  Inv'
<1>1. /\ at[p].call = "open" /\ UNCHANGED <<files, lock, record, marked, claimLock, launcher>>
      /\ past' = past
  BY DEF OpenClaim, In, Step
<1>2. \A q \in Owners : <<p, q>> \notin claimed
  BY <1>1 DEF Inv, OneClaim
<1>3. ASSUME NEW q \in Owners, record = Claim(q), q \notin marked,
             claimed' = claimed \cup {<<p, q>>}, Go(p, "tryLock", "management")
      PROVE  Inv'
  <2> DEFINE s == Step("tryLock", "management")
  <2>1. /\ s \in [call : Calls, path : Paths] /\ at' = [at EXCEPT ![p] = s]
        /\ s.call = "tryLock" /\ s.path = "management"
    BY <1>3 DEF Go, Step, Calls, Paths
  <2> HIDE DEF s
  <2>2. /\ record # LiveRecord(p) /\ SocketInv' /\ p \in Managed
        /\ at'[p] = s /\ \A r \in Owners \ {p} : at'[r] = at[r]
    BY <1>1, <2>1, ManagingMoves
  <2>3. TypeOK'
    BY <1>1, <1>3, <2>1, MoveTyped DEF Inv, TypeOK, files
  <2>4. RecordInv'
    BY <1>1, <2>1, <2>2, RecordsAlike
  <2>5. OneClaim'
    BY <1>1, <1>2, <1>3, <2>1, <2>2 DEF Inv, OneClaim, Early
  <2>6. ASSUME NEW r \in Owners, ClaimIsOpen(r)
        PROVE  ClaimIsOpen(r)'
    <3>1. r = q
      BY <1>3, <2>6 DEF ClaimIsOpen, Claim
    <3>2. r \notin past'.served /\ p \notin past'.served
      BY <1>1, <2>2, <2>6 DEF ClaimIsOpen
    <3>3. \A t \in Owners : <<p, t>> \in claimed' => t = r
      BY <1>2, <1>3, <3>1
    <3>4. \A u \in Owners \ {p}, t \in Owners : <<u, t>> \in claimed' <=> <<u, t>> \in claimed
      BY <1>3
    <3> QED
      BY <1>1, <2>1, <2>6, <3>2, <3>3, <3>4, OpenKept
  <2>7. LauncherInv'
    BY <1>1, <2>1, <2>2, <2>6 DEF Inv, LauncherInv
  <2> QED
    BY <2>2, <2>3, <2>4, <2>5, <2>7 DEF Inv
<1>4. ASSUME NEW q \in Owners, record # Claim(q) \/ q \in marked,
             record.kind = "claim" => record.of = q, Go(p, "publish", "management"),
             claimed' = claimed
      PROVE  Inv'
  <2> DEFINE s == Step("publish", "management")
  <2>1. /\ s \in [call : Calls, path : Paths] /\ at' = [at EXCEPT ![p] = s]
        /\ s.call = "publish" /\ s.path = "management"
    BY <1>4 DEF Go, Step, Calls, Paths
  <2> HIDE DEF s
  <2>2. /\ record # LiveRecord(p) /\ SocketInv' /\ p \in Managed
        /\ at'[p] = s /\ \A r \in Owners \ {p} : at'[r] = at[r]
    BY <1>1, <2>1, ManagingMoves
  <2>3. TypeOK'
    BY <1>1, <1>4, <2>1, MoveTyped DEF Inv, TypeOK, files
  <2>4. RecordInv'
    BY <1>1, <2>1, <2>2, RecordsAlike
  <2>5. OneClaim'
    BY <1>1, <1>2, <1>4, <2>1, <2>2 DEF Inv, OneClaim, Early
  <2>6. \A r \in Owners : ~(launcher[r] \in {"waiting", "won"} /\ r \notin marked)
    BY <1>4 DEF Inv, LauncherInv, ClaimIsOpen, Claim
  <2>7. LauncherInv'
    BY <1>1, <2>1, <2>2, <2>6 DEF Inv, LauncherInv
  <2> QED
    BY <2>2, <2>3, <2>4, <2>5, <2>7 DEF Inv
<1> QED
  BY <1>3, <1>4 DEF OpenClaim

\* TryLock keeps the invariant.
LEMMA TryLockKeeps ==
  ASSUME Inv, NEW p \in Owners, TryLock(p)
  PROVE  Inv'
<1>1. /\ at[p].call = "tryLock" /\ UNCHANGED <<files, lock, record, marked, claimed, launcher>>
  BY DEF TryLock, In, Step
<1> PICK q \in Owners :
      /\ <<p, q>> \in claimed
      /\ \/ /\ claimLock[q] = "free"
            /\ claimLock' = [claimLock EXCEPT ![q] = p]
            /\ Go(p, "mark", "management")
            /\ UNCHANGED past
         \/ /\ claimLock[q] # "free"
            /\ FailPublish(p)
            /\ past' = [past EXCEPT !.failed = @ \cup {p}]
            /\ UNCHANGED claimLock
  BY DEF TryLock
<1>2. CASE /\ claimLock[q] = "free" /\ claimLock' = [claimLock EXCEPT ![q] = p]
           /\ Go(p, "mark", "management") /\ UNCHANGED past
  <2> DEFINE s == Step("mark", "management")
  <2>1. /\ s \in [call : Calls, path : Paths] /\ at' = [at EXCEPT ![p] = s]
        /\ s.call = "mark" /\ s.path = "management"
    BY <1>2 DEF Go, Step, Calls, Paths
  <2> HIDE DEF s
  <2>2. /\ record # LiveRecord(p) /\ SocketInv' /\ p \in Managed
        /\ at'[p] = s /\ \A r \in Owners \ {p} : at'[r] = at[r]
    BY <1>1, <1>2, <2>1, ManagingMoves
  <2>3. /\ claimLock' \in [Owners -> Owners \cup {"free", "launcher"}]
        /\ \A r \in Owners : claimLock'[r] = IF r = q THEN p ELSE claimLock[r]
    BY <1>2 DEF Inv, TypeOK
  <2>4. TypeOK'
    BY <1>1, <1>2, <2>1, <2>3, MoveTyped DEF Inv, TypeOK, files
  <2>5. RecordInv'
    BY <1>1, <1>2, <2>1, <2>2, RecordsAlike
  <2>6. OneClaim'
    BY <1>1, <1>2, <2>1, <2>2, <2>3, OwnershipAssumption DEF Inv, OneClaim, Early
  <2>7. ASSUME NEW r \in Owners, ClaimIsOpen(r)
        PROVE  ClaimIsOpen(r)'
    <3>1. r \notin past'.served /\ p \notin past'.served
      BY <1>1, <1>2, <2>2, <2>7 DEF ClaimIsOpen
    <3>2. \A t \in Owners : <<p, t>> \in claimed' => t = r
      BY <1>1, <2>2, <2>7 DEF ClaimIsOpen
    <3> QED
      BY <1>1, <1>2, <2>1, <2>7, <3>1, <3>2, OpenKept
  <2>8. LauncherInv'
    BY <1>1, <1>2, <2>1, <2>2, <2>3, <2>7 DEF Inv, LauncherInv
  <2> QED
    BY <2>2, <2>4, <2>5, <2>6, <2>8 DEF Inv
<1>3. CASE /\ FailPublish(p) /\ past' = [past EXCEPT !.failed = @ \cup {p}] /\ UNCHANGED claimLock
  BY <1>1, <1>3, FailPublishKeeps DEF records
<1> QED
  BY <1>2, <1>3

\* Mark keeps the invariant.
LEMMA MarkKeeps ==
  ASSUME Inv, NEW p \in Owners, Mark(p)
  PROVE  Inv'
<1>1. /\ at[p].call = "mark" /\ UNCHANGED <<files, lock, record, claimed, launcher>>
  BY DEF Mark, In, Step
<1> PICK q \in Owners :
      /\ <<p, q>> \in claimed
      /\ \/ /\ q \notin marked /\ record = Claim(q)
            /\ marked' = marked \cup {q}
            /\ Go(p, "publish", "management")
            /\ UNCHANGED <<claimLock, past>>
         \/ /\ claimLock' = [claimLock EXCEPT ![q] = "free"]
            /\ FailPublish(p)
            /\ past' = [past EXCEPT !.failed = @ \cup {p}]
            /\ UNCHANGED marked
  BY DEF Mark
<1>2. claimLock[q] = p /\ \A r \in Owners : <<p, r>> \in claimed => r = q
  BY <1>1 DEF Inv, OneClaim
<1>3. CASE /\ q \notin marked /\ record = Claim(q) /\ marked' = marked \cup {q}
           /\ Go(p, "publish", "management") /\ UNCHANGED <<claimLock, past>>
  <2> DEFINE s == Step("publish", "management")
  <2>1. /\ s \in [call : Calls, path : Paths] /\ at' = [at EXCEPT ![p] = s]
        /\ s.call = "publish" /\ s.path = "management"
    BY <1>3 DEF Go, Step, Calls, Paths
  <2> HIDE DEF s
  <2>2. /\ record # LiveRecord(p) /\ SocketInv' /\ p \in Managed
        /\ at'[p] = s /\ \A r \in Owners \ {p} : at'[r] = at[r]
    BY <1>1, <1>3, <2>1, ManagingMoves
  <2>3. TypeOK'
    BY <1>1, <1>3, <2>1, MoveTyped DEF Inv, TypeOK, files
  <2>4. RecordInv'
    BY <1>1, <1>3, <2>1, <2>2, RecordsAlike
  <2>5. OneClaim'
    BY <1>1, <1>3, <2>1, <2>2 DEF Inv, OneClaim, Early
  <2>6. \A r \in Owners : ~(launcher[r] \in {"waiting", "won"} /\ r \notin marked')
    BY <1>3 DEF Inv, LauncherInv, ClaimIsOpen, Claim
  <2>7. launcher[q] # "won"
    BY <1>2, OwnershipAssumption DEF Inv, LauncherInv
  <2>8. LauncherInv'
    BY <1>1, <1>3, <2>1, <2>2, <2>6, <2>7 DEF Inv, LauncherInv
  <2> QED
    BY <2>2, <2>3, <2>4, <2>5, <2>8 DEF Inv
<1>4. CASE /\ claimLock' = [claimLock EXCEPT ![q] = "free"] /\ FailPublish(p)
           /\ past' = [past EXCEPT !.failed = @ \cup {p}] /\ UNCHANGED marked
  <2> DEFINE s == Step("close", "management")
  <2>1. /\ s \in [call : Calls, path : Paths] /\ at' = [at EXCEPT ![p] = s]
        /\ s.call = "close" /\ s.path = "management"
    BY <1>4 DEF FailPublish, Go, Step, Calls, Paths
  <2> HIDE DEF s
  <2>2. /\ past' \in [served : SUBSET Owners, crashed : SUBSET Owners, failed : SUBSET Owners]
        /\ past'.served = past.served /\ past'.crashed = past.crashed
    BY <1>4, FailureNoted DEF Inv
  <2>3. /\ record # LiveRecord(p) /\ SocketInv' /\ p \in Managed
        /\ at'[p] = s /\ \A r \in Owners \ {p} : at'[r] = at[r]
    BY <1>1, <2>1, <2>2, ManagingMoves
  <2>4. /\ claimLock' \in [Owners -> Owners \cup {"free", "launcher"}]
        /\ \A r \in Owners : claimLock'[r] = IF r = q THEN "free" ELSE claimLock[r]
    BY <1>4 DEF Inv, TypeOK
  <2>5. TypeOK'
    BY <1>1, <1>4, <2>1, <2>2, <2>4, MoveTyped DEF Inv, TypeOK, files
  <2>6. RecordInv'
    BY <1>1, <2>1, <2>2, <2>3, RecordsAlike
  <2>7. OneClaim'
    BY <1>1, <1>2, <2>1, <2>3, <2>4 DEF Inv, OneClaim, Early
  <2>8. ASSUME NEW r \in Owners, ClaimIsOpen(r)
        PROVE  ClaimIsOpen(r)'
    <3>1. r \notin past'.served /\ p \notin past'.served
      BY <1>1, <2>2, <2>3, <2>8 DEF ClaimIsOpen
    <3> QED
      BY <1>1, <2>1, <2>2, <2>8, <3>1, OpenKept
  <2>9. launcher[q] # "won"
    BY <1>2, OwnershipAssumption DEF Inv, LauncherInv
  <2>10. LauncherInv'
    BY <1>1, <1>4, <2>1, <2>2, <2>3, <2>4, <2>8, <2>9 DEF Inv, LauncherInv
  <2> QED
    BY <2>3, <2>5, <2>6, <2>7, <2>10 DEF Inv
<1> QED
  BY <1>3, <1>4

\* Publish keeps the invariant.
LEMMA PublishKeeps ==
  ASSUME Inv, NEW p \in Owners, Publish(p)
  PROVE  Inv'
<1> DEFINE s == Step("serve", "presentation")
<1>1. /\ s \in [call : Calls, path : Paths] /\ at' = [at EXCEPT ![p] = s]
      /\ s = Step("serve", "presentation") /\ s.call = "serve" /\ s.path = "presentation"
      /\ at[p].call = "publish"
  BY DEF Publish, Go, In, Step, Calls, Paths
<1> HIDE DEF s
<1>2. /\ UNCHANGED <<files, lock, marked, claimed, launcher>> /\ record' = LiveRecord(p)
      /\ claimLock' \in [Owners -> Owners \cup {"free", "launcher"}]
      /\ \A q \in Owners : claimLock'[q] = IF claimLock[q] = p THEN "free" ELSE claimLock[q]
  BY DEF Publish, FreeClaims, Inv, TypeOK
<1>3. /\ past' \in [served : SUBSET Owners, crashed : SUBSET Owners, failed : SUBSET Owners]
      /\ past'.crashed = past.crashed /\ past'.served = past.served \cup {p}
  <2>1. past' = [served |-> past.served \cup {p}, crashed |-> past.crashed, failed |-> past.failed]
    BY DEF Publish, Inv, TypeOK
  <2> QED
    BY <2>1 DEF Inv, TypeOK
<1>4. /\ SocketInv' /\ p \in Managed /\ lock # p /\ Presenting(p)
      /\ at'[p] = s /\ \A r \in Owners \ {p} : at'[r] = at[r]
  BY <1>1, <1>2, <1>3, ManagingMoves
<1>5. TypeOK'
  <2>1. record' \in Records /\ lock' = lock
    BY <1>2 DEF Records
  <2> QED
    BY <1>1, <1>2, <1>3, <2>1, MoveTyped DEF Inv, TypeOK, files
<1>6. RecordInv'
  <2>1. \A q \in Owners \ {p} : at'[q].call \notin {"entomb", "recordUnlink"}
    BY <1>4, OneReplaces
  <2> QED
    BY <1>1, <1>2, <1>3, <1>4, <2>1 DEF RecordInv, LiveIsOwned, ReplacesItsOwn, LiveRecord
<1>7. OneClaim'
  BY <1>1, <1>2, <1>4 DEF Inv, OneClaim, Early
<1>8. LauncherInv'
  <2>1. \A r \in Owners : ~(launcher[r] \in {"waiting", "won"} /\ r \notin marked)
    BY <1>1, <1>4, NoneOpen
  <2> QED
    BY <1>1, <1>2, <1>3, <1>4, <2>1, OwnershipAssumption DEF Inv, LauncherInv
<1> QED
  BY <1>4, <1>5, <1>6, <1>7, <1>8 DEF Inv

\* What launchers do changes no socket.
LEMMA SocketsStay ==
  ASSUME SocketInv, UNCHANGED <<at, files, lock, past>>
  PROVE  SocketInv'
BY DEF SocketInv, SocketsOf, WellPlaced, LockIsExclusive, PresentationHeld, ManagementHeld,
       GuardsKnow, StaleIsStale, Presenting, Managing, Leaving, Holds, Listening, files

\* Prepare keeps the invariant.
LEMMA PrepareKeeps ==
  ASSUME Inv, NEW p \in Owners, Prepare(p)
  PROVE  Inv'
<1>1. /\ UNCHANGED <<at, files, lock, marked, claimed, claimLock, past>>
      /\ record = NoRecord /\ record' = Claim(p) /\ p \in Managed /\ at[p].call = "off"
      /\ launcher' = [launcher EXCEPT ![p] = "waiting"]
      /\ \A q \in Owners : at[q].call \in {"off", "dead"}
  BY DEF Prepare, In, Step
<1>2. TypeOK'
  BY <1>1 DEF Inv, TypeOK, Records, files
<1>3. SocketInv'
  BY <1>1, SocketsStay DEF Inv
<1>4. RecordInv'
  BY <1>1 DEF RecordInv, LiveIsOwned, ReplacesItsOwn, LiveRecord, Claim
<1>5. OneClaim'
  BY <1>1 DEF Inv, OneClaim
<1>6. \A r \in Owners : ~(launcher[r] \in {"waiting", "won"} /\ r \notin marked)
  BY <1>1 DEF Inv, LauncherInv, ClaimIsOpen, NoRecord, Claim
<1>7. /\ \A r \in Owners \ {p} : launcher'[r] = launcher[r]
      /\ launcher'[p] = "waiting"
  BY <1>1 DEF Inv, TypeOK
<1>8. ClaimIsOpen(p)'
  BY <1>1, OwnershipAssumption DEF Inv, LauncherInv, ClaimIsOpen, Claim
<1>9. LauncherInv'
  BY <1>1, <1>6, <1>7, <1>8 DEF Inv, LauncherInv
<1> QED
  BY <1>2, <1>3, <1>4, <1>5, <1>9 DEF Inv

\* TakeBack keeps the invariant.
LEMMA TakeBackKeeps ==
  ASSUME Inv, NEW p \in Owners, TakeBack(p)
  PROVE  Inv'
<1>1. /\ UNCHANGED <<at, files, lock, record, marked, claimed, past>> /\ launcher[p] = "waiting"
  BY DEF TakeBack
<1>2. /\ claimLock' \in [Owners -> Owners \cup {"free", "launcher"}]
      /\ launcher' \in [Owners -> {"none", "waiting", "won", "lost"}]
      /\ \A q \in Owners \ {p} : launcher'[q] = launcher[q] /\ claimLock'[q] = claimLock[q]
      /\ launcher'[p] \in {"won", "lost"}
      /\ launcher'[p] = "won" => claimLock'[p] = "launcher" /\ p \notin marked /\ claimLock[p] = "free"
      /\ launcher'[p] = "lost" => claimLock'[p] = claimLock[p]
  BY DEF TakeBack, Inv, TypeOK
<1>3. TypeOK'
  BY <1>1, <1>2 DEF Inv, TypeOK, files
<1>4. SocketInv'
  BY <1>1, SocketsStay DEF Inv
<1>5. RecordInv'
  BY <1>1 DEF Inv, RecordInv, LiveIsOwned, ReplacesItsOwn, LiveRecord
<1>6. OneClaim'
  BY <1>1, <1>2, OwnershipAssumption DEF Inv, OneClaim
<1>7. \A r \in Owners : ClaimIsOpen(r) => ClaimIsOpen(r)'
  BY <1>1 DEF ClaimIsOpen, Claim
<1>8. LauncherInv'
  BY <1>1, <1>2, <1>7 DEF Inv, LauncherInv
<1> QED
  BY <1>3, <1>4, <1>5, <1>6, <1>8 DEF Inv


-----------------------------------------------------------------------------
(***************************************************************************)
(* The invariant, and what follows from it.                                *)
(***************************************************************************)
LEMMA InitInv == Init => Inv
<1> SUFFICES ASSUME Init
             PROVE  Inv
  OBVIOUS
<1>1. /\ \A p \in Owners : /\ at[p].call = "off" /\ at[p].path = "presentation"
                           /\ launcher[p] = "none"
                           /\ \A k \in Paths : bound[p][k] = None /\ guard[p][k] = None
      /\ \A k \in Paths : path[k].by = None
      /\ lock = None /\ record = NoRecord /\ claimed = {} /\ past.served = {}
  BY DEF Init, Step, Nothing, Stale
<1>2. TypeOK
  <2>1. /\ past \in [served : SUBSET Owners, crashed : SUBSET Owners, failed : SUBSET Owners]
        /\ at \in [Owners -> [call : Calls, path : Paths]]
    BY DEF Init, Step, Calls, Paths
  <2>2. path \in [Paths -> {Nothing} \cup [ino : Inodes, by : Owners \cup {None}]]
    <3>1. Stale \subseteq [ino : Inodes, by : Owners \cup {None}]
      BY DEF Stale
    <3> QED
      BY <3>1 DEF Init
  <2> QED
    BY <2>1, <2>2 DEF Init, TypeOK, Records
<1>3. SocketInv
  BY <1>1, PathsAre, OwnershipAssumption
     DEF SocketInv, SocketsOf, WellPlaced, LockIsExclusive, PresentationHeld, ManagementHeld,
         GuardsKnow, StaleIsStale, Presenting, Managing, Leaving, Step, Claiming
<1>4. RecordInv
  BY <1>1 DEF RecordInv, LiveIsOwned, ReplacesItsOwn, NoRecord, LiveRecord
<1>5. OneClaim /\ LauncherInv
  BY <1>1 DEF OneClaim, LauncherInv
<1> QED
  BY <1>2, <1>3, <1>4, <1>5 DEF Inv

\* Every step of every owner, launcher and the file system keeps the invariant.
LEMMA NextInv == Inv /\ [Next]_vars => Inv'
<1> SUFFICES ASSUME Inv, [Next]_vars
             PROVE  Inv'
  OBVIOUS
<1>1. CASE UNCHANGED vars
  <2>1. UNCHANGED <<at, files, lock, past>> /\ UNCHANGED <<record, marked, claimed, claimLock, launcher>>
    BY <1>1 DEF vars, files
  <2>2. TypeOK'
    BY <1>1 DEF Inv, TypeOK, vars
  <2>3. SocketInv'
    BY <2>1, SocketsStay DEF Inv
  <2>4. RecordInv'
    BY <2>1 DEF Inv, RecordInv, LiveIsOwned, ReplacesItsOwn, LiveRecord
  <2>5. OneClaim' /\ LauncherInv'
    BY <2>1 DEF Inv, OneClaim, LauncherInv, ClaimIsOpen, Claim
  <2> QED
    BY <2>2, <2>3, <2>4, <2>5 DEF Inv
<1>2. ASSUME NEW p \in Owners,
             \/ Prepare(p) \/ Start(p) \/ SpawnFails(p) \/ OpenClaim(p) \/ TryLock(p)
             \/ Mark(p) \/ Publish(p) \/ TakeBack(p) \/ Finish(p) \/ Entomb(p)
             \/ RecordCheck(p) \/ RecordUnlink(p) \/ Crash(p)
      PROVE  Inv'
  BY <1>2, PrepareKeeps, StartKeeps, SpawnFailsKeeps, OpenClaimKeeps, TryLockKeeps, MarkKeeps,
     PublishKeeps, TakeBackKeeps, FinishKeeps, EntombKeeps, RecordCheckKeeps, RecordUnlinkKeeps,
     CrashKeeps
<1>3. ASSUME NEW p \in Owners, NEW k \in Paths,
             \/ Lock(p, k) \/ Stat(p, k) \/ Connect(p, k) \/ Remove(p, k) \/ Bind(p, k)
             \/ Identify(p, k) \/ CloseListener(p, k) \/ Check(p, k) \/ Unlink(p, k)
      PROVE  Inv'
  BY <1>3, LockKeeps, StatKeeps, ConnectKeeps, RemoveKeeps, BindKeeps, IdentifyKeeps,
     CloseListenerKeeps, CheckKeeps, UnlinkKeeps
<1> QED
  BY <1>1, <1>2, <1>3 DEF Next

\* The inductive invariant: whose every socket, claim and record is, in every
\* order of starts, ends and kills.
THEOREM InvariantHolds == Spec => []Inv
<1>1. Init => Inv
  BY InitInv
<1>2. Inv /\ [Next]_vars => Inv'
  BY NextInv
<1> QED
  BY <1>1, <1>2, PTL DEF Spec

\* Every variable keeps its type.
THEOREM TypeCorrect == Spec => []TypeOK
<1>1. Inv => TypeOK
  BY DEF Inv
<1> QED
  BY <1>1, InvariantHolds, PTL

\* A process that serves is reachable under its paths: no other process that
\* starts, ends or dies removes or replaces its sockets.
THEOREM ServersStayReachable == Spec => []ServingReachable
<1>1. Inv => ServingReachable
  <2> SUFFICES ASSUME Inv, NEW p \in Owners, at[p].call \in {"serve", "entomb"}, NEW k \in Served(p)
               PROVE  bound[p][k] # None /\ path[k] = [ino |-> bound[p][k], by |-> p]
    BY DEF ServingReachable
  <2>1. SocketsOf(p)
    BY DEF Inv, SocketInv
  <2>2. Presenting(p) /\ (k = "management" => Managing(p))
    BY <2>1 DEF SocketsOf, WellPlaced, Presenting, Managing, Served
  <2>3. k \in Paths
    BY PathsAre DEF Served
  <2> QED
    BY <2>1, <2>2, <2>3, PathsAre DEF SocketsOf, PresentationHeld, ManagementHeld, Holds
<1> QED
  BY <1>1, InvariantHolds, PTL

\* The launcher's rollback and the owner's Ready exclude each other.
THEOREM RollbackOrReady == Spec => []RollbackExcludesReady
<1>1. Inv => RollbackExcludesReady
  BY DEF Inv, LauncherInv, ClaimIsOpen, RollbackExcludesReady, Claim, LiveRecord
<1> QED
  BY <1>1, InvariantHolds, PTL

\* An owner that was not killed leaves no socket and no live record behind.
THEOREM OrderlyEndsLeaveNothing == Spec => []OrderlyLeavesNothing
<1>1. Inv => OrderlyLeavesNothing
  <2> SUFFICES ASSUME Inv, NEW p \in Owners, at[p].call = "dead", p \notin past.crashed
               PROVE  (\A k \in Paths : path[k].by # p) /\ record # LiveRecord(p)
    BY DEF OrderlyLeavesNothing
  <2>1. at[p].path = "presentation" /\ SocketsOf(p)
    BY DEF Inv, SocketInv, SocketsOf, WellPlaced
  <2>2. ~Presenting(p) /\ ~Managing(p) /\ ~Leaving(p)
    BY <2>1 DEF Presenting, Managing, Leaving, Step
  <2>3. \A k \in Paths : path[k].by # p
    BY <2>1, <2>2, PathsAre DEF SocketsOf, PresentationHeld, ManagementHeld
  <2>4. record # LiveRecord(p)
    BY <2>1 DEF Inv, RecordInv, LiveIsOwned
  <2> QED
    BY <2>3, <2>4
<1> QED
  BY <1>1, InvariantHolds, PTL

\* A record is changed by the process it names only, as long as that lives, and
\* a tombstone stays until another owner publishes.
THEOREM RecordsAreKept == Spec => RecordKept
<1> DEFINE Kept == record' = record \/
                   CASE record.kind = "live" ->
                          at'[record.of].call = "dead" \/ at'[record.of] # at[record.of]
                     [] record.kind = "tombstone" -> record'.kind = "live"
                     [] OTHER -> TRUE
<1>1. Inv /\ [Next]_vars => [Kept]_vars
  <2> SUFFICES ASSUME Inv, Next, record' # record
               PROVE  Kept
    OBVIOUS
  <2>1. PICK p \in Owners : Prepare(p) \/ Publish(p) \/ Entomb(p) \/ RecordUnlink(p)
    BY DEF Next, Start, SpawnFails, OpenClaim, TryLock, Mark, TakeBack, Finish, RecordCheck, Crash,
           Lock, Stat, Connect, Remove, Bind, Identify, CloseListener, Check, Unlink, records
  <2>2. CASE Prepare(p)
    <3>1. record.kind = "none"
      BY <2>2 DEF Prepare, NoRecord
    <3> QED
      BY <3>1
  <2>3. CASE Publish(p)
    <3>1. Presenting(p) /\ at[p].call = "publish" /\ at'[p] # at[p] /\ record'.kind = "live"
      BY <2>3 DEF Publish, In, Go, Step, Presenting, Inv, TypeOK, LiveRecord
    <3>2. ASSUME NEW q \in Owners, record = LiveRecord(q), at[q].call # "dead"
          PROVE  q = p
      <4>1. Presenting(q)
        BY <3>2 DEF Inv, RecordInv, LiveIsOwned, SocketInv, SocketsOf, WellPlaced, Presenting
      <4> QED
        BY <3>1, <4>1, OnePresents
    <3>3. ASSUME record.kind = "live"
          PROVE  at'[record.of].call = "dead" \/ at'[record.of] # at[record.of]
      <4>1. PICK q \in Owners : record = LiveRecord(q)
        BY <3>3 DEF Inv, TypeOK, Records, NoRecord, Claim, Tombstone, LiveRecord
      <4>2. record.of = q
        BY <4>1 DEF LiveRecord
      <4>3. CASE at[q].call = "dead"
        BY <2>3, <3>1, <4>2, <4>3 DEF Publish, Go, Inv, TypeOK
      <4>4. CASE at[q].call # "dead"
        BY <3>1, <3>2, <4>1, <4>2, <4>4
      <4> QED
        BY <4>3, <4>4
    <3> QED
      BY <3>1, <3>3
  <2>4. CASE Entomb(p) \/ RecordUnlink(p)
    <3>1. record = LiveRecord(p) /\ at'[p] # at[p]
      <4>1. at[p].call \in {"entomb", "recordUnlink"}
        BY <2>4 DEF Entomb, RecordUnlink, In, Step
      <4>2. at'[p].call \in {"close", "check"}
        BY <2>4 DEF Entomb, RecordUnlink, Drop, Go, Step, Inv, TypeOK
      <4> QED
        BY <4>1, <4>2 DEF Inv, RecordInv, ReplacesItsOwn
    <3>2. record.kind = "live" /\ record.of = p
      BY <3>1 DEF LiveRecord
    <3> QED
      BY <3>1, <3>2
  <2> QED
    BY <2>1, <2>2, <2>3, <2>4
<1> QED
  BY <1>1, InvariantHolds, PTL DEF Spec, RecordKept
=============================================================================
