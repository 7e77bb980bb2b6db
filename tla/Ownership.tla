------------------------------ MODULE Ownership ------------------------------
(***************************************************************************)
(* Several owner processes that claim the same socket paths and the same   *)
(* record, one after the other or at once: create_listener, SocketGuard,   *)
(* RecordGuard and ready_claim of src/platform.rs, in the order in which   *)
(* run of src/runtime.rs calls them and Rust drops what they return.       *)
(*                                                                         *)
(* Each action is one system call that another process can observe, and a  *)
(* process may die between any two of them.  at[p] is the next call of     *)
(* process p and the path it is about.  A managed owner has a launcher,    *)
(* which may have left an empty record for it and may take it back.        *)
(***************************************************************************)
EXTENDS Integers, FiniteSets

CONSTANTS
  Owners,    \* the processes, each started once
  Managed,   \* those started with --management-v1
  Inodes,    \* numbers of sockets, free for reuse once closed and removed
  None

ASSUME OwnershipAssumption ==
  /\ Managed \subseteq Owners
  /\ None \notin Owners \cup Inodes
  /\ "free" \notin Owners /\ "launcher" \notin Owners

VARIABLES
  at,        \* the next step of each process
  path,      \* what each socket path names: an inode and who bound it
  bound,     \* the listener each process holds open on each path
  guard,     \* SocketGuard: the inode a process takes for its own, if it knows
  lock,      \* the lock on the parent directory
  record,    \* what the record path names
  marked,    \* the claims that have been written to
  claimed,   \* RecordGuard::publish: the claim a process has opened
  claimLock, \* who holds the lock on each claim
  launcher,  \* what each launcher has done
  past       \* history: "served" and "crashed" processes, fs failures

vars == <<at, path, bound, guard, lock, record, marked, claimed, claimLock, launcher, past>>

Paths == {"presentation", "management"}

Nothing == [ino |-> None, by |-> None]

\* The files the record path may name.
Claim(p) == [kind |-> "claim", of |-> p]
LiveRecord(p) == [kind |-> "live", of |-> p]
Tombstone(p) == [kind |-> "tombstone", of |-> p]
NoRecord == [kind |-> "none", of |-> None]

Step(call, k) == [call |-> call, path |-> k]

Go(p, call, k) == at' = [at EXCEPT ![p] = Step(call, k)]

In(p, call, k) == at[p] = Step(call, k)

files == <<path, bound, guard>>
records == <<record, marked, claimed, claimLock, launcher>>

-----------------------------------------------------------------------------
\* A socket that an owner of earlier days left behind.
Stale == {[ino |-> i, by |-> None] : i \in Inodes}

Init ==
  /\ at = [p \in Owners |-> Step("off", "presentation")]
  /\ path \in [Paths -> {Nothing} \cup Stale]
  /\ path["presentation"] # path["management"] \/ path["presentation"] = Nothing
  /\ bound = [p \in Owners |-> [k \in Paths |-> None]]
  /\ guard = [p \in Owners |-> [k \in Paths |-> None]]
  /\ lock = None
  /\ record = NoRecord
  /\ marked = {}
  /\ claimed = {}
  /\ claimLock = [p \in Owners |-> "free"]
  /\ launcher = [p \in Owners |-> "none"]
  /\ past = [served |-> {}, crashed |-> {}, failed |-> {}]

\* A launcher leaves an empty record and keeps it open; it does so where no other
\* owner is under way.
Prepare(p) ==
  /\ p \in Managed
  /\ In(p, "off", "presentation")
  /\ launcher[p] = "none"
  /\ \A q \in Owners : at[q].call \in {"off", "dead"}
  /\ record = NoRecord
  /\ record' = Claim(p)
  /\ launcher' = [launcher EXCEPT ![p] = "waiting"]
  /\ UNCHANGED <<at, files, lock, marked, claimed, claimLock, past>>

Start(p) ==
  /\ In(p, "off", "presentation")
  /\ Go(p, "lock", "presentation")
  /\ UNCHANGED <<files, lock, records, past>>

-----------------------------------------------------------------------------
(***************************************************************************)
(* create_listener.  What fails undoes what was done, innermost first.     *)
(***************************************************************************)
\* Where a claim of path k that has bound nothing goes when it fails.
Abandon(p, k) == Go(p, IF k = "management" THEN "check" ELSE "dead", "presentation")

\* Mutant: the claim is not exclusive.
LockShared(p, k) ==
  /\ In(p, "lock", k)
  /\ lock' = IF lock = None THEN p ELSE lock
  /\ Go(p, "stat", k)
  /\ UNCHANGED <<files, records, past>>

Lock(p, k) ==
  /\ In(p, "lock", k)
  /\ \/ /\ lock = None
        /\ lock' = p
        /\ Go(p, "stat", k)
     \/ /\ lock # None
        /\ Abandon(p, k)
        /\ UNCHANGED lock
  /\ UNCHANGED <<files, records, past>>

Unlock(p) == lock' = IF lock = p THEN None ELSE lock

\* existing_metadata
Stat(p, k) ==
  /\ In(p, "stat", k)
  /\ Go(p, IF path[k] = Nothing THEN "bind" ELSE "connect", k)
  /\ UNCHANGED <<files, lock, records, past>>

\* UnixStream::connect: somebody listens, or it is refused, or nothing is there.
Listening(k) == \E q \in Owners : path[k].ino # None /\ bound[q][k] = path[k].ino

Connect(p, k) ==
  /\ In(p, "connect", k)
  /\ \/ /\ Listening(k)
        /\ Abandon(p, k)
        /\ Unlock(p)
     \/ /\ ~Listening(k)
        /\ Go(p, "remove", k)
        /\ UNCHANGED lock
  /\ UNCHANGED <<files, records, past>>

\* remove_file, which fails when the path has gone meanwhile.
Remove(p, k) ==
  /\ In(p, "remove", k)
  /\ path' = [path EXCEPT ![k] = Nothing]
  /\ \/ /\ path[k] # Nothing
        /\ Go(p, "bind", k)
        /\ UNCHANGED lock
     \/ /\ path[k] = Nothing
        /\ Abandon(p, k)
        /\ Unlock(p)
  /\ UNCHANGED <<bound, guard, records, past>>

FreeInodes ==
  Inodes \ ({path[k].ino : k \in Paths} \cup {bound[q][k] : q \in Owners, k \in Paths})

\* UnixListener::bind, which fails at a path that is taken, and may fail otherwise.
Bind(p, k) ==
  /\ In(p, "bind", k)
  /\ \/ /\ path[k] = Nothing
        /\ \E i \in FreeInodes :
             /\ path' = [path EXCEPT ![k] = [ino |-> i, by |-> p]]
             /\ bound' = [bound EXCEPT ![p][k] = i]
        /\ Go(p, "identify", k)
        /\ UNCHANGED <<lock, past>>
     \/ /\ Abandon(p, k)
        /\ Unlock(p)
        /\ past' = IF path[k] = Nothing THEN [past EXCEPT !.failed = @ \cup {p}] ELSE past
        /\ UNCHANGED <<path, bound>>
  /\ UNCHANGED <<guard, records>>

\* symlink_metadata, chmod, and the end of the claim.
Identify(p, k) ==
  /\ In(p, "identify", k)
  /\ \/ /\ path[k] # Nothing
        /\ guard' = [guard EXCEPT ![p][k] = path[k].ino]
        /\ Unlock(p)
        /\ IF p \in Managed
           THEN IF k = "presentation" THEN Go(p, "lock", "management") ELSE Go(p, "open", k)
           ELSE Go(p, "serve", k)
        /\ past' = IF p \in Managed THEN past ELSE [past EXCEPT !.served = @ \cup {p}]
     \/ \* a system call fails, before or after the guard knows its socket
        /\ Go(p, "check", k)
        /\ guard' \in {guard, [guard EXCEPT ![p][k] = path[k].ino]}
        /\ past' = [past EXCEPT !.failed = @ \cup {p}]
        /\ UNCHANGED lock
  /\ UNCHANGED <<path, bound, records>>

-----------------------------------------------------------------------------
(***************************************************************************)
(* Prepared::publish: RecordGuard::publish with its Ready claim.           *)
(***************************************************************************)
\* An error of publish drops the management listener and its guard.
FailPublish(p) == Go(p, "close", "management")

\* What comes between the sockets and the record fails, such as spawning the child.
SpawnFails(p) ==
  /\ In(p, "open", "management")
  /\ FailPublish(p)
  /\ past' = [past EXCEPT !.failed = @ \cup {p}]
  /\ UNCHANGED <<files, lock, records>>

\* ready_claim: an empty record is a claim, another file or none is not.
OpenClaim(p) ==
  /\ In(p, "open", "management")
  /\ \E q \in Owners :
       \/ /\ record = Claim(q) /\ q \notin marked
          /\ claimed' = claimed \cup {<<p, q>>}
          /\ Go(p, "tryLock", "management")
       \/ /\ record # Claim(q) \/ q \in marked
          /\ record.kind = "claim" => record.of = q
          /\ Go(p, "publish", "management")
          /\ UNCHANGED claimed
  /\ UNCHANGED <<files, lock, record, marked, claimLock, launcher, past>>

\* Mutant: a claim that is held is marked all the same.
TryLockAnyway(p) ==
  /\ In(p, "tryLock", "management")
  /\ \E q \in Owners :
       /\ <<p, q>> \in claimed
       /\ claimLock' = [claimLock EXCEPT ![q] = p]
       /\ Go(p, "mark", "management")
       /\ UNCHANGED past
  /\ UNCHANGED <<files, lock, record, marked, claimed, launcher>>

TryLock(p) ==
  /\ In(p, "tryLock", "management")
  /\ \E q \in Owners :
       /\ <<p, q>> \in claimed
       /\ \/ /\ claimLock[q] = "free"
             /\ claimLock' = [claimLock EXCEPT ![q] = p]
             /\ Go(p, "mark", "management")
             /\ UNCHANGED past
          \/ /\ claimLock[q] # "free"
             /\ FailPublish(p)
             /\ past' = [past EXCEPT !.failed = @ \cup {p}]
             /\ UNCHANGED claimLock
  /\ UNCHANGED <<files, lock, record, marked, claimed, launcher>>

\* The claim is looked at again and written to; it fails when the claim is no
\* longer one, and may fail otherwise.
Mark(p) ==
  /\ In(p, "mark", "management")
  /\ \E q \in Owners :
       /\ <<p, q>> \in claimed
       /\ \/ /\ q \notin marked /\ record = Claim(q)
             /\ marked' = marked \cup {q}
             /\ Go(p, "publish", "management")
             /\ UNCHANGED <<claimLock, past>>
          \/ /\ claimLock' = [claimLock EXCEPT ![q] = "free"]
             /\ FailPublish(p)
             /\ past' = [past EXCEPT !.failed = @ \cup {p}]
             /\ UNCHANGED marked
  /\ UNCHANGED <<files, lock, record, claimed, launcher>>

FreeClaims(p) ==
  claimLock' = [q \in Owners |-> IF claimLock[q] = p THEN "free" ELSE claimLock[q]]

\* atomic_record_replace, and the end of the claim.
Publish(p) ==
  /\ In(p, "publish", "management")
  /\ record' = LiveRecord(p)
  /\ FreeClaims(p)
  /\ Go(p, "serve", "presentation")
  /\ past' = [past EXCEPT !.served = @ \cup {p}]
  /\ UNCHANGED <<files, lock, marked, claimed, launcher>>

\* The launcher tries to take its claim back: it wins only the lock of a claim
\* that is still empty, and then kills its child.
TakeBack(p) ==
  /\ launcher[p] = "waiting"
  /\ \/ /\ claimLock[p] = "free"
        /\ p \notin marked
        /\ claimLock' = [claimLock EXCEPT ![p] = "launcher"]
        /\ launcher' = [launcher EXCEPT ![p] = "won"]
     \/ /\ claimLock[p] # "free" \/ p \in marked
        /\ launcher' = [launcher EXCEPT ![p] = "lost"]
        /\ UNCHANGED claimLock
  /\ UNCHANGED <<at, files, lock, record, marked, claimed, past>>

-----------------------------------------------------------------------------
(***************************************************************************)
(* The end of run: by itself, with a tombstone if it is managed, or with   *)
(* an error.  Then what it holds is dropped, the last declared first: the  *)
(* management owner, field by field, and the presentation guard before the *)
(* presentation listener.                                                  *)
(***************************************************************************)
\* Where the drops begin.
Drop(p) == IF p \in Managed THEN Go(p, "close", "management") ELSE Go(p, "check", "presentation")

Finish(p) ==
  /\ at[p].call = "serve"
  /\ \/ /\ p \in Managed /\ record = LiveRecord(p)
        /\ Go(p, "entomb", "management")
     \/ Drop(p)
  /\ UNCHANGED <<files, lock, records, past>>

\* RecordGuard::replace_and_preserve
Entomb(p) ==
  /\ In(p, "entomb", "management")
  /\ record' = Tombstone(p)
  /\ Drop(p)
  /\ UNCHANGED <<files, lock, marked, claimed, claimLock, launcher, past>>

\* The listener is closed: before its guard in Owner and Prepared, after it in
\* run and in create_listener.
CloseListener(p, k) ==
  /\ In(p, "close", k)
  /\ bound' = [bound EXCEPT ![p][k] = None]
  /\ Unlock(p)
  /\ IF k = "management"
     THEN Go(p, "check", IF lock = p THEN "presentation" ELSE k)
     ELSE Go(p, "dead", k)
  /\ UNCHANGED <<path, guard, records, past>>

\* What follows the drop of a socket guard.  Its mutant forgets the record.
AfterGuardOnly(p, k) ==
  IF k = "management" /\ lock # p THEN Go(p, "check", "presentation") ELSE Go(p, "close", k)

AfterGuard(p, k) ==
  IF k = "management" /\ lock # p
  THEN IF p \in past.served THEN Go(p, "recordCheck", k) ELSE Go(p, "check", "presentation")
  ELSE Go(p, "close", k)

\* SocketGuard::drop looks at what the path names, if the guard has an identity.
Check(p, k) ==
  /\ In(p, "check", k)
  /\ IF path[k] # Nothing /\ guard[p][k] \in {None, path[k].ino}
     THEN Go(p, "unlink", k) ELSE AfterGuard(p, k)
  /\ UNCHANGED <<files, lock, records, past>>

Unlink(p, k) ==
  /\ In(p, "unlink", k)
  /\ path' = [path EXCEPT ![k] = Nothing]
  /\ AfterGuard(p, k)
  /\ UNCHANGED <<bound, guard, lock, records, past>>

\* RecordGuard::drop: a live record of this process is removed.  Mutant: any.
RecordCheckNothing(p) ==
  /\ In(p, "recordCheck", "management")
  /\ IF record # NoRecord
     THEN Go(p, "recordUnlink", "management") ELSE Go(p, "check", "presentation")
  /\ UNCHANGED <<files, lock, records, past>>

RecordCheck(p) ==
  /\ In(p, "recordCheck", "management")
  /\ IF record = LiveRecord(p)
     THEN Go(p, "recordUnlink", "management") ELSE Go(p, "check", "presentation")
  /\ UNCHANGED <<files, lock, records, past>>

RecordUnlink(p) ==
  /\ In(p, "recordUnlink", "management")
  /\ record' = NoRecord
  /\ Go(p, "check", "presentation")
  /\ UNCHANGED <<files, lock, marked, claimed, claimLock, launcher, past>>

\* The process is killed, by its launcher or by anybody: the system closes its
\* listeners and frees its locks; the files stay.
Crash(p) ==
  /\ at[p].call \notin {"off", "dead"}
  /\ Go(p, "dead", "presentation")
  /\ bound' = [bound EXCEPT ![p] = [k \in Paths |-> None]]
  /\ Unlock(p)
  /\ FreeClaims(p)
  /\ past' = [past EXCEPT !.crashed = @ \cup {p}]
  /\ UNCHANGED <<path, guard, record, marked, claimed, launcher>>

Next ==
  \/ \E p \in Owners :
       \/ Prepare(p) \/ Start(p) \/ SpawnFails(p) \/ OpenClaim(p) \/ TryLock(p)
       \/ Mark(p) \/ Publish(p) \/ TakeBack(p) \/ Finish(p) \/ Entomb(p) \/ RecordCheck(p) \/ RecordUnlink(p) \/ Crash(p)
  \/ \E p \in Owners, k \in Paths :
       \/ Lock(p, k) \/ Stat(p, k) \/ Connect(p, k) \/ Remove(p, k) \/ Bind(p, k)
       \/ Identify(p, k) \/ CloseListener(p, k) \/ Check(p, k) \/ Unlink(p, k)

Spec == Init /\ [][Next]_vars

-----------------------------------------------------------------------------
Calls ==
  {"off", "lock", "stat", "connect", "remove", "bind", "identify", "open", "tryLock", "mark",
   "publish", "serve", "entomb", "close", "check", "unlink", "recordCheck", "recordUnlink",
   "dead"}

Records ==
  {NoRecord} \cup {Claim(p) : p \in Owners} \cup {LiveRecord(p) : p \in Owners}
    \cup {Tombstone(p) : p \in Owners}

TypeOK ==
  /\ at \in [Owners -> [call : Calls, path : Paths]]
  /\ path \in [Paths -> {Nothing} \cup [ino : Inodes, by : Owners \cup {None}]]
  /\ bound \in [Owners -> [Paths -> Inodes \cup {None}]]
  /\ guard \in [Owners -> [Paths -> Inodes \cup {None}]]
  /\ lock \in Owners \cup {None}
  /\ record \in Records
  /\ marked \subseteq Owners
  /\ claimed \subseteq Owners \X Owners
  /\ claimLock \in [Owners -> Owners \cup {"free", "launcher"}]
  /\ launcher \in [Owners -> {"none", "waiting", "won", "lost"}]
  /\ past \in [served : SUBSET Owners, crashed : SUBSET Owners, failed : SUBSET Owners]

\* The paths a serving process serves.
Served(p) == IF p \in Managed THEN Paths ELSE {"presentation"}

\* A process that serves is reachable under its paths: nobody removes or
\* replaces the socket of a live owner, neither one that starts, whenever the
\* other was killed, nor one that ends ("has one reachable owner",
\* tests/lifecycle.rs).
ServingReachable ==
  \A p \in Owners :
    at[p].call \in {"serve", "entomb"} =>
      \A k \in Served(p) : bound[p][k] # None /\ path[k] = [ino |-> bound[p][k], by |-> p]

\* A record is changed by the process it names only, as long as that process
\* lives; a tombstone stays until another owner publishes.
RecordKept ==
  [][record' = record \/
     CASE record.kind = "live" ->
            at'[record.of].call = "dead" \/ at'[record.of] # at[record.of]
       [] record.kind = "tombstone" -> record'.kind = "live"
       [] OTHER -> TRUE]_vars

\* The launcher's rollback and the owner's Ready exclude each other: "Only a
\* launcher winning the still-empty retained inode may use pre-Ready
\* local-child rollback" (docs/CONTRACTS.md, ORB-C13).
RollbackExcludesReady ==
  \A p \in Owners : launcher[p] = "won" => p \notin past.served /\ record # LiveRecord(p)

\* An owner that ends by itself, early or late, leaves no socket and no live
\* record behind ("removes the owned socket after normal or signal-driven
\* shutdown", docs/LIFECYCLE.md).
OrderlyLeavesNothing ==
  \A p \in Owners :
    at[p].call = "dead" /\ p \notin past.crashed =>
      /\ \A k \in Paths : path[k].by # p
      /\ record # LiveRecord(p)

\* Of the processes that claim the same paths one does get to serve, unless one
\* was killed or a system call or a launcher stopped it
\* (simultaneous_stale_socket_claim_has_one_reachable_owner, tests/lifecycle.rs).
OneWins ==
  (\A p \in Owners : at[p].call = "dead") /\ past.crashed \cup past.failed = {}
    => past.served # {}
=============================================================================
