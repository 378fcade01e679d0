----------------------------- MODULE SessionFile -----------------------------
(***************************************************************************)
(* session.json and session.lock under .1c-dev/debug, as the processes that *)
(* share them use them (core/debug/state.py): the ping daemon and the CLI   *)
(* commands do read-modify-writes under flock, debug detach removes the     *)
(* file, and the teardown of runtime stop removes the file and the lock.    *)
(*                                                                         *)
(* flock locks an inode, not a name: the lock file's identity is a number,  *)
(* and a process that opened an unlinked lock file holds another lock than  *)
(* one that opens the name afterwards.                                     *)
(***************************************************************************)
EXTENDS SessionRecord

CONSTANTS
  Procs,          \* the processes that share the state directory
  Operations,     \* the read-modify-writes they perform (see Apply)
  Detachers,      \* the processes that run debug detach
  Teardowns,      \* the processes that run the teardown of runtime stop
  MaxInode        \* bound: how many lock files are ever created

ASSUME RolesAreProcs == Detachers \subseteq Procs /\ Teardowns \subseteq Procs
ASSUME MaxInodeNat == MaxInode \in Nat
ASSUME NullIsNoOperation == Null \notin Operations
ASSUME NullIsNoInode == Null \notin Nat

VARIABLES
  file,           \* session.json: a record or Null
  lockFile,       \* the inode session.lock names, or Null
  nextInode,      \* the inode the next created lock file gets
  pc,             \* where each process is
  op,             \* the operation each process performs, or Null
  handle,         \* the inode of the lock file each process has open, or Null
  base,           \* the record each process read under the lock
  orphaned        \* history: a lock file was unlinked while a process had it open

vars == <<file, lockFile, nextInode, pc, op, handle, base, orphaned>>

Locations == {"idle", "open", "flock", "read", "write", "unlock", "unlink"}

\* Mutant: the lock is given back after the read and not held for the write.
Inside_ReadOnly(p) == pc[p] \in {"read", "unlock"}

\* Between flock(LOCK_EX) and flock(LOCK_UN).
Inside(p) == pc[p] \in {"read", "write", "unlock"}

IsUpdate(o) == o.kind # "write"

\* write_session and the three mutations given to update_session.
Apply(o, record) ==
  CASE o.kind = "write"   -> write_session(record, o.arg)
    [] o.kind = "stop"    -> persist_stop(record, o.stop)
    [] o.kind = "targets" -> persist_targets(record, o.sessionId, o.targets)
    [] o.kind = "reset"   -> reset_session_runtime(record)

\* The mutation returned None: the file is left alone.
DeclinesToWrite(o, record) == o.kind = "targets" /\ record.sessionId # o.sessionId

Init ==
  /\ file = Null
  /\ lockFile = Null
  /\ nextInode = 1
  /\ pc = [p \in Procs |-> "idle"]
  /\ op = [p \in Procs |-> Null]
  /\ handle = [p \in Procs |-> Null]
  /\ base = [p \in Procs |-> Null]
  /\ orphaned = FALSE

GoTo(p, location) == pc' = [pc EXCEPT ![p] = location]

\* write_session always goes for the lock; update_session first looks for a
\* session without it and gives up when there is none.
Call(p) ==
  /\ pc[p] = "idle"
  /\ \E o \in Operations :
       /\ IsUpdate(o) => file # Null
       /\ op' = [op EXCEPT ![p] = o]
  /\ GoTo(p, "open")
  /\ UNCHANGED <<file, lockFile, nextInode, handle, base, orphaned>>

\* Mutant: every process opens a lock file of its own.
Open_OwnFile(p) ==
  /\ pc[p] = "open"
  /\ nextInode <= MaxInode
  /\ lockFile' = nextInode
  /\ handle' = [handle EXCEPT ![p] = nextInode]
  /\ nextInode' = nextInode + 1
  /\ GoTo(p, "flock")
  /\ UNCHANGED <<file, op, base, orphaned>>

\* session_lock: open(session.lock, "a+") creates the file when it is missing.
Open(p) ==
  /\ pc[p] = "open"
  /\ \/ /\ lockFile # Null
        /\ handle' = [handle EXCEPT ![p] = lockFile]
        /\ UNCHANGED <<lockFile, nextInode>>
     \/ /\ lockFile = Null
        /\ nextInode <= MaxInode
        /\ lockFile' = nextInode
        /\ handle' = [handle EXCEPT ![p] = nextInode]
        /\ nextInode' = nextInode + 1
  /\ GoTo(p, "flock")
  /\ UNCHANGED <<file, op, base, orphaned>>

\* Mutants: the lock is only tried (LOCK_NB with its error ignored); an early
\* return leaves without the finally clause.
Flock_NotExclusive(p) ==
  /\ pc[p] = "flock"
  /\ GoTo(p, "read")
  /\ UNCHANGED <<file, lockFile, nextInode, op, handle, base, orphaned>>

Unlock_Skipped(p) == pc[p] = "unlock" /\ UNCHANGED vars

\* session_lock: flock(handle, LOCK_EX) waits for the other holders of the inode.
Flock(p) ==
  /\ pc[p] = "flock"
  /\ \A q \in Procs \ {p} : Inside(q) => handle[q] # handle[p]
  /\ GoTo(p, "read")
  /\ UNCHANGED <<file, lockFile, nextInode, op, handle, base, orphaned>>

\* The read under the lock; update_session gives up when the session is gone.
Read(p) ==
  /\ pc[p] = "read"
  /\ base' = [base EXCEPT ![p] = file]
  /\ GoTo(p, IF IsUpdate(op[p]) /\ file = Null THEN "unlock" ELSE "write")
  /\ UNCHANGED <<file, lockFile, nextInode, op, handle, orphaned>>

\* _write_session_file: the temporary file and os.replace, one step for readers.
Replace(p) ==
  /\ pc[p] = "write"
  /\ file' = IF DeclinesToWrite(op[p], base[p]) THEN file ELSE Apply(op[p], base[p])
  /\ GoTo(p, "unlock")
  /\ UNCHANGED <<lockFile, nextInode, op, handle, base, orphaned>>

\* The finally clause of session_lock: LOCK_UN and close.
Unlock(p) ==
  /\ pc[p] = "unlock"
  /\ GoTo(p, "idle")
  /\ op' = [op EXCEPT ![p] = Null]
  /\ handle' = [handle EXCEPT ![p] = Null]
  /\ base' = [base EXCEPT ![p] = Null]
  /\ UNCHANGED <<file, lockFile, nextInode, orphaned>>

\* The process is killed: the kernel closes the handle and releases the lock.
Crash(p) ==
  /\ pc[p] # "idle"
  /\ GoTo(p, "idle")
  /\ op' = [op EXCEPT ![p] = Null]
  /\ handle' = [handle EXCEPT ![p] = Null]
  /\ base' = [base EXCEPT ![p] = Null]
  /\ UNCHANGED <<file, lockFile, nextInode, orphaned>>

\* clear_session at the end of run_detach: unlink without the lock.
Detach(p) ==
  /\ p \in Detachers
  /\ pc[p] = "idle"
  /\ file' = Null
  /\ UNCHANGED <<lockFile, nextInode, pc, op, handle, base, orphaned>>

\* teardown_debug: clear_session, again without the lock, ...
TeardownClear(p) ==
  /\ p \in Teardowns
  /\ pc[p] = "idle"
  /\ file' = Null
  /\ GoTo(p, "unlink")
  /\ UNCHANGED <<lockFile, nextInode, op, handle, base, orphaned>>

\* ... and session_lock_path(root).unlink(): the inode lives on in open handles.
TeardownUnlink(p) ==
  /\ pc[p] = "unlink"
  /\ lockFile' = Null
  /\ orphaned' = (orphaned \/ \E q \in Procs : handle[q] # Null)
  /\ GoTo(p, "idle")
  /\ UNCHANGED <<file, nextInode, op, handle, base>>

Next == \E p \in Procs :
          \/ Call(p) \/ Open(p) \/ Flock(p) \/ Read(p) \/ Replace(p) \/ Unlock(p)
          \/ Crash(p) \/ Detach(p) \/ TeardownClear(p) \/ TeardownUnlink(p)

\* A process inside an operation keeps running, and a waiter of flock is served
\* although others come and go: the kernel queues the waiters of an inode.
Fairness == \A p \in Procs :
              /\ WF_vars(Open(p)) /\ SF_vars(Flock(p)) /\ WF_vars(Read(p))
              /\ WF_vars(Replace(p)) /\ WF_vars(Unlock(p)) /\ WF_vars(TeardownUnlink(p))

Spec == Init /\ [][Next]_vars

FairSpec == Spec /\ Fairness

-----------------------------------------------------------------------------
TypeOK ==
  /\ lockFile \in Nat \cup {Null}
  /\ nextInode \in Nat
  /\ pc \in [Procs -> Locations]
  /\ op \in [Procs -> Operations \cup {Null}]
  /\ handle \in [Procs -> Nat \cup {Null}]
  /\ DOMAIN base = Procs
  /\ orphaned \in BOOLEAN

\* The docstring of session_lock: a cross-process lock for the read-modify-write
\* of session.json.  No two processes are inside it together.
MutualExclusion == \A p, q \in Procs : Inside(p) /\ Inside(q) => p = q

\* What the code does provide: the exclusion holds until a teardown unlinks a
\* lock file that another process has open.
ExclusiveUnlessOrphaned == orphaned \/ MutualExclusion

\* The lost update the lock is there to prevent: what a process is about to write
\* was computed from the record on disk at that moment, or there is none on disk.
BaseIsCurrent == \A p \in Procs : pc[p] = "write" => file \in {base[p], Null}
BaseIsCurrentUnlessOrphaned == orphaned \/ BaseIsCurrent

\* session.json changes by whole operations only (SessionStore), as long as no
\* open lock file was unlinked.
Store == INSTANCE SessionStore WITH session <- file
StoreSpec == Store!Init /\ [][orphaned \/ Store!Next]_file

\* A process that waits for the lock is granted it, or is killed, although the
\* holder may be killed at any point and other processes keep coming back.
LockGranted == \A p \in Procs : pc[p] = "flock" ~> pc[p] # "flock"
=============================================================================
