--------------------------- MODULE DebugFilesProofs ---------------------------
(***************************************************************************)
(* Proofs about the files of .1c-dev/debug that several commands share,      *)
(* for any processes, operations, roots and modules.                        *)
(*                                                                         *)
(* session.json (SessionFile): flock makes the insiders of one lock file    *)
(* unique; every open handle is the lock file the name stands for until a   *)
(* teardown unlinks it under somebody; so the insiders are unique, so what  *)
(* an insider read is still there when it writes, so each write is an       *)
(* operation on the current record.                                        *)
(*                                                                         *)
(* modules-cache.json (ModuleIndex): what an index says of a module hangs on *)
(* the files of the module and of its owner.  A change of them reaches the  *)
(* processes that have scanned the root as something missed, and the cache  *)
(* as something missed or as a time newer than any fingerprint taken; the   *)
(* fingerprint of a root is its newest time, so a cache with the right one   *)
(* has no newer file.                                                       *)
(*                                                                         *)
(* server.pid and server.json (DebugServer): while a single command runs    *)
(* that began in agreement with the machine, each of its places says which  *)
(* dbgs may live and what the files say of it.                              *)
(***************************************************************************)
EXTENDS SessionFile, ModuleIndex, DebugServer, WellFoundedInduction, TLAPS

(* session.json. *)

HasHandle(p) == pc[p] \in {"flock", "read", "write", "unlock"}
InOperation(p) == pc[p] \in {"open", "flock", "read", "write", "unlock"}

\* Which processes have a lock file open, and that inodes are used up in order.
HandlesOK ==
  /\ lockFile # Null => lockFile < nextInode
  /\ \A p \in Procs : handle[p] # Null => handle[p] < nextInode
  /\ \A p \in Procs : HasHandle(p) <=> handle[p] # Null
  /\ \A p \in Procs : InOperation(p) => op[p] \in Operations

\* What flock gives: one insider per inode.
OnePerInode == \A p, q \in Procs : p # q /\ Inside(p) /\ Inside(q) => handle[p] # handle[q]

\* Until a lock file is orphaned, there is one inode to be inside of.
OneInode == ~orphaned => \A p \in Procs : handle[p] # Null => handle[p] = lockFile

LockInv == TypeOK /\ HandlesOK /\ OnePerInode /\ OneInode

IInv == LockInv /\ BaseIsCurrentUnlessOrphaned

\* The definitions every step of the algorithm is made of.
USE DEF Locations, GoTo

LEMMA ExclusiveFromLockInv == LockInv => ExclusiveUnlessOrphaned
BY DEF LockInv, HandlesOK, OnePerInode, OneInode, ExclusiveUnlessOrphaned, MutualExclusion,
       Inside, HasHandle, TypeOK

LEMMA LockInvInit == Init => LockInv
<1> SUFFICES ASSUME Init PROVE LockInv
    OBVIOUS
<1>1. TypeOK
    BY DEF Init, TypeOK
<1>2. HandlesOK
    BY DEF Init, HandlesOK, HasHandle, InOperation
<1>3. OnePerInode
    BY DEF Init, OnePerInode, Inside
<1>4. OneInode
    BY DEF Init, OneInode
<1>5. QED
    BY <1>1, <1>2, <1>3, <1>4 DEF LockInv

\* The lock invariant is inductive.
LEMMA LockInvStep == LockInv /\ [Next]_vars => LockInv'
<1> SUFFICES ASSUME LockInv, [Next]_vars PROVE LockInv'
    OBVIOUS
<1> USE NullIsNoInode, NullIsNoOperation
    DEF LockInv, TypeOK, HandlesOK, OnePerInode, OneInode, Inside, HasHandle, InOperation
<1>1. ASSUME NEW p \in Procs, Call(p) PROVE LockInv'
      BY <1>1 DEF Call
<1>2. ASSUME NEW p \in Procs, Open(p) PROVE LockInv'
      BY <1>2 DEF Open
<1>3. ASSUME NEW p \in Procs, Flock(p) PROVE LockInv'
      BY <1>3 DEF Flock
<1>4. ASSUME NEW p \in Procs, Read(p) PROVE LockInv'
      BY <1>4 DEF Read
<1>5. ASSUME NEW p \in Procs, Replace(p) PROVE LockInv'
      BY <1>5 DEF Replace
<1>6. ASSUME NEW p \in Procs, Unlock(p) PROVE LockInv'
      BY <1>6 DEF Unlock
<1>7. ASSUME NEW p \in Procs, Crash(p) PROVE LockInv'
      BY <1>7 DEF Crash
<1>8. ASSUME NEW p \in Procs, Detach(p) PROVE LockInv'
      BY <1>8 DEF Detach
<1>9. ASSUME NEW p \in Procs, TeardownClear(p) PROVE LockInv'
      BY <1>9 DEF TeardownClear
<1>10. ASSUME NEW p \in Procs, TeardownUnlink(p) PROVE LockInv'
      BY <1>10 DEF TeardownUnlink
<1>11. CASE UNCHANGED vars
      BY <1>11 DEF vars
<1>12. QED
      BY <1>1, <1>2, <1>3, <1>4, <1>5, <1>6, <1>7, <1>8, <1>9, <1>10, <1>11 DEF Next

LEMMA TypingAndLock == Spec => []LockInv
BY LockInvInit, LockInvStep, PTL DEF Spec

-----------------------------------------------------------------------------
\* Type correctness: every variable of the lock and of the file stays in its range.
THEOREM TypeCorrect == Spec => []TypeOK
<1>1. LockInv => TypeOK
    BY DEF LockInv
<1>2. QED
    BY <1>1, TypingAndLock, PTL

\* session_lock is mutually exclusive, for any number of processes, operations,
\* crashes, detaches and teardowns, until an open lock file is unlinked.
THEOREM Exclusive == Spec => []ExclusiveUnlessOrphaned
BY ExclusiveFromLockInv, TypingAndLock, PTL

-----------------------------------------------------------------------------
\* A write that an exclusive insider makes is not preceded by a write of another
\* one since its read, so its base is the current record.
LEMMA IInvStep == IInv /\ LockInv' /\ [Next]_vars => IInv'
<1> SUFFICES ASSUME IInv, LockInv', [Next]_vars, ~orphaned'
             PROVE  BaseIsCurrent'
    BY DEF IInv, BaseIsCurrentUnlessOrphaned
<1> USE DEF BaseIsCurrent
<1>1. ~orphaned
    BY DEF vars, Next, Call, Open, Flock, Read, Replace, Unlock, Crash, Detach,
           TeardownClear, TeardownUnlink
<1>2. BaseIsCurrent
    BY <1>1 DEF IInv, BaseIsCurrentUnlessOrphaned
<1>3. TypeOK
    BY DEF IInv, LockInv
<1> USE <1>1, <1>2, <1>3 DEF TypeOK
<1>4. ASSUME NEW p \in Procs, Call(p) PROVE BaseIsCurrent'
    BY <1>4 DEF Call
<1>5. ASSUME NEW p \in Procs, Open(p) PROVE BaseIsCurrent'
    BY <1>5 DEF Open
<1>6. ASSUME NEW p \in Procs, Flock(p) PROVE BaseIsCurrent'
    BY <1>6 DEF Flock
<1>7. ASSUME NEW p \in Procs, Read(p) PROVE BaseIsCurrent'
    BY <1>7 DEF Read
<1>8. ASSUME NEW p \in Procs, Replace(p) PROVE BaseIsCurrent'
  <2>1. ASSUME NEW q \in Procs, pc'[q] = "write" PROVE FALSE
    <3>1. MutualExclusion
        BY ExclusiveFromLockInv DEF IInv, ExclusiveUnlessOrphaned
    <3>2. q # p /\ pc[q] = "write" /\ pc[p] = "write"
        BY <1>8, <2>1 DEF Replace
    <3>3. QED
        BY <3>1, <3>2 DEF MutualExclusion, Inside
  <2>2. QED
      BY <2>1
<1>9. ASSUME NEW p \in Procs, Unlock(p) PROVE BaseIsCurrent'
    BY <1>9 DEF Unlock
<1>10. ASSUME NEW p \in Procs, Crash(p) PROVE BaseIsCurrent'
    BY <1>10 DEF Crash
<1>11. ASSUME NEW p \in Procs, Detach(p) PROVE BaseIsCurrent'
    BY <1>11 DEF Detach
<1>12. ASSUME NEW p \in Procs, TeardownClear(p) PROVE BaseIsCurrent'
    BY <1>12 DEF TeardownClear
<1>13. ASSUME NEW p \in Procs, TeardownUnlink(p) PROVE BaseIsCurrent'
    BY <1>13 DEF TeardownUnlink
<1>14. CASE UNCHANGED vars
    BY <1>14 DEF vars
<1>15. QED
    BY <1>4, <1>5, <1>6, <1>7, <1>8, <1>9, <1>10, <1>11, <1>12, <1>13, <1>14 DEF Next

LEMMA Inductive == Spec => []IInv
<1>1. Init => IInv
    BY LockInvInit DEF Init, IInv, BaseIsCurrentUnlessOrphaned, BaseIsCurrent
<1>2. IInv /\ LockInv' /\ [Next]_vars => IInv'
    BY IInvStep
<1>3. QED
    BY <1>1, <1>2, TypingAndLock, PTL DEF Spec

\* No lost update: what a process writes was computed from the current record.
THEOREM NoLostUpdate == Spec => []BaseIsCurrentUnlessOrphaned
<1>1. IInv => BaseIsCurrentUnlessOrphaned
    BY DEF IInv
<1>2. QED
    BY <1>1, Inductive, PTL

-----------------------------------------------------------------------------
\* Every step of SessionFile is a step of SessionStore or leaves the record alone.
LEMMA StepSimulation == IInv /\ [Next]_vars => [orphaned \/ Store!Next]_file
<1> SUFFICES ASSUME IInv, [Next]_vars, ~orphaned, file' # file
             PROVE  Store!Next
    OBVIOUS
<1> USE DEF Store!Next, Store!Update, Store!Remove, Store!Reappear
<1>1. PICK p \in Procs : Replace(p) \/ Detach(p) \/ TeardownClear(p)
    BY DEF vars, Next, Call, Open, Flock, Read, Unlock, Crash, TeardownUnlink
<1>2. CASE Replace(p)
  <2>1. file' = Apply(op[p], base[p])
      BY <1>2 DEF Replace
  <2>2. op[p] \in Operations
      BY <1>2 DEF IInv, LockInv, HandlesOK, InOperation, Replace
  <2>3. file = base[p] \/ file = Null
      BY <1>2 DEF IInv, BaseIsCurrentUnlessOrphaned, BaseIsCurrent, Replace
  <2>4. CASE file = base[p]
      BY <2>1, <2>2, <2>4
  <2>5. CASE file = Null
      BY <2>5
  <2>6. QED
      BY <2>3, <2>4, <2>5
<1>3. CASE Detach(p)
    BY <1>3 DEF Detach
<1>4. CASE TeardownClear(p)
    BY <1>4 DEF TeardownClear
<1>5. QED
    BY <1>1, <1>2, <1>3, <1>4

\* SessionFile implements SessionStore until an open lock file is unlinked:
\* session.json changes by whole operations on the current record.
THEOREM ImplementsStore == Spec => StoreSpec
<1>1. Init => Store!Init
    BY DEF Init, Store!Init
<1>2. IInv /\ [Next]_vars => [orphaned \/ Store!Next]_file
    BY StepSimulation
<1>3. QED
    BY <1>1, <1>2, Inductive, PTL DEF Spec, StoreSpec

-----------------------------------------------------------------------------
(* modules-cache.json. *)

\* Ranges.
Entries == [root : Roots, slot : Slots, id : Nat, file : BOOLEAN]
Places == {"idle", "load", "scan", "stamp", "write", "ready"}
Caches == [state : {"none", "torn", "whole"}, roots : SUBSET Roots, stamp : [Roots -> Nat],
           modules : SUBSET Entries]

IndexTypeOK ==
  /\ declared \subseteq Roots
  /\ tree \in [Roots -> [Slots -> Files]]
  /\ clock \in Nat
  /\ commands \in Nat
  /\ cache \in Caches
  /\ at \in [Debuggers -> Places]
  /\ roots \in [Debuggers -> SUBSET Roots]
  /\ todo \in [Debuggers -> SUBSET Roots]
  /\ current \in [Debuggers -> Roots]
  /\ stamp \in [Debuggers -> [Roots -> Nat]]
  /\ index \in [Debuggers -> SUBSET Entries]
  /\ missed \in [Debuggers -> SUBSET (Roots \X Slots)]
  /\ cacheMissed \subseteq Roots \X Slots

\* The roots that are in the index of a process.
Scanned(p) == roots[p] \ todo[p]
\* What an index says of a slot is so, or it is known to have missed it.
Knows(modules, gone, r, s) == Indexed(modules, r, s) = Present(r, s) \/ <<r, s>> \in gone
\* A file that the fingerprint looks at is newer than the cache's fingerprint of its root.
Newer(r, s) ==
  \E x \in {s, Owner[s]} : /\ Kind[x] # "form"
                           /\ tree[r][x].xml > cache.stamp[r] \/ tree[r][x].bsl > cache.stamp[r]
\* Nothing has a time that is still to come.
FilesAged == \A r \in Roots, s \in Slots : tree[r][s].xml <= clock + 1 /\ tree[r][s].bsl <= clock + 1
StampsAged ==
  /\ \A p \in Debuggers, r \in Roots : stamp[p][r] <= clock + 1
  /\ \A r \in Roots : cache.stamp[r] <= clock + 1
\* The index of a process knows the roots scanned, and holds nothing else.
IndexOf(p) ==
  /\ todo[p] \subseteq roots[p]
  /\ at[p] = "idle" => roots[p] = {}
  /\ at[p] \in {"write", "ready"} => todo[p] = {}
  /\ at[p] = "load" => todo[p] = roots[p]
  /\ \A e \in index[p] : e.root \in Scanned(p)
  /\ \A r \in Scanned(p), s \in Slots : Knows(index[p], missed[p], r, s)
\* The cache knows every module, or its fingerprint gives it away.
CacheInv ==
  Readable =>
    /\ \A e \in cache.modules : e.root \in cache.roots
    /\ \A r \in cache.roots, s \in Slots :
         Knows(cache.modules, cacheMissed, r, s) \/ Newer(r, s)

\* The inductive invariant.
IndexInv == FilesAged /\ StampsAged /\ CacheInv /\ \A p \in Debuggers : IndexOf(p)

-----------------------------------------------------------------------------
(* A scan. *)

\* When the index has an entry for a slot.
Holds(r, s, withFile) ==
  \/ Kind[s] = "common" /\ Parsed(r, s) /\ withFile = (tree[r][s].bsl # 0)
  \/ Kind[s] \in {"application", "owned"} /\ Parsed(r, s) /\ tree[r][s].bsl # 0 /\ withFile
  \/ /\ Kind[s] = "form" /\ withFile
     /\ Parsed(r, Owner[s]) /\ tree[r][Owner[s]].bsl # 0
     /\ Parsed(r, s) /\ tree[r][s].bsl # 0

\* A scan lists the entries that hold.
LEMMA ScanHolds ==
  ASSUME NEW r, NEW e
  PROVE  e \in scan_source_root(r) <=>
           \E s \in Slots, withFile \in BOOLEAN : e = Entry(r, s, withFile) /\ Holds(r, s, withFile)
<1>1. ASSUME e \in scan_source_root(r)
      PROVE  \E s \in Slots, withFile \in BOOLEAN : e = Entry(r, s, withFile) /\ Holds(r, s, withFile)
  <2>1. CASE e \in scan_common_modules(r)
    <3>1. PICK s \in Slots : Kind[s] = "common" /\ Parsed(r, s) /\ e = Entry(r, s, tree[r][s].bsl # 0)
      BY <2>1 DEF scan_common_modules
    <3>2. Holds(r, s, tree[r][s].bsl # 0)
      BY <3>1 DEF Holds
    <3> QED BY <3>1, <3>2
  <2>2. CASE e \in scan_application_modules(r)
    <3>1. PICK s \in Slots : /\ Kind[s] = "application" /\ Parsed(r, s) /\ tree[r][s].bsl # 0
                             /\ e = Entry(r, s, TRUE)
      BY <2>2 DEF scan_application_modules
    <3>2. Holds(r, s, TRUE)
      BY <3>1 DEF Holds
    <3> QED BY <3>1, <3>2
  <2>3. CASE e \in scan_form_modules(r)
    <3>1. PICK s \in Slots : /\ Kind[s] = "form" /\ Parsed(r, Owner[s]) /\ tree[r][Owner[s]].bsl # 0
                             /\ Parsed(r, s) /\ tree[r][s].bsl # 0 /\ e = Entry(r, s, TRUE)
      BY <2>3 DEF scan_form_modules
    <3>2. Holds(r, s, TRUE)
      BY <3>1 DEF Holds
    <3> QED BY <3>1, <3>2
  <2>4. CASE e \in {Entry(r, s, TRUE) : s \in {x \in Slots : /\ Kind[x] = "owned"
                                                           /\ Parsed(r, x) /\ tree[r][x].bsl # 0}}
    <3>1. PICK s \in Slots : /\ Kind[s] = "owned" /\ Parsed(r, s) /\ tree[r][s].bsl # 0
                             /\ e = Entry(r, s, TRUE)
      BY <2>4
    <3>2. Holds(r, s, TRUE)
      BY <3>1 DEF Holds
    <3> QED BY <3>1, <3>2
  <2> QED BY <1>1, <2>1, <2>2, <2>3, <2>4 DEF scan_source_root, scan_owned_modules
<1>2. ASSUME NEW s \in Slots, NEW withFile \in BOOLEAN, e = Entry(r, s, withFile),
             Holds(r, s, withFile)
      PROVE  e \in scan_source_root(r)
  <2>1. CASE Kind[s] = "common"
    BY <1>2, <2>1 DEF Holds, scan_source_root, scan_common_modules
  <2>2. CASE Kind[s] = "application"
    <3>1. e = Entry(r, s, TRUE) /\ Parsed(r, s) /\ tree[r][s].bsl # 0
      BY <1>2, <2>2 DEF Holds
    <3> QED BY <2>2, <3>1 DEF scan_source_root, scan_application_modules
  <2>3. CASE Kind[s] = "owned"
    <3>1. e = Entry(r, s, TRUE) /\ Parsed(r, s) /\ tree[r][s].bsl # 0
      BY <1>2, <2>3 DEF Holds
    <3> QED BY <2>3, <3>1 DEF scan_source_root, scan_owned_modules
  <2>4. CASE Kind[s] = "form"
    <3>1. /\ e = Entry(r, s, TRUE) /\ Parsed(r, s) /\ tree[r][s].bsl # 0
          /\ Parsed(r, Owner[s]) /\ tree[r][Owner[s]].bsl # 0
      BY <1>2, <2>4 DEF Holds
    <3> QED BY <2>4, <3>1 DEF scan_source_root, scan_owned_modules, scan_form_modules
  <2> QED BY <2>1, <2>2, <2>3, <2>4, KindsKnown
<1> QED BY <1>1, <1>2

\* What a scan says of one slot.
PresentIs(r, s) ==
  \A e : e \in Present(r, s)
           <=> \E withFile \in BOOLEAN : e = Entry(r, s, withFile) /\ Holds(r, s, withFile)

LEMMA PresentHolds == \A r : \A s \in Slots : PresentIs(r, s)
<1>1. \A r : \A x \in Slots, withFile \in BOOLEAN :
        Entry(r, x, withFile).root = r /\ Entry(r, x, withFile).slot = x
  BY DEF Entry
<1> QED BY <1>1, ScanHolds DEF PresentIs, Present, Indexed

\* The same of the next state.
LEMMA PresentHoldsNext == (\A r : \A s \in Slots : PresentIs(r, s))'
  BY PresentHolds, PTL

\* It hangs on the files of the slot and of its owner only.
LEMMA PresentFrame ==
  ASSUME NEW r, NEW s \in Slots, tree'[r][s] = tree[r][s], tree'[r][Owner[s]] = tree[r][Owner[s]]
  PROVE  Present(r, s)' = Present(r, s)
<1>1. \A withFile \in BOOLEAN : Holds(r, s, withFile)' <=> Holds(r, s, withFile)
  BY DEF Holds, Parsed
<1>2. \A withFile \in BOOLEAN : Entry(r, s, withFile)' = Entry(r, s, withFile)
  BY DEF Entry
<1>3. \A e : e \in Present(r, s)
              <=> \E withFile \in BOOLEAN : e = Entry(r, s, withFile) /\ Holds(r, s, withFile)
  BY PresentHolds DEF PresentIs
<1>5. PresentIs(r, s)'
  BY PresentHoldsNext
<1>6. \A e : e \in Present(r, s)'
              <=> \E withFile \in BOOLEAN : e = Entry(r, s, withFile)' /\ Holds(r, s, withFile)'
  BY <1>5 DEF PresentIs
<1> QED BY <1>1, <1>2, <1>3, <1>6

LEMMA ScanType ==
  ASSUME IndexTypeOK, NEW r \in Roots
  PROVE  scan_source_root(r) \subseteq Entries
<1>1. \A s \in Slots, withFile \in BOOLEAN : Entry(r, s, withFile) \in Entries
  BY DEF Entry, Entries, IndexTypeOK, Files
<1> QED BY <1>1, ScanHolds

-----------------------------------------------------------------------------
(* The fingerprint is the newest time. *)

LEMMA Newest ==
  ASSUME IndexTypeOK, FilesAged, NEW r \in Roots
  PROVE  /\ root_fingerprint(r) \in Nat /\ root_fingerprint(r) <= clock + 1
         /\ \A u \in Times(r) : u <= root_fingerprint(r)
<1> DEFINE above == {n \in Nat : \A u \in Times(r) : u <= n}
<1>1. \A u \in Times(r) : u \in Nat /\ u <= clock + 1
  BY DEF Times, IndexTypeOK, FilesAged, Files
<1>2. clock + 1 \in above
  BY <1>1 DEF IndexTypeOK
<1>3. PICK t \in above : \A y \in above : ~ (<<y, t>> \in OpToRel(<, Nat))
  <2>1. above \subseteq Nat /\ above # {}
    BY <1>2
  <2> HIDE DEF above
  <2> QED BY <2>1, WFMin, NatLessThanWellFounded
<1>4. \A y \in above : ~ (y < t)
  BY <1>3 DEF OpToRel
<1>5. t \in Times(r)
  <2> SUFFICES ASSUME t \notin Times(r) PROVE FALSE
    OBVIOUS
  <2>1. 0 \in Times(r) /\ t \in Nat /\ \A u \in Times(r) : u <= t
    BY DEF Times
  <2>2. t # 0
    BY <2>1
  <2>3. t - 1 \in above
    BY <1>1, <2>1, <2>2
  <2> QED BY <1>4, <2>1, <2>2, <2>3
<1>6. root_fingerprint(r) \in Times(r) /\ \A u \in Times(r) : u <= root_fingerprint(r)
  BY <1>5 DEF root_fingerprint
<1> QED BY <1>1, <1>6

-----------------------------------------------------------------------------
(* Typing. *)

LEMMA IndexTypeInit == IndexInit => IndexTypeOK
<1> SUFFICES ASSUME IndexInit PROVE IndexTypeOK
  OBVIOUS
<1>1. [r \in Roots |-> [s \in Slots |-> [id |-> 1, xml |-> 1, bsl |-> 1]]]
        \in [Roots -> [Slots -> Files]]
  BY DEF Files
<1>2. Everywhere(0) \in [Roots -> Nat]
  BY DEF Everywhere
<1>3. NoCache \in Caches
  BY <1>2 DEF NoCache, Caches
<1>4. Main \in Roots
  BY DEF Roots
<1> QED BY <1>1, <1>2, <1>3, <1>4 DEF IndexInit, IndexTypeOK, Places, Entries

\* Every change of the sources is a change of one slot's files; those that show are
\* edits, whose time is the newest.
LEMMA ChangeCases ==
  ASSUME IndexTypeOK, FilesAged, NEW r \in Roots, NEW s \in Slots,
         EditXml(r, s) \/ EditCode(r, s) \/ Restore(r, s) \/ Remove(r, s)
  PROVE  \E files \in Files :
           /\ files.xml <= clock + 2 /\ files.bsl <= clock + 2
           /\ \/ Change(r, s, files, FALSE)
              \/ /\ Change(r, s, files, TRUE)
                 /\ Kind[s] # "form"
                 /\ files.xml = clock + 2 \/ files.bsl = clock + 2
                 /\ files.xml \in {tree[r][s].xml, clock + 2}
                 /\ files.bsl \in {tree[r][s].bsl, clock + 2}
<1>a. /\ tree[r][s] \in Files /\ clock \in Nat
      /\ tree[r][s].xml <= clock + 1 /\ tree[r][s].bsl <= clock + 1
  BY DEF IndexTypeOK, FilesAged
<1>b. (Kind[s] # "form") = TRUE \/ (Kind[s] # "form") = FALSE
  OBVIOUS
<1>1. CASE EditXml(r, s)
  <2>1. PICK id \in {0, clock + 2} :
          Change(r, s, [tree[r][s] EXCEPT !.id = id, !.xml = clock + 2], Kind[s] # "form")
    BY <1>1 DEF EditXml
  <2>7. id \in Nat /\ clock + 2 \in Nat
    BY <1>a
  <2> DEFINE files == [tree[r][s] EXCEPT !.id = id, !.xml = clock + 2]
  <2>2. files \in Files /\ files.xml = clock + 2 /\ files.bsl = tree[r][s].bsl
    BY <1>a, <2>7 DEF Files
  <2>3. Change(r, s, files, Kind[s] # "form")
    BY <2>1
  <2> HIDE DEF files
  <2>6. files.xml <= clock + 2 /\ files.bsl <= clock + 2
    BY <1>a, <2>2 DEF Files
  <2>4. CASE Kind[s] = "form"
    <3>1. Change(r, s, files, FALSE)
      BY <2>3, <2>4 DEF Change
    <3> QED BY <2>2, <2>6, <3>1
  <2>5. CASE Kind[s] # "form"
    <3>1. Change(r, s, files, TRUE)
      BY <2>3, <2>5 DEF Change
    <3> QED BY <2>2, <2>5, <2>6, <3>1
  <2> QED BY <2>4, <2>5
<1>2. CASE EditCode(r, s)
  <2> DEFINE files == [tree[r][s] EXCEPT !.bsl = clock + 2]
  <2>2. files \in Files /\ files.bsl = clock + 2 /\ files.xml = tree[r][s].xml
    BY <1>a DEF Files
  <2>3. Change(r, s, files, Kind[s] # "form")
    BY <1>2 DEF EditCode
  <2> HIDE DEF files
  <2>6. files.xml <= clock + 2 /\ files.bsl <= clock + 2
    BY <1>a, <2>2 DEF Files
  <2>4. CASE Kind[s] = "form"
    <3>1. Change(r, s, files, FALSE)
      BY <2>3, <2>4 DEF Change
    <3> QED BY <2>2, <2>6, <3>1
  <2>5. CASE Kind[s] # "form"
    <3>1. Change(r, s, files, TRUE)
      BY <2>3, <2>5 DEF Change
    <3> QED BY <2>2, <2>5, <2>6, <3>1
  <2> QED BY <2>4, <2>5
<1>3. CASE Restore(r, s)
  <2>1. PICK time \in 1..(clock + 1) :
          Change(r, s, [id |-> clock + 2, xml |-> time, bsl |-> time], FALSE)
    BY <1>3 DEF Restore
  <2>2. time \in Nat /\ time <= clock + 2
    BY <1>a, <2>1
  <2> DEFINE files == [id |-> clock + 2, xml |-> time, bsl |-> time]
  <2>3. files \in Files /\ files.xml <= clock + 2 /\ files.bsl <= clock + 2
    BY <1>a, <2>2 DEF Files
  <2>4. Change(r, s, files, FALSE)
    BY <2>1
  <2> HIDE DEF files
  <2> QED BY <2>3, <2>4
<1>4. CASE Remove(r, s)
  <2>1. CASE Change(r, s, Absent, FALSE)
    <3>1. Absent \in Files /\ Absent.xml <= clock + 2 /\ Absent.bsl <= clock + 2
      BY <1>a DEF Files, Absent
    <3> QED BY <2>1, <3>1
  <2>2. CASE Change(r, s, [tree[r][s] EXCEPT !.bsl = 0], FALSE)
    <3> DEFINE files == [tree[r][s] EXCEPT !.bsl = 0]
    <3>1. files \in Files /\ files.xml <= clock + 2 /\ files.bsl <= clock + 2
      BY <1>a DEF Files
    <3>2. Change(r, s, files, FALSE)
      BY <2>2
    <3> HIDE DEF files
    <3> QED BY <3>1, <3>2
  <2> QED BY <1>4, <2>1, <2>2 DEF Remove
<1> QED BY <1>1, <1>2, <1>3, <1>4

LEMMA IndexTypeStep == IndexTypeOK /\ FilesAged /\ [IndexNext]_indexVars => IndexTypeOK'
<1> SUFFICES ASSUME IndexTypeOK, FilesAged, [IndexNext]_indexVars PROVE IndexTypeOK'
  OBVIOUS
<1>a. Main \in Roots /\ Everywhere(0) \in [Roots -> Nat] /\ Torn \in Caches
  BY DEF Roots, Everywhere, Torn, NoCache, Caches
<1>b. \A r \in Roots, s \in Slots : tree[r][s] \in Files
  BY DEF IndexTypeOK
<1>1. ASSUME NEW r \in Extensions, Declare(r) PROVE IndexTypeOK'
  BY <1>1 DEF Declare, process, IndexTypeOK, Roots
<1>2. ASSUME NEW r \in Roots, NEW s \in Slots, NEW files \in Files, NEW shows, Change(r, s, files, shows)
      PROVE  IndexTypeOK'
  <2>1. tree' \in [Roots -> [Slots -> Files]]
    BY <1>2 DEF Change, IndexTypeOK
  <2>2. {r} \X Dependents(s) \subseteq Roots \X Slots
    BY DEF Dependents
  <2>3. missed' \in [Debuggers -> SUBSET (Roots \X Slots)] /\ cacheMissed' \subseteq Roots \X Slots
    BY <1>2, <2>2 DEF Change, IndexTypeOK
  <2> QED BY <1>2, <2>1, <2>3 DEF Change, process, IndexTypeOK
<1>3. ASSUME NEW r \in Roots, NEW s \in Slots,
             EditXml(r, s) \/ EditCode(r, s) \/ Restore(r, s) \/ Remove(r, s)
      PROVE  IndexTypeOK'
  <2>1. PICK files \in Files : Change(r, s, files, TRUE) \/ Change(r, s, files, FALSE)
    BY <1>3, ChangeCases DEF IndexTypeOK
  <2> QED BY <2>1, <1>2
<1>4. ASSUME NEW p \in Debuggers, make_resolver(p) PROVE IndexTypeOK'
  BY <1>4 DEF make_resolver, GoOn, source_roots, sources, IndexTypeOK, Places
<1>5. ASSUME NEW p \in Debuggers, LoadOrBuild(p) PROVE IndexTypeOK'
  <2>1. cache.modules \subseteq Entries
    BY DEF IndexTypeOK, Caches
  <2>2. /\ index' \in [Debuggers -> SUBSET Entries] /\ todo' \in [Debuggers -> SUBSET Roots]
        /\ missed' \in [Debuggers -> SUBSET (Roots \X Slots)] /\ at' \in [Debuggers -> Places]
    <3>1. CASE /\ index' = [index EXCEPT ![p] = cache.modules] /\ todo' = [todo EXCEPT ![p] = {}]
               /\ missed' = [missed EXCEPT ![p] = cacheMissed] /\ GoOn(p, "ready")
      BY <2>1, <3>1 DEF GoOn, IndexTypeOK, Places
    <3>2. CASE GoOn(p, "scan") /\ UNCHANGED <<index, todo, missed>>
      BY <3>2 DEF GoOn, IndexTypeOK, Places
    <3> QED BY <1>5, <3>1, <3>2 DEF LoadOrBuild
  <2> QED BY <1>5, <2>2 DEF LoadOrBuild, sources, IndexTypeOK
<1>6. ASSUME NEW p \in Debuggers, ScanRoot(p) PROVE IndexTypeOK'
  <2>1. PICK r \in todo[p] : /\ index' = [index EXCEPT ![p] = @ \cup scan_source_root(r)]
                             /\ todo' = [todo EXCEPT ![p] = @ \ {r}]
                             /\ current' = [current EXCEPT ![p] = r]
    BY <1>6 DEF ScanRoot
  <2>2. r \in Roots /\ scan_source_root(r) \subseteq Entries
    BY <2>1, ScanType DEF IndexTypeOK
  <2> QED BY <1>6, <2>1, <2>2 DEF ScanRoot, GoOn, sources, IndexTypeOK, Places
<1>7. ASSUME NEW p \in Debuggers, StampRoot(p) PROVE IndexTypeOK'
  <2>1. current[p] \in Roots /\ root_fingerprint(current[p]) \in Nat
    BY Newest DEF IndexTypeOK
  <2> QED BY <1>7, <1>a, <2>1 DEF StampRoot, GoOn, sources, IndexTypeOK, Places
<1>8. ASSUME NEW p \in Debuggers, Truncate(p) PROVE IndexTypeOK'
  BY <1>8, <1>a DEF Truncate, GoOn, sources, IndexTypeOK, Places
<1>9. ASSUME NEW p \in Debuggers, Save(p) PROVE IndexTypeOK'
  <2>1. [state |-> "whole", roots |-> roots[p], stamp |-> stamp[p], modules |-> index[p]] \in Caches
    BY DEF IndexTypeOK, Caches
  <2>2. cache' \in Caches /\ cacheMissed' \subseteq Roots \X Slots
    BY <1>9, <1>a, <2>1 DEF Save, IndexTypeOK
  <2> QED BY <1>9, <1>a, <2>2 DEF Save, GoOn, sources, IndexTypeOK, Places
<1>10. ASSUME NEW p \in Debuggers, End(p) PROVE IndexTypeOK'
  BY <1>10, <1>a DEF End, GoOn, sources, IndexTypeOK, Places
<1>11. CASE UNCHANGED indexVars
  BY <1>11 DEF indexVars, sources, process, IndexTypeOK
<1> QED BY <1>1, <1>2, <1>3, <1>4, <1>5, <1>6, <1>7, <1>8, <1>9, <1>10, <1>11
        DEF IndexNext, World, Debugger

-----------------------------------------------------------------------------
(* The invariant. *)

LEMMA IndexInvInit == IndexInit => IndexInv
<1> SUFFICES ASSUME IndexInit PROVE IndexInv
  OBVIOUS
<1>1. FilesAged
  BY DEF IndexInit, FilesAged
<1>2. StampsAged
  BY DEF IndexInit, StampsAged, NoCache, Everywhere
<1>3. CacheInv
  BY DEF IndexInit, CacheInv, Readable, NoCache
<1>4. \A p \in Debuggers : IndexOf(p)
  BY DEF IndexInit, IndexOf, Scanned
<1> QED BY <1>1, <1>2, <1>3, <1>4 DEF IndexInv

LEMMA ChangeStep ==
  ASSUME IndexTypeOK, IndexInv, NEW r \in Roots, NEW s \in Slots, NEW files \in Files,
         files.xml <= clock + 2, files.bsl <= clock + 2,
         \/ Change(r, s, files, FALSE)
         \/ /\ Change(r, s, files, TRUE)
            /\ Kind[s] # "form"
            /\ files.xml = clock + 2 \/ files.bsl = clock + 2
            /\ files.xml \in {tree[r][s].xml, clock + 2} /\ files.bsl \in {tree[r][s].bsl, clock + 2}
  PROVE  IndexInv'
<1>a. /\ clock \in Nat /\ clock' = clock + 1 /\ cache' = cache
      /\ at' = at /\ roots' = roots /\ todo' = todo /\ stamp' = stamp /\ index' = index
      /\ tree' = [tree EXCEPT ![r][s] = files]
      /\ missed' = [p \in Debuggers |->
                      IF r \in roots[p] \ todo[p]
                      THEN missed[p] \cup ({r} \X Dependents(s)) ELSE missed[p]]
  BY DEF Change, process, IndexTypeOK
<1>b. /\ tree \in [Roots -> [Slots -> Files]]
      /\ tree'[r][s] = files
      /\ \A x \in Roots, y \in Slots : ~(x = r /\ y = s) => tree'[x][y] = tree[x][y]
  BY <1>a DEF IndexTypeOK
<1>1. FilesAged'
  <2> SUFFICES ASSUME NEW x \in Roots, NEW y \in Slots
               PROVE  tree'[x][y].xml <= clock + 2 /\ tree'[x][y].bsl <= clock + 2
    BY <1>a DEF FilesAged
  <2>1. CASE x = r /\ y = s
    BY <1>b, <2>1
  <2>2. CASE ~(x = r /\ y = s)
    <3>1. tree[x][y] \in Files /\ tree[x][y].xml <= clock + 1 /\ tree[x][y].bsl <= clock + 1
      BY <1>b DEF IndexInv, FilesAged
    <3> QED BY <1>a, <1>b, <2>2, <3>1 DEF Files
  <2> QED BY <2>1, <2>2
<1>2. StampsAged'
  <2>1. \A p \in Debuggers, x \in Roots : stamp[p][x] \in Nat
    BY DEF IndexTypeOK
  <2>2. \A x \in Roots : cache.stamp[x] \in Nat
    BY DEF IndexTypeOK, Caches
  <2> QED BY <1>a, <2>1, <2>2 DEF IndexInv, StampsAged
\* A slot that is not read from this one's files is seen as before.
<1>3. \A x \in Roots, y \in Slots :
        <<x, y>> \notin {r} \X Dependents(s) => Present(x, y)' = Present(x, y)
  <2> SUFFICES ASSUME NEW x \in Roots, NEW y \in Slots, <<x, y>> \notin {r} \X Dependents(s)
               PROVE  Present(x, y)' = Present(x, y)
    OBVIOUS
  <2>1. x # r \/ (y # s /\ Owner[y] # s)
    BY DEF Dependents
  <2>2. Owner[y] \in Slots
    BY OwnersKnown
  <2>3. tree'[x][y] = tree[x][y] /\ tree'[x][Owner[y]] = tree[x][Owner[y]]
    BY <1>b, <2>1, <2>2
  <2> QED BY <2>3, PresentFrame
<1>4. CacheInv'
  <2> SUFFICES ASSUME Readable, NEW x \in cache.roots, NEW y \in Slots
               PROVE  Knows(cache.modules, cacheMissed, x, y)' \/ Newer(x, y)'
    BY <1>a DEF CacheInv, Readable, IndexInv
  <2>0. x \in Roots /\ cache.stamp[x] \in Nat /\ cache.stamp[x] <= clock + 1
    BY DEF IndexTypeOK, Caches, IndexInv, StampsAged
  <2>1. Knows(cache.modules, cacheMissed, x, y) \/ Newer(x, y)
    BY DEF IndexInv, CacheInv
  <2>2. cacheMissed \subseteq cacheMissed'
    BY DEF Change
  <2>3. CASE Change(r, s, files, FALSE) /\ <<x, y>> \in {r} \X Dependents(s)
    <3>1. <<x, y>> \in cacheMissed'
      BY <2>3 DEF Change
    <3> QED BY <3>1 DEF Knows
  <2>4. CASE <<x, y>> \notin {r} \X Dependents(s)
    <3>1. x # r \/ (y # s /\ Owner[y] # s)
      BY <2>4 DEF Dependents
    <3>2. Owner[y] \in Slots
      BY OwnersKnown
    <3>3. tree'[x][y] = tree[x][y] /\ tree'[x][Owner[y]] = tree[x][Owner[y]]
      BY <1>b, <2>0, <3>1, <3>2
    <3>4. Newer(x, y) => Newer(x, y)'
      BY <1>a, <3>3 DEF Newer
    <3>5. Knows(cache.modules, cacheMissed, x, y) => Knows(cache.modules, cacheMissed, x, y)'
      <4>1. Present(x, y)' = Present(x, y)
        BY <1>3, <2>0, <2>4
      <4> QED BY <1>a, <2>2, <4>1 DEF Knows, Indexed
    <3> QED BY <2>1, <3>4, <3>5
  <2>5. CASE /\ Kind[s] # "form" /\ <<x, y>> \in {r} \X Dependents(s)
             /\ files.xml = clock + 2 \/ files.bsl = clock + 2
    <3>1. x = r /\ s \in {y, Owner[y]}
      BY <2>5 DEF Dependents
    <3>2. tree'[x][s].xml > cache.stamp[x] \/ tree'[x][s].bsl > cache.stamp[x]
      BY <1>a, <1>b, <2>0, <2>5, <3>1
    <3>3. Newer(x, y)'
      BY <1>a, <2>5, <3>1, <3>2 DEF Newer
    <3> QED BY <3>3
  <2> QED BY <2>3, <2>4, <2>5
<1>5. ASSUME NEW p \in Debuggers PROVE IndexOf(p)'
  <2> SUFFICES ASSUME NEW x \in Scanned(p), NEW y \in Slots
               PROVE  Knows(index[p], missed[p], x, y)'
    BY <1>a DEF IndexOf, IndexInv, Scanned
  <2>0. x \in Roots
    BY DEF Scanned, IndexTypeOK
  <2>1. Knows(index[p], missed[p], x, y)
    BY DEF IndexInv, IndexOf
  <2>2. missed[p] \subseteq missed'[p]
    BY <1>a
  <2>3. CASE <<x, y>> \in {r} \X Dependents(s)
    <3>1. <<x, y>> \in missed'[p]
      BY <1>a, <2>3 DEF Scanned
    <3> QED BY <3>1 DEF Knows
  <2>4. CASE <<x, y>> \notin {r} \X Dependents(s)
    <3>1. Present(x, y)' = Present(x, y)
      BY <1>3, <2>0, <2>4
    <3> QED BY <1>a, <2>1, <2>2, <3>1 DEF Knows, Indexed
  <2> QED BY <2>3, <2>4
<1> QED BY <1>1, <1>2, <1>4, <1>5 DEF IndexInv

\* A cache that a command takes knows every module of the command's roots.
LEMMA TakenKnows ==
  ASSUME IndexTypeOK, IndexInv, NEW p \in Debuggers, try_load_cache(p)
  PROVE  \A r \in roots[p], s \in Slots : Knows(cache.modules, cacheMissed, r, s)
<1> SUFFICES ASSUME NEW r \in roots[p], NEW s \in Slots, Newer(r, s) PROVE FALSE
  BY DEF IndexInv, CacheInv, try_load_cache
<1>1. r \in Roots /\ cache.stamp[r] = root_fingerprint(r)
  BY DEF IndexTypeOK, try_load_cache
<1>2. PICK x \in {s, Owner[s]} : /\ Kind[x] # "form"
                                 /\ tree[r][x].xml > cache.stamp[r] \/ tree[r][x].bsl > cache.stamp[r]
  BY DEF Newer
<1>3. x \in Slots
  BY OwnersKnown
<1>4. tree[r][x].xml \in Times(r) /\ tree[r][x].bsl \in Times(r)
  BY <1>2, <1>3 DEF Times
<1>5. tree[r][x].xml <= cache.stamp[r] /\ tree[r][x].bsl <= cache.stamp[r]
  BY <1>1, <1>4, Newest DEF IndexInv
<1>6. tree[r][x].xml \in Nat /\ tree[r][x].bsl \in Nat /\ cache.stamp[r] \in Nat
  BY <1>1, <1>3 DEF IndexTypeOK, Files, Caches
<1> QED BY <1>2, <1>5, <1>6

\* What another process is at does not change with a step of this one.
LEMMA OthersFrame ==
  ASSUME IndexTypeOK, IndexInv, NEW p \in Debuggers, tree' = tree,
         \A q \in Debuggers \ {p} :
           /\ at'[q] = at[q] /\ roots'[q] = roots[q] /\ todo'[q] = todo[q]
           /\ index'[q] = index[q] /\ missed'[q] = missed[q],
         IndexOf(p)'
  PROVE  \A q \in Debuggers : IndexOf(q)'
<1> SUFFICES ASSUME NEW q \in Debuggers \ {p} PROVE IndexOf(q)'
  OBVIOUS
<1>1. \A r \in Roots, s \in Slots : Present(r, s)' = Present(r, s)
  BY PresentFrame
<1>2. Scanned(q)' = Scanned(q) /\ Scanned(q) \subseteq Roots
  BY DEF Scanned, IndexTypeOK
<1>3. \A r \in Scanned(q), s \in Slots : Knows(index[q], missed[q], r, s)'
  BY <1>1, <1>2 DEF IndexInv, IndexOf, Knows, Indexed
<1> QED BY <1>2, <1>3 DEF IndexInv, IndexOf, Knows, Indexed

LEMMA CacheFrame ==
  ASSUME IndexTypeOK, IndexInv, tree' = tree, cache' = cache, cacheMissed' = cacheMissed
  PROVE  CacheInv'
<1>1. \A r \in Roots, s \in Slots : Present(r, s)' = Present(r, s)
  BY PresentFrame
<1>2. \A r \in Roots, s \in Slots : Newer(r, s)' = Newer(r, s)
  BY DEF Newer
<1>3. cache.roots \subseteq Roots
  BY DEF IndexTypeOK, Caches
<1> QED BY <1>1, <1>2, <1>3 DEF IndexInv, CacheInv, Readable, Knows, Indexed

LEMMA DebuggerStep ==
  ASSUME IndexTypeOK, IndexInv, NEW p \in Debuggers, Debugger(p)
  PROVE  IndexInv'
<1>a. /\ tree' = tree /\ clock' = clock
      /\ \A q \in Debuggers \ {p} :
           /\ at'[q] = at[q] /\ roots'[q] = roots[q] /\ todo'[q] = todo[q]
           /\ index'[q] = index[q] /\ missed'[q] = missed[q] /\ stamp'[q] = stamp[q]
  <2>1. CASE make_resolver(p)
    BY <2>1 DEF make_resolver, GoOn, sources, IndexTypeOK
  <2>2. CASE LoadOrBuild(p)
    BY <2>2 DEF LoadOrBuild, GoOn, sources, IndexTypeOK
  <2>3. CASE ScanRoot(p)
    BY <2>3 DEF ScanRoot, GoOn, sources, IndexTypeOK
  <2>4. CASE StampRoot(p)
    BY <2>4 DEF StampRoot, GoOn, sources, IndexTypeOK
  <2>5. CASE Truncate(p)
    BY <2>5 DEF Truncate, GoOn, sources, IndexTypeOK
  <2>6. CASE Save(p)
    BY <2>6 DEF Save, GoOn, sources, IndexTypeOK
  <2>7. CASE End(p)
    BY <2>7 DEF End, GoOn, sources, IndexTypeOK
  <2> QED BY <2>1, <2>2, <2>3, <2>4, <2>5, <2>6, <2>7 DEF Debugger
<1>b. FilesAged'
  BY <1>a DEF IndexInv, FilesAged
<1>c. \A r \in Roots, s \in Slots : Present(r, s)' = Present(r, s)
  BY <1>a, PresentFrame
<1>d. IndexOf(p)
  BY DEF IndexInv
<1>e. /\ at \in [Debuggers -> Places] /\ roots \in [Debuggers -> SUBSET Roots]
      /\ todo \in [Debuggers -> SUBSET Roots] /\ index \in [Debuggers -> SUBSET Entries]
      /\ missed \in [Debuggers -> SUBSET (Roots \X Slots)] /\ stamp \in [Debuggers -> [Roots -> Nat]]
      /\ clock \in Nat
  BY DEF IndexTypeOK
\* Most steps leave the stamps and the cache alone.
<1>f. ASSUME stamp' = stamp, cache' = cache, cacheMissed' = cacheMissed, IndexOf(p)'
      PROVE  IndexInv'
  <2>1. StampsAged'
    BY <1>a, <1>f DEF IndexInv, StampsAged
  <2>2. CacheInv'
    BY <1>a, <1>f, CacheFrame
  <2>3. \A q \in Debuggers : IndexOf(q)'
    BY <1>a, <1>f, OthersFrame
  <2> QED BY <1>b, <2>1, <2>2, <2>3 DEF IndexInv
<1>1. CASE make_resolver(p)
  <2>1. /\ at'[p] \in {"load", "scan"} /\ roots'[p] = declared /\ todo'[p] = declared
        /\ index' = index /\ missed' = missed /\ stamp' = stamp /\ cache' = cache
        /\ cacheMissed' = cacheMissed /\ at[p] = "idle"
    BY <1>1, <1>e DEF make_resolver, GoOn, source_roots
  <2>2. IndexOf(p)'
    BY <2>1, <1>d DEF IndexOf, Scanned
  <2> QED BY <2>1, <2>2, <1>f
<1>2. CASE LoadOrBuild(p)
  <2>1. /\ at[p] = "load" /\ stamp' = stamp /\ cache' = cache /\ cacheMissed' = cacheMissed
        /\ roots' = roots
    BY <1>2 DEF LoadOrBuild
  <2>2. CASE try_load_cache(p)
    <3>1. /\ at'[p] = "ready" /\ index'[p] = cache.modules /\ todo'[p] = {}
          /\ missed'[p] = cacheMissed
      BY <1>2, <1>e, <2>2 DEF LoadOrBuild, GoOn
    <3>2. \A r \in roots[p], s \in Slots : Knows(cache.modules, cacheMissed, r, s)
      BY <2>2, TakenKnows
    <3>3. \A e \in cache.modules : e.root \in roots[p]
      BY <2>2 DEF try_load_cache, IndexInv, CacheInv
    <3>4. Scanned(p)' = roots[p] /\ roots[p] \subseteq Roots
      BY <1>e, <2>1, <3>1 DEF Scanned
    <3>5. \A r \in Scanned(p)', s \in Slots : Knows(index[p], missed[p], r, s)'
      BY <1>c, <3>1, <3>2, <3>4 DEF Knows, Indexed
    <3>6. IndexOf(p)'
      BY <1>d, <2>1, <3>1, <3>3, <3>4, <3>5 DEF IndexOf
    <3> QED BY <2>1, <3>6, <1>f
  <2>3. CASE ~try_load_cache(p)
    <3>1. at'[p] = "scan" /\ index' = index /\ todo' = todo /\ missed' = missed
      BY <1>2, <1>e, <2>3 DEF LoadOrBuild, GoOn
    <3>2. IndexOf(p)'
      BY <1>d, <2>1, <3>1 DEF IndexOf, Scanned
    <3> QED BY <2>1, <3>2, <1>f
  <2> QED BY <2>2, <2>3
<1>3. CASE ScanRoot(p)
  <2>1. /\ at[p] = "scan" /\ stamp' = stamp /\ cache' = cache /\ cacheMissed' = cacheMissed
        /\ roots' = roots /\ missed' = missed /\ at'[p] = "stamp"
    BY <1>3, <1>e DEF ScanRoot, GoOn
  <2>2. PICK r \in todo[p] : /\ index'[p] = index[p] \cup scan_source_root(r)
                             /\ todo'[p] = todo[p] \ {r}
    BY <1>3, <1>e DEF ScanRoot
  <2>3. r \in Roots /\ r \in roots[p] /\ r \notin Scanned(p)
    BY <1>d, <1>e, <2>2 DEF IndexOf, Scanned
  <2>4. Scanned(p)' = Scanned(p) \cup {r} /\ Scanned(p) \subseteq Roots
    BY <1>e, <2>1, <2>2, <2>3 DEF Scanned
  <2>5. \A e \in scan_source_root(r) : e.root = r
    <3>1. \A s \in Slots, withFile \in BOOLEAN : Entry(r, s, withFile).root = r
      BY DEF Entry
    <3> QED BY <3>1, ScanHolds
  <2>6. ASSUME NEW x \in Scanned(p)', NEW s \in Slots
        PROVE  Knows(index[p], missed[p], x, s)'
    <3>1. x \in Roots
      BY <2>3, <2>4
    <3>2. CASE x = r
      <4>1. \A e \in index[p] : e.root # r
        BY <1>d, <2>3 DEF IndexOf
      <4>2. Indexed(index'[p], x, s) = Present(x, s)
        BY <2>2, <3>2, <4>1 DEF Indexed, Present
      <4> QED BY <1>c, <3>1, <4>2 DEF Knows, Indexed
    <3>3. CASE x # r
      <4>1. x \in Scanned(p)
        BY <2>4, <3>3
      <4>2. Knows(index[p], missed[p], x, s)
        BY <1>d, <4>1 DEF IndexOf
      <4>3. Indexed(index'[p], x, s) = Indexed(index[p], x, s)
        BY <2>2, <2>5, <3>3 DEF Indexed
      <4> QED BY <1>c, <2>1, <3>1, <4>2, <4>3 DEF Knows, Indexed
    <3> QED BY <3>2, <3>3
  <2>7. \A e \in index'[p] : e.root \in Scanned(p)'
    BY <1>d, <2>2, <2>4, <2>5 DEF IndexOf
  <2>8. IndexOf(p)'
    BY <1>d, <2>1, <2>2, <2>6, <2>7 DEF IndexOf
  <2> QED BY <2>1, <2>8, <1>f
<1>4. CASE StampRoot(p)
  <2>1. /\ at[p] = "stamp" /\ at'[p] = "scan" /\ cache' = cache /\ cacheMissed' = cacheMissed
        /\ roots' = roots /\ todo' = todo /\ index' = index /\ missed' = missed
        /\ stamp' = [stamp EXCEPT ![p][current[p]] = root_fingerprint(current[p])]
    BY <1>4, <1>e DEF StampRoot, GoOn
  <2>2. current[p] \in Roots /\ root_fingerprint(current[p]) <= clock + 1
    BY Newest DEF IndexTypeOK, IndexInv
  <2>3. StampsAged'
    BY <1>a, <1>e, <2>1, <2>2 DEF IndexInv, StampsAged
  <2>4. IndexOf(p)'
    BY <1>c, <1>d, <1>e, <2>1 DEF IndexOf, Scanned, Knows, Indexed
  <2>5. CacheInv'
    BY <1>a, <2>1, CacheFrame
  <2>6. \A q \in Debuggers : IndexOf(q)'
    BY <1>a, <2>4, OthersFrame
  <2> QED BY <1>b, <2>3, <2>5, <2>6 DEF IndexInv
<1>5. CASE Truncate(p)
  <2>1. /\ at[p] = "scan" /\ todo[p] = {} /\ at'[p] = "write" /\ cache' = Torn
        /\ roots' = roots /\ todo' = todo /\ index' = index /\ missed' = missed /\ stamp' = stamp
    BY <1>5, <1>e DEF Truncate, GoOn
  <2>2. \A r \in Roots : Torn.stamp[r] = 0
    BY DEF Torn, NoCache, Everywhere
  <2>3. StampsAged'
    BY <1>a, <1>e, <2>1, <2>2 DEF IndexInv, StampsAged
  <2>4. IndexOf(p)'
    BY <1>c, <1>d, <1>e, <2>1 DEF IndexOf, Scanned, Knows, Indexed
  <2>5. CacheInv'
    BY <2>1 DEF CacheInv, Readable, Torn, NoCache
  <2>6. \A q \in Debuggers : IndexOf(q)'
    BY <1>a, <2>4, OthersFrame
  <2> QED BY <1>b, <2>3, <2>5, <2>6 DEF IndexInv
<1>6. CASE Save(p)
  <2>1. /\ at[p] = "write" /\ at'[p] = "ready" /\ stamp' = [stamp EXCEPT ![p] = Everywhere(0)]
        /\ roots' = roots /\ todo' = todo /\ index' = index /\ missed' = missed
    BY <1>6, <1>e DEF Save, GoOn
  <2>2. todo[p] = {} /\ Scanned(p) = roots[p] /\ roots[p] \subseteq Roots
    BY <1>d, <1>e, <2>1 DEF IndexOf, Scanned
  <2>3. \A q \in Debuggers, r \in Roots : stamp'[q][r] <= clock + 1
    BY <1>e, <2>1 DEF IndexInv, StampsAged, Everywhere
  <2>4. IndexOf(p)'
    BY <1>c, <1>d, <1>e, <2>1, <2>2 DEF IndexOf, Scanned, Knows, Indexed
  <2>5. \A q \in Debuggers : IndexOf(q)'
    BY <1>a, <2>4, OthersFrame
  <2>6. CacheInv' /\ \A r \in Roots : cache'.stamp[r] <= clock + 1
    <3>1. CASE cache' = Torn
      <4>1. \A r \in Roots : Torn.stamp[r] = 0
        BY DEF Torn, NoCache, Everywhere
      <4> QED BY <1>e, <3>1, <4>1 DEF CacheInv, Readable, Torn, NoCache
    <3>2. CASE /\ cache' = [state |-> "whole", roots |-> roots[p], stamp |-> stamp[p],
                            modules |-> index[p]]
               /\ cacheMissed' = missed[p]
      <4>1. cache'.roots = roots[p] /\ cache'.stamp = stamp[p] /\ cache'.modules = index[p]
        BY <3>2
      <4>2. \A e \in index[p] : e.root \in roots[p]
        BY <1>d, <2>2 DEF IndexOf
      <4>3. \A r \in roots[p], s \in Slots : Knows(index[p], missed[p], r, s)
        BY <1>d, <2>2 DEF IndexOf
      <4>4. \A r \in roots[p], s \in Slots : Knows(cache.modules, cacheMissed, r, s)'
        BY <1>c, <2>2, <3>2, <4>1, <4>3 DEF Knows, Indexed
      <4>5. CacheInv'
        BY <4>1, <4>2, <4>4 DEF CacheInv
      <4> QED BY <4>1, <4>5 DEF IndexInv, StampsAged
    <3> QED BY <1>6, <3>1, <3>2 DEF Save
  <2>7. StampsAged'
    BY <1>a, <2>3, <2>6 DEF StampsAged
  <2> QED BY <1>b, <2>5, <2>6, <2>7 DEF IndexInv
<1>7. CASE End(p)
  <2>1. /\ at'[p] = "idle" /\ roots'[p] = {} /\ todo'[p] = {} /\ index'[p] = {}
        /\ stamp' = [stamp EXCEPT ![p] = Everywhere(0)]
        /\ cache' = cache /\ cacheMissed' = cacheMissed
    BY <1>7, <1>e DEF End, GoOn
  <2>2. StampsAged'
    BY <1>a, <1>e, <2>1 DEF IndexInv, StampsAged, Everywhere
  <2>3. IndexOf(p)'
    BY <2>1 DEF IndexOf, Scanned
  <2>4. CacheInv'
    BY <1>a, <2>1, CacheFrame
  <2>5. \A q \in Debuggers : IndexOf(q)'
    BY <1>a, <2>3, OthersFrame
  <2> QED BY <1>b, <2>2, <2>4, <2>5 DEF IndexInv
<1> QED BY <1>1, <1>2, <1>3, <1>4, <1>5, <1>6, <1>7 DEF Debugger

LEMMA IndexInvStep == IndexTypeOK /\ IndexInv /\ [IndexNext]_indexVars => IndexInv'
<1> SUFFICES ASSUME IndexTypeOK, IndexInv, [IndexNext]_indexVars PROVE IndexInv'
  OBVIOUS
<1>1. ASSUME tree' = tree, clock' = clock, cache' = cache, process' = process, missed' = missed,
             cacheMissed' = cacheMissed
      PROVE  IndexInv'
  <2>1. CacheInv'
    BY <1>1, CacheFrame
  <2>2. \A r \in Roots, s \in Slots : Present(r, s)' = Present(r, s)
    BY <1>1, PresentFrame
  <2>3. ASSUME NEW p \in Debuggers PROVE IndexOf(p)'
    <3>1. IndexOf(p) /\ Scanned(p) \subseteq Roots
      BY DEF IndexInv, Scanned, IndexTypeOK
    <3>2. Scanned(p)' = Scanned(p)
      BY <1>1 DEF Scanned, process
    <3>3. \A r \in Scanned(p), s \in Slots : Knows(index[p], missed[p], r, s)'
      BY <1>1, <2>2, <3>1 DEF IndexOf, Knows, Indexed, process
    <3> QED BY <1>1, <3>1, <3>2, <3>3 DEF IndexOf, process
  <2>4. FilesAged' /\ StampsAged'
    BY <1>1 DEF IndexInv, FilesAged, StampsAged, process
  <2> QED BY <2>1, <2>3, <2>4 DEF IndexInv
<1>2. ASSUME NEW r \in Extensions, Declare(r) PROVE IndexInv'
  BY <1>1, <1>2 DEF Declare
<1>3. ASSUME NEW r \in Roots, NEW s \in Slots,
             EditXml(r, s) \/ EditCode(r, s) \/ Restore(r, s) \/ Remove(r, s)
      PROVE  IndexInv'
  BY <1>3, ChangeCases, ChangeStep DEF IndexInv
<1>4. CASE UNCHANGED indexVars
  BY <1>1, <1>4 DEF indexVars, sources
<1> QED BY <1>2, <1>3, <1>4, DebuggerStep DEF IndexNext, World

LEMMA IndexInductive == IndexSpec => [](IndexTypeOK /\ IndexInv)
<1>1. IndexTypeOK /\ IndexInv /\ [IndexNext]_indexVars => IndexTypeOK' /\ IndexInv'
  BY IndexTypeStep, IndexInvStep DEF IndexInv
<1> QED BY <1>1, IndexTypeInit, IndexInvInit, PTL DEF IndexSpec

-----------------------------------------------------------------------------
\* A cache that is taken tells the truth about every module but those whose change
\* has no newer time or came while it was made.
THEOREM CacheTells == IndexSpec => []CacheIsTrue
<1>1. IndexTypeOK /\ IndexInv => CacheIsTrue
  BY TakenKnows DEF CacheIsTrue, Knows
<1> QED BY <1>1, IndexInductive, PTL

\* An answer has the uuid that the sources have, unless the index missed a change.
THEOREM AnswersAreCurrent == IndexSpec => []AnswerIsCurrent
<1>1. ASSUME IndexTypeOK, IndexInv, NEW p \in Debuggers, at[p] = "ready",
             NEW e \in index[p], NEW s \in Slots, e.slot = s
      PROVE  e.id = tree[e.root][s].id \/ <<e.root, s>> \in missed[p]
  <2>1. IndexOf(p) /\ e.root \in Scanned(p)
    BY <1>1 DEF IndexInv, IndexOf
  <2>2. CASE Indexed(index[p], e.root, s) = Present(e.root, s)
    <3>1. e \in Present(e.root, s)
      BY <1>1, <2>2 DEF Indexed
    <3>2. PICK withFile \in BOOLEAN : e = Entry(e.root, s, withFile)
      BY <3>1, PresentHolds DEF PresentIs
    <3>3. Entry(e.root, s, withFile).id = tree[e.root][s].id
      BY DEF Entry
    <3> QED BY <3>2, <3>3
  <2> QED BY <2>1, <2>2 DEF IndexOf, Knows
<1>2. ASSUME IndexTypeOK, IndexInv, NEW p \in Debuggers, at[p] = "ready", NEW q \in Queries,
             NEW m \in Answers(p, q)
      PROVE  m.id = tree[m.root][q.slot].id \/ <<m.root, q.slot>> \in missed[p]
  <2>1. q.slot \in Slots
    BY DEF Queries, ByName, ByFile
  <2>2. CASE \E e \in index[p] : e.slot = q.slot /\ m = Module(e)
    BY <1>1, <1>2, <2>1, <2>2 DEF Module
  <2>3. CASE \E r : m = [root |-> r, id |-> tree[r][q.slot].id]
    BY <2>3
  <2>4. CASE q.by = "name"
    BY <2>2, <2>4 DEF Answers, resolve, find
  <2>5. CASE q.by # "name"
    BY <2>2, <2>3, <2>5 DEF Answers, resolve_from_file, resolve_path_via_layout, find_by_source_file
  <2> QED BY <2>4, <2>5
<1>3. IndexTypeOK /\ IndexInv => AnswerIsCurrent
  BY <1>2 DEF AnswerIsCurrent
<1> QED BY <1>3, IndexInductive, PTL

\* A path means the root its file is in, a name the extension it is asked of, and what
\* is below a root the configuration if that has it.
THEOREM AnswersAreOfTheirRoot == IndexSpec => []AnswerIsOfItsRoot
<1>1. ASSUME IndexTypeOK, IndexInv, NEW p \in Debuggers, at[p] = "ready", NEW q \in ByFile,
             q.by = "file", NEW m \in resolve_from_file(p, q)
      PROVE  /\ m.root \in Candidates(p, q)
             /\ Main \in Candidates(p, q) /\ Main \in roots[p] =>
                  \/ m.root = Main
                  \/ find_by_source_file(index[p], q.slot, Main) = {}
  <2> DEFINE hits == UNION {find_by_source_file(index[p], q.slot, r) : r \in Candidates(p, q)}
             mine == {e \in hits : e.root \in MainFirst({x.root : x \in hits})}
  <2>1. CASE hits = {}
    <3>1. m \in resolve_path_via_layout(p, q)
      BY <1>1, <2>1 DEF resolve_from_file
    <3>2. m.root \in MainFirst({x \in Candidates(p, q) \cap roots[p] : Parsed(x, q.slot)})
      BY <3>1 DEF resolve_path_via_layout
    <3>3. m.root \in Candidates(p, q)
      BY <3>2 DEF MainFirst
    <3>4. Main \in Candidates(p, q) => find_by_source_file(index[p], q.slot, Main) = {}
      BY <2>1
    <3> QED BY <3>3, <3>4
  <2>2. CASE hits # {}
    <3>1. PICK e \in mine : m = Module(e)
      BY <1>1, <2>2 DEF resolve_from_file
    <3>2. m.root = e.root /\ e \in hits /\ e.root \in MainFirst({x.root : x \in hits})
      BY <3>1 DEF Module
    <3>3. \A x \in hits : x.root \in Candidates(p, q)
      BY DEF find_by_source_file
    <3>4. ASSUME Main \in Candidates(p, q), find_by_source_file(index[p], q.slot, Main) # {}
          PROVE  m.root = Main
      <4>1. PICK x \in find_by_source_file(index[p], q.slot, Main) : TRUE
        BY <3>4
      <4>2. x \in hits /\ x.root = Main
        BY <3>4, <4>1 DEF find_by_source_file
      <4>3. MainFirst({y.root : y \in hits}) = {Main}
        BY <4>2 DEF MainFirst
      <4> QED BY <3>2, <4>3
    <3> QED BY <3>2, <3>3, <3>4
  <2> QED BY <2>1, <2>2
<1>2. ASSUME IndexTypeOK, IndexInv, NEW p \in Debuggers, at[p] = "ready", NEW q \in ByFile,
             q.by = "file", NEW m \in resolve_from_file(p, q), q.ext = NoRoot
      PROVE  IF q.path \in roots[p] /\ tree[q.path][q.slot].bsl # 0
             THEN m.root = q.path
             ELSE \/ m.root = Main \/ Main \notin roots[p]
                  \/ find_by_source_file(Present(Main, q.slot), q.slot, Main) = {}
                  \/ <<Main, q.slot>> \in missed[p]
  <2>1. NoRoot \notin roots[p] /\ roots[p] \subseteq Roots
    BY MainIsNoExtension, <1>2 DEF IndexTypeOK
  <2>2. CASE q.path \in roots[p] /\ tree[q.path][q.slot].bsl # 0
    <3>1. Candidates(p, q) = {q.path}
      BY <1>2, <2>1, <2>2 DEF Candidates
    <3> QED BY <1>1, <1>2, <2>2, <3>1
  <2>3. CASE ~(q.path \in roots[p] /\ tree[q.path][q.slot].bsl # 0)
    <3>1. SUFFICES ASSUME Main \in roots[p], m.root # Main, <<Main, q.slot>> \notin missed[p]
                   PROVE  find_by_source_file(Present(Main, q.slot), q.slot, Main) = {}
      BY <2>3
    <3>2. Candidates(p, q) = roots[p] \/ Candidates(p, q) = {}
      BY <1>2, <2>1, <2>3 DEF Candidates
    <3>3. Candidates(p, q) = roots[p]
      BY <1>1, <1>2, <3>2
    <3>4. find_by_source_file(index[p], q.slot, Main) = {}
      BY <1>1, <1>2, <3>1, <3>3
    <3>5. Main \in Scanned(p) /\ q.slot \in Slots
      BY <1>2, <3>1 DEF IndexInv, IndexOf, Scanned, ByFile
    <3>6. Indexed(index[p], Main, q.slot) = Present(Main, q.slot)
      BY <1>2, <3>1, <3>5 DEF IndexInv, IndexOf, Knows
    <3> QED BY <3>4, <3>6 DEF find_by_source_file, Indexed
  <2> QED BY <2>2, <2>3
<1>3. ASSUME IndexTypeOK, IndexInv, NEW p \in Debuggers, at[p] = "ready", NEW q \in ByFile,
             q.by = "file", NEW m \in resolve_from_file(p, q), q.ext # NoRoot
      PROVE  m.root = q.ext
  <2>1. Candidates(p, q) \subseteq {q.ext}
    BY <1>3 DEF Candidates
  <2> QED BY <1>1, <1>3, <2>1
<1>4. ASSUME NEW p \in Debuggers, NEW q \in ByName, q.by = "name", NEW m \in resolve(p, q)
      PROVE  m.root = q.ext
  BY <1>4 DEF resolve, find, Module
<1>5. /\ ByName \cup ByFile = Queries
      /\ \A q \in ByName : q.by = "name"
      /\ \A q \in ByFile : q.by = "file"
  BY DEF Queries, ByName, ByFile
<1>6. IndexTypeOK /\ IndexInv => AnswerIsOfItsRoot
  <2> SUFFICES ASSUME IndexTypeOK, IndexInv, NEW p \in Debuggers, at[p] = "ready",
                      NEW q \in Queries, NEW m \in Answers(p, q)
               PROVE  /\ q.ext # NoRoot => m.root = q.ext
                      /\ q.by = "file" /\ q.ext = NoRoot =>
                           IF q.path \in roots[p] /\ tree[q.path][q.slot].bsl # 0
                           THEN m.root = q.path
                           ELSE \/ m.root = Main \/ Main \notin roots[p]
                                \/ find_by_source_file(Present(Main, q.slot), q.slot, Main) = {}
                                \/ <<Main, q.slot>> \in missed[p]
    BY DEF AnswerIsOfItsRoot
  <2>1. CASE q \in ByName
    BY <1>4, <1>5, <2>1 DEF Answers
  <2>2. CASE q \in ByFile
    BY <1>2, <1>3, <1>5, <2>2 DEF Answers
  <2> QED BY <1>5, <2>1, <2>2
<1> QED BY <1>6, IndexInductive, PTL

-----------------------------------------------------------------------------
(* server.pid and server.json. *)

Busy(c) == cmd[c].pc # "idle"
Sole(c) == \A d \in Clis \ {c} : ~Busy(d)

NoneRuns == \A p \in Pids : ~Running(p)
OnlyOwn(c) == \A p \in Pids : Running(p) => p = cmd[c].pid

\* What an undisturbed command knows of the machine at each of its steps.
Stage(c) ==
  /\ cmd[c].pc \in {"check", "kill"} => Consistent
  /\ cmd[c].pc \in {"port", "unlink", "spawn", "clear"} => NoneRuns
  /\ cmd[c].pc \in {"kill", "await", "pid", "meta", "test"} => OnlyOwn(c)
  /\ cmd[c].pc \in {"meta", "test"} => pidFile = cmd[c].pid
  /\ cmd[c].pc = "test" => metaFile = cmd[c].pid

Calm == /\ Quiet => Consistent
        /\ \A c \in Clis : Busy(c) => Sole(c) /\ Stage(c)

\* Only a dbgs that lives listens.
PortHeld == port \in Pids => proc[port] = "listening"

ServerInv == ServerTypeOK /\ PortHeld /\ (~disturbed => Calm)

-----------------------------------------------------------------------------
\* The initial states: nothing runs and nothing is recorded.
LEMMA ServerInvInit == ServerInit => ServerInv
<1> SUFFICES ASSUME ServerInit
             PROVE  ServerInv
  OBVIOUS
<1>1. ServerTypeOK /\ PortHeld
  BY NamesDiffer DEF ServerInit, ServerTypeOK, PortHeld, Idle, States, ServerPlaces
<1>2. Calm
  BY DEF ServerInit, Calm, Quiet, Consistent, Busy, Idle, Running
<1> QED BY <1>1, <1>2 DEF ServerInv

\* Typing and the port, for every step of the machine and of a command.
LEMMA TypingStep == ServerTypeOK /\ PortHeld /\ [ServerNext]_serverVars => ServerTypeOK' /\ PortHeld'
<1> SUFFICES ASSUME ServerTypeOK, PortHeld, [ServerNext]_serverVars
             PROVE  ServerTypeOK' /\ PortHeld'
  OBVIOUS
<1> USE NamesDiffer DEF ServerTypeOK, PortHeld, serverFiles, Go, Done, Idle, States, ServerPlaces, Running,
        Exits, clear_server_state
<1>1. CASE Machine
  BY <1>1 DEF Machine, ForeignPort, Listen, Notify, Die
<1>2. ASSUME NEW c \in Clis, Command(c)
      PROVE  ServerTypeOK' /\ PortHeld'
  <2>1. CASE Begin(c)
    <3>1. disturbed' \in BOOLEAN
      BY <2>1, Zenon DEF Begin
    <3>2. UNCHANGED <<pidFile, metaFile, notify, port, proc>>
      BY <2>1 DEF Begin
    <3>3. cmd' \in [Clis -> [op : {"none", "start", "stop"}, pc : ServerPlaces,
                            pid : Pids \cup {NoPid}]]
      BY <2>1 DEF Begin
    <3> QED BY <3>1, <3>2, <3>3
  <2>4. CASE alive_server(c)
    BY <2>4 DEF alive_server
  <2>5. CASE PortTaken(c) \/ PortFree(c) \/ UnlinkNotify(c)
    BY <2>5 DEF PortTaken, PortFree, UnlinkNotify
  <2>2. CASE Spawn(c) \/ Terminate(c)
    BY <2>2 DEF Spawn, Terminate
  <2>3. CASE AwaitNotify(c) \/ WritePid(c) \/ WriteMeta(c)
    BY <2>3 DEF AwaitNotify, WritePid, WriteMeta
  <2>6. CASE AwaitExited(c) \/ ClearState(c)
    BY <2>6 DEF AwaitExited, ClearState
  <2>7. CASE TestOk(c) \/ TestFails(c)
    BY <2>7 DEF TestOk, TestFails
  <2>8. CASE Killed(c)
    BY <2>8 DEF Killed
  <2> HIDE DEF ServerTypeOK, PortHeld
  <2> QED BY <1>2, <2>1, <2>2, <2>3, <2>4, <2>5, <2>6, <2>7, <2>8, Zenon DEF Command
<1>3. CASE UNCHANGED serverVars
  BY <1>3 DEF serverVars
<1> QED BY <1>1, <1>2, <1>3 DEF ServerNext

\* The machine only takes dbgs processes away from those that run.
LEMMA MachineKeepsCalm == ServerTypeOK /\ Calm /\ Machine => Calm'
<1> SUFFICES ASSUME ServerTypeOK, Calm, Machine
             PROVE  Calm'
  OBVIOUS
<1>1. UNCHANGED <<pidFile, metaFile, cmd>>
  BY DEF Machine, ForeignPort, Listen, Notify, Die, serverFiles
<1>2. \A p \in Pids : Running(p)' => Running(p)
  BY DEF Machine, ForeignPort, Listen, Notify, Die, Running, Exits, ServerTypeOK, States
<1> QED BY <1>1, <1>2 DEF Calm, Quiet, Consistent, Busy, Sole, Stage, NoneRuns, OnlyOwn

\* A step of the one command that runs, once its part of Calm is shown.
LEMMA SoleStep ==
  ASSUME NEW c \in Clis, Sole(c), cmd' \in [Clis -> [op : {"none", "start", "stop"},
                                         pc : ServerPlaces, pid : Pids \cup {NoPid}]],
         \A d \in Clis \ {c} : cmd'[d] = cmd[d],
         IF Busy(c)' THEN Stage(c)' ELSE Consistent'
  PROVE  Calm'
  BY DEF Calm, Quiet, Busy, Sole

\* One step per action of a command that nothing disturbs.
LEMMA CommandKeepsCalm ==
  ASSUME NEW c \in Clis, ServerTypeOK, ServerTypeOK', PortHeld, Calm, Command(c), Busy(c), ~Killed(c)
  PROVE  Calm'
<1> USE NamesDiffer DEF serverFiles, Go, Done, Idle, Busy, ServerTypeOK
<1>1. Sole(c) /\ Stage(c)
  BY DEF Calm
<1>2. \A d \in Clis \ {c} : cmd'[d] = cmd[d]
  BY DEF Command, Begin, alive_server, PortTaken, PortFree, UnlinkNotify, Spawn, AwaitNotify,
         AwaitExited, WritePid, WriteMeta, TestOk, TestFails, Terminate, ClearState, Killed
<1>3. ASSUME IF Busy(c)' THEN Stage(c)' ELSE Consistent'
      PROVE  Calm'
  BY <1>1, <1>2, <1>3, SoleStep
<1> USE DEF Stage, Consistent, NoneRuns, OnlyOwn, Running
<1>4. CASE alive_server(c)
  BY <1>1, <1>3, <1>4 DEF alive_server, clear_server_state
<1>5. CASE PortTaken(c) \/ PortFree(c) \/ UnlinkNotify(c)
  BY <1>1, <1>3, <1>5 DEF PortTaken, PortFree, UnlinkNotify
<1>6. CASE Spawn(c)
  BY <1>1, <1>3, <1>6 DEF Spawn
<1>7. CASE AwaitNotify(c) \/ AwaitExited(c)
  BY <1>1, <1>3, <1>7 DEF AwaitNotify, AwaitExited, clear_server_state
<1>8. CASE WritePid(c) \/ WriteMeta(c)
  BY <1>1, <1>3, <1>8 DEF WritePid, WriteMeta
<1>9. CASE TestOk(c) \/ TestFails(c)
  BY <1>1, <1>3, <1>9 DEF TestOk, TestFails
<1>10. CASE Terminate(c)
  BY <1>1, <1>3, <1>10 DEF Terminate, Exits, States
<1>11. CASE ClearState(c)
  BY <1>1, <1>3, <1>11 DEF ClearState, clear_server_state
<1>12. ~Begin(c)
  BY DEF Begin
<1> QED BY <1>4, <1>5, <1>6, <1>7, <1>8, <1>9, <1>10, <1>11, <1>12 DEF Command

LEMMA ServerInvStep == ServerInv /\ [ServerNext]_serverVars => ServerInv'
<1> SUFFICES ASSUME ServerInv, [ServerNext]_serverVars
             PROVE  ServerInv'
  OBVIOUS
<1>1. ServerTypeOK' /\ PortHeld'
  BY TypingStep DEF ServerInv
<1>2. ASSUME ~disturbed'
      PROVE  Calm'
  <2>1. CASE Machine
    <3>1. ~disturbed
      BY <1>2, <2>1 DEF Machine, ForeignPort, Listen, Notify, Die
    <3> QED BY <2>1, <3>1, MachineKeepsCalm DEF ServerInv
  <2>2. ASSUME NEW c \in Clis, Begin(c)
        PROVE  Calm'
    <3>1. Quiet /\ Consistent
      BY <1>2, <2>2, Zenon DEF Begin
    <3>2. UNCHANGED <<pidFile, metaFile, proc>>
      BY <2>2 DEF Begin, serverFiles
    <3>3. Consistent'
      BY <3>1, <3>2 DEF Consistent, Running
    <3>4. cmd'[c].pc = "check" /\ \A d \in Clis \ {c} : cmd'[d] = cmd[d]
      BY <2>2 DEF Begin, ServerInv, ServerTypeOK
    <3> QED BY <3>1, <3>3, <3>4 DEF Calm, Quiet, Busy, Sole, Stage
  <2>3. ASSUME NEW c \in Clis, Command(c), ~Begin(c)
        PROVE  Calm'
    <3>1. ~Killed(c)
      BY <1>2 DEF Killed
    <3>2. Busy(c) /\ disturbed' = disturbed
      BY <2>3, <3>1 DEF Command, Busy, alive_server, PortTaken, PortFree, UnlinkNotify, Spawn,
         AwaitNotify, AwaitExited, WritePid, WriteMeta, TestOk, TestFails, Terminate, ClearState
    <3> QED BY <1>1, <1>2, <2>3, <3>1, <3>2, CommandKeepsCalm DEF ServerInv
  <2>4. CASE UNCHANGED serverVars
    BY <1>2, <2>4 DEF serverVars, ServerInv, Calm, Quiet, Consistent, Busy, Sole, Stage, NoneRuns, OnlyOwn, Running
  <2> QED BY <2>1, <2>2, <2>3, <2>4 DEF ServerNext
<1> QED BY <1>1, <1>2 DEF ServerInv

\* ServerInv is an invariant of the specification.
THEOREM ServerInductive == ServerSpec => []ServerInv
  BY ServerInvInit, ServerInvStep, PTL DEF ServerSpec

\* Type correctness of the server's files, processes and commands.
THEOREM ServerTypes == ServerSpec => []ServerTypeOK
  BY ServerInductive, PTL DEF ServerInv

\* Undisturbed commands leave no dbgs behind that server.pid does not name.
THEOREM NoOrphanHolds == ServerSpec => []NoOrphan
<1>1. ServerInv => NoOrphan
  BY DEF ServerInv, NoOrphan, Calm
<1> QED BY <1>1, ServerInductive, PTL

\* "The port is taken, not by our dbgs" is true of an undisturbed server start.
THEOREM ForeignIsForeignHolds == ServerSpec => ForeignIsForeign
<1>1. ServerInv /\ [ServerNext]_serverVars => [\A c \in Clis : PortTaken(c) => port = Foreign \/ disturbed]_serverVars
  BY DEF ServerInv, Calm, PortTaken, PortHeld, Busy, Stage, NoneRuns, Running, ServerTypeOK
<1> QED BY <1>1, ServerInductive, PTL DEF ServerSpec, ForeignIsForeign

\* An undisturbed server start that reports success recorded the dbgs it spawned,
\* and that one answered.
THEOREM OkIsOursHolds == ServerSpec => OkIsOurs
<1>1. ServerInv /\ [ServerNext]_serverVars => [\A c \in Clis : TestOk(c) =>
                                disturbed \/ (pidFile = port /\ cmd[c].pid = port)]_serverVars
  BY DEF ServerInv, Calm, TestOk, PortHeld, Busy, Stage, OnlyOwn, Running, ServerTypeOK
<1> QED BY <1>1, ServerInductive, PTL DEF ServerSpec, OkIsOurs
=============================================================================
