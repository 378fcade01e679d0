---------------------------- MODULE SourcesProofs ----------------------------
(***************************************************************************)
(* What an ok of Sources means, for any number of processes, objects and    *)
(* extensions: of build, of the imports, of metadata create and delete and  *)
(* of check.                                                               *)
(***************************************************************************)
EXTENDS Sources, TLAPS

USE DEF Trees, Content, Ibs

(***************************************************************************)
(* The invariant. Each place belongs to some commands, and each command has   *)
(* reached something at each place, if no other changes what it uses.       *)
(***************************************************************************)
PlaceOK(c) ==
  /\ c.at \in {"list", "write", "register"} => c.op \in {"create", "delete"}
  /\ c.at = "edit" => c.op \in {"create", "update"} /\ c.left \in 1..2
  /\ c.at \in {"prepare", "load", "apply"} => c.op \in {"build", "import", "load", "extension"}
  /\ c.at = "save" => c.op = "build"
  /\ c.at = "export" => c.op \in {"import", "extension"}
  /\ c.at = "strip" => c.op = "import" /\ c.flag
  /\ c.at \in {"unlink", "modules", "read"} => c.op = "check"
  /\ c.op \in {"create", "delete", "update"} => c.o \in Objects
  /\ c.op = "import" => c.t = 0

Want(t, tr) == IF t \in CfeTrees THEN Cfe[t] ELSE Dump(tr[t])
Package(c) == IF c.op = "import" THEN Cf ELSE Cfe[c.t]

BuildStage(c, tr, b) ==
  /\ c.at # "save" => \A t \in Trees : t < c.t => b["runtime"].applied[t] = Want(t, tr)
  /\ c.at = "apply" => b["runtime"].loaded[c.t] = Want(c.t, tr)
  /\ c.at = "save" => \A t \in Trees : b["runtime"].applied[t] = Want(t, tr)

ImportStage(c, tr, b) ==
  /\ c.at \in {"apply", "export"} => b[IbOf(c.op)].loaded[c.t] = Package(c)
  /\ c.at = "export" => b[IbOf(c.op)].applied[c.t] = Package(c)
  /\ c.at = "strip" => Whole(tr[0]) /\ Dump(tr[0]) = Cf /\ b["runtime"].applied[0] = Cf

EditStage(c, tr) ==
  /\ c.at = "register" => tr[c.t].files[c.o] = IF c.op = "create" THEN Compiled(c.o) ELSE 0
  /\ c.at = "edit" => tr[c.t].files[c.o] = 1 /\ c.o \in tr[c.t].listed /\ c.left = 1

CheckStage(c, b, l) == c.at = "read" /\ l # "errors" => ~Rejected(b["runtime"].loaded)

Stage(c, tr, b, l) ==
  c.at # "idle" /\ c.alone =>
    /\ c.op = "build" => BuildStage(c, tr, b)
    /\ c.op \in {"import", "extension"} => ImportStage(c, tr, b)
    /\ c.op \in {"create", "delete"} => EditStage(c, tr)
    /\ c.op = "check" => CheckStage(c, b, l)

Solo ==
  \A p, q \in Procs : p # q /\ cmd[p].at # "idle" /\ cmd[q].at # "idle" /\ cmd[p].alone =>
    Changes(cmd[q].op) \cap Uses(cmd[p].op) = {}

SInv ==
  /\ TypeOK
  /\ \A p \in Procs : PlaceOK(cmd[p]) /\ Stage(cmd[p], tree, ib, log)
  /\ Solo

(***************************************************************************)
(* Values.                                                                 *)
(***************************************************************************)
\* The values the commands work with are of their types.
LEMMA Types ==
  /\ 0 \in Trees /\ {0, 1, 2} \subseteq Versions
  /\ Nothing \in Content /\ NoTree \in Tree /\ NoInfobase \in Infobase
  /\ Idle \in Command
  /\ \A o \in Objects : Compiled(o) \in Versions
  /\ \A tr \in Tree : Dump(tr) \in Content
<1>1. 0 \in Trees /\ {0, 1, 2} \subseteq Versions
  BY LastTreeNat, VersionsReach DEF Versions
<1>2. Nothing \in Content /\ \A o \in Objects : Compiled(o) \in Versions
  BY <1>1 DEF Nothing, Compiled
<1>3. NoTree \in Tree /\ NoInfobase \in Infobase
  BY <1>2 DEF NoTree, Tree, NoInfobase, Infobase
<1>4. Idle \in Command
  BY <1>1 DEF Idle, Command, Places, Ops
<1>5. \A tr \in Tree : Dump(tr) \in Content
  BY <1>1 DEF Dump, Tree
<1> QED BY <1>1, <1>2, <1>3, <1>4, <1>5

\* A stage is about what the command uses only.
LEMMA StageUses ==
  ASSUME NEW c \in Command, NEW tr, NEW b, NEW l, NEW tr1, NEW b1, NEW l1,
         PlaceOK(c), Stage(c, tr, b, l),
         "tree" \in Uses(c.op) => tr1 = tr,
         "ib" \in Uses(c.op) => b1 = b,
         "log" \in Uses(c.op) => l1 = l
  PROVE  Stage(c, tr1, b1, l1)
<1>1. CASE c.op = "build"
  BY <1>1 DEF Stage, Uses
<1>2. CASE c.op \in {"import", "extension"}
  BY <1>2 DEF Stage, Uses, Changes, Metadata
<1>3. CASE c.op \in {"create", "delete"}
  BY <1>3 DEF Stage, Uses, Changes, Metadata
<1>4. CASE c.op = "check"
  BY <1>4 DEF Stage, Uses
<1> QED BY <1>1, <1>2, <1>3, <1>4 DEF Stage

(***************************************************************************)
(* Steps.                                                                  *)
(***************************************************************************)
\* A step that gives one process a command in order and changes only what that
\* command may change.
LEMMA OneStep ==
  ASSUME SInv, NEW p \in Procs, cmd[p].at # "idle", NEW d \in Command,
         d.op = cmd[p].op, d.alone = cmd[p].alone,
         cmd' = [cmd EXCEPT ![p] = d], PlaceOK(d), Stage(d, tree', ib', log'),
         tree' # tree => "tree" \in Changes(d.op),
         ib' # ib => "ib" \in Changes(d.op),
         log' # log => "log" \in Changes(d.op),
         registered' \in BOOLEAN, tree' \in [Trees -> Tree], ib' \in [Ibs -> Infobase],
         artifact' \in Content, log' \in {"none", "clean", "errors"}, begun' = begun
  PROVE  SInv'
<1>1. cmd \in [Procs -> Command]
  BY DEF SInv, TypeOK
<1>2. \A q \in Procs : cmd'[q] = IF q = p THEN d ELSE cmd[q]
  BY <1>1
<1>3. TypeOK'
  BY <1>1 DEF SInv, TypeOK
<1>4. ASSUME NEW q \in Procs
      PROVE  PlaceOK(cmd'[q]) /\ Stage(cmd'[q], tree', ib', log')
  <2>1. CASE q = p
    BY <1>2, <2>1
  <2>2. CASE q # p /\ (cmd[q].at = "idle" \/ ~cmd[q].alone)
    BY <1>2, <2>2 DEF SInv, Stage
  <2>3. CASE q # p /\ cmd[q].at # "idle" /\ cmd[q].alone
    <3>1. Changes(d.op) \cap Uses(cmd[q].op) = {}
      BY <2>3 DEF SInv, Solo
    <3>2. /\ "tree" \in Uses(cmd[q].op) => tree' = tree
          /\ "ib" \in Uses(cmd[q].op) => ib' = ib
          /\ "log" \in Uses(cmd[q].op) => log' = log
      BY <3>1
    <3>3. PlaceOK(cmd[q]) /\ Stage(cmd[q], tree, ib, log) /\ cmd[q] \in Command
      BY <1>1 DEF SInv
    <3>4. Stage(cmd[q], tree', ib', log')
      BY <3>2, <3>3, StageUses
    <3> QED BY <1>2, <2>3, <3>3, <3>4
  <2> QED BY <2>1, <2>2, <2>3
<1>5. Solo'
  BY <1>2 DEF SInv, Solo
<1> QED BY <1>3, <1>4, <1>5 DEF SInv, PlaceOK, Stage

\* A command begins: no other one that uses what it changes is alone any more.
LEMMA BeginStep ==
  ASSUME SInv, NEW p \in Procs, NEW c \in Command, c.op # "none",
         Begin(p, c), PlaceOK(c), c.t = 0 \/ c.op # "build",
         c.at \in {"list", "prepare", "unlink", "idle"} \/ (c.at = "edit" /\ c.op = "update"),
         tree' # tree => "tree" \in Changes(c.op),
         registered' \in BOOLEAN, tree' \in [Trees -> Tree], UNCHANGED <<ib, artifact, log>>
  PROVE  SInv'
<1> DEFINE d == [c EXCEPT !.alone = \A r \in Active : Changes(cmd[r].op) \cap Uses(c.op) = {}]
           f(q) == [cmd[q] EXCEPT !.alone = FALSE]
<1>1. cmd \in [Procs -> Command] /\ cmd[p].at = "idle"
  BY DEF SInv, TypeOK, Begin
<1>2. /\ d \in Command /\ d.at = c.at /\ d.op = c.op /\ d.t = c.t /\ d.o = c.o /\ d.left = c.left
      /\ d.alone = \A r \in Active : Changes(cmd[r].op) \cap Uses(c.op) = {}
  BY DEF Command
<1>3. \A q \in Procs : /\ f(q) \in Command /\ f(q).at = cmd[q].at /\ f(q).op = cmd[q].op
                       /\ f(q).t = cmd[q].t /\ f(q).o = cmd[q].o /\ f(q).left = cmd[q].left
                       /\ f(q).alone = FALSE /\ f(q).flag = cmd[q].flag
  BY <1>1 DEF Command
<1>4. /\ cmd' = [q \in Procs |-> cmd'[q]]
      /\ \A q \in Procs : cmd'[q] = IF q = p THEN d
                                    ELSE IF q \in Active /\ Changes(c.op) \cap Uses(cmd[q].op) # {}
                                    THEN f(q) ELSE cmd[q]
  BY DEF Begin
<1> HIDE DEF d, f
<1>5. \A q \in Procs : cmd'[q] \in Command
  BY <1>1, <1>2, <1>3, <1>4
<1>6. TypeOK'
  BY <1>4, <1>5, MaxCommandsNat DEF SInv, TypeOK, Begin
<1>7. PlaceOK(d) /\ Stage(d, tree', ib', log')
  BY <1>2, LastTreeNat DEF PlaceOK, Stage, BuildStage, ImportStage, EditStage, CheckStage
<1>8. ASSUME NEW q \in Procs
      PROVE  PlaceOK(cmd'[q]) /\ Stage(cmd'[q], tree', ib', log')
  <2>0. PlaceOK(cmd[q]) /\ Stage(cmd[q], tree, ib, log) /\ cmd[q] \in Command
    BY <1>1 DEF SInv
  <2>1. CASE q = p
    BY <1>4, <1>7, <2>1
  <2>2. CASE q # p /\ cmd'[q] = f(q)
    BY <1>3, <2>0, <2>2 DEF PlaceOK, Stage
  <2>3. CASE q # p /\ cmd'[q] = cmd[q] /\ cmd[q].at = "idle"
    BY <2>0, <2>3 DEF Stage
  <2>4. CASE q # p /\ cmd'[q] = cmd[q] /\ Changes(c.op) \cap Uses(cmd[q].op) = {}
    <3>1. Stage(cmd[q], tree', ib', log')
      BY <2>0, <2>4, StageUses
    <3> QED BY <2>0, <2>4, <3>1
  <2> QED BY <1>4, <2>1, <2>2, <2>3, <2>4 DEF Active
<1>9. Solo'
  <2> SUFFICES ASSUME NEW q \in Procs, NEW r \in Procs, q # r, cmd'[q].at # "idle",
                      cmd'[r].at # "idle", cmd'[q].alone
               PROVE  Changes(cmd'[r].op) \cap Uses(cmd'[q].op) = {}
    BY DEF Solo
  <2>1. CASE q = p
    BY <1>2, <1>3, <1>4, <2>1 DEF Active
  <2>2. CASE r = p
    BY <1>2, <1>3, <1>4, <2>2 DEF Active
  <2>3. CASE q # p /\ r # p
    BY <1>3, <1>4, <2>3 DEF SInv, Solo
  <2> QED BY <2>1, <2>2, <2>3
<1> QED BY <1>6, <1>8, <1>9 DEF SInv, PlaceOK, Stage

\* A command that is answered or killed needs nothing any more.
LEMMA EndStep ==
  ASSUME SInv, NEW p \in Procs, cmd[p].at # "idle", NEW v \in {"none", "ok", "error"}, End(p, v),
         tree' # tree => "tree" \in Changes(cmd[p].op),
         ib' # ib => "ib" \in Changes(cmd[p].op),
         log' # log => "log" \in Changes(cmd[p].op),
         registered' \in BOOLEAN, tree' \in [Trees -> Tree], ib' \in [Ibs -> Infobase],
         artifact' \in Content, log' \in {"none", "clean", "errors"}, begun' = begun
  PROVE  SInv'
<1> DEFINE d == Ended(cmd[p], v)
<1>1. cmd \in [Procs -> Command] /\ cmd[p] \in Command /\ PlaceOK(cmd[p])
  BY DEF SInv, TypeOK
<1>2. /\ d \in Command /\ d.at = "idle" /\ d.op = cmd[p].op /\ d.t = cmd[p].t /\ d.o = cmd[p].o
      /\ d.alone = cmd[p].alone
  BY <1>1 DEF Ended, Command, Places
<1>3. cmd' = [cmd EXCEPT ![p] = d]
  BY <1>1 DEF End, Ended
<1> HIDE DEF d
<1>4. PlaceOK(d) /\ Stage(d, tree', ib', log')
  BY <1>1, <1>2 DEF PlaceOK, Stage
<1> QED BY <1>2, <1>3, <1>4, OneStep

\* A command goes on to the next run: what the place asks for is left to the caller.
LEMMA GotoStep ==
  ASSUME SInv, NEW p \in Procs, cmd[p].at # "idle", NEW d \in Command,
         cmd' = [cmd EXCEPT ![p] = d],
         d.op = cmd[p].op, d.alone = cmd[p].alone, d.o = cmd[p].o,
         d.op = "import" => d.t = cmd[p].t,
         d.at \notin {"idle", "edit", "strip"},
         d.at \in {"list", "write", "register"} => d.op \in {"create", "delete"},
         d.at \in {"prepare", "load", "apply"} => d.op \in {"build", "import", "load", "extension"},
         d.at = "save" => d.op = "build",
         d.at = "export" => d.op \in {"import", "extension"},
         d.at \in {"unlink", "modules", "read"} => d.op = "check",
         Stage(d, tree', ib', log'),
         tree' # tree => "tree" \in Changes(cmd[p].op),
         ib' # ib => "ib" \in Changes(cmd[p].op),
         log' # log => "log" \in Changes(cmd[p].op),
         registered' \in BOOLEAN, tree' \in [Trees -> Tree], ib' \in [Ibs -> Infobase],
         artifact' \in Content, log' \in {"none", "clean", "errors"}, begun' = begun
  PROVE  SInv'
<1>1. PlaceOK(cmd[p])
  BY DEF SInv
<1>2. PlaceOK(d)
  BY <1>1 DEF PlaceOK
<1> QED BY <1>2, OneStep

(***************************************************************************)
(* xml-gen.                                                                *)
(***************************************************************************)
\* xml-gen reads the list.
LEMMA ReadListStep ==
  ASSUME SInv, NEW p \in Procs, ReadList(p)
  PROVE  SInv'
<1> DEFINE d == [cmd[p] EXCEPT !.at = "write", !.base = tree[cmd[p].t].listed]
<1>1. /\ cmd \in [Procs -> Command] /\ cmd[p] \in Command /\ PlaceOK(cmd[p])
      /\ tree[cmd[p].t] \in Tree
  BY DEF SInv, TypeOK, Command
<1>2. /\ d \in Command /\ d.at = "write" /\ d.op = cmd[p].op /\ d.t = cmd[p].t /\ d.o = cmd[p].o
      /\ d.alone = cmd[p].alone
  BY <1>1 DEF Command, Places, Tree
<1>3. cmd' = [cmd EXCEPT ![p] = d]
  BY <1>1 DEF ReadList
<1> HIDE DEF d
<1>4. d.op \in {"create", "delete"} /\ Stage(d, tree', ib', log')
  BY <1>1, <1>2 DEF PlaceOK, ReadList, Stage, EditStage
<1> QED BY <1>2, <1>3, <1>4, GotoStep DEF SInv, TypeOK, ReadList

\* The trees metadata commands write.
LEMMA FileWritten ==
  ASSUME SInv, NEW t \in Trees, NEW o \in Objects, NEW v \in Versions,
         tree' = [tree EXCEPT ![t].files[o] = v]
  PROVE  tree' \in [Trees -> Tree] /\ tree'[t].files[o] = v /\ tree'[t].listed = tree[t].listed
  BY DEF SInv, TypeOK, Tree

\* The list written the same way.
LEMMA ListWritten ==
  ASSUME SInv, NEW t \in Trees, NEW s \in SUBSET Objects,
         tree' = [tree EXCEPT ![t].listed = s]
  PROVE  tree' \in [Trees -> Tree] /\ tree'[t].listed = s /\ tree'[t].files = tree[t].files
  BY DEF SInv, TypeOK, Tree

\* xml-gen writes the object's file.
LEMMA WriteObjectStep ==
  ASSUME SInv, NEW p \in Procs, WriteObject(p)
  PROVE  SInv'
<1> DEFINE c == cmd[p]
           d == [c EXCEPT !.at = "register"]
           v == IF c.op = "create" THEN Compiled(c.o) ELSE 0
<1>1. /\ cmd \in [Procs -> Command] /\ c \in Command /\ PlaceOK(c) /\ c.at = "write"
      /\ c.op \in {"create", "delete"} /\ c.o \in Objects /\ c.t \in Trees
  BY DEF SInv, TypeOK, Command, PlaceOK, WriteObject
<1>2. /\ d \in Command /\ d.at = "register" /\ d.op = c.op /\ d.t = c.t /\ d.o = c.o
      /\ d.alone = c.alone
  BY <1>1 DEF Command, Places
<1>3. cmd' = [cmd EXCEPT ![p] = d] /\ tree' = [tree EXCEPT ![c.t].files[c.o] = v]
  BY <1>1 DEF WriteObject, Goto
<1>4. v \in Versions
  BY <1>1, Types
<1>5. tree' \in [Trees -> Tree] /\ tree'[c.t].files[c.o] = v
  <2> HIDE DEF c, d, v
  <2> QED BY <1>1, <1>3, <1>4, FileWritten, ZenonT(40)
<1>6. "tree" \in Changes(c.op)
  BY <1>1 DEF Changes, Metadata
<1>7. Stage(d, tree', ib', log')
  BY <1>1, <1>2, <1>5 DEF Stage, EditStage
<1> HIDE DEF c, d, v
<1> QED BY <1>1, <1>2, <1>3, <1>5, <1>6, <1>7, GotoStep DEF SInv, TypeOK, WriteObject, c

\* xml-gen writes the list; create goes on to the late parts or answers.
LEMMA WriteListStep ==
  ASSUME SInv, NEW p \in Procs, WriteList(p)
  PROVE  SInv'
<1> DEFINE c == cmd[p]
           d == [c EXCEPT !.at = "edit", !.left = 1]
           s == IF c.op = "create" THEN c.base \cup {c.o} ELSE c.base \ {c.o}
<1>1. /\ cmd \in [Procs -> Command] /\ c \in Command /\ PlaceOK(c) /\ c.at = "register"
      /\ c.op \in {"create", "delete"} /\ c.o \in Objects /\ c.t \in Trees
      /\ c.base \subseteq Objects
  BY DEF SInv, TypeOK, Command, PlaceOK, WriteList
<1>2. tree' = [tree EXCEPT ![c.t].listed = s] /\ s \subseteq Objects
  BY <1>1 DEF WriteList
<1>3. tree' \in [Trees -> Tree] /\ tree'[c.t].listed = s /\ tree'[c.t].files = tree[c.t].files
  <2> HIDE DEF c, s
  <2> QED BY <1>1, <1>2, ListWritten
<1>4. "tree" \in Changes(c.op)
  BY <1>1 DEF Changes, Metadata
<1>5. CASE c.op = "create" /\ c.o \in Late
  <2>1. /\ d \in Command /\ d.at = "edit" /\ d.op = c.op /\ d.t = c.t /\ d.o = c.o
        /\ d.alone = c.alone /\ d.left = 1
    <3> DEFINE e == [c EXCEPT !.at = "edit"]
    <3>1. d = [e EXCEPT !.left = 1]
      OBVIOUS
    <3>2. e \in Command /\ e.at = "edit" /\ e.op = c.op /\ e.t = c.t /\ e.o = c.o /\ e.alone = c.alone
      BY <1>1 DEF Command, Places
    <3> HIDE DEF c, d, e
    <3> QED BY <3>1, <3>2 DEF Command
  <2>2. cmd' = [cmd EXCEPT ![p] = d]
    BY <1>1, <1>5 DEF WriteList
  <2>3. Stage(c, tree, ib, log)
    BY DEF SInv
  <2>4. PlaceOK(d)
    BY <1>1, <1>5, <2>1 DEF PlaceOK
  <2>5. Stage(d, tree', ib', log')
    BY <1>1, <1>3, <1>5, <2>1, <2>3 DEF Stage, EditStage, Compiled
  <2> HIDE DEF d, s
  <2> QED BY <1>1, <1>3, <1>4, <2>1, <2>2, <2>4, <2>5, OneStep DEF SInv, TypeOK, WriteList
<1>6. CASE ~(c.op = "create" /\ c.o \in Late)
  <2>1. End(p, "ok")
    BY <1>6 DEF WriteList
  <2> HIDE DEF d, s
  <2> QED BY <1>1, <1>3, <1>4, <2>1, EndStep DEF SInv, TypeOK, WriteList
<1> QED BY <1>5, <1>6

\* One edit operation.
LEMMA EditOpStep ==
  ASSUME SInv, NEW p \in Procs, EditOp(p)
  PROVE  SInv'
<1> DEFINE c == cmd[p]
           d == IF c.left = 1 THEN [Ended(c, "ok") EXCEPT !.left = 0] ELSE [c EXCEPT !.left = @ - 1]
<1>1. /\ cmd \in [Procs -> Command] /\ c \in Command /\ PlaceOK(c) /\ c.at = "edit"
      /\ c.op \in {"create", "update"} /\ c.left \in 1..2 /\ c.t \in Trees
      /\ Stage(c, tree, ib, log)
  BY DEF SInv, TypeOK, Command, PlaceOK, EditOp
<1>2. tree' \in [Trees -> Tree]
  <2> DEFINE v == tree[c.t].files[c.o] + 1
  <2>1. c.o \in Objects
    <3>1. tree[c.t].files[c.o] \in 1..(MaxVersion - 1) /\ c.op \in {"create", "update"}
      BY <1>1 DEF EditOp
    <3> QED BY <1>1, <3>1 DEF PlaceOK
  <2>2. v \in Versions /\ tree' = [tree EXCEPT ![c.t].files[c.o] = v]
    BY VersionsReach DEF EditOp, Versions
  <2> HIDE DEF c, d, v
  <2> QED BY <1>1, <2>1, <2>2, FileWritten
<1>3. /\ d \in Command /\ d.op = c.op /\ d.t = c.t /\ d.o = c.o /\ d.alone = c.alone
      /\ d.at = "idle" \/ (d.at = "edit" /\ d.left = 1 /\ c.left = 2)
  <2>1. CASE c.left = 1
    <3> DEFINE e == [c EXCEPT !.at = "idle", !.verdict = "ok"]
    <3>1. d = [e EXCEPT !.left = 0]
      BY <2>1 DEF Ended
    <3>2. /\ e \in Command /\ e.at = "idle" /\ e.op = c.op /\ e.t = c.t /\ e.o = c.o
          /\ e.alone = c.alone
      BY <1>1 DEF Command, Places
    <3> HIDE DEF c, d, e
    <3> QED BY <3>1, <3>2 DEF Command
  <2>2. CASE c.left = 2
    <3>1. d = [c EXCEPT !.left = 1]
      BY <2>2
    <3> HIDE DEF c, d
    <3> QED BY <3>1, <1>1, <2>2 DEF Command
  <2> QED BY <1>1, <2>1, <2>2
<1>4. cmd' = [cmd EXCEPT ![p] = d]
  BY DEF EditOp
<1> HIDE DEF d
<1>5. PlaceOK(d)
  BY <1>1, <1>3 DEF PlaceOK
<1>6. Stage(d, tree', ib', log')
  BY <1>1, <1>3 DEF Stage, EditStage
<1>7. "tree" \in Changes(c.op)
  BY <1>1 DEF Changes, Metadata
<1> QED BY <1>1, <1>2, <1>3, <1>4, <1>5, <1>6, <1>7, OneStep DEF SInv, TypeOK, EditOp

\* A run of xml-gen that fails, and a kill anywhere.
LEMMA XmlGenFailsStep ==
  ASSUME SInv, NEW p \in Procs, XmlGenFails(p) \/ Crash(p)
  PROVE  SInv'
<1>1. CASE XmlGenFails(p)
  <2>1. cmd[p].at # "idle" /\ End(p, "error")
    BY <1>1 DEF XmlGenFails
  <2> QED BY <1>1, <2>1, EndStep DEF SInv, TypeOK, XmlGenFails
<1>2. CASE Crash(p)
  <2>1. cmd[p].at # "idle" /\ End(p, "none")
    BY <1>2 DEF Crash
  <2> QED BY <1>2, <2>1, EndStep DEF SInv, TypeOK, Crash
<1> QED BY <1>1, <1>2

(***************************************************************************)
(* ibcmd.                                                                  *)
(***************************************************************************)
\* A command at another place.
LEMMA Moved ==
  ASSUME NEW c \in Command, NEW a \in Places
  PROVE  LET d == [c EXCEPT !.at = a]
         IN /\ d \in Command /\ d.at = a /\ d.op = c.op /\ d.t = c.t /\ d.o = c.o
            /\ d.alone = c.alone /\ d.flag = c.flag
  BY DEF Command

\* The infobase is there.
LEMMA PrepareStep ==
  ASSUME SInv, NEW p \in Procs, Prepare(p)
  PROVE  SInv'
<1> DEFINE c == cmd[p]
           d == [c EXCEPT !.at = "load"]
<1>1. /\ cmd \in [Procs -> Command] /\ c \in Command /\ PlaceOK(c) /\ c.at = "prepare"
      /\ c.op \in {"build", "import", "load", "extension"} /\ Stage(c, tree, ib, log)
  BY DEF SInv, TypeOK, PlaceOK, Prepare
<1>2. /\ d \in Command /\ d.at = "load" /\ d.op = c.op /\ d.t = c.t /\ d.o = c.o
      /\ d.alone = c.alone
  BY <1>1, Moved, ZenonT(40) DEF Places
<1>3. cmd' = [cmd EXCEPT ![p] = d]
  BY DEF Prepare, Goto
<1> HIDE DEF d
<1>4. ib' \in [Ibs -> Infobase] /\ \A i \in Ibs : ib'[i].applied = ib[i].applied
  BY <1>1 DEF Prepare, SInv, TypeOK, Infobase, IbOf
<1>5. "ib" \in Changes(c.op)
  BY <1>1 DEF Changes, Metadata
<1>6. Stage(d, tree', ib', log')
  BY <1>1, <1>2, <1>4 DEF Stage, BuildStage, ImportStage, Prepare
<1> QED BY <1>1, <1>2, <1>3, <1>4, <1>5, <1>6, GotoStep DEF SInv, TypeOK, Prepare

\* What is loaded into one tree's place of an infobase, or applied there.
LEMMA Loaded ==
  ASSUME SInv, NEW i \in Ibs, NEW t \in Trees, NEW content \in Content,
         ib' = [ib EXCEPT ![i].loaded[t] = content]
  PROVE  /\ ib' \in [Ibs -> Infobase] /\ ib'[i].loaded[t] = content
         /\ \A j \in Ibs : ib'[j].applied = ib[j].applied
  BY DEF SInv, TypeOK, Infobase

\* What is applied to one tree's place of an infobase leaves the other places.
LEMMA Applied ==
  ASSUME SInv, NEW i \in Ibs, NEW t \in Trees,
         ib' = [ib EXCEPT ![i].applied[t] = ib[i].loaded[t]]
  PROVE  /\ ib' \in [Ibs -> Infobase] /\ ib'[i].applied[t] = ib[i].loaded[t]
         /\ \A u \in Trees : u # t => ib'[i].applied[u] = ib[i].applied[u]
         /\ \A j \in Ibs : ib'[j].loaded = ib[j].loaded
  BY DEF SInv, TypeOK, Infobase

\* ibcmd loads a tree or a package.
LEMMA LoadStep ==
  ASSUME SInv, NEW p \in Procs, Load(p)
  PROVE  SInv'
<1> DEFINE c == cmd[p]
           d == [c EXCEPT !.at = "apply"]
<1>1. /\ cmd \in [Procs -> Command] /\ c \in Command /\ PlaceOK(c) /\ c.at = "load"
      /\ c.op \in {"build", "import", "load", "extension"} /\ Stage(c, tree, ib, log)
      /\ c.t \in Trees
  BY DEF SInv, TypeOK, PlaceOK, Load, Command
<1>2. /\ d \in Command /\ d.at = "apply" /\ d.op = c.op /\ d.t = c.t /\ d.o = c.o
      /\ d.alone = c.alone
  BY <1>1, Moved, ZenonT(40) DEF Places
<1>3. cmd' = [cmd EXCEPT ![p] = d] /\ ib' = [ib EXCEPT ![IbOf(c.op)].loaded[c.t] = Input(c)]
  BY DEF Load, Goto
<1>4. Input(c) \in Content /\ IbOf(c.op) \in Ibs
  <2>1. tree[c.t] \in Tree
    BY <1>1 DEF SInv, TypeOK
  <2>2. Dump(tree[c.t]) \in Content /\ Cfe[c.t] \in Content /\ Cf \in Content
    BY <1>1, <2>1, Types, Packages
  <2> HIDE DEF c
  <2> QED BY <2>2 DEF Input, IbOf
<1> HIDE DEF d
<1>5. /\ ib' \in [Ibs -> Infobase] /\ ib'[IbOf(c.op)].loaded[c.t] = Input(c)
      /\ \A i \in Ibs : ib'[i].applied = ib[i].applied
  <2> HIDE DEF c
  <2> QED BY <1>1, <1>3, <1>4, Loaded
<1>6. "ib" \in Changes(c.op)
  BY <1>1 DEF Changes, Metadata
<1>7. tree' = tree
  BY DEF Load
<1>8. Stage(d, tree', ib', log')
  <2> HIDE DEF c
  <2>1. CASE c.op = "build"
    <3>1. BuildStage(d, tree', ib')  \/ ~d.alone
      BY <1>1, <1>2, <1>5, <1>7, <2>1 DEF Stage, BuildStage, Input, IbOf, Want
    <3> QED BY <1>2, <2>1, <3>1 DEF Stage
  <2>2. CASE c.op \in {"import", "extension"}
    BY <1>2, <1>5, <2>2 DEF Stage, ImportStage, Input, Package
  <2> QED BY <1>1, <1>2, <2>1, <2>2 DEF Stage
<1> QED BY <1>1, <1>2, <1>3, <1>5, <1>6, <1>7, <1>8, GotoStep DEF SInv, TypeOK, Load

\* apply leaves every tree before this one, and this one, as the sources say.
LEMMA AppliedStage ==
  ASSUME SInv, NEW p \in Procs, Apply(p)
  PROVE  LET c == cmd[p]
         IN /\ ib' \in [Ibs -> Infobase] /\ tree' = tree
            /\ c.op = "build" /\ c.alone =>
                 \A t \in Trees : t <= c.t => ib'["runtime"].applied[t] = Want(t, tree)
            /\ c.op \in {"import", "extension"} /\ c.alone =>
                 /\ ib'[IbOf(c.op)].loaded[c.t] = Package(c)
                 /\ ib'[IbOf(c.op)].applied[c.t] = Package(c)
<1> DEFINE c == cmd[p]
<1>1. /\ c.at = "apply" /\ c.t \in Trees /\ IbOf(c.op) \in Ibs /\ Stage(c, tree, ib, log)
      /\ c.op = "build" => IbOf(c.op) = "runtime"
  BY DEF SInv, TypeOK, Command, Apply, IbOf
<1>2. tree' = tree /\ ib' = [ib EXCEPT ![IbOf(c.op)].applied[c.t] = ib[IbOf(c.op)].loaded[c.t]]
  BY DEF Apply
<1> HIDE DEF c
<1>3. /\ ib' \in [Ibs -> Infobase]
      /\ ib'[IbOf(c.op)].applied[c.t] = ib[IbOf(c.op)].loaded[c.t]
      /\ \A u \in Trees : u # c.t => ib'[IbOf(c.op)].applied[u] = ib[IbOf(c.op)].applied[u]
      /\ \A j \in Ibs : ib'[j].loaded = ib[j].loaded
  BY <1>1, <1>2, Applied
<1>4. ASSUME c.op = "build", c.alone, NEW t \in Trees, t <= c.t
      PROVE  ib'["runtime"].applied[t] = Want(t, tree)
  <2>1. CASE t = c.t
    BY <1>1, <1>3, <1>4, <2>1 DEF Stage, BuildStage
  <2>2. CASE t # c.t
    <3>1. t < c.t
      BY <1>1, <1>4, <2>2, LastTreeNat
    <3> QED BY <1>1, <1>3, <1>4, <3>1 DEF Stage, BuildStage
  <2> QED BY <2>1, <2>2
<1>5. c.op \in {"import", "extension"} /\ c.alone =>
        /\ ib'[IbOf(c.op)].loaded[c.t] = Package(c)
        /\ ib'[IbOf(c.op)].applied[c.t] = Package(c)
  BY <1>1, <1>3 DEF Stage, ImportStage
<1> QED BY <1>2, <1>3, <1>4, <1>5 DEF c

\* ibcmd applies it; each command goes its own way then.
LEMMA ApplyStep ==
  ASSUME SInv, NEW p \in Procs, Apply(p)
  PROVE  SInv'
<1> DEFINE c == cmd[p]
<1>1. /\ cmd \in [Procs -> Command] /\ c \in Command /\ PlaceOK(c) /\ c.at = "apply"
      /\ c.op \in {"build", "import", "load", "extension"} /\ c.t \in Trees
  BY DEF SInv, TypeOK, PlaceOK, Apply, Command
<1>2. /\ ib' \in [Ibs -> Infobase] /\ tree' = tree
      /\ c.op = "build" /\ c.alone =>
           \A t \in Trees : t <= c.t => ib'["runtime"].applied[t] = Want(t, tree)
      /\ c.op \in {"import", "extension"} /\ c.alone =>
           /\ ib'[IbOf(c.op)].loaded[c.t] = Package(c)
           /\ ib'[IbOf(c.op)].applied[c.t] = Package(c)
  BY AppliedStage
<1>3. "ib" \in Changes(c.op)
  BY <1>1 DEF Changes, Metadata
<1>4. CASE c.op = "build" /\ c.t < LastTree
  <2> DEFINE e == [c EXCEPT !.at = "load"]
             d == [e EXCEPT !.t = c.t + 1]
  <2>1. /\ e \in Command /\ e.at = "load" /\ e.op = c.op /\ e.o = c.o /\ e.alone = c.alone
    BY <1>1, Moved, ZenonT(40) DEF Places
  <2>2. c.t + 1 \in Trees
    BY <1>1, <1>4, LastTreeNat
  <2>3. cmd' = [cmd EXCEPT ![p] = d]
    <3>1. cmd' = [cmd EXCEPT ![p].at = "load", ![p].t = c.t + 1]
      BY <1>4, LastTreeNat, <1>1 DEF Apply
    <3> HIDE DEF Apply
    <3> QED BY <1>1, <3>1
  <2>4. /\ d \in Command /\ d.at = "load" /\ d.op = c.op /\ d.o = c.o /\ d.alone = c.alone
        /\ d.t = c.t + 1
    <3> HIDE DEF e, c
    <3> QED BY <2>1, <2>2 DEF Command
  <2> HIDE DEF d
  <2>5. Stage(d, tree', ib', log')
    <3> HIDE DEF c
    <3>1. \A t \in Trees : t < c.t + 1 => t <= c.t
      BY <1>1, LastTreeNat
    <3>2. d.alone => BuildStage(d, tree', ib')
      BY <1>2, <1>4, <2>4, <3>1 DEF BuildStage
    <3> QED BY <1>4, <2>4, <3>2 DEF Stage
  <2> QED BY <1>1, <1>2, <1>3, <1>4, <2>3, <2>4, <2>5, GotoStep DEF SInv, TypeOK, Apply
<1>5. CASE c.op = "build" /\ c.t = LastTree /\ c.flag
  <2> DEFINE d == [c EXCEPT !.at = "save"]
  <2>1. /\ d \in Command /\ d.at = "save" /\ d.op = c.op /\ d.t = c.t /\ d.o = c.o
        /\ d.alone = c.alone
    BY <1>1, Moved DEF Places
  <2>2. cmd' = [cmd EXCEPT ![p] = d]
    BY <1>1, <1>5, LastTreeNat DEF Apply, Goto
  <2> HIDE DEF d
  <2>3. Stage(d, tree', ib', log')
    <3> HIDE DEF c
    <3>1. \A t \in Trees : t <= c.t
      BY <1>5, LastTreeNat
    <3>2. d.alone => BuildStage(d, tree', ib')
      BY <1>2, <1>5, <2>1, <3>1 DEF BuildStage
    <3> QED BY <1>5, <2>1, <3>2 DEF Stage
  <2> QED BY <1>1, <1>2, <1>3, <1>5, <2>1, <2>2, <2>3, GotoStep DEF SInv, TypeOK, Apply
<1>6. CASE c.op \in {"import", "extension"}
  <2> DEFINE d == [c EXCEPT !.at = "export"]
  <2>1. /\ d \in Command /\ d.at = "export" /\ d.op = c.op /\ d.t = c.t /\ d.o = c.o
        /\ d.alone = c.alone
    BY <1>1, Moved DEF Places
  <2>2. cmd' = [cmd EXCEPT ![p] = d]
    BY <1>6 DEF Apply, Goto
  <2> HIDE DEF d
  <2>3. Stage(d, tree', ib', log')
    <3> HIDE DEF c
    <3> QED BY <1>2, <1>6, <2>1 DEF Stage, ImportStage, Package
  <2> QED BY <1>1, <1>2, <1>3, <1>6, <2>1, <2>2, <2>3, GotoStep DEF SInv, TypeOK, Apply
<1>7. CASE End(p, "ok")
  BY <1>1, <1>2, <1>3, <1>7, EndStep DEF SInv, TypeOK, Apply
<1> QED BY <1>4, <1>5, <1>6, <1>7 DEF Apply

\* ibcmd saves the .cf.
LEMMA SaveStep ==
  ASSUME SInv, NEW p \in Procs, Save(p)
  PROVE  SInv'
<1>1. cmd[p].at # "idle" /\ End(p, "ok")
  BY DEF Save
<1>2. artifact' \in Content
  <2>1. ib["runtime"] \in Infobase /\ 0 \in Trees
    BY LastTreeNat DEF SInv, TypeOK
  <2>2. ib["runtime"].applied \in [Trees -> Content]
    BY <2>1 DEF Infobase
  <2> QED BY <2>1, <2>2 DEF Save
<1> QED BY <1>1, <1>2, EndStep DEF SInv, TypeOK, Save

\* What export writes is what was loaded, and nothing else is listed.
LEMMA Exported ==
  ASSUME SInv, NEW p \in Procs, Export(p)
  PROVE  LET c == cmd[p]
             content == ib[IbOf(c.op)].loaded[c.t]
         IN /\ tree' \in [Trees -> Tree]
            /\ Whole(tree'[c.t]) /\ Dump(tree'[c.t]) = content
            /\ tree'[c.t].support = (c.t = 0)
<1> DEFINE c == cmd[p]
           content == ib[IbOf(c.op)].loaded[c.t]
           exported == {o \in Objects : content[o] # 0}
<1>1. c.t \in Trees /\ content \in Content
  BY DEF SInv, TypeOK, Command, Infobase, IbOf
<1>2. PICK stays \in {{}, Objects \ exported} :
        tree' = [tree EXCEPT ![c.t] =
                   [has |-> TRUE, listed |-> exported, support |-> c.t = 0,
                    files |-> [o \in Objects |->
                                 IF o \in stays THEN @.files[o] ELSE content[o]]]]
  BY DEF Export
<1> DEFINE old == tree[c.t].files
           files == [o \in Objects |-> IF o \in stays THEN old[o] ELSE content[o]]
           new == [has |-> TRUE, listed |-> exported, support |-> c.t = 0, files |-> files]
<1>3. tree' = [tree EXCEPT ![c.t] = new]
  BY <1>2
<1>4. old \in Content
  BY <1>1 DEF SInv, TypeOK, Tree
<1> HIDE DEF c, content, old
<1>5. files \in Content
  BY <1>1, <1>4
<1>6. \A o \in exported : files[o] = content[o]
  BY <1>2
<1> HIDE DEF files
<1>7. new \in Tree
  BY <1>5 DEF Tree
<1>8. Whole(new) /\ Dump(new) = content
  BY <1>1, <1>6 DEF Whole, Dump
<1>9. new.support = (c.t = 0)
  OBVIOUS
<1>10. tree \in [Trees -> Tree]
  BY DEF SInv, TypeOK
<1> HIDE DEF new
<1>11. tree' \in [Trees -> Tree] /\ tree'[c.t] = new
  BY <1>1, <1>3, <1>7, <1>10
<1> QED BY <1>8, <1>9, <1>11 DEF c, content

\* ibcmd exports into the sources.
LEMMA ExportStep ==
  ASSUME SInv, NEW p \in Procs, Export(p)
  PROVE  SInv'
<1> DEFINE c == cmd[p]
           d == [c EXCEPT !.at = "strip"]
<1>1. /\ cmd \in [Procs -> Command] /\ c \in Command /\ PlaceOK(c) /\ c.at = "export"
      /\ c.op \in {"import", "extension"} /\ Stage(c, tree, ib, log)
  BY DEF SInv, TypeOK, PlaceOK, Export
<1>2. tree' \in [Trees -> Tree] /\ Whole(tree'[c.t]) /\ Dump(tree'[c.t]) = ib[IbOf(c.op)].loaded[c.t]
  BY Exported
<1>3. "tree" \in Changes(c.op) /\ UNCHANGED <<registered, ib, artifact, log, begun>>
  BY <1>1 DEF Changes, Metadata, Export
<1>4. CASE c.op = "import" /\ c.flag
  <2>1. /\ d \in Command /\ d.at = "strip" /\ d.op = c.op /\ d.t = c.t /\ d.o = c.o
        /\ d.alone = c.alone /\ d.flag = c.flag
    BY <1>1, Moved DEF Places
  <2>2. cmd' = [cmd EXCEPT ![p] = d]
    BY <1>4 DEF Export, Goto
  <2> HIDE DEF d
  <2>3. PlaceOK(d)
    BY <1>1, <1>4, <2>1 DEF PlaceOK
  <2>4. Stage(d, tree', ib', log')
    <3> HIDE DEF c
    <3> QED BY <1>1, <1>2, <1>3, <1>4, <2>1 DEF Stage, ImportStage, Package, IbOf, PlaceOK
  <2> QED BY <1>1, <1>2, <1>3, <2>1, <2>2, <2>3, <2>4, OneStep DEF SInv, TypeOK
<1>5. CASE End(p, "ok")
  BY <1>1, <1>2, <1>3, <1>5, EndStep DEF SInv, TypeOK
<1> QED BY <1>4, <1>5 DEF Export

\* Without support files a tree holds what it held.
LEMMA SupportGone ==
  ASSUME SInv, tree' = [tree EXCEPT ![0].support = FALSE]
  PROVE  /\ tree' \in [Trees -> Tree]
         /\ \A t \in Trees : /\ tree'[t].files = tree[t].files /\ tree'[t].listed = tree[t].listed
                            /\ Dump(tree'[t]) = Dump(tree[t]) /\ Whole(tree'[t]) = Whole(tree[t])
         /\ tree'[0].support = FALSE
<1>1. tree \in [Trees -> Tree] /\ 0 \in Trees
  BY LastTreeNat DEF SInv, TypeOK
<1>2. /\ tree' \in [Trees -> Tree]
      /\ \A t \in Trees : /\ tree'[t].files = tree[t].files /\ tree'[t].listed = tree[t].listed
                         /\ tree'[t].has = tree[t].has
      /\ tree'[0].support = FALSE
  BY <1>1 DEF Tree
<1> QED BY <1>2 DEF Dump, Whole

\* --break-support.
LEMMA StripStep ==
  ASSUME SInv, NEW p \in Procs, Strip(p)
  PROVE  SInv'
<1>1. cmd[p].at # "idle" /\ End(p, "ok") /\ PlaceOK(cmd[p]) /\ cmd[p].op = "import"
  BY DEF Strip, SInv, PlaceOK
<1>2. "tree" \in Changes(cmd[p].op)
  BY <1>1 DEF Changes, Metadata
<1>3. tree' \in [Trees -> Tree]
  BY SupportGone DEF Strip
<1> QED BY <1>1, <1>2, <1>3, EndStep DEF SInv, TypeOK, Strip

\* A run of ibcmd fails.
LEMMA IbcmdFailsStep ==
  ASSUME SInv, NEW p \in Procs, IbcmdFails(p)
  PROVE  SInv'
<1>1. cmd[p].at # "idle" /\ End(p, "error") /\ cmd[p].t \in Trees
  BY DEF IbcmdFails, SInv, TypeOK, Command
<1>2. tree' \in [Trees -> Tree]
  BY <1>1, Types DEF IbcmdFails, SInv, TypeOK
<1>3. tree' # tree => "tree" \in Changes(cmd[p].op)
  BY DEF IbcmdFails, Changes, Metadata
<1> QED BY <1>1, <1>2, <1>3, EndStep DEF SInv, TypeOK, IbcmdFails

\* break-support changes nothing any command's stage is about.
LEMMA BreakSupportStep ==
  ASSUME SInv, BreakSupport
  PROVE  SInv'
<1>1. /\ tree' \in [Trees -> Tree]
      /\ \A t \in Trees : /\ tree'[t].files = tree[t].files /\ tree'[t].listed = tree[t].listed
                         /\ Dump(tree'[t]) = Dump(tree[t]) /\ Whole(tree'[t]) = Whole(tree[t])
  BY SupportGone DEF BreakSupport
<1>2. UNCHANGED <<registered, ib, artifact, log, cmd, begun>>
  BY DEF BreakSupport
<1>3. TypeOK' /\ Solo'
  BY <1>1, <1>2 DEF SInv, TypeOK, Solo
<1>4. ASSUME NEW p \in Procs
      PROVE  PlaceOK(cmd'[p]) /\ Stage(cmd'[p], tree', ib', log')
  <2>1. /\ cmd'[p] = cmd[p] /\ cmd[p].t \in Trees /\ 0 \in Trees
        /\ PlaceOK(cmd[p]) /\ Stage(cmd[p], tree, ib, log)
    BY <1>2, LastTreeNat DEF SInv, TypeOK, Command
  <2>2. \A t \in Trees : Want(t, tree') = Want(t, tree)
    BY <1>1 DEF Want
  <2>3. cmd[p].op = "build" => (BuildStage(cmd[p], tree', ib') <=> BuildStage(cmd[p], tree, ib))
    BY <1>2, <2>1, <2>2 DEF BuildStage
  <2>4. ImportStage(cmd[p], tree', ib') <=> ImportStage(cmd[p], tree, ib)
    BY <1>1, <1>2, <2>1 DEF ImportStage
  <2>5. EditStage(cmd[p], tree') <=> EditStage(cmd[p], tree)
    BY <1>1, <2>1 DEF EditStage
  <2>6. CheckStage(cmd[p], ib', log') <=> CheckStage(cmd[p], ib, log)
    BY <1>2
  <2> QED BY <1>2, <2>1, <2>3, <2>4, <2>5, <2>6 DEF Stage
<1> QED BY <1>3, <1>4 DEF SInv

\* Nothing runs while a tree is scaffolded.
LEMMA ScaffoldStep ==
  ASSUME SInv, NEW t \in Trees, Scaffold(t)
  PROVE  SInv'
<1>1. \A p \in Procs : cmd'[p] = cmd[p] /\ cmd[p].at = "idle"
  BY DEF Scaffold, Active
<1>2. TypeOK'
  <2>1. tree' \in [Trees -> Tree]
    BY DEF Scaffold, SInv, TypeOK, Tree
  <2> QED BY <2>1 DEF Scaffold, SInv, TypeOK
<1>3. \A p \in Procs : PlaceOK(cmd'[p]) /\ Stage(cmd'[p], tree', ib', log')
  BY <1>1 DEF SInv, Stage
<1>4. Solo'
  BY <1>1 DEF Solo
<1> QED BY <1>2, <1>3, <1>4 DEF SInv

(***************************************************************************)
(* check.                                                                  *)
(***************************************************************************)
\* The two runs of check.
LEMMA CheckSteps ==
  ASSUME SInv, NEW p \in Procs, Unlink(p) \/ CheckModules(p)
  PROVE  SInv'
<1> DEFINE c == cmd[p]
           d(a, rc) == [c EXCEPT !.at = a, !.rc = rc]
<1>1. /\ cmd \in [Procs -> Command] /\ c \in Command /\ PlaceOK(c) /\ c.at \in {"unlink", "modules"}
      /\ c.op = "check" /\ c.rc \in BOOLEAN
  BY DEF SInv, TypeOK, PlaceOK, Unlink, CheckModules, Command
<1>2. \A a \in {"modules", "read"}, rc \in BOOLEAN :
        /\ d(a, rc) \in Command /\ d(a, rc).at = a /\ d(a, rc).op = c.op
        /\ d(a, rc).o = c.o /\ d(a, rc).t = c.t /\ d(a, rc).alone = c.alone
  <2> HIDE DEF c
  <2> QED BY <1>1, ZenonT(40) DEF Command, Places
<1>3. PICK a \in {"modules", "read"}, rc \in BOOLEAN :
        /\ cmd' = [cmd EXCEPT ![p] = d(a, rc)]
        /\ a = "read" => log' = IF Rejected(ib["runtime"].loaded) THEN "errors" ELSE "clean"
  <2>1. CASE Unlink(p)
    <3>1. PICK finds \in {FALSE, Rejected(ib["runtime"].loaded)} :
            cmd' = [cmd EXCEPT ![p].at = "modules", ![p].rc = ~finds]
      BY <2>1 DEF Unlink
    <3>2. finds \in BOOLEAN
      BY DEF Rejected
    <3> QED BY <1>1, <3>1, <3>2
  <2>2. CASE CheckModules(p)
    <3>1. PICK exit \in {TRUE, ~Rejected(ib["runtime"].loaded)} :
            cmd' = [cmd EXCEPT ![p].at = "read", ![p].rc = @ /\ exit]
      BY <2>2 DEF CheckModules
    <3>2. cmd' = [cmd EXCEPT ![p] = d("read", c.rc /\ exit)] /\ (c.rc /\ exit) \in BOOLEAN
      BY <1>1, <3>1
    <3> QED BY <2>2, <3>2 DEF CheckModules
  <2> QED BY <2>1, <2>2
<1>4. /\ UNCHANGED <<registered, tree, ib, artifact, begun>>
      /\ log' \in {"none", "clean", "errors"}
      /\ "log" \in Changes(c.op)
  BY <1>1 DEF Unlink, CheckModules, Changes, Metadata
<1>5. Stage(d(a, rc), tree', ib', log')
  <2> HIDE DEF c, d
  <2> QED BY <1>1, <1>2, <1>3, <1>4 DEF Stage, CheckStage
<1> DEFINE dd == d(a, rc)
<1>6. /\ dd \in Command /\ dd.at \in {"modules", "read"} /\ dd.op = c.op /\ dd.o = c.o /\ dd.t = c.t
      /\ dd.alone = c.alone /\ cmd' = [cmd EXCEPT ![p] = dd] /\ Stage(dd, tree', ib', log')
  BY <1>2, <1>3, <1>5
<1> HIDE DEF d, dd
<1> QED BY <1>1, <1>4, <1>6, GotoStep DEF SInv, TypeOK

\* The Designer's run fails, or its log is read.
LEMMA CheckEnds ==
  ASSUME SInv, NEW p \in Procs, CheckFails(p) \/ ReadLog(p)
  PROVE  SInv'
<1>1. cmd[p].at # "idle" /\ cmd[p].op = "check" /\ "log" \in Changes(cmd[p].op)
  BY DEF SInv, PlaceOK, CheckFails, ReadLog, Changes, Metadata
<1>2. PICK v \in {"none", "ok", "error"} : End(p, v)
  BY DEF CheckFails, ReadLog
<1>3. UNCHANGED <<registered, tree, ib, artifact, begun>> /\ log' \in {"none", "clean", "errors"}
  BY DEF SInv, TypeOK, CheckFails, ReadLog
<1> QED BY <1>1, <1>2, <1>3, EndStep DEF SInv, TypeOK

(***************************************************************************)
(* The start of a command.                                                 *)
(***************************************************************************)
\* A metadata command begins.
LEMMA BeginMetadata ==
  ASSUME SInv, NEW p \in Procs, NEW t \in Trees, NEW o \in Objects,
         \/ BeginCreate(p, t, o) \/ BeginDelete(p, t, o)
         \/ \E n \in 1..2 : BeginUpdate(p, t, o, n)
  PROVE  SInv'
<1>1. PICK c \in Command :
        /\ c.op \in {"create", "delete", "update"} /\ c.o = o
        /\ (c.at = "list" /\ c.op # "update") \/ (c.at = "edit" /\ c.op = "update" /\ c.left \in 1..2)
        /\ Begin(p, c)
  <2>1. CASE BeginCreate(p, t, o)
    <3> DEFINE c == [Idle EXCEPT !.at = "list", !.op = "create", !.t = t, !.o = o]
    <3>1. Begin(p, c)
      BY <2>1 DEF BeginCreate
    <3>2. c \in Command /\ c.op = "create" /\ c.o = o /\ c.at = "list"
      BY Types DEF Command, Places, Ops
    <3> HIDE DEF c
    <3> QED BY <3>1, <3>2
  <2>2. CASE BeginDelete(p, t, o)
    <3> DEFINE c == [Idle EXCEPT !.at = "list", !.op = "delete", !.t = t, !.o = o]
    <3>1. Begin(p, c)
      BY <2>2 DEF BeginDelete
    <3>2. c \in Command /\ c.op = "delete" /\ c.o = o /\ c.at = "list"
      BY Types DEF Command, Places, Ops
    <3> HIDE DEF c
    <3> QED BY <3>1, <3>2
  <2>3. ASSUME NEW n \in 1..2, BeginUpdate(p, t, o, n)
        PROVE  \E c \in Command :
                 /\ c.op \in {"create", "delete", "update"} /\ c.o = o
                 /\ (c.at = "list" /\ c.op # "update") \/ (c.at = "edit" /\ c.op = "update" /\ c.left \in 1..2)
                 /\ Begin(p, c)
    <3> DEFINE c == [Idle EXCEPT !.at = "edit", !.op = "update", !.t = t, !.o = o, !.left = n]
    <3>1. Begin(p, c)
      BY <2>3 DEF BeginUpdate
    <3> DEFINE e == [Idle EXCEPT !.at = "edit", !.op = "update", !.t = t, !.o = o]
    <3>2. e \in Command /\ e.op = "update" /\ e.o = o /\ e.at = "edit"
      BY Types DEF Command, Places, Ops
    <3>3. c = [e EXCEPT !.left = n]
      OBVIOUS
    <3> HIDE DEF c, e
    <3>4. c \in Command /\ c.op = "update" /\ c.o = o /\ c.at = "edit" /\ c.left = n
      BY <3>2, <3>3 DEF Command
    <3> QED BY <3>1, <3>4
  <2> QED BY <2>1, <2>2, <2>3
<1>2. UNCHANGED <<registered, tree, ib, artifact, log>>
  BY DEF BeginCreate, BeginDelete, BeginUpdate
<1>3. PlaceOK(c)
  BY <1>1 DEF PlaceOK
<1> QED BY <1>1, <1>2, <1>3, BeginStep DEF SInv, TypeOK

\* build, runtime load and check begin without touching anything.
LEMMA BeginOthers ==
  ASSUME SInv, NEW p \in Procs, NEW c \in Command, c.op \in {"build", "load", "check"}, c.t = 0,
         c.at = IF c.op = "check" THEN "unlink" ELSE "prepare", Begin(p, c),
         UNCHANGED <<registered, tree, ib, artifact, log>>
  PROVE  SInv'
<1>1. PlaceOK(c)
  BY DEF PlaceOK
<1> QED BY <1>1, BeginStep DEF SInv, TypeOK

\* An import begins, or is refused at once.
LEMMA BeginImportStep ==
  ASSUME SInv, NEW p \in Procs, NEW force \in BOOLEAN, NEW strip \in BOOLEAN,
         BeginImport(p, force, strip)
  PROVE  SInv'
<1> DEFINE c == [Idle EXCEPT !.at = "prepare", !.op = "import", !.flag = strip]
           e == Ended(c, "error")
<1>1. c \in Command /\ c.op = "import" /\ c.t = 0 /\ c.at = "prepare"
  BY Types DEF Idle, Command, Places, Ops
<1>2. e \in Command /\ e.op = "import" /\ e.t = 0 /\ e.at = "idle"
  <2> HIDE DEF c
  <2> QED BY <1>1 DEF Ended, Command, Places
<1>3. Begin(p, c) \/ Begin(p, e)
  BY DEF BeginImport
<1>4. registered' \in BOOLEAN /\ UNCHANGED <<tree, ib, artifact, log>>
  BY DEF BeginImport
<1> HIDE DEF c, e
<1>5. PlaceOK(c) /\ PlaceOK(e)
  BY <1>1, <1>2 DEF PlaceOK
<1> QED BY <1>1, <1>2, <1>3, <1>4, <1>5, BeginStep DEF SInv, TypeOK

\* An extension's import empties its directory.
LEMMA BeginExtensionStep ==
  ASSUME SInv, NEW p \in Procs, NEW t \in Trees, NEW force \in BOOLEAN,
         BeginExtension(p, t, force)
  PROVE  SInv'
<1> DEFINE c == [Idle EXCEPT !.at = "prepare", !.op = "extension", !.t = t]
<1>1. c \in Command /\ c.op = "extension" /\ c.t = t /\ c.at = "prepare"
  BY Types DEF Idle, Command, Places, Ops
<1>2. Begin(p, c) /\ tree' = [tree EXCEPT ![t] = NoTree]
      /\ UNCHANGED <<registered, ib, artifact, log>>
  BY DEF BeginExtension
<1> HIDE DEF c
<1>3. PlaceOK(c) /\ "tree" \in Changes(c.op)
  BY <1>1 DEF PlaceOK, Changes, Metadata
<1>4. tree' \in [Trees -> Tree]
  BY <1>2, Types DEF SInv, TypeOK
<1> QED BY <1>1, <1>2, <1>3, <1>4, BeginStep DEF SInv, TypeOK

\* Every command's start keeps the invariant.
LEMMA StartStep ==
  ASSUME SInv, NEW p \in Procs, Start(p)
  PROVE  SInv'
<1>1. ASSUME NEW flag \in BOOLEAN, BeginBuild(p, flag)
      PROVE  SInv'
  <2> DEFINE c == [Idle EXCEPT !.at = "prepare", !.op = "build", !.flag = flag]
  <2>1. c \in Command /\ c.op = "build" /\ c.t = 0 /\ c.at = "prepare"
    BY Types DEF Idle, Command, Places, Ops
  <2>2. Begin(p, c) /\ UNCHANGED <<registered, tree, ib, artifact, log>>
    BY <1>1 DEF BeginBuild
  <2> HIDE DEF c
  <2> QED BY <2>1, <2>2, BeginOthers
<1>2. CASE BeginLoad(p)
  <2> DEFINE c == [Idle EXCEPT !.at = "prepare", !.op = "load"]
  <2>1. c \in Command /\ c.op = "load" /\ c.t = 0 /\ c.at = "prepare"
    BY Types DEF Idle, Command, Places, Ops
  <2>2. Begin(p, c) /\ UNCHANGED <<registered, tree, ib, artifact, log>>
    BY <1>2 DEF BeginLoad
  <2> HIDE DEF c
  <2> QED BY <2>1, <2>2, BeginOthers
<1>3. CASE BeginCheck(p)
  <2> DEFINE c == [Idle EXCEPT !.at = "unlink", !.op = "check"]
  <2>1. c \in Command /\ c.op = "check" /\ c.t = 0 /\ c.at = "unlink"
    BY Types DEF Idle, Command, Places, Ops
  <2>2. Begin(p, c) /\ UNCHANGED <<registered, tree, ib, artifact, log>>
    BY <1>3 DEF BeginCheck
  <2> HIDE DEF c
  <2> QED BY <2>1, <2>2, BeginOthers
<1> QED BY <1>1, <1>2, <1>3, BeginMetadata, BeginImportStep, BeginExtensionStep DEF Start

(***************************************************************************)
(* The invariant, and what it says of the answers.                         *)
(***************************************************************************)
\* The invariant holds before any command.
LEMMA SInvInit == Init => SInv
<1> SUFFICES ASSUME Init PROVE SInv
  OBVIOUS
<1>1. TypeOK
  <2>1. tree \in [Trees -> Tree] /\ ib \in [Ibs -> Infobase]
    BY Types DEF Init
  <2>2. cmd \in [Procs -> Command] /\ artifact \in Content
    BY Types DEF Init
  <2>3. begun \in 0..MaxCommands
    BY MaxCommandsNat DEF Init
  <2> QED BY <2>1, <2>2, <2>3 DEF Init, TypeOK
<1>2. \A p \in Procs : cmd[p].at = "idle" /\ cmd[p].op = "none" /\ PlaceOK(cmd[p])
  BY DEF Init, Idle, PlaceOK
<1> QED BY <1>1, <1>2 DEF SInv, Stage, Solo

\* Every step keeps the invariant.
LEMMA SInvStep == SInv /\ [Next]_vars => SInv'
<1> SUFFICES ASSUME SInv, [Next]_vars PROVE SInv'
  OBVIOUS
<1>1. ASSUME NEW p \in Procs, Step(p)
      PROVE  SInv'
  BY <1>1, ReadListStep, WriteObjectStep, WriteListStep, EditOpStep, XmlGenFailsStep, PrepareStep,
     LoadStep, ApplyStep, SaveStep, ExportStep, StripStep, IbcmdFailsStep, CheckSteps, CheckEnds
     DEF Step
<1>2. CASE UNCHANGED vars
  BY <1>2 DEF vars, SInv, TypeOK, Solo
<1> QED BY <1>1, <1>2, StartStep, BreakSupportStep, ScaffoldStep DEF Next

\* The invariant holds in every reachable state.
LEMMA Invariant == Spec => []SInv
  BY SInvInit, SInvStep, PTL DEF Spec

\* The last run of a command that answers ok.
LEMMA Answers ==
  ASSUME SInv, [Next]_vars, NEW p \in Procs, cmd[p].at # "idle", cmd'[p].at = "idle",
         cmd'[p].verdict = "ok"
  PROVE  WriteList(p) \/ EditOp(p) \/ Apply(p) \/ Save(p) \/ Export(p) \/ Strip(p) \/ ReadLog(p)
<1>1. cmd \in [Procs -> Command]
  BY DEF SInv, TypeOK
<1>2. ASSUME NEW q \in Procs, NEW c, Begin(q, c)
      PROVE  FALSE
  <2>1. q # p
    BY <1>2 DEF Begin
  <2>2. cmd'[p].at = cmd[p].at
    BY <1>1, <1>2, <2>1 DEF Begin, Command
  <2> QED BY <2>2
<1>3. ASSUME NEW q \in Procs, Start(q)
      PROVE  FALSE
  BY <1>2, <1>3 DEF Start, BeginCreate, BeginDelete, BeginUpdate, BeginBuild, BeginImport,
                    BeginExtension, BeginLoad, BeginCheck
<1>4. ASSUME NEW q \in Procs, q # p, Step(q)
      PROVE  FALSE
  <2>1. cmd'[p] = cmd[p]
    BY <1>1, <1>4 DEF Step, ReadList, WriteObject, WriteList, EditOp, XmlGenFails, Prepare, Load, Apply,
                      Save, Export, Strip, IbcmdFails, Unlink, CheckModules, CheckFails, ReadLog,
                      Crash, Goto, End
  <2> QED BY <2>1
<1>5. CASE Step(p)
  <2>1. ~ReadList(p) /\ ~WriteObject(p) /\ ~Prepare(p) /\ ~Load(p) /\ ~Unlink(p) /\ ~CheckModules(p)
    BY <1>1 DEF ReadList, WriteObject, Prepare, Load, Unlink, CheckModules, Goto, Command
  <2>2. \A v \in {"none", "error"} : ~End(p, v)
    BY <1>1 DEF End, Command
  <2>3. ~XmlGenFails(p) /\ ~IbcmdFails(p) /\ ~CheckFails(p) /\ ~Crash(p)
    BY <2>2 DEF XmlGenFails, IbcmdFails, CheckFails, Crash
  <2> QED BY <1>5, <2>1, <2>3 DEF Step
<1>6. UNCHANGED cmd => FALSE
  OBVIOUS
<1> QED BY <1>3, <1>4, <1>5, <1>6 DEF Next, vars, BreakSupport, Scaffold

\* Type correctness.
THEOREM SourcesTyped == Spec => []TypeOK
<1>1. SInv => TypeOK
  BY DEF SInv
<1> QED BY <1>1, Invariant, PTL

\* A check that answers ok has seen an infobase without errors, whatever the exit codes
\* of the platform's tools and whatever log an earlier check left.
THEOREM CheckOkMeansClean == Spec => CheckOkClean
<1>1. ASSUME SInv, [Next]_vars, NEW p \in Procs, AnswersOk(p, {"check"})
      PROVE  ~Rejected(ib["runtime"].loaded)
  <2>1. /\ cmd[p].at # "idle" /\ cmd[p].op = "check" /\ cmd[p].alone
        /\ cmd'[p].at = "idle" /\ cmd'[p].verdict = "ok"
        /\ PlaceOK(cmd[p]) /\ Stage(cmd[p], tree, ib, log) /\ cmd \in [Procs -> Command]
    BY <1>1 DEF AnswersOk, SInv, TypeOK
  <2>2. ReadLog(p)
    BY <1>1, <2>1, Answers DEF PlaceOK, WriteList, EditOp, Apply, Save, Export, Strip
  <2>3. log # "errors"
    BY <2>1, <2>2 DEF ReadLog, End, Command
  <2> QED BY <2>1, <2>2, <2>3 DEF Stage, CheckStage, ReadLog
<1>2. SInv /\ [Next]_vars =>
        \A p \in Procs : AnswersOk(p, {"check"}) => ~Rejected(ib["runtime"].loaded)
  BY <1>1
<1> QED BY <1>2, Invariant, PTL DEF Spec, CheckOkClean

\* A build that answers ok leaves the infobase with what the sources say, of the
\* configuration and of every extension, and the .cf with what the infobase holds.
THEOREM BuildOkMeansInSync == Spec => BuildOkInSync
<1>1. ASSUME SInv, [Next]_vars, NEW p \in Procs, AnswersOk(p, {"build"})
      PROVE  /\ \A t \in Trees : ib'["runtime"].applied[t] =
                                   IF t \in CfeTrees THEN Cfe[t] ELSE Dump(tree[t])
             /\ cmd[p].flag => artifact' = Dump(tree[0])
  <2>1. /\ cmd[p].at # "idle" /\ cmd[p].op = "build" /\ cmd[p].alone
        /\ cmd'[p].at = "idle" /\ cmd'[p].verdict = "ok"
        /\ PlaceOK(cmd[p]) /\ Stage(cmd[p], tree, ib, log) /\ cmd \in [Procs -> Command]
        /\ cmd[p].t \in Trees
    BY <1>1 DEF AnswersOk, SInv, TypeOK, Command
  <2>2. CASE Apply(p)
    <3>1. cmd[p].t = LastTree /\ ~cmd[p].flag
      <4>1. ~(cmd[p].t < LastTree)
        <5>1. SUFFICES ASSUME cmd[p].t < LastTree PROVE FALSE
          OBVIOUS
        <5>2. cmd' = [cmd EXCEPT ![p].at = "load", ![p].t = cmd[p].t + 1]
          BY <2>1, <2>2, <5>1, LastTreeNat DEF Apply
        <5>3. cmd'[p].at = "load"
          BY <2>1, <5>2 DEF Command
        <5> QED BY <2>1, <5>3
      <4>2. cmd[p].t = LastTree
        BY <2>1, <4>1, LastTreeNat
      <4>3. ~Goto(p, "save")
        BY <2>1 DEF Goto, Command
      <4> QED BY <2>1, <2>2, <4>2, <4>3, LastTreeNat DEF Apply
    <3>2. \A t \in Trees : t <= cmd[p].t
      BY <3>1, LastTreeNat
    <3> QED BY <1>1, <2>1, <2>2, <3>1, <3>2, AppliedStage DEF Want
  <2>3. CASE Save(p)
    <3>1. /\ \A t \in Trees : ib["runtime"].applied[t] = Want(t, tree)
          /\ ib' = ib /\ artifact' = ib["runtime"].applied[0]
      BY <2>1, <2>3 DEF Stage, BuildStage, Save
    <3>2. 0 \in Trees /\ 0 \notin CfeTrees
      BY LastTreeNat, CfeTreesExtend
    <3> QED BY <3>1, <3>2 DEF Want
  <2> QED BY <1>1, <2>1, <2>2, <2>3, Answers DEF PlaceOK, WriteList, EditOp, Export, Strip, ReadLog
<1>2. SInv /\ [Next]_vars =>
        \A p \in Procs : AnswersOk(p, {"build"}) =>
          /\ \A t \in Trees : ib'["runtime"].applied[t] =
                                IF t \in CfeTrees THEN Cfe[t] ELSE Dump(tree[t])
          /\ cmd[p].flag => artifact' = Dump(tree[0])
  BY <1>1
<1> QED BY <1>2, Invariant, PTL DEF Spec, BuildOkInSync

\* An import that answers ok leaves the sources and the infobase with what the package
\* holds, and the support files gone if they were to go; so does an extension's.
THEOREM ImportOkMeansRoundTrip == Spec => ImportOkRoundTrip
<1>1. ASSUME SInv, [Next]_vars, NEW p \in Procs, AnswersOk(p, {"import", "extension"})
      PROVE  /\ cmd[p].op = "import" => /\ Whole(tree'[0]) /\ Dump(tree'[0]) = Cf
                                       /\ ib'["runtime"].applied[0] = Cf
                                       /\ tree'[0].support = ~cmd[p].flag
             /\ cmd[p].op = "extension" => Dump(tree'[cmd[p].t]) = Cfe[cmd[p].t]
  <2>1. /\ cmd[p].at # "idle" /\ cmd[p].op \in {"import", "extension"} /\ cmd[p].alone
        /\ cmd'[p].at = "idle" /\ cmd'[p].verdict = "ok"
        /\ PlaceOK(cmd[p]) /\ Stage(cmd[p], tree, ib, log) /\ cmd \in [Procs -> Command]
        /\ cmd[p].flag \in BOOLEAN
    BY <1>1 DEF AnswersOk, SInv, TypeOK, Command
  <2>2. CASE Export(p)
    <3>1. /\ Whole(tree'[cmd[p].t])
          /\ Dump(tree'[cmd[p].t]) = ib[IbOf(cmd[p].op)].loaded[cmd[p].t]
          /\ tree'[cmd[p].t].support = (cmd[p].t = 0)
      BY <1>1, <2>2, Exported
    <3>2. ~(cmd[p].op = "import" /\ cmd[p].flag)
      BY <2>1, <2>2 DEF Export, Goto, Command
    <3>3. ib' = ib /\ cmd[p].at = "export"
      BY <2>2 DEF Export
    <3> QED BY <2>1, <3>1, <3>2, <3>3 DEF Stage, ImportStage, Package, PlaceOK, IbOf
  <2>3. CASE Strip(p)
    <3>1. /\ cmd[p].at = "strip" /\ ib' = ib
          /\ tree' = [tree EXCEPT ![0].support = FALSE]
      BY <2>3 DEF Strip
    <3>2. Dump(tree'[0]) = Dump(tree[0]) /\ Whole(tree'[0]) = Whole(tree[0]) /\ tree'[0].support = FALSE
      BY <1>1, <3>1, SupportGone, Types
    <3> QED BY <2>1, <3>1, <3>2 DEF Stage, ImportStage, PlaceOK
  <2>4. ~Apply(p)
    <3> SUFFICES ASSUME Apply(p) PROVE FALSE
      OBVIOUS
    <3>1. Goto(p, "export")
      BY <2>1 DEF Apply
    <3> QED BY <2>1, <3>1 DEF Goto, Command
  <2> QED BY <1>1, <2>1, <2>2, <2>3, <2>4, Answers DEF PlaceOK, WriteList, EditOp, Save, ReadLog
<1>2. SInv /\ [Next]_vars =>
        /\ \A p \in Procs : AnswersOk(p, {"import"}) =>
             /\ Whole(tree'[0]) /\ Dump(tree'[0]) = Cf
             /\ ib'["runtime"].applied[0] = Cf
             /\ tree'[0].support = ~cmd[p].flag
        /\ \A p \in Procs : AnswersOk(p, {"extension"}) => Dump(tree'[cmd[p].t]) = Cfe[cmd[p].t]
  BY <1>1 DEF AnswersOk
<1> QED BY <1>2, Invariant, PTL DEF Spec, ImportOkRoundTrip

\* A create that answers ok has made and listed the whole object; after a delete that
\* answers ok the object is neither in its file nor in the list.
THEOREM MetadataOkMeansDone == Spec => MetadataOkDone
<1>1. ASSUME SInv, [Next]_vars, NEW p \in Procs, AnswersOk(p, {"create", "delete"})
      PROVE  /\ cmd[p].op = "create" => /\ tree'[cmd[p].t].files[cmd[p].o] >= 2
                                       /\ cmd[p].o \in tree'[cmd[p].t].listed
             /\ cmd[p].op = "delete" => /\ tree'[cmd[p].t].files[cmd[p].o] = 0
                                       /\ cmd[p].o \notin tree'[cmd[p].t].listed
  <2> DEFINE c == cmd[p]
  <2>1. /\ c.at # "idle" /\ c.op \in {"create", "delete"} /\ c.alone
        /\ cmd'[p].at = "idle" /\ cmd'[p].verdict = "ok"
        /\ PlaceOK(c) /\ Stage(c, tree, ib, log) /\ cmd \in [Procs -> Command]
        /\ c.t \in Trees /\ c.o \in Objects /\ c.base \subseteq Objects
    BY <1>1 DEF AnswersOk, SInv, TypeOK, Command, PlaceOK
  <2>2. CASE WriteList(p)
    <3> DEFINE s == IF c.op = "create" THEN c.base \cup {c.o} ELSE c.base \ {c.o}
    <3>1. c.at = "register" /\ tree' = [tree EXCEPT ![c.t].listed = s] /\ s \subseteq Objects
      BY <2>1, <2>2 DEF WriteList
    <3>2. tree'[c.t].listed = s /\ tree'[c.t].files = tree[c.t].files
      <4> HIDE DEF c, s
      <4> QED BY <1>1, <2>1, <3>1, ListWritten
    <3>3. ~(c.op = "create" /\ c.o \in Late)
      BY <2>1, <2>2 DEF WriteList, Command
    <3>4. tree[c.t].files[c.o] = IF c.op = "create" THEN 2 ELSE 0
      BY <2>1, <3>1, <3>3 DEF Stage, EditStage, Compiled
    <3> QED BY <3>2, <3>4
  <2>3. CASE EditOp(p)
    <3> DEFINE v == tree[c.t].files[c.o] + 1
    <3>1. c.at = "edit" /\ tree' = [tree EXCEPT ![c.t].files[c.o] = v]
      BY <2>3 DEF EditOp
    <3>2. c.op = "create" /\ tree[c.t].files[c.o] = 1 /\ c.o \in tree[c.t].listed
      BY <2>1, <3>1 DEF PlaceOK, Stage, EditStage
    <3>3. v \in Versions
      BY <3>2, Types
    <3>5. v = 2
      BY <3>2
    <3>4. tree' \in [Trees -> Tree] /\ tree'[c.t].files[c.o] = v /\ tree'[c.t].listed = tree[c.t].listed
      <4>1. SInv /\ c.t \in Trees /\ c.o \in Objects
        BY <1>1, <2>1
      <4>2. tree' = [tree EXCEPT ![c.t].files[c.o] = v]
        BY <3>1
      <4> HIDE DEF c, v
      <4> QED BY <3>3, <4>1, <4>2, FileWritten, Zenon
    <3> QED BY <3>2, <3>4, <3>5
  <2> QED BY <1>1, <2>1, <2>2, <2>3, Answers DEF PlaceOK, Apply, Save, Export, Strip, ReadLog
<1>2. SInv /\ [Next]_vars =>
        \A p \in Procs : AnswersOk(p, {"create", "delete"}) =>
          LET c == cmd[p]
              o == c.o
              now == tree'[c.t]
          IN /\ c.op = "create" => now.files[o] >= 2 /\ o \in now.listed
             /\ c.op = "delete" => now.files[o] = 0 /\ o \notin now.listed
  BY <1>1
<1> QED BY <1>2, Invariant, PTL DEF Spec, MetadataOkDone
=============================================================================
