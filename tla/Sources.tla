------------------------------ MODULE Sources ------------------------------
(***************************************************************************)
(* The sources of one configuration and its extensions, the file infobase   *)
(* they are built into, and the commands between them: metadata create,     *)
(* update and delete (several runs of xml-gen each), build, import of a .cf, *)
(* runtime load, extension add --from a .cfe, break-support and check        *)
(* (several runs of ibcmd and the Designer each). Processes of the CLI and   *)
(* of the MCP server run them without a lock; any run may fail and any       *)
(* command be killed between two runs.                                      *)
(***************************************************************************)
EXTENDS Naturals

CONSTANTS
  Procs,        \* processes that run a command each, one after another
  Objects,      \* metadata objects
  Late,         \* objects with parts that compile leaves out (synonyms of
                \* tabular sections, the content of an exchange plan)
  LastTree,     \* the number of extensions; tree 0 is the configuration's
  CfeTrees,     \* extensions whose source is a .cfe file
  Cf,           \* what the .cf to import holds
  Cfe,          \* what the .cfe of each extension holds
  Bad,          \* versions of an object the platform's check rejects
  MaxVersion,   \* bound: versions of an object
  MaxCommands   \* bound: commands begun in a behaviour

Trees == 0..LastTree
Versions == 0..MaxVersion     \* 0: none, 1: without its late parts, 2: complete
Content == [Objects -> Versions]
Ibs == {"runtime", "staging"}
Compiled(o) == IF o \in Late THEN 1 ELSE 2

ASSUME LastTreeNat == LastTree \in Nat
ASSUME LateObjects == Late \subseteq Objects
ASSUME CfeTreesExtend == CfeTrees \subseteq 1..LastTree
ASSUME Packages == Cf \in Content /\ Cfe \in [Trees -> Content]
ASSUME VersionsReach == MaxVersion \in Nat /\ MaxVersion >= 2
ASSUME MaxCommandsNat == MaxCommands \in Nat

VARIABLES
  registered,  \* the manifest has the configuration
  tree,        \* the source trees
  ib,          \* the project's infobase and the one extension imports go through
  artifact,    \* build/*.cf
  log,         \* .1c-dev/runtime/check-modules.out: "none", "clean" or "errors"
  cmd, begun

vars == <<registered, tree, ib, artifact, log, cmd, begun>>

Nothing == [o \in Objects |-> 0]

\* has: Configuration.xml; files: the objects' own files; listed: the objects
\* Configuration.xml names; support: there are ParentConfigurations files.
Tree == [has : BOOLEAN, files : Content, listed : SUBSET Objects, support : BOOLEAN]
NoTree == [has |-> FALSE, files |-> Nothing, listed |-> {}, support |-> FALSE]

\* For the configuration and each extension: what was loaded, and what was applied.
Infobase == [exists : BOOLEAN, loaded : [Trees -> Content], applied : [Trees -> Content]]
NoInfobase == [exists |-> FALSE, loaded |-> [t \in Trees |-> Nothing],
               applied |-> [t \in Trees |-> Nothing]]

Ops == {"create", "delete", "update", "build", "import", "load", "extension", "check", "none"}
Places == {"idle", "list", "write", "register", "edit", "prepare", "load", "apply", "save",
           "export", "strip", "unlink", "modules", "read"}
Command == [at : Places, op : Ops, t : Trees, o : Objects \cup {"none"}, left : 0..2,
            flag : BOOLEAN, base : SUBSET Objects, rc : BOOLEAN, alone : BOOLEAN,
            verdict : {"none", "ok", "error"}]
Idle == [at |-> "idle", op |-> "none", t |-> 0, o |-> "none", left |-> 0, flag |-> FALSE,
         base |-> {}, rc |-> TRUE, alone |-> TRUE, verdict |-> "none"]

TypeOK ==
  /\ registered \in BOOLEAN
  /\ tree \in [Trees -> Tree]
  /\ ib \in [Ibs -> Infobase]
  /\ artifact \in Content
  /\ log \in {"none", "clean", "errors"}
  /\ cmd \in [Procs -> Command]
  /\ begun \in 0..MaxCommands

Init ==
  /\ registered = FALSE
  /\ tree = [t \in Trees |-> NoTree]
  /\ ib = [b \in Ibs |-> NoInfobase]
  /\ artifact = Nothing
  /\ log = "none"
  /\ cmd = [p \in Procs |-> Idle]
  /\ begun = 0

\* What ibcmd reads from a tree: the listed objects, each from its file.
Dump(tr) == [o \in Objects |-> IF o \in tr.listed THEN tr.files[o] ELSE 0]
Whole(tr) == tr.has /\ \A o \in tr.listed : tr.files[o] # 0
Rejected(contents) == \E t \in Trees : \E o \in Objects : contents[t][o] \in Bad

\* What the commands use and change, to tell which overlaps matter to a command.
Metadata == {"create", "delete", "update"}
Changes(op) == CASE op \in Metadata -> {"tree"}
                 [] op \in {"build", "load"} -> {"ib"}
                 [] op \in {"import", "extension"} -> {"tree", "ib"}
                 [] op = "check" -> {"log"}
                 [] OTHER -> {}
Uses(op) == CASE op = "build" -> {"tree", "ib"}
              [] op = "check" -> {"ib", "log"}
              [] OTHER -> Changes(op)

(***************************************************************************)
(* The start of a command.                                                 *)
(***************************************************************************)
Goto(p, place) == cmd' = [cmd EXCEPT ![p].at = place]
End(p, verdict) == cmd' = [cmd EXCEPT ![p] = [@ EXCEPT !.at = "idle", !.verdict = verdict]]
Ended(c, verdict) == [c EXCEPT !.at = "idle", !.verdict = verdict]

Active == {q \in Procs : cmd[q].at # "idle"}

Begin(p, c) ==
  /\ cmd[p].at = "idle"
  /\ begun < MaxCommands
  /\ begun' = begun + 1
  /\ cmd' = [q \in Procs |->
               IF q = p THEN [c EXCEPT !.alone = \A r \in Active :
                                                   Changes(cmd[r].op) \cap Uses(c.op) = {}]
               ELSE IF q \in Active /\ Changes(c.op) \cap Uses(cmd[q].op) # {}
                    THEN [cmd[q] EXCEPT !.alone = FALSE]
               ELSE cmd[q]]

\* The tree metadata commands work on: its manifest entry says xml, it has sources.
Editable(t) == registered /\ tree[t].has /\ t \notin CfeTrees

\* metadata create refuses an object whose file exists, listed or not.
BeginCreate(p, t, o) ==
  /\ Editable(t)
  /\ tree[t].files[o] = 0
  /\ Begin(p, [Idle EXCEPT !.at = "list", !.op = "create", !.t = t, !.o = o])
  /\ UNCHANGED <<registered, tree, ib, artifact, log>>

BeginDelete(p, t, o) ==
  /\ Editable(t)
  /\ tree[t].files[o] # 0
  /\ Begin(p, [Idle EXCEPT !.at = "list", !.op = "delete", !.t = t, !.o = o])
  /\ UNCHANGED <<registered, tree, ib, artifact, log>>

\* metadata update with n operations.
BeginUpdate(p, t, o, n) ==
  /\ Editable(t)
  /\ tree[t].files[o] # 0 /\ tree[t].files[o] + n <= MaxVersion
  /\ Begin(p, [Idle EXCEPT !.at = "edit", !.op = "update", !.t = t, !.o = o, !.left = n])
  /\ UNCHANGED <<registered, tree, ib, artifact, log>>

\* build, with --artifact cf or not: every source directory must exist.
BeginBuild(p, save) ==
  /\ registered
  /\ \A t \in Trees : tree[t].has \/ t \in CfeTrees
  /\ Begin(p, [Idle EXCEPT !.at = "prepare", !.op = "build", !.flag = save])
  /\ UNCHANGED <<registered, tree, ib, artifact, log>>

\* configuration import registers the configuration and only then looks whether
\* there are sources it would overwrite; --break-support is the flag.
BeginImport(p, force, strip) ==
  /\ registered' = TRUE
  /\ LET c == [Idle EXCEPT !.at = "prepare", !.op = "import", !.flag = strip]
     IN Begin(p, IF tree[0].has /\ ~force THEN Ended(c, "error") ELSE c)
  /\ UNCHANGED <<tree, ib, artifact, log>>

BeginLoad(p) ==
  /\ registered
  /\ Begin(p, [Idle EXCEPT !.at = "prepare", !.op = "load"])
  /\ UNCHANGED <<registered, tree, ib, artifact, log>>

\* extension add --from: the directory is emptied; the import goes through an
\* infobase of its own.
BeginExtension(p, t, force) ==
  /\ registered
  /\ t \in 1..LastTree \ CfeTrees
  /\ ~tree[t].has \/ force
  /\ tree' = [tree EXCEPT ![t] = NoTree]
  /\ Begin(p, [Idle EXCEPT !.at = "prepare", !.op = "extension", !.t = t])
  /\ UNCHANGED <<registered, ib, artifact, log>>

BeginCheck(p) ==
  /\ registered
  /\ ib["runtime"].exists
  /\ Begin(p, [Idle EXCEPT !.at = "unlink", !.op = "check"])
  /\ UNCHANGED <<registered, tree, ib, artifact, log>>

(***************************************************************************)
(* xml-gen: compile and remove change the object's file and the list in     *)
(* Configuration.xml, which they read before.                              *)
(***************************************************************************)
ReadList(p) ==
  /\ cmd[p].at = "list"
  /\ cmd' = [cmd EXCEPT ![p].at = "write", ![p].base = tree[cmd[p].t].listed]
  /\ UNCHANGED <<registered, tree, ib, artifact, log, begun>>

WriteObject(p) ==
  LET c == cmd[p]
  IN /\ c.at = "write"
     /\ tree' = [tree EXCEPT ![c.t].files[c.o] = IF c.op = "create" THEN Compiled(c.o) ELSE 0]
     /\ Goto(p, "register")
     /\ UNCHANGED <<registered, ib, artifact, log, begun>>

\* Mutant: create ends with compile.
WriteList_NoFollowUp(p) ==
  LET c == cmd[p]
  IN /\ c.at = "register"
     /\ tree' = [tree EXCEPT ![c.t].listed =
                   IF c.op = "create" THEN c.base \cup {c.o} ELSE c.base \ {c.o}]
     /\ End(p, "ok")
     /\ UNCHANGED <<registered, ib, artifact, log, begun>>

\* The list is written. create goes on to the late parts of the object.
WriteList(p) ==
  LET c == cmd[p]
  IN /\ c.at = "register"
     /\ tree' = [tree EXCEPT ![c.t].listed =
                   IF c.op = "create" THEN c.base \cup {c.o} ELSE c.base \ {c.o}]
     /\ IF c.op = "create" /\ c.o \in Late
        THEN cmd' = [cmd EXCEPT ![p].at = "edit", ![p].left = 1]
        ELSE End(p, "ok")
     /\ UNCHANGED <<registered, ib, artifact, log, begun>>

\* One operation of meta edit or subsystem edit: the file is read and written.
EditOp(p) ==
  LET c == cmd[p]
  IN /\ c.at = "edit"
     /\ tree[c.t].files[c.o] \in 1..(MaxVersion - 1)
     /\ tree' = [tree EXCEPT ![c.t].files[c.o] = @ + 1]
     /\ cmd' = [cmd EXCEPT ![p] = IF c.left = 1 THEN [Ended(c, "ok") EXCEPT !.left = 0]
                                  ELSE [c EXCEPT !.left = @ - 1]]
     /\ UNCHANGED <<registered, ib, artifact, log, begun>>

\* A run of xml-gen fails, or finds no file, or the manifest does not validate
\* after compile: what the runs before it did stays.
XmlGenFails(p) ==
  /\ cmd[p].at \in {"list", "write", "register", "edit"}
  /\ End(p, "error")
  /\ UNCHANGED <<registered, tree, ib, artifact, log, begun>>

(***************************************************************************)
(* ibcmd: create, then load and apply for the configuration or for every     *)
(* tree, then save or export.                                              *)
(***************************************************************************)
IbOf(op) == IF op = "extension" THEN "staging" ELSE "runtime"

Prepare(p) ==
  /\ cmd[p].at = "prepare"
  /\ ib' = [ib EXCEPT ![IbOf(cmd[p].op)].exists = TRUE]
  /\ Goto(p, "load")
  /\ UNCHANGED <<registered, tree, artifact, log, begun>>

\* config import of a tree for build, config load of a package otherwise.
Input(c) ==
  IF c.op = "build" THEN IF c.t \in CfeTrees THEN Cfe[c.t] ELSE Dump(tree[c.t])
  ELSE IF c.op = "extension" THEN Cfe[c.t] ELSE Cf

Load(p) ==
  LET c == cmd[p]
  IN /\ c.at = "load"
     /\ c.op = "build" /\ c.t \notin CfeTrees => Whole(tree[c.t])
     /\ ib' = [ib EXCEPT ![IbOf(c.op)].loaded[c.t] = Input(c)]
     /\ Goto(p, "apply")
     /\ UNCHANGED <<registered, tree, artifact, log, begun>>

\* Mutant: build applies the configuration, not its extensions.
Apply_MainOnly(p) ==
  LET c == cmd[p]
  IN /\ c.at = "apply"
     /\ ib' = IF c.op = "build" /\ c.t > 0 THEN ib
              ELSE [ib EXCEPT ![IbOf(c.op)].applied[c.t] = ib[IbOf(c.op)].loaded[c.t]]
     /\ CASE c.op = "build" /\ c.t < LastTree ->
               cmd' = [cmd EXCEPT ![p].at = "load", ![p].t = c.t + 1]
          [] c.op = "build" /\ c.t = LastTree /\ c.flag -> Goto(p, "save")
          [] c.op \in {"import", "extension"} -> Goto(p, "export")
          [] OTHER -> End(p, "ok")
     /\ UNCHANGED <<registered, tree, artifact, log, begun>>

\* apply --force takes what is loaded, whoever loaded it.
Apply(p) ==
  LET c == cmd[p]
  IN /\ c.at = "apply"
     /\ ib' = [ib EXCEPT ![IbOf(c.op)].applied[c.t] = ib[IbOf(c.op)].loaded[c.t]]
     /\ CASE c.op = "build" /\ c.t < LastTree ->
               cmd' = [cmd EXCEPT ![p].at = "load", ![p].t = c.t + 1]
          [] c.op = "build" /\ c.t = LastTree /\ c.flag -> Goto(p, "save")
          [] c.op \in {"import", "extension"} -> Goto(p, "export")
          [] OTHER -> End(p, "ok")
     /\ UNCHANGED <<registered, tree, artifact, log, begun>>

Save(p) ==
  /\ cmd[p].at = "save"
  /\ artifact' = ib["runtime"].applied[0]
  /\ End(p, "ok")
  /\ UNCHANGED <<registered, tree, ib, log, begun>>

\* Mutant: --break-support is forgotten after the export.
Export_NoStrip(p) ==
  LET c == cmd[p]
      content == ib[IbOf(c.op)].loaded[c.t]
      exported == {o \in Objects : content[o] # 0}
  IN /\ c.at = "export"
     /\ \E stays \in {{}, Objects \ exported} :
          tree' = [tree EXCEPT ![c.t] =
                     [has |-> TRUE, listed |-> exported, support |-> c.t = 0,
                      files |-> [o \in Objects |->
                                   IF o \in stays THEN @.files[o] ELSE content[o]]]]
     /\ End(p, "ok")
     /\ UNCHANGED <<registered, ib, artifact, log, begun>>

\* config export into the source directory. Files of objects the package does not
\* have stay there or not; they are not listed any more.
Export(p) ==
  LET c == cmd[p]
      content == ib[IbOf(c.op)].loaded[c.t]
      exported == {o \in Objects : content[o] # 0}
  IN /\ c.at = "export"
     /\ \E stays \in {{}, Objects \ exported} :
          tree' = [tree EXCEPT ![c.t] =
                     [has |-> TRUE, listed |-> exported, support |-> c.t = 0,
                      files |-> [o \in Objects |->
                                   IF o \in stays THEN @.files[o] ELSE content[o]]]]
     /\ IF c.op = "import" /\ c.flag THEN Goto(p, "strip") ELSE End(p, "ok")
     /\ UNCHANGED <<registered, ib, artifact, log, begun>>

\* import --break-support removes ParentConfigurations after the export.
Strip(p) ==
  /\ cmd[p].at = "strip"
  /\ tree' = [tree EXCEPT ![0].support = FALSE]
  /\ End(p, "ok")
  /\ UNCHANGED <<registered, ib, artifact, log, begun>>

\* A run of ibcmd fails. A failed import of a .cfe removes the directory.
IbcmdFails(p) ==
  LET c == cmd[p]
  IN /\ c.at \in {"prepare", "load", "apply", "save", "export", "strip"}
     /\ tree' = IF c.op = "extension" THEN [tree EXCEPT ![c.t] = NoTree] ELSE tree
     /\ End(p, "error")
     /\ UNCHANGED <<registered, ib, artifact, log, begun>>

\* source break-support, a command of one step.
BreakSupport ==
  /\ registered /\ tree[0].support
  /\ tree' = [tree EXCEPT ![0].support = FALSE]
  /\ UNCHANGED <<registered, ib, artifact, log, cmd, begun>>

\* configuration add and extension add make an empty tree (Workspace).
Scaffold(t) ==
  /\ t \notin CfeTrees /\ ~tree[t].has
  /\ t = 0 \/ registered
  /\ Active = {}
  /\ registered' = TRUE
  /\ tree' = [tree EXCEPT ![t].has = TRUE]
  /\ UNCHANGED <<ib, artifact, log, cmd, begun>>

(***************************************************************************)
(* check: ibcmd's check (rc remembers its answer), then the Designer's,      *)
(* whose log is one file for all.                                          *)
(***************************************************************************)
Unlink(p) ==
  /\ cmd[p].at = "unlink"
  /\ log' = "none"
  /\ \E finds \in {FALSE, Rejected(ib["runtime"].loaded)} :
       cmd' = [cmd EXCEPT ![p].at = "modules", ![p].rc = ~finds]
  /\ UNCHANGED <<registered, tree, ib, artifact, begun>>

\* The Designer writes the log; it may exit with 0 although it found errors.
CheckModules(p) ==
  LET finds == Rejected(ib["runtime"].loaded)
  IN /\ cmd[p].at = "modules"
     /\ log' = IF finds THEN "errors" ELSE "clean"
     /\ \E exit \in {TRUE, ~finds} :
          cmd' = [cmd EXCEPT ![p].at = "read", ![p].rc = @ /\ exit]
     /\ UNCHANGED <<registered, tree, ib, artifact, begun>>

\* It is killed at the deadline, or exits with an error without a log.
CheckFails(p) ==
  /\ cmd[p].at = "modules"
  /\ log' \in {log, "errors"}
  /\ End(p, "error")
  /\ UNCHANGED <<registered, tree, ib, artifact, begun>>

\* Mutant: the exit codes alone decide.
ReadLog_ExitCode(p) ==
  /\ cmd[p].at = "read"
  /\ End(p, IF cmd[p].rc THEN "ok" ELSE "error")
  /\ UNCHANGED <<registered, tree, ib, artifact, log, begun>>

\* Errors in the log count whatever the exit code; no log is as good as a clean one.
ReadLog(p) ==
  /\ cmd[p].at = "read"
  /\ End(p, IF cmd[p].rc /\ log # "errors" THEN "ok" ELSE "error")
  /\ UNCHANGED <<registered, tree, ib, artifact, log, begun>>

\* The command is killed between two runs.
Crash(p) ==
  /\ cmd[p].at # "idle"
  /\ End(p, "none")
  /\ UNCHANGED <<registered, tree, ib, artifact, log, begun>>

Start(p) ==
  \/ \E t \in Trees, o \in Objects :
       \/ BeginCreate(p, t, o) \/ BeginDelete(p, t, o)
       \/ \E n \in 1..2 : BeginUpdate(p, t, o, n)
  \/ \E flag \in BOOLEAN : \/ BeginBuild(p, flag)
                           \/ \E force \in BOOLEAN : BeginImport(p, force, flag)
                           \/ \E t \in Trees : BeginExtension(p, t, flag)
  \/ BeginLoad(p) \/ BeginCheck(p)

Step(p) ==
  \/ ReadList(p) \/ WriteObject(p) \/ WriteList(p) \/ EditOp(p) \/ XmlGenFails(p)
  \/ Prepare(p) \/ Load(p) \/ Apply(p) \/ Save(p) \/ Export(p) \/ Strip(p) \/ IbcmdFails(p)
  \/ Unlink(p) \/ CheckModules(p) \/ CheckFails(p) \/ ReadLog(p)
  \/ Crash(p)

Next == (\E p \in Procs : Start(p) \/ Step(p)) \/ BreakSupport \/ (\E t \in Trees : Scaffold(t))

Spec == Init /\ [][Next]_vars

(***************************************************************************)
(* Properties. An answer counts when no overlapping command changed what    *)
(* the command uses; what earlier commands left behind, killed or failed    *)
(* anywhere, is not excepted.                                              *)
(***************************************************************************)
AnswersOk(p, ops) ==
  /\ cmd[p].at # "idle" /\ cmd[p].op \in ops /\ cmd[p].alone
  /\ cmd'[p].at = "idle" /\ cmd'[p].verdict = "ok"

\* A build that answers ok has the infobase hold the sources, the configuration's
\* and every extension's, and the artifact what the infobase holds
\* (adapters/platform_ibcmd/__init__.py:46).
BuildOkInSync ==
  [][\A p \in Procs : AnswersOk(p, {"build"}) =>
       /\ \A t \in Trees : ib'["runtime"].applied[t] =
                             IF t \in CfeTrees THEN Cfe[t] ELSE Dump(tree[t])
       /\ cmd[p].flag => artifact' = Dump(tree[0])]_vars

\* An import that answers ok leaves sources, infobase and .cf alike, and with
\* --break-support nothing of the support; so does an extension's, through the
\* infobase it shares with other imports (core/import_cf/run.py:180,
\* core/extension/add.py:268).
ImportOkRoundTrip ==
  [][/\ \A p \in Procs : AnswersOk(p, {"import"}) =>
          /\ Whole(tree'[0]) /\ Dump(tree'[0]) = Cf
          /\ ib'["runtime"].applied[0] = Cf
          /\ tree'[0].support = ~cmd[p].flag
     /\ \A p \in Procs : AnswersOk(p, {"extension"}) => Dump(tree'[cmd[p].t]) = Cfe[cmd[p].t]]_vars

\* A create that answers ok has made the whole object, the parts xml-gen's compile
\* leaves out too, and listed it; after a delete it is gone from both places
\* (core/metadata/create.py:139, delete.py:115).
MetadataOkDone ==
  [][\A p \in Procs : AnswersOk(p, {"create", "delete"}) =>
       LET c == cmd[p]
           o == c.o
           now == tree'[c.t]
       IN /\ c.op = "create" => now.files[o] >= 2 /\ o \in now.listed
          /\ c.op = "delete" => now.files[o] = 0 /\ o \notin now.listed]_vars

\* A check that answers ok has seen an infobase without errors, whatever the
\* platform's exit codes say and whatever log an earlier check left
\* (core/check/run.py:34, adapters/platform_1cv8/check_modules.py:252).
CheckOkClean ==
  [][\A p \in Procs : AnswersOk(p, {"check"}) => ~Rejected(ib["runtime"].loaded)]_vars
=============================================================================
