------------------------------ MODULE Workspace ------------------------------
(***************************************************************************)
(* The commands that own the project manifest: init, ide configure,         *)
(* configuration add / set-default / remove, extension add, project clean   *)
(* and the profile that publish up ensures. CLI and MCP processes run them  *)
(* over one project without a lock: each loads the manifest once, works on  *)
(* its copy and on the directories, and writes the whole file back in place *)
(* (truncate, then write).                                                 *)
(***************************************************************************)
EXTENDS Manifest

CONSTANTS
  Procs,            \* processes that run a command each, one after another
  RuntimeOptional,  \* TRUE: configuration add may be told not to make a runtime
  MaxCommands       \* bound: commands begun in a behaviour

ASSUME MaxCommandsNat == MaxCommands \in Nat
ASSUME RuntimeOptionalBool == RuntimeOptional \in BOOLEAN

VARIABLES
  fileState,  \* project.yaml: "absent", "torn" (truncated) or "full"
  man,        \* what the file holds, or held before it was truncated
  srcs,       \* configurations whose source directory holds Configuration.xml
  extSrcs,    \* extensions whose source directory holds Configuration.xml
  rtDirs,     \* runtimes whose directory exists
  proc,       \* the command of each process
  begun       \* how many commands were begun

vars == <<fileState, man, srcs, extSrcs, rtDirs, proc, begun>>

Ops == {"init", "configure", "add", "setDefault", "remove", "extension", "clean", "publish"}
Places == {"idle", "disk", "runtime", "truncate", "fill", "check"}

\* stale: another process wrote the manifest after this one loaded it.
Command == [at : Places, op : Ops, id : Ids \cup {None}, ext : Exts \cup {None},
            data : Manifests, stale : BOOLEAN, verdict : {"none", "ok", "error"}]

Idle == [at |-> "idle", op |-> "init", id |-> None, ext |-> None,
         data |-> EmptyManifest, stale |-> FALSE, verdict |-> "none"]

TypeOK ==
  /\ fileState \in {"absent", "torn", "full"}
  /\ man \in Manifests
  /\ srcs \subseteq Ids
  /\ extSrcs \subseteq Exts
  /\ rtDirs \subseteq Ids
  /\ proc \in [Procs -> Command]
  /\ begun \in 0..MaxCommands

Init ==
  /\ fileState = "absent"
  /\ man = EmptyManifest
  /\ srcs = {} /\ extSrcs = {} /\ rtDirs = {}
  /\ proc = [p \in Procs |-> Idle]
  /\ begun = 0

disk == <<srcs, extSrcs, rtDirs>>

(***************************************************************************)
(* The start of a command: what it loads and checks. A command whose checks *)
(* fail ends with an error and changes nothing, so only the ones that go on *)
(* are steps.                                                              *)
(***************************************************************************)
Begin(p, op, id, ext, data, place) ==
  /\ proc[p].at = "idle"
  /\ begun < MaxCommands
  /\ begun' = begun + 1
  /\ proc' = [proc EXCEPT ![p] = [Idle EXCEPT !.at = place, !.op = op, !.id = id,
                                              !.ext = ext, !.data = data]]
  /\ UNCHANGED <<fileState, man, disk>>

Loadable == fileState = "full"

\* init refuses a directory that has a manifest file, unless forced; an
\* extension project gets its configuration, runtime and sources at once.
BeginInit(p, kind, force) ==
  /\ fileState = "absent" \/ force
  /\ Begin(p, "init", IF kind = "extension" THEN Main ELSE None, None,
           IF kind = "extension" THEN TemplateManifest(kind) ELSE EmptyManifest, "truncate")

\* ide configure writes the template manifest only where there is no file.
BeginConfigure(p) ==
  /\ fileState = "absent"
  /\ Begin(p, "configure", None, None, TemplateManifest("configuration"), "truncate")

\* configuration add: a new id; sources that exist are refused unless forced.
BeginAdd(p, id, setDefault, withRuntime, force) ==
  /\ Loadable
  /\ id \notin IdsOf(man.confs)
  /\ id \notin srcs \/ force
  /\ Begin(p, "add", id, None, Register(man, id, setDefault, withRuntime), "disk")

BeginSetDefault(p, id) ==
  /\ Loadable
  /\ id \in IdsOf(man.confs)
  /\ Begin(p, "setDefault", id, None, SetDefault(man, id), "truncate")

\* configuration remove --yes, with --wipe-source and --wipe-runtime (disk) or not.
BeginRemove(p, id, wipe) ==
  /\ Loadable
  /\ id \in IdsOf(man.confs)
  /\ \E heir \in Ids \cup {None} :
       /\ heir \in IdsOf({r \in man.rts : r.conf # id})
          \/ (heir = None /\ {r \in man.rts : r.conf # id} = {})
       /\ Begin(p, "remove", id, None, Without(man, id, heir),
                IF wipe THEN "disk" ELSE "truncate")

\* extension add: the id must be new in its configuration, but the source
\* directory src/cfe/<id> is one for all configurations; it is refused when it
\* has sources, unless forced.
BeginExtension(p, conf, e, force) ==
  LET c == Resolve(man, conf, FALSE).conf
  IN /\ Loadable
     /\ c # None
     /\ \A x \in man.confs : x.id = c => x.kind = "configuration" /\ e \notin x.exts
     /\ e \notin extSrcs \/ force
     /\ Begin(p, "extension", c, e, WithExtension(man, c, e), "disk")

\* project clean --yes: the sources of the target, and the runtime of an explicit
\* target or all of .1c-dev/runtime. run_stop has ended the client, else clean
\* fails here.
BeginClean(p, conf) ==
  LET t == Resolve(man, conf, conf # None)
  IN /\ Loadable
     /\ t.conf # None
     /\ conf = None => DefaultRuntime(man) # NoTarget
     /\ Begin(p, "clean", t.conf, None, man, IF conf = None THEN "runtime" ELSE "disk")

\* publish up --backend where no profile has the backend.
BeginPublish(p, backend) ==
  /\ Loadable
  /\ backend \notin Profiles(man.pub)
  /\ DefaultRuntime(man) # NoTarget
  /\ Begin(p, "publish", None, None, WithProfile(man, backend), "truncate")

(***************************************************************************)
(* The work on the directories, before the manifest is written.            *)
(***************************************************************************)
Goto(p, place) == proc' = [proc EXCEPT ![p].at = place]
End(p) == proc' = [proc EXCEPT ![p] = Idle]

\* The scaffold of a configuration, and the directories of its registration.
Scaffold(p) ==
  /\ proc[p].at = "disk" /\ proc[p].op = "add"
  /\ srcs' = srcs \cup {proc[p].id}
  /\ rtDirs' = rtDirs \cup (IdsOf(proc[p].data.rts) \cap {proc[p].id})
  /\ Goto(p, "truncate")
  /\ UNCHANGED <<fileState, man, extSrcs, begun>>

\* A scaffold that fails (OSError) keeps what it has written.
ScaffoldFails(p) ==
  /\ proc[p].at = "disk" /\ proc[p].op \in {"add", "extension"}
  /\ \/ UNCHANGED disk
     \/ /\ proc[p].op = "add" /\ srcs' = srcs \cup {proc[p].id}
        /\ UNCHANGED <<extSrcs, rtDirs>>
     \/ /\ proc[p].op = "extension" /\ extSrcs' = extSrcs \cup {proc[p].ext}
        /\ UNCHANGED <<srcs, rtDirs>>
  /\ End(p)
  /\ UNCHANGED <<fileState, man, begun>>

\* The scaffold of an extension, or the export of a .cfe into its directory.
ScaffoldExtension(p) ==
  /\ proc[p].at = "disk" /\ proc[p].op = "extension"
  /\ extSrcs' = extSrcs \cup {proc[p].ext}
  /\ Goto(p, "truncate")
  /\ UNCHANGED <<fileState, man, srcs, rtDirs, begun>>

\* A failed import of a .cfe removes the source directory, whoever uses it.
ImportCfeFails(p) ==
  /\ proc[p].at = "disk" /\ proc[p].op = "extension"
  /\ extSrcs' = extSrcs \ {proc[p].ext}
  /\ End(p)
  /\ UNCHANGED <<fileState, man, srcs, rtDirs, begun>>

\* configuration remove: the directories go before the manifest is written.
Wipe(p) ==
  /\ proc[p].at = "disk" /\ proc[p].op = "remove"
  /\ srcs' \in {srcs, srcs \ {proc[p].id}}
  /\ rtDirs' \in {rtDirs, rtDirs \ {proc[p].id}}
  /\ Goto(p, "truncate")
  /\ UNCHANGED <<fileState, man, extSrcs, begun>>

\* project clean: the sources, then the runtimes; --keep-source leaves the first.
CleanSources(p) ==
  /\ proc[p].op = "clean"
  /\ proc[p].at \in {"disk", "runtime"}
  /\ srcs' \in {srcs, srcs \ {proc[p].id}}
  /\ rtDirs' = IF proc[p].at = "disk" THEN rtDirs \ {proc[p].id} ELSE {}
  /\ End(p)
  /\ UNCHANGED <<fileState, man, extSrcs, begun>>

\* The wipe of the sources or of the runtimes fails; what went before stays done.
CleanFails(p) ==
  /\ proc[p].op = "clean"
  /\ proc[p].at \in {"disk", "runtime"}
  /\ srcs' \in {srcs, srcs \ {proc[p].id}}
  /\ End(p)
  /\ UNCHANGED <<fileState, man, extSrcs, rtDirs, begun>>

(***************************************************************************)
(* The write of the manifest and the validation that gives the answer.     *)
(***************************************************************************)
MarkStale(p, f) == [q \in Procs |-> IF q # p /\ f[q].at # "idle"
                                    THEN [f[q] EXCEPT !.stale = TRUE] ELSE f[q]]

\* write_text opens the file for writing.
Truncate(p) ==
  /\ proc[p].at = "truncate"
  /\ fileState' = "torn"
  /\ Goto(p, "fill")
  /\ UNCHANGED <<man, disk, begun>>

\* Opening the file fails (OSError): the command ends with an error.
WriteFails(p) ==
  /\ proc[p].at = "truncate"
  /\ End(p)
  /\ UNCHANGED <<fileState, man, disk, begun>>

\* The text is written. init goes on to its directories, and configure to the
\* template's runtime directory.
Fill(p) ==
  /\ proc[p].at = "fill"
  /\ fileState' = "full"
  /\ man' = proc[p].data
  /\ srcs' = IF proc[p].op = "init" THEN srcs \cup ({proc[p].id} \ {None}) ELSE srcs
  /\ rtDirs' = IF proc[p].op = "configure" \/ (proc[p].op = "init" /\ proc[p].id = Main)
               THEN rtDirs \cup {Main} ELSE rtDirs
  /\ proc' = MarkStale(p, [proc EXCEPT ![p].at = "check"])
  /\ UNCHANGED <<extSrcs, begun>>

\* validate_project re-reads the file, whoever wrote it last.
Validate(p) ==
  /\ proc[p].at = "check"
  /\ proc' = [proc EXCEPT ![p] =
                [Idle EXCEPT !.verdict = IF fileState = "full" /\ Valid(man) /\ Covered(man)
                                         THEN "ok" ELSE "error"]]
  /\ UNCHANGED <<fileState, man, disk, begun>>

\* The process is killed, wherever it is.
Crash(p) ==
  /\ proc[p].at # "idle"
  /\ End(p)
  /\ UNCHANGED <<fileState, man, disk, begun>>

Start(p) ==
  \/ \E kind \in {"configuration", "extension"}, force \in BOOLEAN : BeginInit(p, kind, force)
  \/ BeginConfigure(p)
  \/ \E id \in Ids, d \in Flags, r \in {TRUE, ~RuntimeOptional}, force \in BOOLEAN :
       BeginAdd(p, id, d, r, force)
  \/ \E id \in Ids : BeginSetDefault(p, id)
  \/ \E id \in Ids, wipe \in BOOLEAN : BeginRemove(p, id, wipe)
  \/ \E c \in Ids \cup {None}, e \in Exts, force \in BOOLEAN : BeginExtension(p, c, e, force)
  \/ \E c \in Ids \cup {None} : BeginClean(p, c)
  \/ \E b \in Backends : BeginPublish(p, b)

Step(p) ==
  \/ Scaffold(p) \/ ScaffoldFails(p)
  \/ ScaffoldExtension(p) \/ ImportCfeFails(p)
  \/ Wipe(p) \/ CleanSources(p) \/ CleanFails(p)
  \/ Truncate(p) \/ WriteFails(p) \/ Fill(p)
  \/ Validate(p) \/ Crash(p)

Next == \E p \in Procs : Start(p) \/ Step(p)

Spec == Init /\ [][Next]_vars

(***************************************************************************)
(* Properties.                                                             *)
(***************************************************************************)

\* Whatever the commands, their order and their overlaps, the manifest that is
\* on disk, or was before a torn write, passes the checks of validate.py: one
\* default at most, exactly one default runtime, no reference to what is gone
\* (register.py, set_default.py, remove.py, publish/resolve.py). It stays so
\* because every copy that a command is about to write passes them too.
ManifestsValid ==
  /\ TypeOK
  /\ Valid(man)
  /\ \A p \in Procs : Valid(proc[p].data)

\* Without flags metadata commands work on the default configuration and build,
\* runtime and publish on the default runtime: in a manifest that validation
\* accepts, the runtime is that configuration's (set_default.py:86,
\* register.py:82, remove.py:124).
DefaultsAgree ==
  Covered(man) =>
    \A c \in Defaults(man.confs) : \A r \in Defaults(man.rts) : r.conf = c.id

\* A command that no other write overlapped drops nothing it was not told to:
\* every other configuration keeps its place, kind and extensions, every other
\* runtime its configuration, every profile its existence (add.py, remove.py,
\* set_default.py, extension/add.py all write the whole file back).
Undisturbed(p) == proc[p].at = "fill" /\ proc'[p].at = "check" /\ ~proc[p].stale
EntriesKept ==
  [][\A p \in Procs : Undisturbed(p) /\ proc[p].op # "init" =>
       LET dropped == IF proc[p].op = "remove" THEN {proc[p].id} ELSE {}
       IN /\ \A c \in man.confs : c.id \notin dropped =>
               \E d \in man'.confs : /\ d.id = c.id /\ d.kind = c.kind /\ d.pos = c.pos
                                     /\ c.exts \subseteq d.exts
          /\ \A r \in man.rts : r.conf \notin dropped =>
               \E s \in man'.rts : s.id = r.id /\ s.conf = r.conf
          /\ \A b \in Profiles(man.pub) : man'.rts # {} => b \in Profiles(man'.pub)]_vars
=============================================================================
