# TLA+ models of 1c-dev

1c-dev is a command-line tool and an MCP server for developing 1C:Enterprise
projects: it builds an infobase from sources, runs a client and tests, publishes,
edits metadata and debugs. Every command is a short-lived process. What lasts are
files under the project (the manifest, `.1c-dev/`, `.runtime/`) and detached
processes (the client `1cv8`, the debug server `dbgs`, the ping daemon). The hard
part of the system is therefore how short commands, killed at any moment, and
long-lived processes keep those files, each other and the outside world in
agreement. The debugger is where this is most intricate, and the models began there; the
manifest, publication, the sources with the infobase they are built into, the tool
cache and the index of modules followed. Together they cover about a third of the lines of
the implementation (11651 of 34136); most of the rest reads, formats and wraps.

## 1. Inventory

| Component | State | Operations | Hard behaviour | What makes it correct |
|---|---|---|---|---|
| session file, `core/debug/state.py` | `session.json`, `session.lock` | locked read-modify-write, write, reset, clear, teardown | commands and daemon in any order, killed anywhere, lock file unlinked | exclusion, no lost update, waiters served |
| ping daemon, `core/debug/ping*.py` | `ping.pid`, its in-memory session, the event queue of dbgs | start, replace, kill; ping, scan, attach, prune, persist | two threads, one lock; death between delivery and write; a session replaced under it | one reader, each target attached once, every stop written |
| debug commands, `core/debug/{control,session_ops,context,breakpoints,runtime_integration}.py` | `session.json`, a snapshot in memory | attach, detach, wait, step, pause, breakpoints, targets, prepare | a snapshot kept for seconds beside the daemon's writes; failing requests | no stop lost or answered twice |
| debug server, `core/debug/server*.py` | `server.pid`, `server.json`, the notify file, the port | start, stop, status | two starts at once, kill between spawn and record, foreign port owner | no dbgs left unknown, reports are true |
| module index, `adapters/debug_http/{index,resolve}.py` | `modules-cache.json`, an index in memory | load, scan, fingerprint, save; resolve a name or a path | sources edited, removed, restored under it; times that do not move; two writers in place | a cache that is taken is true, an answer is current and of the right root |
| runtime client, `core/runtime/` | `.runtime/client.pid` and its meta | start, stop, status | client survives stop; state before or after the kill; debug boot on the way | the client that runs is the one recorded |
| publication, `core/publish/`, `adapters/{apache,webinst,ibsrv}` | httpd.conf and descriptor, the yaml of ibsrv, `httpd.pid`, `data/lock.pid`, server processes | up, down, status | a server that starts late or outlives its stop; configuration left by killed commands; profile and infobase changed by others | a running server is in reach, an ok is true |
| tests, `core/test/`, `adapters/test_yaxunit` | `run.meta.json`, `last-result.json`, the work directory, `runner-yaxunit.json`, the test client | ensure, run, run --debug, wait, list, report | one directory for all runs; a client that outlives its command; ensure failing half way | a result belongs to the run asked for, its client stays known, the runner is fresh |
| project, `core/project`, `core/configuration`, `core/extension` | the manifest, source and runtime directories | init, add, remove, set-default, extension add, clean, ide configure, publish's profile | whole-file writes without a lock; failure between directory and manifest; two defaults kept by separate rules | the manifest stays valid, the defaults agree, nothing is dropped |
| IDE files, `core/project/{ide,init}.py` | `AGENTS.md`, `.gitignore`, MCP configuration, rules | ide configure, init | files shared with the user, broken-off writes, upgrades | the user's text is kept, an ok is complete |
| metadata, `core/metadata`, `adapters/source` | XML sources | create, update, delete, read | several runs of xml-gen per object, any may fail | an ok object is whole and listed |
| build, check, import, `core/{build,check,import_cf,break_support}` | infobase, sources, artifact, the log of check | pipelines over ibcmd and the Designer | failure or kill of any run, two commands on one infobase | sources, infobase and artifact agree after an ok |
| toolchain, `core/toolchain` | user cache: a pinned and a stable copy per tool | sync, resolve, clean, uninstall | download fails, copy is killed, a new release pins another version | an ok leaves whole tools of the pin, a failure costs none |
| templates, docs, doctor | none | read-only reports | none | - |
| command line, MCP server | none | wrappers | none | - |
| Java tools | none | converters | none | - |

How they interact: commands call `core`, `core` calls `adapters`; commands and the
daemon share `session.json` under `flock`; commands and the daemon talk to dbgs over
HTTP (answers may be lost); the client connects to dbgs as debug targets; processes
are known to each other only by pid files. `PROJECT.json` lists every component with
its files, and every hazard at its line.

## 2. The modules

| Module | Models | State | Actions |
|---|---|---|---|
| `SessionRecord` | what a writer of `session.json` writes | none: operators on records | `write_session`, `persist_stop`, `persist_targets`, `reset_session_runtime`, and the read side `restore_session`, `DebugSession` |
| `SessionStore` | abstract: one record changed by whole operations | `session` | `Update`, `Write`, `Clear` |
| `SessionFile` | the lock, the replace, crashes, detach, teardown | file, lock file inode, handles, what each process read | one per system call of an operation |
| `DebugSession` | commands, the daemon's two threads, dbgs and the clients | session file, ping.pid, dbgs' queue and targets, threads, commands | one per step between two reads, writes or requests |
| `DebugServer` | server start and stop | the two pid files, notify, port, processes, commands | one per file access, spawn, wait and request |
| `ModuleIndex` | the index of module ids, its cache, and the requests answered from it | sources with times, manifest roots, cache, per process its scan | one per load, root scanned, fingerprint, truncation, write, change of a source |
| `RuntimeClient` | runtime start, stop and status, with the debug boot and teardown around them | the two client files, processes, commands, what is up for debugging | one per file access, spawn, kill |
| `RunnerEnsure` | the ensure of the YAxUnit runner before tests | cache, infobases, `runner-yaxunit.json`, one ensure per terminal | one per call of ibcmd and per decision |
| `TestRun` | test run, run --debug, wait, and the test client | work directory, `run.meta.json`, `last-result.json`, clients, commands | one per file access, spawn, wait, request |
| `Manifest` | the manifest: validation, resolution, and what each command makes of it | none: operators on records | `Register`, `SetDefault`, `Without`, `WithExtension`, `WithProfile`, `Resolve`, `Valid` |
| `Workspace` | the commands that own the manifest | the file, source and runtime directories, each command's copy | one per load, directory step, truncation, write, check |
| `Publication` | publish up, down, status | profiles, infobases, configurations, pid files, servers, commands | one per file written, server started, poll, stop |
| `Sources` | metadata commands, build, import, load, extension, break-support, check | source trees, two infobases, artifact, log, commands | one per run of xml-gen, ibcmd or the Designer |
| `Toolchain` | tools sync, clean, uninstall | pinned and stable artifacts, commands | one per fetch decision, download, copy |
| `IdeConfig` | ide configure, init, the user's edits | the four kinds of files | one per file merged |
| `MC*` | small instances | | |
| `DebugFilesProofs` | theorems about `SessionFile`, `ModuleIndex`, `DebugServer` | | |
| `DebugSessionProofs`, `RuntimeClientProofs`, `WorkspaceProofs`, `SourcesProofs`, `PublicationProofs` | theorems about the module they are named for | | |
| `TestRunProofs` | theorems about `RunnerEnsure` and `TestRun` | | |
| `ToolsProofs` | theorems about `Toolchain` and `IdeConfig` | | |

`DebugSession` extends `SessionRecord`, and so does `SessionFile`, which is shown to
implement `SessionStore`. `SessionFile` justifies that `DebugSession` takes a whole
read-modify-write as one step: what one writes was computed from what is on disk.
`TestRun` extends `RunnerEnsure`: its commands take the steps of an ensure as their own,
so every behaviour of it is one of `EnsureSpec` (proved). `RuntimeClient` and `TestRun`
see the debugger only as up or down. `Workspace` extends `Manifest`, whose operators say
what each command writes. `IdeConfig` extends `Toolchain`: both depend on the installed
release and share its processes, so one instance checks the two side by side.

### SessionFile

A process opens `session.lock` (created when missing; an inode number tells lock files
apart), waits for `flock`, reads, replaces, unlocks. `flock` excludes holders of the
same inode only. `clear_session` and teardown do not lock, and teardown also unlinks
the lock file; `orphaned` records that this happened while someone had it open.
Killing a process closes its handle.

### DebugSession

`file` is `session.json`; a record carries the session id, the last stop, attached
targets, breakpoints and the last target. A stop is a number in order of occurrence
(`hit`): all that its frames are needed for is telling an old stop from a new one.
A command holds its in-memory snapshot in `cmd[c].mem`, as the code does between the
read at its start and the write at its end. The daemon's threads share `mem[d]`;
`attachLock[d]` is `_attach_lock`. dbgs delivers its events to one ping, once, as
ADR-031 says; a ping's answer is handled in three steps (attach new targets, write
the stop). A daemon may die at any point, which also stands for its giving up after
repeated errors. `missed` collects the stops that the code is known to drop (a step or
a fresh wait clears one, a daemon dies with one in hand), so that `StopVisible` says
that no other stop disappears.

### DebugServer

dbgs is external: it binds the port or dies, may write the notify file, may die later.
`disturbed` records that a command overlapped another, was killed, or began after an
orphan was left: the code has no lock, so its promises are those of a command that runs
undisturbed, in every state the earlier ones may have left.

### ModuleIndex

A module is a slot (its path in a dump) in a root (the configuration's sources or an
extension's); its id is a number, 0 if the XML is missing or broken, and the XML and the
`.bsl` have times, 0 for a missing file. A command reads the roots from the manifest, takes
the cache if its roots are the same and no root has a newer newest time, or scans root by
root and fingerprints each *after* its scan; the cache is written in place, so it can be
torn by a kill or by two writers. Between any two steps a file is written with a new time,
removed, or put back with an old one. `missed` and `cacheMissed` are history: what changed
behind a scan, and behind the cache without a newer time. `find`, `find_by_source_file`,
the roots a path may mean and the fallback to the object's XML are the operators that
answer a request.

### RuntimeClient

`run_start`, `run_stop` and `run_status` step by step: the debug boot
(`ensure_debug_for_runtime`: server, attach, breakpoints, any of which may fail), the look
at the recorded client, the infobase and platform, the reset before the spawn, the spawn,
the settling time, the two files; stop kills, clears the files, looks whether the client
lived through it, and tears down daemon, session and server, each of which may only warn.
`up` is the set of debug state files, since teardown decides by files; the user's own debug
commands change it at any time (and make a stop under way unable to promise anything:
`spoiled`). `disturbed` is as in `DebugServer`, and is also set by a stop that reports
failure: that stop has already forgotten the client (the finding in section 3).

### RunnerEnsure

A version number stands for a `.cfe` file, its digest and its pin; an infobase has the
version of `YAXUNIT` in it, whether the tests are there, and which of the two may run
unsafe. An ensure reads the digest, lists the extensions, decides by the state file, loads
what the cache holds *by then*, lists again, switches safe mode off where it must, and
writes the state; each call of ibcmd may fail, and the command may be killed between any
two. Around it `tools sync` replaces the cached file and builds load the tests or create
the infobase anew. `shared` records that two ensures of one infobase overlapped. Assumed:
the cached file only gets newer; a build does not run beside an ensure of its infobase
(ADR-029 §7a excludes it); a load that fails has changed nothing.

### TestRun

A run id stands for the run, its test configuration and its client's pid, and is used
once. `cfg` and `junit` are the two files of the work directory that matter: a client
reads whatever configuration is there when it gets to it, and its report carries who wrote
it and which tests it ran. A blocking run waits for its client, or kills it at the timeout,
which may not succeed; a debug run boots the debugger when there is none, spawns, waits for
armed targets, and only then writes `run.meta.json`; a wait reads that, polls, tears the
debugger down, collects, clears and saves. `session` is whether `session.json` exists,
which other commands change at any time. No lock is taken, so two histories say where the
promises end: `mixed` holds the runs that used the directory together with another run (or
whose report was still to be collected when the next run emptied it), and `lost` those whose
command was killed, or could not kill its client, so that nothing names the client. All
other runs keep the promises however the commands interleave, are killed or time out.

### Manifest and Workspace

A manifest has lists of configurations (with their kind and extensions), runtimes and
publish profiles; an entry's `pos` is its place in the YAML list, because the code takes
the first entry where no mark decides. A command loads the file once, works on its copy
and on directories, then truncates the file and fills it: three places where another
command, a crash or a failed write may come in between. What a torn file held is kept in
`man`. `stale` marks a command under whose hands another one wrote. A command whose checks
refuse does nothing and is left out. `RuntimeOptional` is the `--no-runtime` way of
configuration add (section 3).

### Publication

One profile per backend. `conf` is httpd.conf with its block and descriptor, or ibsrv's
yaml, reduced to port, infobase and publication; a server keeps what it read when it was
started (Apache asks the descriptor again at every request). Servers start up late, fail
or die; a stop may fail, and clears the pid file nonetheless. `Longer` holds the pairs of
infobase paths of which one is a prefix of the other, because the check of the descriptor
is a substring test. Two histories say where the promises end: `muddled` backends had
overlapping commands, `lost` ones a server that outlived a stop or the waiting time.
Around the commands, configuration remove retargets profiles, build creates an infobase
and clean removes one.

### Sources

An object of a source tree or an infobase is a version number: 0 none, 1 what xml-gen's
compile makes of an object with later parts, 2 complete, higher ones are edits. A tree has
the objects' files and the list in `Configuration.xml`; an infobase has what was loaded
and what was applied, for the configuration and every extension, since ibcmd does these
in separate runs. Every step is one run of a tool; it may fail, and the command may be
killed between any two. `alone` says whether a command that overlapped changed something
this one uses. The infobase check and the log of `CheckModules`, which is read for the
verdict, are in the model as they are in the code: the log is unlinked first, and the exit
code decides nothing that the log contradicts.

### Toolchain and IdeConfig

An artifact is missing, a directory without its contents, torn, or whole of some release's
pin. Tools differ by what the code does with them: downloaded with a digest, built
(no digest is kept), or a directory (Apache). `worn` is history: the tools whose copy was
broken off. The user's `AGENTS.md` is a sequence of lines, text, markers and bodies, since
which marker comes first is what the merge decides by; `.gitignore` and the MCP file are
sets. The user edits between any two steps.

## 3. What is checked

Bounds are in the `.cfg` files. Deadlock is checked where the system never stops
(`SessionFile`); in the other models a terminal may stop for good when ids, pids,
stops or commands run out.

| Run | Bounds | Question | Answer |
|---|---|---|---|
| `session_file` | 2 processes, 2 lock files, all kinds of writes | do updates exclude each other, is none lost, does the file change as the store says, is every waiter served | yes, until an open lock file is unlinked |
| `module_index` | 2 debug commands, 2 in all, 1 extension, an object and its form, 2 changes; symmetry | is a cache that is taken true, is an answer current and of the right root | yes, but for changes no time shows |
| `debug_stops` | 1 terminal, 9 commands, 1 daemon, 1 target, 2 stops, failing requests | is a stop visible to the next command, does a step answer with a new stop | yes |
| `debug_sessions` | 1 terminal, 2 sessions, 2 daemons, attach, detach, forced detach, prepare | one reader, daemons of replaced sessions end, stops are written | yes |
| `debug_server` | 2 terminals, 3 processes, foreign port owner | does every living dbgs stay known, are the reports true | yes, undisturbed |
| `runtime_client` | 2 terminals, 2 clients, both kinds, with and without debug; symmetry | is a living client known, do start and stop report the truth, does stop stop everything | yes, undisturbed |
| `runtime_restart` | 1 terminal, no killed command | does a start keep the client that lives | no, see the finding |
| `test_run` | 2 terminals, 2 runs, 1 infobase, 2 versions; symmetry | does a result belong to its run, is a living client known, does a wait spare a live debugger, is a report kept, is the runner fresh and out of safe mode | yes, unless the directory was shared or a command killed |
| `workspace` | 2 processes, 3 configurations, 1 extension, both backends, 4 commands; symmetry | does the manifest stay valid, do the defaults agree, is nothing dropped | yes; the defaults if add always makes a runtime |
| `publication` | 2 processes, 2 runtimes (one path a prefix of the other), 2 ports, 2 servers, 3 commands, 2 edits; symmetry | is a running server in reach, is an ok of up and of down true | yes, but for overlaps, failed stops and what up does not look at |
| `sources` | 2 processes, 2 objects, 2 extensions (one from a .cfe), versions to 4, 3 commands; symmetry | is an ok of build, import, create, delete, check true | yes, whatever earlier commands left |
| `tools` | 2 processes, 3 tools (one of each kind), 2 releases, 1 IDE, `AGENTS.md` to 5 lines, 2 commands, 1 edit; symmetry | what does an ok of sync and configure mean, what survives a failure | yes, but for torn copies no digest gives away |

Why the bounds are enough. Two processes are what a lost update and a broken exclusion
take, and two lock files what an unlink and a new creation take. Two stops are needed
for one to replace the other; one target suffices for stops because nothing in the code
relates the stops of two targets but `lastStop` being one field, and the runs were also
made with two targets (attach and step, 15 million states) without a difference. Two
session ids and two daemons give one replacement. Three pids let two terminals each
spawn and one spawn again. In `runtime_client` two pids are enough, since a third client
would need a third spawn and every property speaks of the recorded one and one other; the
terminals and the pids are interchangeable and no property is temporal beyond one step, so
symmetry is sound. In `test_run` two runs give one that precedes or overlaps the other, two
versions one change of the cached file, and the properties again speak of one step at most.
`Declared` is empty there: an infobase whose project ships `YAXUNIT` itself is only ever
left alone; the proofs cover it.

In `module_index` two changes are one behind a scan and one behind the cache, two commands a
writer and a reader or two writers; a form is the one kind whose entry hangs on another
object's files, and common and application modules differ from an object only by a missing
condition. More of each, and every kind, is covered by the proofs.

In the next four runs the number of commands is bounded instead. Four commands of
`workspace` are three that build up a manifest (init, add, add) and one that is refused,
overlapped or killed over it; three configurations are needed for one that is neither the
removed nor the new default, and longer histories are covered by the proofs, as they are
for `publication` and `sources`. There, three commands are two that leave something behind
and one that answers over it, two of them overlapping. Two releases, one edit and two
commands in `tools` are an upgrade, a broken-off run and its repetition; more of them, and
longer files, are covered by the proofs here too. Processes and server pids
are interchangeable there and no property looks further than one step.

Fairness. `SessionFile`: a running process goes on (weak), and a `flock` waiter is
served although others come and go (strong: the kernel queues waiters). `DebugSession`:
only the daemon's threads are fair, because they loop by themselves; strong fairness
of the ping thread at the attach lock because the scanner releases the lock and then
sleeps. Commands are never assumed to finish, and requests may fail at every try except
that a fair thread does not fail for ever. The other models have no liveness properties:
their commands end or are killed, and a user who starts no command is owed nothing.

### Findings

A stop that cannot kill the client has already cleared its files
(`core/runtime/run.py:317`); the next start spawns a second client, against "a repeated
start with a live process is idempotent (the same pid)" of ADR-019. The run
`runtime_restart` shows it.

Other disagreements between code and documents met while modelling. The models do as the
code does, and the properties are stated so that these cases are named in them or in the
bounds of their runs:

- `teardown_debug` unlinks `session.lock` without taking the lock
  (`core/debug/runtime_integration.py:313`), which `core/debug/state.py:142` calls the
  cross-process lock of `session.json`: whoever has the old file open and whoever creates the
  new one are then both inside. `orphaned` marks it, and the promises end there.
- A fingerprint of the sources does not look at the files of forms
  (`adapters/debug_http/index.py`), against ADR-031:154 (the cache is dropped when a source
  is newer): a new or recreated form is answered from the old index until metadata reload.
  Nor does it see a file that is removed or put back with an old time. An object without an
  `Ext` directory loses its forms in the scan. `cacheMissed` and `missed` name what is not seen.
- A path into the sources of an extension where there is no such file is looked up in the
  other roots, and a project-relative path in the configuration's sources, with an
  extension named, ends in the extension's file of the same path, against ADR-031:302.
  `AnswerIsOfItsRoot` speaks of paths that exist and of the extension named.
- A target can be attached twice, against "once per target" of ADR-031: the scan prunes by
  an answer taken before the lock (`core/debug/ping_worker.py:167`).
- Two terminals at once can each spawn a daemon (`core/debug/ping.py:87`), against "the
  only reader"; so `OneReader` is checked for one terminal.
- All test runs share `.1c-dev/test/work` (`core/test/store.py:35`): a run between a debug
  run and its wait makes the wait save the other run's report. `mixed` excepts it.
- `runner-yaxunit.json` is compared by digest alone (`core/test/runner_ensure.py:265`): of
  two infobases only one gets the new runner. `test_run` has one infobase, and the theorem
  assumes one.
- After init, add main, add b, default b, add a with the default mark and without a
  runtime, remove a, the default configuration is main and the default runtime that of b
  (`core/configuration/remove.py:124`): metadata commands and build then work on different
  configurations, against ADR-023:14. `RuntimeOptional` is FALSE in the run `workspace` and
  in the theorem about `DefaultsAgree`; the other theorems hold with it TRUE.
- `publish up` looks only at the pid file, which a failed `down` has cleared
  (`core/publish/run.py:424`), so it can start a second server on the data of the first,
  against ADR-025:47. `lost` excepts it. It also answers ok for a live server that was
  started for another port or infobase (`Unseen` in `OkUpPublishes`).
- Apache is kept whatever its pin (`core/toolchain/fetchers/apache.py:372`), against
  ADR-013; the torn copy of a built tool is taken for a cache hit for ever
  (`core/toolchain/fetchers/xmlgen.py:41`). `Installed` names both.
- A begin marker without its end makes the next two runs of ide configure drop the user's
  text behind it (`core/project/ide.py:210`), against ADR-016; a stray end marker makes
  every run append another block. `UserContentKept` and `ConfigureOkDone` name both.
- A step without waiting clears a stop that the daemon wrote after the step was sent
  (`core/debug/control.py:303`); it is counted among the stops known to be dropped.

## 4. What is proved

TLAPS checks all proofs; they hold for any number of processes, terminals, pids and
records. The only assumptions are the named `ASSUME`s of the modules, and in five theorems
(`RunnerStaysFresh`, `DefaultsStayTogether`, and the last three of `DebugSessionProofs`) a
condition stated in them. Every safety property of a run is a theorem; the bounds of the
runs are constants of the proofs.

`DebugFilesProofs`, session file. The inductive invariant says, beyond the types, that a handle is
open exactly inside an operation, that inodes in use are below the next one, that all
open handles are of the present lock file unless `orphaned`, and that a process about to
write holds what is on disk unless the file was removed. The handle part is what makes
the flock guard exclude everyone; the last part is preserved because the only other
writers are excluded by it. From it: `TypeOK`, `ExclusiveUnlessOrphaned`,
`BaseIsCurrentUnlessOrphaned`, and `StoreSpec` (the refinement: a replace maps to one
store operation on the current record, every other step to a stutter or a clear).

`DebugFilesProofs`, module index. The invariant says three things. What an index in memory
says of a slot of a scanned root is what the sources say, or the slot is in `missed`. The
same holds of the file on disk and `cacheMissed`, or else a file that the fingerprint looks
at is newer than the fingerprint the cache has of its root (`CacheInv`): that second
alternative is the strengthening, because a cache is not true, it only gives itself away. No file
and no fingerprint has a time that is still to come (`FilesAged`, `StampsAged`), so a file written now is
newer than every fingerprint taken. Since a command fingerprints a root after its scan, a change
in between reaches `missed`, not the fingerprint alone. From it: `CacheIsTrue`,
`AnswerIsCurrent`. `AnswerIsOfItsRoot` follows from it and the case analysis of `Candidates`
and `resolve_from_file`. A lemma says what a scan holds of each kind of slot, another that
the newest of finitely many times exists; the rest of the proof speaks in their terms.

`DebugFilesProofs`, debug server. The properties speak of quiet, undisturbed states only, so the
inductive invariant says what holds while one undisturbed command runs: at most one
terminal is active, and at each of its program points which process may be alive besides
the recorded one (none before the spawn, its own after it). From it: the types,
`NoOrphan`, `ForeignIsForeign`, `OkIsOurs`.

`DebugSessionProofs`. `Shape` is the types together with what each thread and each command
holds at each place (a daemon that serves knows its session and has a snapshot, a command
past `restore` too): without the places the types are not inductive, since a `None` would be
written. It is proved for any number of terminals, daemons and sessions. The three properties
are proved for one terminal (`OneTerminal`), as they are checked; with two they are false,
because `ensure_background_ping` looks and then spawns (section 3). The invariant is built
from these parts, each needing the ones before it:
`Reader` (a daemon that serves is the one in `ping.pid`, and between the look and the spawn
none serves); `IdsUsed` and `Sessions` (a session id is drawn once, and a command works on
the session on disk, but for an attach whose session nobody knows yet); `Ordered` (stops that
wait for a daemon are newer than all that were written or are in hand, and those in dbgs' queue are newer than
those in a ping's answer); `Visible` (the stop of a stopped target is on its way or was
written); `Fresh` (a step that has cleared the stop on record finds none on disk that is not
newer than it). The order is what makes a step safe: what a late daemon writes under a step
may be any stop on its way, and all of those are newer than the one the step cleared.
From it: `OneReader`, `StopVisible`, `StepAnswersFresh`.

`RuntimeClientProofs` has the same shape: `ClientStage` says at each program point which
client may live and what the files say of it, `TeardownStage` which debug state a stop has
removed so far. From it: the types, `ClientKnown`, `StartIsTrue`, `StopStopsAll`.

`TestRunProofs`, the runner. The invariant of `SafeModeIsOff` says what an ensure that was alone
on its infobase knows at each point: what it has left to do is exactly what is still in
safe mode. That of `RunnerIsFresh` says that the version recorded in the state file is not
newer than the runner of the infobase, if it holds one; this needs that there is one
infobase, the assumption of the theorem, and is false with two (section 3).

`TestRunProofs`, test runs. `RunsEnsure` shows that every step of `TestRun` is a step of `EnsureSpec`
or leaves its variables alone, so the two theorems above hold of test runs as well. The
inductive invariant for the rest is built on two facts: a run belongs to one command
(`Owner`), and two runs that use the directory are both in `mixed` (`Apart`). From them, in
order: a client of an unmixed run has read its own configuration (`Reads`), the report in
the directory is its own (`Written`), what a command collected is its own (`Collected`), and
a client that lives is named (`KnownInv`). From these: `TypeOK`, `ResultIsOwn`,
`ClientIsKnown`, `TeardownSparesLive`, `ReportIsKept`.

`WorkspaceProofs`. One lemma for each operator of `Manifest` says that it takes a valid
manifest to a valid one; they rest on facts about places in lists (a bounded list has a
first entry and a next place, and marking one entry leaves one default). The invariant
(`WInv`) is that the file and every command's copy are valid and that the copy of a command
that is not stale keeps what is on disk but for what it was told to drop
(`Keeps`); crashes and truncations are harmless because `man` is only ever replaced by a
copy. From it: `ManifestsValid` (with the types), `EntriesKept`. For
`DefaultsAgree` every configuration must have a runtime and the first runtime must be the
first configuration's; that order of the two lists (`Paired`) is the strengthening, and it
needs `RuntimeOptional = FALSE`.

`SourcesProofs`. `Stage` says for every kind of command and every place in it what an
undisturbed command has reached (loaded what it read, applied what it loaded, written what
it lists), `Solo` that a command that is alone overlaps none that changes what it uses;
each step of another command then leaves the stage alone. From it: the types, and
`BuildOkInSync`, `ImportOkRoundTrip`, `MetadataOkDone`, `CheckOkClean`.

`PublicationProofs`. `Tidy` holds for each backend that is neither muddled nor lost: one
command, one server, a server that is up is in the pid file, and the command is at a place
where that is so (`Ready`). From it: `NoOrphans` (with the types), `OkDownUnpublishes`. For
`OkUpPublishes`, `UInv` adds that a server publishes what it was started for, but for what
`up` does not look at (`Fits`), and what an `up` has prepared at each of its places
(`Prepared`).

`ToolsProofs`. A command that is alone is the only active one (`AloneSteps`), so every step
of it finds what its own steps have left, and `Stage` says what that is. For a sync
(`SyncStage`): the tools it has passed are in place or counted against it (`DealtWith`), the
torn copies of its pin are those in `worn` (`WornKnown`), and what worked when it began still
works but for the tool in hand (`StillWork`); `PinsAreOwn`, that a pinned file is of the version
it is named for, holds whoever wrote it. `Completes` is what each way out of a component
establishes, proved once and used both to go on and to answer. For a configure (`IdeStage`): what is
merged so far. `ConfigureOkDone` and `UserContentKept` come down to sequences: where the
first markers are when a block is replaced (`UpsertReplaces`) or appended (`UpsertAppends`), that a
second merge is the identity wherever the markers are paired (`BlockMerged`), and a bijection between
the user's lines before and after (`OutsideCount`), for a file of any length with markers in
any order. From it: the types, `SyncOkInstalls`, `SyncKeepsTools`, `UserContentKept`,
`ConfigureOkDone`.

Only model-checked: the liveness properties `LockGranted`, `OrphanExits`, `StopWritten`
(liveness under fairness is outside the prover).

## 5. What is left out of the modelled parts

- The decision of `ensure_background_ping`, the check whether the old daemon lives and
  its kill are one step (`EnsurePing`); the spawn is another. A kill of the daemon that
  fails is not modelled.
- Errors in reading `session.json` (the replace is atomic, so a reader sees a whole
  record); the Windows build, where `fcntl` is missing and the lock does nothing.
- eval results and inspection; in `ModuleIndex`, two modules of one name in a root, and the format of the cache.
- The unlinks of `clear_server_state` and of `clear_state` are one step; pids are not reused.
- In `RuntimeClient`, what the debug commands do inside: a session on disk is taken to be
  restorable, and await_debug_targets_armed is one look at the session.
- In `TestRun`, the exit code and log files beside the report, invalid metadata, and half
  written files: a report that is not whole is no report. Pids are not reused, so a wait
  never takes another program for its client.
- In `Workspace`, what is inside a source directory beyond `Configuration.xml`, and edits of
  the manifest by hand, which alone can give a configuration several runtimes.
- In `Publication`, the text of the configurations, several profiles of one backend, reused pids (a server that dies and a program that takes its pid).
- In `Sources`, contents of objects, subsystems, read commands, client-server infobases,
  and ibcmd's own locking: two runs over one infobase at once are taken to exclude each
  other, since each run is a step.
- In `Toolchain`, `ONEC_*` overrides, and readers of a stable file while it is replaced; in
  `IdeConfig`, the contents of templates and rules beyond their release.
- Wording, diagnostics and exit codes. The command line and the MCP server are wrappers
  over the modelled commands; templates, docs, doctor and the Java tools keep no state.

## 6. Plan

Order is by weight in the system. Each module gets its MC module, a run, mutants, and,
where marked (P), proofs.

Done: `SessionFile`, `DebugSession`, `DebugServer`, `RuntimeClient`, `RunnerEnsure`,
`TestRun`, `Workspace`, `Publication`, `Sources`, `Toolchain`, `IdeConfig`, `ModuleIndex`,
each with its proofs. Next:

1. An abstract manifest, a set of entries changed by whole commands, that an undisturbed
   `Workspace` implements (P).
2. A composition of `DebugSession` with teardown, `RuntimeClient` and `TestRun`: stopping
   everything leaves nothing.
3. The placement of objects in subsystems, as operators checked against a definition over
   bounded inputs.
