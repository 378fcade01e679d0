---------------------------- MODULE RuntimeClient ----------------------------
(***************************************************************************)
(* runtime start, stop and status (core/runtime/run.py): CLI processes that *)
(* start one detached 1C client of the project and remember it in           *)
(* client.pid and client.meta.json.  With --debug a start first brings up   *)
(* the debugger, and stop takes everything down.  No lock is taken.         *)
(*                                                                         *)
(* Of the debugger only its state files are seen here: DebugServer and      *)
(* DebugSession are the models of what goes on behind them.                 *)
(***************************************************************************)
CONSTANTS
  Clis,       \* the terminals
  Procs,      \* the pids of the clients, each used once
  MayCrash,   \* whether commands are killed half way
  Null

ASSUME NullIsNoPid == Null \notin Procs
ASSUME MayCrashBoolean == MayCrash \in BOOLEAN

\* What a client was started as, which is what client.meta.json says of it.
Clients == [kind : {"thick", "thin"}, debug : BOOLEAN]
ASSUME NullIsNoMeta == Null \notin Clients

Parts == {"server", "session", "ping"}

VARIABLES
  pidFile,    \* client.pid
  metaFile,   \* client.meta.json
  proc,       \* the state of each client process
  client,     \* what each process was started as
  up,         \* the debug state files: server.pid, session.json, ping.pid
  cmd,        \* per terminal: the running command; spoiled: a stop that warned or that a
              \* debug command came between
  disturbed   \* history: a command overlaps another one, was killed, could not stop
              \* the client or began after such a one

vars == <<pidFile, metaFile, proc, client, up, cmd, disturbed>>
files == <<pidFile, metaFile>>
procs == <<proc, client>>

\* _default_meta
DefaultClient == [kind |-> "thick", debug |-> FALSE]

Idle == [op |-> "none", pc |-> "idle", wants |-> DefaultClient, pid |-> Null, spoiled |-> FALSE]
States == {"unused", "alive", "dead"}
Locations == {"idle", "server", "attach", "breakpoints", "snapshot", "infobase", "prepare",
              "spawn", "settle", "pid", "meta", "await", "kill", "clear", "teardown", "detach",
              "stop_server"}

Init ==
  /\ pidFile = Null /\ metaFile = Null
  /\ proc = [p \in Procs |-> "unused"]
  /\ client = [p \in Procs |-> DefaultClient]
  /\ up = {}
  /\ cmd = [c \in Clis |-> Idle]
  /\ disturbed = FALSE

Alive(p) == p \in Procs /\ proc[p] = "alive"
\* read_meta
Meta == IF metaFile = Null THEN DefaultClient ELSE metaFile

Go(c, pc) == cmd' = [cmd EXCEPT ![c].pc = pc]
Done(c) == cmd' = [cmd EXCEPT ![c] = Idle]
clear_state == pidFile' = Null /\ metaFile' = Null

Quiet == \A c \in Clis : cmd[c].pc = "idle"

\* Every client that lives is the one the files name, and as what it was started.
Known == \A p \in Procs : Alive(p) => pidFile = p /\ metaFile = client[p]

-----------------------------------------------------------------------------
(* The machine: a client is closed; a debug command brings up or takes down *)
(* its parts of the debugger.                                               *)

Exit(p) == proc' = [proc EXCEPT ![p] = "dead"] /\ UNCHANGED client

Close(p) ==
  /\ Alive(p)
  /\ Exit(p)
  /\ UNCHANGED <<files, up, cmd, disturbed>>

\* A stop under way can no longer promise to have stopped everything.
DebugCommand ==
  /\ \E part \in Parts : up' \in {up \cup {part}, up \ {part}}
  /\ cmd' = [c \in Clis |-> IF cmd[c].op = "stop" THEN [cmd[c] EXCEPT !.spoiled = TRUE]
                           ELSE cmd[c]]
  /\ UNCHANGED <<files, procs, disturbed>>

-----------------------------------------------------------------------------
(* A command begins. *)

Begin(c, op, wants, pc) ==
  /\ cmd[c].pc = "idle"
  /\ cmd' = [cmd EXCEPT ![c] = [Idle EXCEPT !.op = op, !.wants = wants, !.pc = pc]]
  /\ disturbed' = ~(Quiet /\ Known)
  /\ UNCHANGED <<files, procs, up>>

\* run_start: with breakpoints, or with no session yet, the debugger comes first.
BeginStart(c) ==
  \E wants \in Clients, bp \in BOOLEAN :
    /\ bp => wants.debug
    /\ Begin(c, "start", wants,
             IF wants.debug /\ (bp \/ "session" \notin up) THEN "server" ELSE "snapshot")

BeginStop(c) == Begin(c, "stop", DefaultClient, "snapshot")
BeginStatus(c) == Begin(c, "status", DefaultClient, "snapshot")

-----------------------------------------------------------------------------
(* ensure_debug_for_runtime *)

\* run_server_start; one that fails may have written or removed server.pid.
EnsureServer(c) ==
  /\ cmd[c].pc = "server"
  /\ \/ up' = up \cup {"server"} /\ Go(c, "attach")
     \/ up' \in {up, up \cup {"server"}, up \ {"server"}} /\ Done(c)
  /\ UNCHANGED <<files, procs, disturbed>>

\* A session on disk is kept; else run_attach.  The daemon is started softly.
EnsureAttached(c) ==
  /\ cmd[c].pc = "attach"
  /\ \/ up' \in {up \cup {"session"}, up \cup {"session", "ping"}} /\ Go(c, "breakpoints")
     \/ "session" \notin up /\ Done(c) /\ UNCHANGED up
  /\ UNCHANGED <<files, procs, disturbed>>

\* run_breakpoint_set for each of them; whether there are any is not kept.
EnsureBreakpoints(c) ==
  /\ cmd[c].pc = "breakpoints"
  /\ Go(c, "snapshot") \/ Done(c)
  /\ UNCHANGED <<files, procs, up, disturbed>>

-----------------------------------------------------------------------------
(* _alive_snapshot and what each command makes of it. *)

\* Mutant for StartIsTrue: a client of either kind will do.
AlreadyRunning_AnyKind(c) ==
  /\ cmd[c].op = "start" /\ cmd[c].pc = "snapshot"
  /\ Alive(pidFile)
  /\ Done(c)
  /\ UNCHANGED <<files, procs, up, disturbed>>

\* start: the client that runs is of the kind asked for, or the start is refused.
AlreadyRunning(c) ==
  /\ cmd[c].op = "start" /\ cmd[c].pc = "snapshot"
  /\ Alive(pidFile) /\ Meta.kind = cmd[c].wants.kind
  /\ Done(c)
  /\ UNCHANGED <<files, procs, up, disturbed>>

OtherRunning(c) ==
  /\ cmd[c].op = "start" /\ cmd[c].pc = "snapshot"
  /\ Alive(pidFile) /\ Meta.kind # cmd[c].wants.kind
  /\ Done(c)
  /\ UNCHANGED <<files, procs, up, disturbed>>

StopFinds(c) ==
  /\ cmd[c].op = "stop" /\ cmd[c].pc = "snapshot"
  /\ Alive(pidFile)
  /\ cmd' = [cmd EXCEPT ![c].pc = "kill", ![c].pid = pidFile]
  /\ UNCHANGED <<files, procs, up, disturbed>>

StatusRunning(c) ==
  /\ cmd[c].op = "status" /\ cmd[c].pc = "snapshot"
  /\ Alive(pidFile)
  /\ Done(c)
  /\ UNCHANGED <<files, procs, up, disturbed>>

\* Mutant for ClientKnown: the files are cleared although the client lives.
NotRunning_Forgets(c) ==
  /\ cmd[c].pc = "snapshot"
  /\ clear_state
  /\ CASE cmd[c].op = "start" -> Go(c, "infobase")
       [] cmd[c].op = "stop" -> Go(c, "teardown")
       [] OTHER -> Done(c)
  /\ UNCHANGED <<procs, up, disturbed>>

\* A stale pid is cleared away, and stop clears the files in any case.
NotRunning(c) ==
  /\ cmd[c].pc = "snapshot"
  /\ ~Alive(pidFile)
  /\ IF pidFile # Null \/ cmd[c].op = "stop" THEN clear_state ELSE UNCHANGED files
  /\ CASE cmd[c].op = "start" -> Go(c, "infobase")
       [] cmd[c].op = "stop" -> Go(c, "teardown")
       [] OTHER -> Done(c)
  /\ UNCHANGED <<procs, up, disturbed>>

-----------------------------------------------------------------------------
(* The rest of run_start. *)

\* The infobase or the platform may be missing.
FindInfobase(c) ==
  /\ cmd[c].pc = "infobase"
  /\ Go(c, IF cmd[c].wants.debug THEN "prepare" ELSE "spawn") \/ Done(c)
  /\ UNCHANGED <<files, procs, up, disturbed>>

\* prepare_debug_for_spawn
Prepare(c) ==
  /\ cmd[c].pc = "prepare"
  /\ IF "session" \in up
     THEN up' \in {up, up \cup {"ping"}} /\ Go(c, "spawn")
     ELSE Done(c) /\ UNCHANGED up
  /\ UNCHANGED <<files, procs, disturbed>>

\* start_enterprise_client: the spawn ...
Spawn(c) ==
  /\ cmd[c].pc = "spawn"
  /\ \E p \in Procs :
       /\ proc[p] = "unused"
       /\ proc' = [proc EXCEPT ![p] = "alive"]
       /\ client' = [client EXCEPT ![p] = cmd[c].wants]
       /\ cmd' = [cmd EXCEPT ![c].pc = "settle", ![c].pid = p]
  /\ UNCHANGED <<files, up, disturbed>>

\* ... or an OSError, ...
SpawnFails(c) ==
  /\ cmd[c].pc = "spawn"
  /\ clear_state
  /\ Done(c)
  /\ UNCHANGED <<procs, up, disturbed>>

\* ... and the look at the process after settle_seconds.
Settle(c) ==
  /\ cmd[c].pc = "settle"
  /\ IF Alive(cmd[c].pid)
     THEN Go(c, "pid") /\ UNCHANGED files
     ELSE Done(c) /\ clear_state
  /\ UNCHANGED <<procs, up, disturbed>>

\* write_state writes two files, one after the other.
WritePid(c) ==
  /\ cmd[c].pc = "pid"
  /\ pidFile' = cmd[c].pid
  /\ Go(c, "meta")
  /\ UNCHANGED <<metaFile, procs, up, disturbed>>

WriteMeta(c) ==
  /\ cmd[c].pc = "meta"
  /\ metaFile' = cmd[c].wants
  /\ Go(c, "await")
  /\ UNCHANGED <<pidFile, procs, up, disturbed>>

\* await_debug_targets_armed, and the report: a debug start fails when the session
\* is gone by now.
StartOk(c) ==
  /\ cmd[c].pc = "await"
  /\ cmd[c].wants.debug => "session" \in up
  /\ Done(c)
  /\ up' \in IF cmd[c].wants.debug THEN {up, up \cup {"ping"}} ELSE {up}
  /\ UNCHANGED <<files, procs, disturbed>>

StartLosesSession(c) ==
  /\ cmd[c].pc = "await"
  /\ cmd[c].wants.debug /\ "session" \notin up
  /\ Done(c)
  /\ UNCHANGED <<files, procs, up, disturbed>>

-----------------------------------------------------------------------------
(* The rest of run_stop. *)

\* stop_client: the client is gone, or it survives SIGTERM and SIGKILL.
Kill(c) ==
  /\ cmd[c].pc = "kill"
  /\ \/ IF Alive(cmd[c].pid) THEN Exit(cmd[c].pid) ELSE UNCHANGED procs
     \/ UNCHANGED procs
  /\ Go(c, "clear")
  /\ UNCHANGED <<files, up, disturbed>>

\* clear_state comes before the look at the outcome.
StopClears(c) ==
  /\ cmd[c].pc = "clear"
  /\ ~Alive(cmd[c].pid)
  /\ clear_state
  /\ Go(c, "teardown")
  /\ UNCHANGED <<procs, up, disturbed>>

StopFails(c) ==
  /\ cmd[c].pc = "clear"
  /\ Alive(cmd[c].pid)
  /\ clear_state
  /\ Done(c)
  /\ disturbed' = TRUE
  /\ UNCHANGED <<procs, up>>

\* Mutant for StopStopsAll: no ping daemon, nothing to tear down.
NothingToTearDown_NoPing(c) ==
  /\ cmd[c].pc = "teardown" /\ "ping" \notin up
  /\ Done(c)
  /\ UNCHANGED <<files, procs, up, disturbed>>

\* _teardown_debug_state: has_debug_state, then stop_background_ping, ...
NothingToTearDown(c) ==
  /\ cmd[c].pc = "teardown" /\ up = {}
  /\ Done(c)
  /\ UNCHANGED <<files, procs, up, disturbed>>

\* A process that cannot be killed keeps its pid file; the stop only warns.
TakeDown(c, part, pc) ==
  \/ up' = up \ {part} /\ Go(c, pc)
  \/ /\ part \in up
     /\ cmd' = [cmd EXCEPT ![c].pc = pc, ![c].spoiled = TRUE]
     /\ UNCHANGED up

TearDownPing(c) ==
  /\ cmd[c].pc = "teardown" /\ up # {}
  /\ TakeDown(c, "ping", "detach")
  /\ UNCHANGED <<files, procs, disturbed>>

\* ... force_detach, whose errors are warnings, and clear_session, ...
TearDownSession(c) ==
  /\ cmd[c].pc = "detach"
  /\ up' = up \ {"session"}
  /\ Go(c, "stop_server")
  /\ UNCHANGED <<files, procs, disturbed>>

\* ... and server_stop of the dbgs we started.
TearDownServer(c) ==
  /\ cmd[c].pc = "stop_server"
  /\ \/ up' = up \ {"server"}
     \/ "server" \in up /\ UNCHANGED up
  /\ Done(c)
  /\ UNCHANGED <<files, procs, disturbed>>

Crash(c) ==
  /\ MayCrash
  /\ cmd[c].pc # "idle"
  /\ Done(c)
  /\ disturbed' = TRUE
  /\ UNCHANGED <<files, procs, up>>

-----------------------------------------------------------------------------
Machine == DebugCommand \/ \E p \in Procs : Close(p)

Start(c) ==
  \/ BeginStart(c) \/ EnsureServer(c) \/ EnsureAttached(c) \/ EnsureBreakpoints(c)
  \/ AlreadyRunning(c) \/ OtherRunning(c) \/ FindInfobase(c) \/ Prepare(c) \/ Spawn(c)
  \/ SpawnFails(c) \/ Settle(c) \/ WritePid(c) \/ WriteMeta(c) \/ StartOk(c)
  \/ StartLosesSession(c)

StopOrStatus(c) ==
  \/ BeginStop(c) \/ StopFinds(c) \/ Kill(c) \/ StopClears(c) \/ StopFails(c)
  \/ NothingToTearDown(c) \/ TearDownPing(c) \/ TearDownSession(c) \/ TearDownServer(c)
  \/ BeginStatus(c) \/ StatusRunning(c)

Command(c) == Start(c) \/ StopOrStatus(c) \/ NotRunning(c) \/ Crash(c)

Next == Machine \/ \E c \in Clis : Command(c)

Spec == Init /\ [][Next]_vars

-----------------------------------------------------------------------------
CommandType == [op : {"none", "start", "stop", "status"}, pc : Locations, wants : Clients,
                pid : Procs \cup {Null}, spoiled : BOOLEAN]

TypeOK ==
  /\ pidFile \in Procs \cup {Null}
  /\ metaFile \in Clients \cup {Null}
  /\ proc \in [Procs -> States]
  /\ client \in [Procs -> Clients]
  /\ up \in SUBSET Parts
  /\ cmd \in [Clis -> CommandType]
  /\ disturbed \in BOOLEAN

\* When no command runs, a client that lives is the one the files name, with the
\* kind and the debug flag it was started with.  Only commands that overlapped, were
\* killed, failed to stop the client or began after such a one may do otherwise.
ClientKnown == Quiet /\ ~disturbed => Known

\* An undisturbed start that reports success leaves the files naming a client of
\* the kind that was asked for: the one found alive, or the one it started.
StartIsTrue ==
  [][\A c \in Clis :
       /\ AlreadyRunning(c) => disturbed \/ client[pidFile].kind = cmd[c].wants.kind
       /\ StartOk(c) =>
            disturbed \/ (pidFile = cmd[c].pid /\ metaFile = client[pidFile]
                            /\ client[pidFile] = cmd[c].wants)]_vars

\* ADR-031: runtime stop is the one way to stop everything.  An undisturbed stop
\* that reports success without a warning leaves no client and no debug state.
StopStopsAll ==
  [][\A c \in Clis :
       NothingToTearDown(c) \/ (TearDownServer(c) /\ "server" \notin up') =>
         \/ disturbed \/ cmd[c].spoiled
         \/ up' = {} /\ \A p \in Procs : ~Alive(p)]_vars

\* ADR-019: a start while the client lives keeps the client that runs.
StartIsIdempotent ==
  [][\A p \in Procs : proc[p] = "unused" /\ proc'[p] = "alive" =>
       \A q \in Procs : ~Alive(q)]_vars
=============================================================================
