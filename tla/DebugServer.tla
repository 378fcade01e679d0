----------------------------- MODULE DebugServer -----------------------------
(***************************************************************************)
(* debug server start and debug server stop (core/debug/server.py): CLI     *)
(* processes that start and stop one dbgs of the project on one port, and   *)
(* remember it in server.pid and server.json under .1c-dev/debug.  No lock  *)
(* is taken, and every start hands dbgs the same --notify file.             *)
(*                                                                         *)
(* dbgs is external: it binds its port or exits, and once it listens it may *)
(* write the notify file (optional on some builds) and answers rdbgTest.    *)
(***************************************************************************)
EXTENDS Naturals

CONSTANTS
  Clis,       \* the terminals that run the two commands
  Pids,      \* the pids of the dbgs processes, each used once
  Foreign,    \* a program that is not ours and may take the port
  NoPid

ASSUME NamesDiffer == Foreign \notin Pids /\ NoPid \notin Pids /\ Foreign # NoPid

VARIABLES
  pidFile,    \* server.pid
  metaFile,   \* server.json: the pid it was written for
  notify,     \* the notify file: who wrote it, or NoPid
  port,       \* who listens on the port
  proc,       \* the state of each dbgs process
  cmd,        \* per terminal: the running command, its pc and its process
  disturbed   \* history: a command overlaps another one, was killed or began after an orphan

serverVars == <<pidFile, metaFile, notify, port, proc, cmd, disturbed>>
serverFiles == <<pidFile, metaFile, notify>>

Idle == [op |-> "none", pc |-> "idle", pid |-> NoPid]
States == {"unused", "starting", "listening", "dead"}
ServerPlaces == {"idle", "check", "port", "unlink", "spawn", "await", "pid", "meta", "test",
              "kill", "clear"}

ServerInit ==
  /\ pidFile = NoPid /\ metaFile = NoPid /\ notify = NoPid /\ port = NoPid
  /\ proc = [p \in Pids |-> "unused"]
  /\ cmd = [c \in Clis |-> Idle]
  /\ disturbed = FALSE

\* is_running of a pid read from server.pid or returned by the spawner.
Running(p) == p \in Pids /\ proc[p] \in {"starting", "listening"}

-----------------------------------------------------------------------------
(* dbgs and the rest of the machine. *)

Exits(p) ==
  /\ proc' = [proc EXCEPT ![p] = "dead"]
  /\ port' = IF port = p THEN NoPid ELSE port

Listen(p) ==
  /\ proc[p] = "starting" /\ port = NoPid
  /\ proc' = [proc EXCEPT ![p] = "listening"]
  /\ port' = p
  /\ UNCHANGED <<serverFiles, cmd, disturbed>>

Notify(p) ==
  /\ proc[p] = "listening" /\ notify # p
  /\ notify' = p
  /\ UNCHANGED <<pidFile, metaFile, port, proc, cmd, disturbed>>

\* The port is taken, or the process crashes or is closed.
Die(p) ==
  /\ Running(p)
  /\ Exits(p)
  /\ UNCHANGED <<serverFiles, cmd, disturbed>>

ForeignPort ==
  /\ port' \in {NoPid, Foreign} \ {port} /\ port \in {NoPid, Foreign}
  /\ UNCHANGED <<serverFiles, proc, cmd, disturbed>>

-----------------------------------------------------------------------------
(* The commands. *)

Go(c, place) == cmd' = [cmd EXCEPT ![c].pc = place]
Done(c) == cmd' = [cmd EXCEPT ![c] = Idle]

Quiet == \A c \in Clis : cmd[c].pc = "idle"

\* Every dbgs that lives is the one the files name.
Consistent == \A p \in Pids : Running(p) => pidFile = p /\ metaFile = p

\* clear_server_state: the notify file goes with the other two.
clear_server_state == pidFile' = NoPid /\ metaFile' = NoPid /\ notify' = NoPid

Begin(c) ==
  /\ cmd[c].pc = "idle"
  /\ \E o \in {"start", "stop"} :
       cmd' = [cmd EXCEPT ![c] = [op |-> o, pc |-> "check", pid |-> NoPid]]
  /\ disturbed' = ~(Quiet /\ Consistent)
  /\ UNCHANGED <<serverFiles, port, proc>>

\* Mutant for ForeignIsForeign and OkIsOurs: a dbgs that lives is forgotten.
alive_server_Forgets(c) ==
  /\ cmd[c].pc = "check"
  /\ Go(c, IF cmd[c].op = "start" THEN "port" ELSE "clear")
  /\ clear_server_state
  /\ UNCHANGED <<port, proc, disturbed>>

\* alive_server: a start that finds the server running is done; a stale pid is
\* cleared away.
alive_server(c) ==
  /\ cmd[c].pc = "check"
  /\ IF Running(pidFile)
     THEN /\ IF cmd[c].op = "start" THEN Done(c)
             ELSE cmd' = [cmd EXCEPT ![c].pc = "kill", ![c].pid = pidFile]
          /\ UNCHANGED serverFiles
     ELSE /\ Go(c, IF cmd[c].op = "start" THEN "port" ELSE "clear")
          /\ IF pidFile # NoPid THEN clear_server_state ELSE UNCHANGED serverFiles
  /\ UNCHANGED <<port, proc, disturbed>>

\* _port_free, then the discovery of dbgs, which may fail as well.
PortTaken(c) ==
  /\ cmd[c].pc = "port" /\ port # NoPid
  /\ Done(c)
  /\ UNCHANGED <<serverFiles, port, proc, disturbed>>

PortFree(c) ==
  /\ cmd[c].pc = "port" /\ port = NoPid
  /\ Go(c, "unlink") \/ Done(c)
  /\ UNCHANGED <<serverFiles, port, proc, disturbed>>

UnlinkNotify(c) ==
  /\ cmd[c].pc = "unlink"
  /\ notify' = NoPid
  /\ Go(c, "spawn")
  /\ UNCHANGED <<pidFile, metaFile, port, proc, disturbed>>

\* default_spawn_dbgs, or an OSError.
Spawn(c) ==
  /\ cmd[c].pc = "spawn"
  /\ \/ \E p \in Pids :
          /\ proc[p] = "unused"
          /\ proc' = [proc EXCEPT ![p] = "starting"]
          /\ cmd' = [cmd EXCEPT ![c].pc = "await", ![c].pid = p]
     \/ Done(c) /\ UNCHANGED proc
  /\ UNCHANGED <<serverFiles, port, disturbed>>

\* The notify file is there, whoever wrote it, or the deadline passed.
AwaitNotify(c) ==
  /\ cmd[c].pc = "await"
  /\ notify # NoPid \/ Running(cmd[c].pid)
  /\ Go(c, "pid")
  /\ UNCHANGED <<serverFiles, port, proc, disturbed>>

\* No notify file, and the new process is gone: whatever is recorded goes too.
AwaitExited(c) ==
  /\ cmd[c].pc = "await"
  /\ notify = NoPid /\ ~Running(cmd[c].pid)
  /\ clear_server_state
  /\ Done(c)
  /\ UNCHANGED <<port, proc, disturbed>>

\* write_server_state writes two files, one after the other.
WritePid(c) ==
  /\ cmd[c].pc = "pid"
  /\ pidFile' = cmd[c].pid
  /\ Go(c, "meta")
  /\ UNCHANGED <<metaFile, notify, port, proc, disturbed>>

WriteMeta(c) ==
  /\ cmd[c].pc = "meta"
  /\ metaFile' = cmd[c].pid
  /\ Go(c, "test")
  /\ UNCHANGED <<pidFile, notify, port, proc, disturbed>>

\* rdbgTest: any dbgs on the port answers; the answer may also not come.  Either
\* way the files stay.
TestOk(c) ==
  /\ cmd[c].pc = "test" /\ port \in Pids
  /\ Done(c)
  /\ UNCHANGED <<serverFiles, port, proc, disturbed>>

TestFails(c) ==
  /\ cmd[c].pc = "test"
  /\ Done(c)
  /\ UNCHANGED <<serverFiles, port, proc, disturbed>>

\* Mutant for NoOrphan: the state is cleared although the process lives on.
Terminate_ClearsAlways(c) ==
  /\ cmd[c].pc = "kill"
  /\ Go(c, "clear")
  /\ UNCHANGED <<serverFiles, port, proc, disturbed>>

\* terminate of the pid: it is gone, or it lives on and the stop fails.
Terminate(c) ==
  /\ cmd[c].pc = "kill"
  /\ \/ /\ IF Running(cmd[c].pid) THEN Exits(cmd[c].pid) ELSE UNCHANGED <<port, proc>>
        /\ Go(c, "clear")
     \/ /\ Running(cmd[c].pid)
        /\ Done(c)
        /\ UNCHANGED <<port, proc>>
  /\ UNCHANGED <<serverFiles, disturbed>>

ClearState(c) ==
  /\ cmd[c].pc = "clear"
  /\ clear_server_state
  /\ Done(c)
  /\ UNCHANGED <<port, proc, disturbed>>

\* The command is killed; the dbgs it spawned is detached and lives on.
Killed(c) ==
  /\ cmd[c].pc # "idle"
  /\ Done(c)
  /\ disturbed' = TRUE
  /\ UNCHANGED <<serverFiles, port, proc>>

-----------------------------------------------------------------------------
Machine == ForeignPort \/ \E p \in Pids : Listen(p) \/ Notify(p) \/ Die(p)

Command(c) ==
  \/ Begin(c) \/ alive_server(c) \/ PortTaken(c) \/ PortFree(c) \/ UnlinkNotify(c) \/ Spawn(c)
  \/ AwaitNotify(c) \/ AwaitExited(c) \/ WritePid(c) \/ WriteMeta(c) \/ TestOk(c)
  \/ TestFails(c) \/ Terminate(c) \/ ClearState(c) \/ Killed(c)

ServerNext == Machine \/ \E c \in Clis : Command(c)

ServerSpec == ServerInit /\ [][ServerNext]_serverVars

-----------------------------------------------------------------------------
ServerTypeOK ==
  /\ {pidFile, metaFile, notify} \subseteq Pids \cup {NoPid}
  /\ port \in Pids \cup {NoPid, Foreign}
  /\ proc \in [Pids -> States]
  /\ cmd \in [Clis -> [op : {"none", "start", "stop"}, pc : ServerPlaces, pid : Pids \cup {NoPid}]]
  /\ disturbed \in BOOLEAN

\* server start and server stop leave the files in agreement with the machine: a
\* dbgs that lives when no command runs is the one they name, so that stop can
\* stop it and start can find it.  Only a command that overlapped another one, was
\* killed or began after an orphan was left may do otherwise.
NoOrphan == Quiet /\ ~disturbed => Consistent

\* server_start says that the taken port is "not our dbgs": it is not, unless the
\* command was disturbed in this sense.
ForeignIsForeign == [][\A c \in Clis : PortTaken(c) => port = Foreign \/ disturbed]_serverVars

\* A start that reports success recorded the very process that answered it.
OkIsOurs ==
  [][\A c \in Clis : TestOk(c) => disturbed \/ (pidFile = port /\ cmd[c].pid = port)]_serverVars
=============================================================================
