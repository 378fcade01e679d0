------------------------------- MODULE TestRun -------------------------------
(***************************************************************************)
(* test run, test run --debug, test wait (core/test/ops.py) and the test     *)
(* client they start (adapters/test_yaxunit/client.py).  A blocking run      *)
(* waits for its client; a debug run leaves it running, writes its pid to    *)
(* run.meta.json, and wait collects the report later, perhaps from another   *)
(* terminal.  All runs of a project share one directory for the test         *)
(* configuration and the jUnit report, and no lock is taken.                 *)
(*                                                                         *)
(* A run id stands for the run, its test configuration and its client's pid. *)
(***************************************************************************)
EXTENDS RunnerEnsure

CONSTANTS
  Runs,       \* the ids, each used once
  Null

ASSUME NullIsNoRun == Null \notin Runs

VARIABLES
  cfg,        \* work/cfg.json: the run whose tests it selects
  junit,      \* work/junit.xml: the client that wrote it and the tests it ran
  metaFile,   \* run.meta.json: the run
  lastResult, \* last-result.json: the run it is of and the report it was made from
  client,     \* per run: the state of its client and the tests it has read from cfg.json
  session,    \* whether session.json exists
  cmd,        \* per terminal: the running command
  mixed,      \* history: runs that shared the directory with another one
  lost        \* history: runs whose command was killed or could not kill its client

testVars == <<cfg, junit, metaFile, lastResult, client, session, cmd, mixed, lost>>
workDir == <<cfg, junit>>
history == <<mixed, lost>>
vars == <<ensureVars, testVars>>

Reports == [by : Runs, tests : Runs]

ASSUME NullIsNoReport == Null \notin Reports

Idle == [op |-> "none", pc |-> "idle", run |-> Null, report |-> Null]

Init ==
  /\ InitEnsure
  /\ cfg = Null /\ junit = Null /\ metaFile = Null /\ lastResult = Null
  /\ client = [r \in Runs |-> [state |-> "unused", tests |-> Null]]
  /\ session = FALSE
  /\ cmd = [c \in Clis |-> Idle]
  /\ mixed = {} /\ lost = {}

Alive(r) == client[r].state \in {"starting", "running", "reported"}
Unused(r) ==
  /\ client[r].state = "unused" /\ r \notin mixed /\ cfg # r
  /\ \A c \in Clis : cmd[c].run # r
Go(c, pc) == cmd' = [cmd EXCEPT ![c].pc = pc]
Done(c) == cmd' = [cmd EXCEPT ![c] = Idle]
Quiet == \A c \in Clis : cmd[c].pc = "idle"

\* A run uses the directory: its client lives, or a command is at work in it.
InUse(r) ==
  \/ Alive(r)
  \/ \E c \in Clis : /\ cmd[c].run = r
                    /\ cmd[c].pc \notin {"idle", "ensure", "boot", "reset", "prepare"}

\* The runs that have to share it when r begins to use it.
Sharing(r) ==
  LET others == {q \in Runs \ {r} : InUse(q)}
  IN  IF others = {} THEN {} ELSE others \cup {r}

-----------------------------------------------------------------------------
(* The test client, 1cv8 with /CRunUnitTests.                                 *)

ClientReadsConfig(r) ==
  /\ client[r].state = "starting"
  /\ client' = [client EXCEPT ![r] = [state |-> "running", tests |-> cfg]]
  /\ UNCHANGED <<ensureVars, workDir, metaFile, lastResult, session, cmd, history>>

ClientReports(r) ==
  /\ client[r].state = "running" /\ client[r].tests # Null
  /\ junit' = [by |-> r, tests |-> client[r].tests]
  /\ client' = [client EXCEPT ![r].state = "reported"]
  /\ UNCHANGED <<ensureVars, cfg, metaFile, lastResult, session, cmd, history>>

\* It closes after the tests, or before: it fails, or the user closes it.
Exit(r) ==
  client' = [client EXCEPT ![r].state = IF @ = "reported" THEN "complete" ELSE "dead"]

ClientExits(r) ==
  /\ Alive(r)
  /\ Exit(r)
  /\ UNCHANGED <<ensureVars, workDir, metaFile, lastResult, session, cmd, history>>

\* debug attach, debug detach, runtime stop
DebugCommand ==
  /\ session' = ~session
  /\ UNCHANGED <<ensureVars, workDir, metaFile, lastResult, client, cmd, history>>

-----------------------------------------------------------------------------
(* run_tests and run_one_test, blocking or with --debug.                      *)

\* The manifest, the suites, the infobase and the platform may turn out wrong;
\* --no-runner-ensure goes on at once.
BeginRun(c) ==
  /\ cmd[c].pc = "idle"
  /\ \E r \in {q \in Runs : Unused(q)}, op \in {"run", "debug"} :
       \/ /\ \E b \in Ibs : EnsureBegin(c, b)
          /\ cmd' = [cmd EXCEPT ![c] = [Idle EXCEPT !.op = op, !.run = r, !.pc = "ensure"]]
       \/ /\ cmd' = [cmd EXCEPT ![c] = [Idle EXCEPT !.op = op, !.run = r,
                                          !.pc = IF op = "debug" THEN "boot" ELSE "prepare"]]
          /\ UNCHANGED ensureVars
  /\ UNCHANGED <<workDir, metaFile, lastResult, client, session, history>>

EnsureRunner(c) ==
  /\ cmd[c].pc = "ensure"
  /\ EnsureStep(c)
  /\ UNCHANGED testVars

EnsuredRunner(c) ==
  /\ cmd[c].pc = "ensure"
  /\ \/ ensure[c].pc = "ok" /\ Go(c, IF cmd[c].op = "debug" THEN "boot" ELSE "prepare")
     \/ ensure[c].pc = "failed" /\ Done(c)
  /\ EnsureEnds(c)
  /\ UNCHANGED <<workDir, metaFile, lastResult, client, session, history>>

\* ensure_debug_for_runtime: when there are breakpoints, or no session yet.
BootDebug(c) ==
  /\ cmd[c].pc = "boot"
  /\ \/ session' = TRUE /\ Go(c, "reset")
     \/ session' \in {session, TRUE} /\ Done(c)
  /\ UNCHANGED <<ensureVars, workDir, metaFile, lastResult, client, history>>

\* prepare_debug_for_spawn
ResetDebug(c) ==
  /\ cmd[c].pc = "reset"
  /\ IF session THEN Go(c, "prepare") ELSE Done(c)
  /\ UNCHANGED <<ensureVars, workDir, metaFile, lastResult, client, session, history>>

\* A debug run that was not waited for loses its report.
EntersWorkDir(c) == mixed' = mixed \cup Sharing(cmd[c].run) \cup ({metaFile} \ {Null})

\* Mutant for ResultIsOwn: the report of the run before is left in the directory.
PrepareWorkDir_Keeps(c) ==
  /\ cmd[c].pc = "prepare"
  /\ cfg' = Null /\ Go(c, "config") /\ EntersWorkDir(c) /\ UNCHANGED junit
  /\ UNCHANGED <<ensureVars, metaFile, lastResult, client, session, lost>>

\* prepare_work_dir removes what runs before have left, unless there is no display.
PrepareWorkDir(c) ==
  /\ cmd[c].pc = "prepare"
  /\ \/ cfg' = Null /\ junit' = Null /\ Go(c, "config") /\ EntersWorkDir(c)
     \/ Done(c) /\ UNCHANGED <<workDir, mixed>>
  /\ UNCHANGED <<ensureVars, metaFile, lastResult, client, session, lost>>

WriteConfig(c) ==
  /\ cmd[c].pc = "config"
  /\ cfg' = cmd[c].run
  /\ Go(c, "spawn")
  /\ UNCHANGED <<ensureVars, junit, metaFile, lastResult, client, session, history>>

\* _popen_session; its OSError ends the command.
Spawn(c) ==
  /\ cmd[c].pc = "spawn"
  /\ \/ /\ client' = [client EXCEPT ![cmd[c].run].state = "starting"]
        /\ Go(c, IF cmd[c].op = "debug" THEN "arm" ELSE "wait")
     \/ Done(c) /\ UNCHANGED client
  /\ UNCHANGED <<ensureVars, workDir, metaFile, lastResult, session, history>>

\* Mutant for ClientIsKnown: a run whose targets cannot be armed stops there.
ArmTargets_Fails(c) ==
  /\ cmd[c].pc = "arm"
  /\ IF session THEN Go(c, "meta") ELSE Done(c)
  /\ UNCHANGED <<ensureVars, workDir, metaFile, lastResult, client, session, history>>

\* await_debug_targets_armed: its failure is only reported.
ArmTargets(c) ==
  /\ cmd[c].pc = "arm"
  /\ Go(c, "meta")
  /\ UNCHANGED <<ensureVars, workDir, metaFile, lastResult, client, session, history>>

SaveMeta(c) ==
  /\ cmd[c].pc = "meta"
  /\ metaFile' = cmd[c].run
  /\ Done(c)
  /\ UNCHANGED <<ensureVars, workDir, lastResult, client, session, history>>

\* default_run: the client exits, ...
RunExits(c) ==
  /\ cmd[c].op = "run" /\ cmd[c].pc = "wait"
  /\ ~Alive(cmd[c].run)
  /\ Go(c, "collect")
  /\ UNCHANGED <<ensureVars, workDir, metaFile, lastResult, client, session, history>>

\* ... or is killed after the timeout, or survives that; no result is saved.
RunTimesOut(c) ==
  /\ cmd[c].op = "run" /\ cmd[c].pc = "wait"
  /\ Alive(cmd[c].run)
  /\ \/ Exit(cmd[c].run) /\ UNCHANGED lost
     \/ lost' = lost \cup {cmd[c].run} /\ UNCHANGED client
  /\ Done(c)
  /\ UNCHANGED <<ensureVars, workDir, metaFile, lastResult, session, mixed>>

-----------------------------------------------------------------------------
(* wait_tests                                                                 *)

BeginWait(c) ==
  /\ cmd[c].pc = "idle"
  /\ metaFile # Null
  /\ cmd' = [cmd EXCEPT ![c] = [Idle EXCEPT !.op = "wait", !.run = metaFile, !.pc = "wait"]]
  /\ mixed' = mixed \cup Sharing(metaFile)
  /\ UNCHANGED <<ensureVars, workDir, metaFile, lastResult, client, session, lost>>

\* The debugger is left alone.
WaitTimesOut(c) ==
  /\ cmd[c].op = "wait" /\ cmd[c].pc = "wait"
  /\ Alive(cmd[c].run)
  /\ Done(c)
  /\ UNCHANGED <<ensureVars, workDir, metaFile, lastResult, client, session, history>>

\* Mutant for TeardownSparesLive: the timeout goes on to the teardown.
WaitExits_Anyway(c) ==
  /\ cmd[c].op = "wait" /\ cmd[c].pc = "wait"
  /\ Go(c, "teardown")
  /\ UNCHANGED <<ensureVars, workDir, metaFile, lastResult, client, session, history>>

WaitExits(c) ==
  /\ cmd[c].op = "wait" /\ cmd[c].pc = "wait"
  /\ ~Alive(cmd[c].run)
  /\ Go(c, "teardown")
  /\ UNCHANGED <<ensureVars, workDir, metaFile, lastResult, client, session, history>>

\* Mutant for ReportIsKept: the teardown clears the directory before the report is read.
Teardown_Cleans(c) ==
  /\ cmd[c].pc = "teardown"
  /\ session' \in {session, FALSE}
  /\ junit' = Null
  /\ Go(c, "collect")
  /\ UNCHANGED <<ensureVars, cfg, metaFile, lastResult, client, history>>

\* _teardown_debug_after_test, which may only warn.
Teardown(c) ==
  /\ cmd[c].pc = "teardown"
  /\ session' \in {session, FALSE}
  /\ Go(c, "collect")
  /\ UNCHANGED <<ensureVars, workDir, metaFile, lastResult, client, history>>

-----------------------------------------------------------------------------
(* Both: collect_unit_tests_result, clear_run_meta for wait, save_last_result *)

Collect(c) ==
  /\ cmd[c].pc = "collect"
  /\ junit # Null
  /\ cmd' = [cmd EXCEPT ![c].report = junit,
                        ![c].pc = IF cmd[c].op = "wait" THEN "clear" ELSE "save"]
  /\ UNCHANGED <<ensureVars, workDir, metaFile, lastResult, client, session, history>>

\* No report, or one that is not whole.
CollectFails(c) ==
  /\ cmd[c].pc = "collect"
  /\ junit = Null
  /\ metaFile' = IF cmd[c].op = "wait" THEN Null ELSE metaFile
  /\ Done(c)
  /\ UNCHANGED <<ensureVars, workDir, lastResult, client, session, history>>

ClearMeta(c) ==
  /\ cmd[c].pc = "clear"
  /\ metaFile' = Null
  /\ Go(c, "save")
  /\ UNCHANGED <<ensureVars, workDir, lastResult, client, session, history>>

\* Mutant for TypeOK: the report alone is saved.
SaveResult_Report(c) ==
  /\ cmd[c].pc = "save"
  /\ lastResult' = cmd[c].report
  /\ Done(c)
  /\ UNCHANGED <<ensureVars, workDir, metaFile, client, session, history>>

SaveResult(c) ==
  /\ cmd[c].pc = "save"
  /\ lastResult' = [run |-> cmd[c].run, report |-> cmd[c].report]
  /\ Done(c)
  /\ UNCHANGED <<ensureVars, workDir, metaFile, client, session, history>>

Killed(c) ==
  /\ cmd[c].pc # "idle"
  /\ Done(c)
  /\ ensure' = [ensure EXCEPT ![c] = NoEnsure(@.ib)]
  /\ lost' = lost \cup {r \in Runs : r = cmd[c].run /\ Alive(r) /\ metaFile # r}
  /\ UNCHANGED <<cache, ib, runnerState, workDir, metaFile, lastResult, client, session, mixed>>

-----------------------------------------------------------------------------
Machine ==
  \/ Around /\ UNCHANGED testVars
  \/ DebugCommand
  \/ \E r \in Runs : ClientReadsConfig(r) \/ ClientReports(r) \/ ClientExits(r)

Command(c) ==
  \/ BeginRun(c) \/ EnsureRunner(c) \/ EnsuredRunner(c) \/ BootDebug(c) \/ ResetDebug(c)
  \/ PrepareWorkDir(c) \/ WriteConfig(c) \/ Spawn(c) \/ ArmTargets(c) \/ SaveMeta(c)
  \/ RunExits(c) \/ RunTimesOut(c)
  \/ BeginWait(c) \/ WaitTimesOut(c) \/ WaitExits(c) \/ Teardown(c)
  \/ Collect(c) \/ CollectFails(c) \/ ClearMeta(c) \/ SaveResult(c) \/ Killed(c)

Next == Machine \/ \E c \in Clis : Command(c)

Spec == Init /\ [][Next]_vars

-----------------------------------------------------------------------------
Clients == [state : {"unused", "starting", "running", "reported", "complete", "dead"},
            tests : Runs \cup {Null}]

Commands == [op : {"none", "run", "debug", "wait"},
             pc : {"idle", "ensure", "boot", "reset", "prepare", "config", "spawn", "arm",
                   "meta", "wait", "teardown", "collect", "clear", "save"},
             run : Runs \cup {Null}, report : Reports \cup {Null}]

TypeOK ==
  /\ EnsureTypeOK
  /\ cfg \in Runs \cup {Null}
  /\ junit \in Reports \cup {Null}
  /\ metaFile \in Runs \cup {Null}
  /\ lastResult \in [run : Runs, report : Reports] \cup {Null}
  /\ client \in [Runs -> Clients]
  /\ session \in BOOLEAN
  /\ cmd \in [Clis -> Commands]
  /\ mixed \in SUBSET Runs /\ lost \in SUBSET Runs

\* The last result was made from the report that its own client wrote about its own
\* tests, never from what an earlier run left behind, unless the run had to share the
\* directory.
ResultIsOwn ==
  lastResult # Null =>
    LET r == lastResult.run
    IN  r \in mixed \/ lastResult.report = [by |-> r, tests |-> r]

\* When no command runs, a client that lives is the one a wait would wait for, unless
\* its run shared the directory, was killed or could not kill its client.
ClientIsKnown ==
  Quiet => \A r \in Runs : Alive(r) => metaFile = r \/ r \in mixed \cup lost

\* ADR-031: a wait that times out leaves the debugger alone; it takes the debugger down
\* only when no client is left that may stand at a breakpoint, those apart that shared the
\* directory with the run it waited for.
TeardownSparesLive ==
  [][\A c \in Clis : Teardown(c) /\ session' # session =>
       \A r \in Runs : Alive(r) => r \in mixed]_vars

\* A run says that there is no report only when its client has not written one.
ReportIsKept ==
  [][\A c \in Clis : CollectFails(c) =>
       client[cmd[c].run].state # "complete" \/ cmd[c].run \in mixed]_vars
=============================================================================
