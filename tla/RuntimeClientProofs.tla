------------------------- MODULE RuntimeClientProofs -------------------------
(***************************************************************************)
(* What RuntimeClient promises, for any number of terminals and clients:    *)
(* typing, that a living client is known, and the truth of what start and   *)
(* stop report.                                                             *)
(***************************************************************************)
EXTENDS RuntimeClient, TLAPS

Busy(c) == cmd[c].pc # "idle"
Sole(c) == \A d \in Clis \ {c} : ~Busy(d)

NoneLives == \A p \in Procs : ~Alive(p)
OnlyOwn(c) == \A p \in Procs : Alive(p) => p = cmd[c].pid

\* What an undisturbed command knows of the clients at each of its steps.
ClientStage(c) ==
  /\ cmd[c].pc \in {"server", "attach", "breakpoints", "snapshot", "kill"} => Known
  /\ cmd[c].pc \in {"infobase", "prepare", "spawn", "teardown", "detach", "stop_server"} => NoneLives
  /\ cmd[c].pc = "kill" => cmd[c].pid = pidFile
  /\ cmd[c].pc \in {"clear", "settle", "pid", "meta", "await"} => OnlyOwn(c)
  /\ cmd[c].pc \in {"settle", "pid", "meta", "await"} =>
       cmd[c].pid \in Procs /\ client[cmd[c].pid] = cmd[c].wants
  /\ cmd[c].pc \in {"meta", "await"} => pidFile = cmd[c].pid
  /\ cmd[c].pc = "await" => metaFile = cmd[c].wants

\* What a stop has taken down so far, unless it is spoiled.
TeardownStage(c) ==
  /\ cmd[c].pc \in {"kill", "clear", "teardown", "detach", "stop_server"} => cmd[c].op = "stop"
  /\ cmd[c].pc = "detach" => cmd[c].spoiled \/ "ping" \notin up
  /\ cmd[c].pc = "stop_server" => cmd[c].spoiled \/ up \subseteq {"server"}

Stage(c) == ClientStage(c) /\ TeardownStage(c)

Calm == /\ Quiet => Known
        /\ \A c \in Clis : Busy(c) => Sole(c) /\ Stage(c)

IInv == TypeOK /\ (~disturbed => Calm)

-----------------------------------------------------------------------------
\* The initial states: nothing runs and nothing is recorded.
LEMMA IInvInit == Init => IInv
<1> SUFFICES ASSUME Init
             PROVE  IInv
  OBVIOUS
<1>1. DefaultClient \in Clients /\ Idle \in CommandType
  BY DEF DefaultClient, Clients, Idle, CommandType, Locations
<1>2. TypeOK
  BY <1>1 DEF Init, TypeOK, States, Parts
<1>3. Calm
  BY DEF Init, Calm, Quiet, Known, Busy, Idle, Alive
<1> QED BY <1>2, <1>3 DEF IInv

\* Typing, for every step of the machine and of a command.
LEMMA TypingStep == TypeOK /\ [Next]_vars => TypeOK'
<1> SUFFICES ASSUME TypeOK, [Next]_vars
             PROVE  TypeOK'
  OBVIOUS
<1>0. DefaultClient \in Clients /\ Idle \in CommandType
  BY DEF DefaultClient, Clients, Idle, CommandType, Locations
<1> USE <1>0 DEF TypeOK, files, procs, Go, Done, States, Alive, Exit, clear_state
<1>1. CASE DebugCommand
  <2>1. up' \in SUBSET Parts
    BY <1>1 DEF DebugCommand, Parts
  <2>2. cmd' \in [Clis -> CommandType]
    BY <1>1, ZenonT(40) DEF DebugCommand, CommandType, Locations
  <2> QED BY <1>1, <2>1, <2>2 DEF DebugCommand
<1>2. ASSUME NEW p \in Procs, Close(p)
      PROVE  TypeOK'
  BY <1>2 DEF Close
<1>3. ASSUME NEW c \in Clis, Command(c)
      PROVE  TypeOK'
  <2>1. ASSUME NEW op \in {"start", "stop", "status"}, NEW wants \in Clients,
               NEW pc \in Locations, Begin(c, op, wants, pc)
        PROVE  TypeOK'
    <3>1. disturbed' \in BOOLEAN
      BY <2>1, Zenon DEF Begin
    <3>2. UNCHANGED <<pidFile, metaFile, proc, client, up>>
      BY <2>1 DEF Begin
    <3>3. cmd' \in [Clis -> CommandType]
      BY <2>1 DEF Begin, Idle, CommandType
    <3> QED BY <3>1, <3>2, <3>3
  <2>2. CASE BeginStart(c)
    BY <2>1, <2>2 DEF BeginStart, Locations
  <2>3. CASE BeginStop(c) \/ BeginStatus(c)
    BY <2>1, <2>3 DEF BeginStop, BeginStatus, Locations
  <2> USE DEF CommandType, Locations
  <2>4. CASE EnsureServer(c) \/ EnsureAttached(c) \/ EnsureBreakpoints(c)
    BY <2>4 DEF EnsureServer, EnsureAttached, EnsureBreakpoints, Parts
  <2>5. CASE AlreadyRunning(c) \/ OtherRunning(c) \/ StatusRunning(c) \/ StopFinds(c)
    BY <2>5 DEF AlreadyRunning, OtherRunning, StatusRunning, StopFinds
  <2>6. CASE NotRunning(c)
    BY <2>6 DEF NotRunning
  <2>7. CASE FindInfobase(c) \/ Prepare(c)
    BY <2>7 DEF FindInfobase, Prepare, Parts
  <2>8. CASE Spawn(c)
    <3>1. PICK p \in Procs : /\ proc' = [proc EXCEPT ![p] = "alive"]
                             /\ client' = [client EXCEPT ![p] = cmd[c].wants]
                             /\ cmd' = [cmd EXCEPT ![c].pc = "settle", ![c].pid = p]
      BY <2>8 DEF Spawn
    <3>2. proc' \in [Procs -> States] /\ client' \in [Procs -> Clients]
      BY <3>1
    <3>3. cmd' \in [Clis -> CommandType]
      BY <3>1, ZenonT(40)
    <3> QED BY <2>8, <3>2, <3>3 DEF Spawn
  <2>9. CASE SpawnFails(c) \/ Settle(c) \/ WritePid(c)
    BY <2>9 DEF SpawnFails, Settle, WritePid
  <2>10. CASE WriteMeta(c)
    BY <2>10 DEF WriteMeta
  <2>11. CASE StartOk(c) \/ StartLosesSession(c)
    <3>1. up' \in SUBSET Parts
      BY <2>11 DEF StartOk, StartLosesSession, Parts
    <3>2. cmd' \in [Clis -> CommandType]
      BY <2>11 DEF StartOk, StartLosesSession
    <3> QED BY <2>11, <3>1, <3>2 DEF StartOk, StartLosesSession
  <2>12. CASE Kill(c)
    <3>1. proc' \in [Procs -> States] /\ client' = client
      BY <2>12 DEF Kill
    <3>2. cmd' \in [Clis -> CommandType]
      BY <2>12 DEF Kill
    <3> QED BY <2>12, <3>1, <3>2 DEF Kill
  <2>15. CASE StopClears(c)
    BY <2>15 DEF StopClears
  <2>16. CASE StopFails(c)
    BY <2>16 DEF StopFails
  <2>13. CASE NothingToTearDown(c) \/ TearDownPing(c) \/ TearDownSession(c) \/ TearDownServer(c)
    BY <2>13 DEF NothingToTearDown, TearDownPing, TearDownSession, TearDownServer, TakeDown, Parts
  <2>14. CASE Crash(c)
    BY <2>14 DEF Crash
  <2> HIDE DEF TypeOK
  <2> QED BY <1>3, <2>2, <2>3, <2>4, <2>5, <2>6, <2>7, <2>8, <2>9, <2>10, <2>11, <2>12, <2>13,
             <2>14, <2>15, <2>16, Zenon DEF Command, Start, StopOrStatus
<1>4. CASE UNCHANGED vars
  BY <1>4 DEF vars
<1> HIDE DEF TypeOK
<1> QED BY <1>1, <1>2, <1>3, <1>4, Zenon DEF Next, Machine

\* The machine only takes clients away, and a debug command spoils a stop.
LEMMA MachineKeepsCalm == TypeOK /\ Calm /\ Machine => Calm'
<1> SUFFICES ASSUME TypeOK, Calm, Machine
             PROVE  Calm'
  OBVIOUS
<1>1. UNCHANGED <<pidFile, metaFile, client>>
  BY DEF Machine, DebugCommand, Close, Exit, files, procs
<1>2. \A p \in Procs : Alive(p)' => Alive(p)
  BY DEF Machine, DebugCommand, Close, Exit, procs, Alive, TypeOK, States
<1>3. \A c \in Clis : /\ cmd'[c].pc = cmd[c].pc /\ cmd'[c].pid = cmd[c].pid
                      /\ cmd'[c].wants = cmd[c].wants /\ cmd'[c].op = cmd[c].op
  BY DEF Machine, DebugCommand, Close, TypeOK, CommandType
<1>4. (Quiet => Known) /\ (Quiet' => Known')
  BY <1>1, <1>2, <1>3 DEF Calm, Quiet, Known
<1>5. ASSUME NEW c \in Clis, Busy(c)'
      PROVE  Sole(c)' /\ Stage(c)'
  <2>1. Busy(c) /\ Sole(c) /\ Sole(c)' /\ ClientStage(c) /\ TeardownStage(c)
    BY <1>3, <1>5 DEF Busy, Sole, Calm, Stage
  <2>2. ClientStage(c)'
    BY <1>1, <1>2, <1>3, <2>1 DEF ClientStage, Known, NoneLives, OnlyOwn
  <2>3. (cmd'[c] = cmd[c] /\ up' = up) \/ (cmd[c].op = "stop" => cmd'[c].spoiled)
    BY DEF Machine, DebugCommand, Close, TypeOK, CommandType
  <2>4. TeardownStage(c)'
    BY <1>3, <2>1, <2>3 DEF TeardownStage
  <2> QED BY <2>1, <2>2, <2>4 DEF Stage
<1> QED BY <1>4, <1>5 DEF Calm

\* A step of the one command that runs, once its part of Calm is shown.
LEMMA SoleStep ==
  ASSUME NEW c \in Clis, Sole(c), \A d \in Clis \ {c} : cmd'[d] = cmd[d],
         IF Busy(c)' THEN Stage(c)' ELSE Known'
  PROVE  Calm'
  BY DEF Calm, Quiet, Busy, Sole

\* One step per action of a command that nothing disturbs.
LEMMA CommandKeepsCalm ==
  ASSUME NEW c \in Clis, TypeOK, TypeOK', Calm, Command(c), Busy(c), ~disturbed'
  PROVE  Calm'
<1> USE DEF files, procs, Go, Done, Idle, Busy, TypeOK, CommandType
<1>1. Sole(c) /\ Stage(c)
  BY DEF Calm
<1>2. ~BeginStart(c) /\ ~BeginStop(c) /\ ~BeginStatus(c) /\ ~Crash(c) /\ ~StopFails(c)
  BY DEF BeginStart, BeginStop, BeginStatus, Begin, Crash, StopFails
<1> USE DEF Stage, ClientStage, TeardownStage, Known, NoneLives, OnlyOwn, Alive
<1>3. ASSUME \A d \in Clis \ {c} : cmd'[d] = cmd[d],
             IF Busy(c)' THEN Stage(c)' ELSE Known'
      PROVE  Calm'
  BY <1>1, <1>3, SoleStep
<1>4. CASE EnsureServer(c) \/ EnsureAttached(c) \/ EnsureBreakpoints(c)
  BY <1>1, <1>3, <1>4 DEF EnsureServer, EnsureAttached, EnsureBreakpoints
<1>5. CASE AlreadyRunning(c) \/ OtherRunning(c) \/ StatusRunning(c)
  BY <1>1, <1>3, <1>5 DEF AlreadyRunning, OtherRunning, StatusRunning
<1>6. CASE StopFinds(c)
  BY <1>1, <1>3, <1>6 DEF StopFinds
<1>7. CASE NotRunning(c)
  BY <1>1, <1>3, <1>7 DEF NotRunning, clear_state
<1>8. CASE FindInfobase(c) \/ Prepare(c)
  BY <1>1, <1>3, <1>8 DEF FindInfobase, Prepare
<1>9. CASE Spawn(c)
  BY <1>1, <1>3, <1>9 DEF Spawn
<1>10. CASE SpawnFails(c) \/ Settle(c)
  BY <1>1, <1>3, <1>10 DEF SpawnFails, Settle, clear_state
<1>11. CASE WritePid(c) \/ WriteMeta(c)
  BY <1>1, <1>3, <1>11 DEF WritePid, WriteMeta
<1>12. CASE StartOk(c) \/ StartLosesSession(c)
  BY <1>1, <1>3, <1>12 DEF StartOk, StartLosesSession
<1>13. CASE Kill(c)
  BY <1>1, <1>3, <1>13 DEF Kill, Exit, States
<1>14. CASE StopClears(c)
  BY <1>1, <1>3, <1>14 DEF StopClears, clear_state
<1>15. CASE NothingToTearDown(c)
  BY <1>1, <1>3, <1>15 DEF NothingToTearDown
<1>16. CASE TearDownPing(c)
  BY <1>1, <1>3, <1>16 DEF TearDownPing, TakeDown
<1>17. CASE TearDownSession(c)
  BY <1>1, <1>3, <1>17 DEF TearDownSession, Parts
<1>18. CASE TearDownServer(c)
  BY <1>1, <1>3, <1>18 DEF TearDownServer
<1> QED BY <1>2, <1>4, <1>5, <1>6, <1>7, <1>8, <1>9, <1>10, <1>11, <1>12, <1>13, <1>14, <1>15,
           <1>16, <1>17, <1>18, Zenon DEF Command, Start, StopOrStatus

LEMMA IInvStep == IInv /\ [Next]_vars => IInv'
<1> SUFFICES ASSUME IInv, [Next]_vars
             PROVE  IInv'
  OBVIOUS
<1>1. TypeOK'
  BY TypingStep DEF IInv
<1>2. ASSUME ~disturbed'
      PROVE  Calm'
  <2>1. CASE Machine
    <3>1. ~disturbed
      BY <1>2, <2>1 DEF Machine, DebugCommand, Close
    <3> QED BY <2>1, <3>1, MachineKeepsCalm DEF IInv
  <2>2. ASSUME NEW c \in Clis, NEW op, NEW wants, NEW pc, Begin(c, op, wants, pc),
               pc \in {"server", "snapshot"}
        PROVE  Calm'
    <3>1. Quiet /\ Known
      BY <1>2, <2>2, Zenon DEF Begin
    <3>2. Known'
      BY <2>2, <3>1 DEF Begin, Known, files, procs, Alive
    <3>3. cmd'[c].pc = pc /\ \A d \in Clis \ {c} : cmd'[d] = cmd[d]
      BY <2>2 DEF Begin, Idle, IInv, TypeOK
    <3>4. Stage(c)' /\ Busy(c)'
      BY <2>2, <3>2, <3>3 DEF Stage, ClientStage, TeardownStage, Busy
    <3> QED BY <3>1, <3>3, <3>4, SoleStep DEF Quiet, Busy, Sole
  <2>3. ASSUME NEW c \in Clis, Command(c)
        PROVE  Calm'
    <3>1. CASE BeginStart(c)
      BY <2>2, <3>1 DEF BeginStart
    <3>2. CASE BeginStop(c) \/ BeginStatus(c)
      BY <2>2, <3>2 DEF BeginStop, BeginStatus
    <3>3. CASE ~BeginStart(c) /\ ~BeginStop(c) /\ ~BeginStatus(c)
      <4>1. Busy(c) /\ (disturbed => disturbed')
        BY <2>3, <3>3 DEF Command, Start, StopOrStatus, Busy, EnsureServer, EnsureAttached,
           EnsureBreakpoints, AlreadyRunning, OtherRunning, FindInfobase, Prepare, Spawn,
           SpawnFails, Settle, WritePid, WriteMeta, StartOk, StartLosesSession, StopFinds, Kill,
           StopClears, StopFails, NothingToTearDown, TearDownPing, TearDownSession,
           TearDownServer, StatusRunning, NotRunning, Crash
      <4> QED BY <1>1, <1>2, <2>3, <4>1, CommandKeepsCalm DEF IInv
    <3> QED BY <3>1, <3>2, <3>3
  <2>4. CASE UNCHANGED vars
    BY <1>2, <2>4 DEF vars, IInv, Calm, Quiet, Known, Busy, Sole, Stage, ClientStage,
       TeardownStage, NoneLives, OnlyOwn, Alive
  <2> QED BY <2>1, <2>3, <2>4 DEF Next
<1> QED BY <1>1, <1>2 DEF IInv

\* IInv is an invariant of the specification.
THEOREM Inductive == Spec => []IInv
  BY IInvInit, IInvStep, PTL DEF Spec

\* Type correctness of the client's files, processes and commands.
THEOREM TypeCorrect == Spec => []TypeOK
  BY Inductive, PTL DEF IInv

\* Undisturbed commands leave no client behind that client.pid does not name, and
\* client.meta.json says what it was started as.
THEOREM ClientKnownHolds == Spec => []ClientKnown
<1>1. IInv => ClientKnown
  BY DEF IInv, ClientKnown, Calm
<1> QED BY <1>1, Inductive, PTL

\* An undisturbed runtime start that reports success leaves a client of the kind
\* asked for on record.
THEOREM StartIsTrueHolds == Spec => StartIsTrue
<1>1. IInv /\ [Next]_vars =>
        [\A c \in Clis :
           /\ AlreadyRunning(c) => disturbed \/ client[pidFile].kind = cmd[c].wants.kind
           /\ StartOk(c) =>
                disturbed \/ (pidFile = cmd[c].pid /\ metaFile = client[pidFile]
                                /\ client[pidFile] = cmd[c].wants)]_vars
  <2> SUFFICES ASSUME IInv, NEW c \in Clis, ~disturbed
               PROVE  /\ AlreadyRunning(c) => client[pidFile].kind = cmd[c].wants.kind
                      /\ StartOk(c) => pidFile = cmd[c].pid /\ metaFile = client[pidFile]
                                         /\ client[pidFile] = cmd[c].wants
    OBVIOUS
  <2>1. ASSUME AlreadyRunning(c)
        PROVE  client[pidFile].kind = cmd[c].wants.kind
    BY <2>1, NullIsNoMeta DEF AlreadyRunning, IInv, TypeOK, Calm, Busy, Stage, ClientStage, Known, Alive, Meta
  <2>2. ASSUME StartOk(c)
        PROVE  pidFile = cmd[c].pid /\ metaFile = client[pidFile] /\ client[pidFile] = cmd[c].wants
    BY <2>2 DEF StartOk, IInv, Calm, Busy, Stage, ClientStage
  <2> QED BY <2>1, <2>2
<1> QED BY <1>1, Inductive, PTL DEF Spec, StartIsTrue

\* An undisturbed runtime stop that reports success without a warning leaves no
\* client and no debug state.
THEOREM StopStopsAllHolds == Spec => StopStopsAll
<1>1. IInv /\ [Next]_vars =>
        [\A c \in Clis :
           NothingToTearDown(c) \/ (TearDownServer(c) /\ "server" \notin up') =>
             \/ disturbed \/ cmd[c].spoiled
             \/ up' = {} /\ \A p \in Procs : ~Alive(p)]_vars
  <2> SUFFICES ASSUME IInv, NEW c \in Clis, ~disturbed, ~cmd[c].spoiled,
                      NothingToTearDown(c) \/ (TearDownServer(c) /\ "server" \notin up')
               PROVE  up' = {} /\ NoneLives
    BY DEF NoneLives
  <2>1. NoneLives
    BY DEF NothingToTearDown, TearDownServer, IInv, Calm, Busy, Stage, ClientStage
  <2>2. CASE NothingToTearDown(c)
    BY <2>1, <2>2 DEF NothingToTearDown
  <2>3. CASE TearDownServer(c) /\ "server" \notin up'
    <3>1. up \subseteq {"server"}
      BY <2>3 DEF TearDownServer, IInv, Calm, Busy, Stage, TeardownStage
    <3> QED BY <2>1, <2>3, <3>1 DEF TearDownServer
  <2> QED BY <2>2, <2>3
<1> QED BY <1>1, Inductive, PTL DEF Spec, StopStopsAll
=============================================================================
