------------------------- MODULE DebugSessionProofs -------------------------
(***************************************************************************)
(* Proofs about DebugSession: its type invariant for any number of          *)
(* terminals and, for one terminal, that events have one reader, that no    *)
(* stop is lost unseen and that a step answers with a new stop.             *)
(***************************************************************************)
EXTENDS DebugSession, WellFoundedInduction, TLAPS

-----------------------------------------------------------------------------
(* The inductive invariant. *)

WaitOps == {"wait", "wait_fresh", "step", "step_no_wait", "pause"}
RestoreOps == WaitOps \cup {"bp_set", "bp_clear", "targets"}

Up(d) == thread[d]["main"].pc \in MainPcs

\* What a daemon has in hand at each place of its program.
DaemonStage(d) ==
  /\ thread[d]["main"].pc \in {"off", "boot"} \cup MainPcs
  /\ Up(d) => sid[d] \in SidSet /\ sid[d] # Null /\ mem[d] \in Mems
  /\ thread[d]["scan"].pc # "off" => Up(d)
  /\ thread[d]["main"].pc \notin {"attach", "post", "save"} => body[d] = <<>>
  /\ \A x \in Threads : thread[d][x].pc \in {"post", "save"} => thread[d][x].tid \in Targets

\* A command past restore holds a session, one past EnsurePing a session id.
Holding(k) == \/ k.pc \in MemPcs
              \/ k.pc \in {"ensure", "spawn"} /\ k.op \in WaitOps

CommandStage(k) ==
  /\ Holding(k) => k.mem \in Mems
  /\ k.pc = "spawn" => k.sessionId \in SidSet
  /\ k.pc = "restore" => k.op \in RestoreOps
  /\ k.pc = "fresh" => k.op \in WaitOps
  /\ k.pc \in {"attach", "write"} => k.op = "attach"
  /\ k.pc = "prepare" => k.op = "prepare"
  /\ k.pc \in {"ensure", "spawn"} => k.op \in WaitOps \cup {"attach", "prepare"}
  /\ k.pc = "clear" => k.op \in {"step", "pause"}
  /\ k.pc \in {"targets", "arm"} => k.op # "step"

Shape == /\ TypeOK
         /\ \A d \in Daemons : DaemonStage(d)
         /\ \A c \in Clis : CommandStage(cmd[c])

\* What holds while a single terminal is used.
OneTerminal == \A a, b \in Clis : a = b

Reader ==
  /\ \A d \in Daemons : Alive(d) => pingPid # Null /\ pingPid.daemon = d
  /\ \A c \in Clis : cmd[c].pc = "spawn" => \A d \in Daemons : ~Alive(d)

Used == {Sids[i] : i \in 1..spawned}

\* Only ids that attach has drawn are about.
IdsUsed ==
  /\ ui \in Used \cup {Null}
  /\ file # Null => file.sessionId \in Used
  /\ \A d \in Daemons : sid[d] \in Used \cup {Null}
  /\ \A c \in Clis : cmd[c].mem # Null => cmd[c].mem.session_id \in Used

\* A command works on the session on disk; attach has a session nobody knows yet.
Sessions(c) ==
  /\ Holding(cmd[c]) /\ cmd[c].pc # "write" =>
       file # Null /\ file.sessionId = cmd[c].mem.session_id
  /\ cmd[c].pc = "write" =>
       LET new == cmd[c].mem.session_id
       IN /\ file # Null => file.sessionId # new
          /\ \A d \in Daemons : sid[d] # new
          /\ ui = new => armed = {} /\ \A t \in Targets : status[t] # "stopped"

\* The stops that wait for a daemon, in dbgs or in the body in hand, ...
Coming == Hits(events) \cup UNION {Hits(body[d]) : d \in Daemons}
\* ... and those that were written down: on disk, or held by a command.
Known == DroppedStop \cup {cmd[c].pinned : c \in Clis}
         \cup {HitOf(cmd[c].mem.last_stop) : c \in {b \in Clis : cmd[b].mem # Null}}

\* A stop that nobody dropped is on disk or on its way to it.
Visible ==
  file # Null /\ ui = file.sessionId =>
    \A t \in Targets : status[t] = "stopped" => stopOf[t] \in missed \cup Coming \cup DroppedStop

\* Stops are written down in the order in which they happen.
Ordered ==
  /\ Coming \subseteq 1..stops /\ \A m \in Known : m <= stops
  /\ \A m \in Known, n \in Coming : m < n
  /\ \A d \in Daemons : \A m \in Hits(body[d]), n \in Hits(events) : m < n

\* A step past its clear finds no stop on disk that is not new.
Fresh(c) ==
  cmd[c].op = "step" =>
    /\ cmd[c].pc \in {"post", "poll"} => \A n \in DroppedStop : cmd[c].pinned < n
    /\ cmd[c].pc = "persist" =>
         cmd[c].mem.last_stop # Null /\ cmd[c].pinned < cmd[c].mem.last_stop.hit

Alone == /\ Reader
         /\ IdsUsed
         /\ \A c \in Clis : Sessions(c)

IInv == /\ Shape /\ Alone /\ Visible /\ Ordered
        /\ \A c \in Clis : Fresh(c)

-----------------------------------------------------------------------------
(* What the functions on session.json return. *)

\* A persisted record belongs to the session of the command; a stop that is on disk
\* for that session is kept, unless the command clears it.
LEMMA PersistRuntime ==
  ASSUME NEW f \in Records \cup {Null}, NEW m \in Mems, NEW clear \in BOOLEAN
  PROVE  LET g == persist_session_runtime(f, m, clear)
         IN /\ g \in Records /\ g # Null
            /\ g.sessionId = m.session_id
            /\ clear => g.lastStop = Null
            /\ ~clear /\ f # Null /\ f.sessionId = m.session_id /\ f.lastStop # Null =>
                 g.lastStop = f.lastStop
            /\ g.lastStop # Null =>
                 \/ f # Null /\ g.lastStop = f.lastStop
                 \/ g.lastStop = m.last_stop
<1> DEFINE g == persist_session_runtime(f, m, clear)
<1>1. g \in Records
  BY DEF persist_session_runtime, persist_args, write_session, FreshRecord, Records, Mems, Stops
<1>2. g # Null
  BY <1>1, NullIsNoValue
<1>3. g.sessionId = m.session_id
  BY DEF persist_session_runtime, persist_args, write_session
<1>4. clear => g.lastStop = Null
  BY DEF persist_session_runtime, persist_args, write_session
<1>5. ~clear /\ f # Null /\ f.sessionId = m.session_id /\ f.lastStop # Null => g.lastStop = f.lastStop
  BY DEF persist_session_runtime, persist_args, write_session
<1>6. g.lastStop # Null => \/ f # Null /\ g.lastStop = f.lastStop
                          \/ g.lastStop = m.last_stop
  BY DEF persist_session_runtime, persist_args, write_session, FreshRecord
<1> QED BY <1>1, <1>2, <1>3, <1>4, <1>5, <1>6

\* The first record of a session has no stop; a record of the same id is kept.
LEMMA AttachWrites ==
  ASSUME NEW f \in Records \cup {Null}, NEW s \in SidSet
  PROVE  LET g == write_session(f, attach_args(s))
         IN /\ g \in Records /\ g # Null
            /\ g.sessionId = s
            /\ (f # Null => f.sessionId # s) => g.lastStop = Null
<1> DEFINE g == write_session(f, attach_args(s))
<1>1. g \in Records
  BY DEF attach_args, write_session, FreshRecord, Records, Stops
<1>2. g # Null
  BY <1>1, NullIsNoValue
<1>3. g.sessionId = s
  BY DEF attach_args, write_session
<1>4. (f # Null => f.sessionId # s) => g.lastStop = Null
  BY DEF attach_args, write_session, FreshRecord
<1> QED BY <1>1, <1>2, <1>3, <1>4

\* persist_targets changes neither the session nor the stop of the record.
LEMMA TargetsWritten ==
  ASSUME NEW f \in Records \cup {Null}, NEW s, NEW T \in SUBSET Targets
  PROVE  LET g == persist_targets(f, s, T)
         IN /\ g \in Records \cup {Null}
            /\ f = Null => g = Null
            /\ f # Null => g # Null /\ g.sessionId = f.sessionId /\ g.lastStop = f.lastStop
<1>1. CASE f = Null
  BY <1>1 DEF persist_targets, update_session
<1>2. CASE f # Null
  <2> DEFINE g == persist_targets(f, s, T)
  <2>1. g = IF f.sessionId # s THEN f ELSE [f EXCEPT !.attachedTargets = T]
    BY <1>2 DEF persist_targets, update_session
  <2>2. f \in Records
    BY <1>2
  <2>3. g \in Records /\ g.sessionId = f.sessionId /\ g.lastStop = f.lastStop
    BY <2>1, <2>2 DEF Records
  <2> QED BY <2>3, <1>2, NullIsNoValue
<1> QED BY <1>1, <1>2

\* persist_stop writes the stop into whatever record there is.
LEMMA StopPersisted ==
  ASSUME NEW f \in Records \cup {Null}, NEW stop \in Stops
  PROVE  LET g == persist_stop(f, stop)
         IN /\ g \in Records \cup {Null}
            /\ f = Null => g = Null
            /\ f # Null => g # Null /\ g.sessionId = f.sessionId /\ g.lastStop = stop
<1>1. CASE f = Null
  BY <1>1 DEF persist_stop, update_session
<1>2. CASE f # Null
  <2> DEFINE g == persist_stop(f, stop)
  <2>1. g = [f EXCEPT !.lastStop = stop, !.lastTargetId = stop.tid,
                      !.attachedTargets = @ \cup {stop.tid}]
    BY <1>2 DEF persist_stop, update_session
  <2>2. f \in Records
    BY <1>2
  <2>3. g \in Records /\ g.sessionId = f.sessionId /\ g.lastStop = stop
    BY <2>1, <2>2 DEF Records, Stops
  <2> QED BY <2>3, <1>2, NullIsNoValue
<1> QED BY <1>1, <1>2

\* The reset before a client is started keeps the session and drops the stop.
LEMMA RuntimeReset ==
  ASSUME NEW f \in Records \cup {Null}
  PROVE  LET g == reset_session_runtime(f)
         IN /\ g \in Records \cup {Null}
            /\ f = Null => g = Null
            /\ f # Null => g # Null /\ g.sessionId = f.sessionId /\ g.lastStop = Null
<1>1. CASE f = Null
  BY <1>1 DEF reset_session_runtime, update_session
<1>2. CASE f # Null
  <2> DEFINE g == reset_session_runtime(f)
  <2>1. g = [f EXCEPT !.lastStop = Null, !.attachedTargets = {}, !.lastTargetId = Null]
    BY <1>2 DEF reset_session_runtime, update_session
  <2>2. f \in Records
    BY <1>2
  <2>3. g \in Records /\ g.sessionId = f.sessionId /\ g.lastStop = Null
    BY <2>1, <2>2 DEF Records
  <2> QED BY <2>3, <1>2, NullIsNoValue
<1> QED BY <1>1, <1>2

\* What a command takes from session.json: the stop on disk, if there is one.
LEMMA RuntimeApplied ==
  ASSUME NEW m \in Mems, NEW f \in Records
  PROVE  LET n == apply_stored_runtime(m, f)
         IN /\ n \in Mems /\ n # Null
            /\ n.session_id = m.session_id
            /\ n.last_stop = IF f.lastStop = Null THEN m.last_stop ELSE f.lastStop
<1> DEFINE n == apply_stored_runtime(m, f)
<1>1. n \in Mems
  BY DEF apply_stored_runtime, Mems, Records, Stops
<1>2. n # Null
  BY <1>1, NullIsNoValue
<1>3. n.session_id = m.session_id
  BY DEF apply_stored_runtime, Mems
<1>4. n.last_stop = IF f.lastStop = Null THEN m.last_stop ELSE f.lastStop
  BY DEF apply_stored_runtime, Mems
<1> QED BY <1>1, <1>2, <1>3, <1>4

LEMMA NewMemory ==
  ASSUME NEW s \in SidSet
  PROVE  /\ DebugSession(s) \in Mems /\ DebugSession(s) # Null
         /\ DebugSession(s).session_id = s /\ DebugSession(s).last_stop = Null
<1>1. DebugSession(s) \in Mems
  BY DEF DebugSession, Mems
<1> QED BY <1>1, NullIsNoValue DEF DebugSession

LEMMA SessionRestored ==
  ASSUME NEW f \in Records
  PROVE  /\ restore_session(f) \in Mems /\ restore_session(f) # Null
         /\ restore_session(f).session_id = f.sessionId
         /\ restore_session(f).last_stop = f.lastStop
<1>1. f.sessionId \in SidSet
  BY DEF Records
<1>2. DebugSession(f.sessionId) \in Mems /\ DebugSession(f.sessionId).session_id = f.sessionId
      /\ DebugSession(f.sessionId).last_stop = Null
  BY <1>1, NewMemory
<1> QED BY <1>2, RuntimeApplied DEF restore_session

\* A target a step may go to is a target.
LEMMA StepGoals ==
  ASSUME NEW m \in Mems
  PROVE  step_targets(m) \subseteq Targets
BY DEF step_targets, Mems, Stops

-----------------------------------------------------------------------------
(* Events. *)

\* A set of places that is not empty has a first one.
LEMMA FirstPlace ==
  ASSUME NEW P \in SUBSET Nat, P # {}
  PROVE  First(P) \in P /\ \A j \in P : First(P) <= j
<1>1. PICK i \in P : \A j \in P : ~(<<j, i>> \in OpToRel(<, Nat))
  BY NatLessThanWellFounded, WFMin
<1>2. \A j \in P : ~(j < i)
  BY <1>1 DEF OpToRel
<1>3. \A j \in P : i <= j
  BY <1>2
<1> QED BY <1>3 DEF First

\* The first event of a kind is one.
LEMMA FirstEvent ==
  ASSUME NEW seq \in Seq(Events), NEW type, EventsOf(seq, type) # {}
  PROVE  /\ First(EventsOf(seq, type)) \in EventsOf(seq, type)
         /\ First(EventsOf(seq, type)) \in DOMAIN seq
         /\ seq[First(EventsOf(seq, type))] \in Events
<1> DEFINE P == EventsOf(seq, type)
<1>1. P \subseteq DOMAIN seq /\ DOMAIN seq = 1..Len(seq) /\ Len(seq) \in Nat
  BY DEF EventsOf
<1>2. P \in SUBSET Nat
  BY <1>1
<1>3. First(P) \in P
  BY <1>2, FirstPlace
<1> QED BY <1>1, <1>3

LEMMA HitsOfNone == Hits(<<>>) = {}
BY DEF Hits, EventsOf

LEMMA HitsAreNat ==
  ASSUME NEW seq \in Seq(Events)
  PROVE  Hits(seq) \subseteq Nat
<1> SUFFICES ASSUME NEW i \in DOMAIN seq
             PROVE  seq[i].hit \in Nat
  BY DEF Hits, EventsOf
<1>1. seq[i] \in Events
  OBVIOUS
<1> QED BY <1>1 DEF Events

\* An event at the end adds its stop, if it tells of one.
LEMMA HitsOfMore ==
  ASSUME NEW seq \in Seq(Events), NEW e \in Events
  PROVE  /\ Append(seq, e) \in Seq(Events)
         /\ Hits(Append(seq, e)) = Hits(seq) \cup
              (IF e.type = "callStackFormed" THEN {e.hit} ELSE {})
<1> DEFINE more == Append(seq, e)
<1>1. /\ more \in Seq(Events) /\ Len(more) = Len(seq) + 1 /\ Len(seq) \in Nat
      /\ \A i \in 1..Len(seq) : more[i] = seq[i]
      /\ more[Len(seq) + 1] = e
      /\ DOMAIN more = 1..Len(more) /\ DOMAIN seq = 1..Len(seq)
  OBVIOUS
<1> HIDE DEF more
<1>2. Hits(seq) \subseteq Hits(more)
  BY <1>1 DEF Hits, EventsOf
<1>3. e.type = "callStackFormed" => e.hit \in Hits(more)
  BY <1>1 DEF Hits, EventsOf
<1>4. ASSUME NEW n \in Hits(more)
      PROVE  n \in Hits(seq) \/ (e.type = "callStackFormed" /\ n = e.hit)
  <2>1. PICK i \in DOMAIN more : more[i].type = "callStackFormed" /\ n = more[i].hit
    BY DEF Hits, EventsOf
  <2>2. CASE i = Len(seq) + 1
    BY <2>1, <2>2, <1>1
  <2>3. CASE i \in 1..Len(seq)
    BY <2>1, <2>3, <1>1 DEF Hits, EventsOf
  <2> QED BY <2>1, <2>2, <2>3, <1>1
<1>5. Hits(more) = Hits(seq) \cup (IF e.type = "callStackFormed" THEN {e.hit} ELSE {})
  BY <1>2, <1>3, <1>4
<1> QED BY <1>1, <1>5 DEF more

-----------------------------------------------------------------------------
(* Types and stages are kept by every step. *)

\* Types that a step of a daemon other than on its own variables keeps.
Common == /\ file \in Records \cup {Null}
          /\ pingPid \in Pids \cup {Null}
          /\ ui \in SidSet \cup {Null}
          /\ status \in [Targets -> {"new", "running", "stopped", "gone"}]
          /\ stopOf \in [Targets -> Nat] /\ stops \in Nat
          /\ events \in Seq(Events)
          /\ armed \subseteq Targets
          /\ workspace \subseteq Breakpoints
          /\ cmd \in [Clis -> CommandStates]
          /\ spawned \in 0..Len(Sids)
          /\ missed \subseteq Nat

DaemonTypes == /\ thread \in [Daemons -> [Threads -> ThreadStates]]
               /\ sid \in [Daemons -> SidSet \cup {Null}]
               /\ body \in [Daemons -> Seq(Events)]
               /\ live \in [Daemons -> SUBSET Targets]
               /\ mem \in [Daemons -> Mems \cup {Null}]
               /\ attachLock \in [Daemons -> Threads \cup {Null}]

LEMMA TypesSplit ==
  ASSUME \A d \in Daemons : DaemonStage(d)
  PROVE  TypeOK <=> Common /\ DaemonTypes
BY DEF TypeOK, Common, DaemonTypes, DaemonStage, Up, Alive

LEMMA TypesSplitNext ==
  ASSUME \A d \in Daemons : DaemonStage(d)'
  PROVE  TypeOK' <=> Common' /\ DaemonTypes'
BY DEF TypeOK, Common, DaemonTypes, DaemonStage, Up, Alive

LEMMA Becomes ==
  ASSUME DaemonTypes, NEW d \in Daemons, NEW x \in Threads, NEW pc, NEW todo, NEW t,
         Become(d, x, pc, todo, t), [pc |-> pc, todo |-> todo, tid |-> t] \in ThreadStates
  PROVE  /\ \A e \in Daemons, y \in Threads :
              thread'[e][y] = IF e = d /\ y = x THEN [pc |-> pc, todo |-> todo, tid |-> t]
                              ELSE thread[e][y]
         /\ \A e \in Daemons \ {d} : thread'[e] = thread[e]
         /\ thread' \in [Daemons -> [Threads -> ThreadStates]]
BY DEF DaemonTypes, Become

LEMMA Exits ==
  ASSUME DaemonTypes, NEW d \in Daemons, Exit(d)
  PROVE  /\ thread'[d] = [x \in Threads |-> Off] /\ body'[d] = <<>> /\ sid'[d] = Null
         /\ \A e \in Daemons \ {d} : /\ thread'[e] = thread[e] /\ sid'[e] = sid[e]
                                     /\ mem'[e] = mem[e] /\ body'[e] = body[e]
         /\ DaemonTypes'
<1>1. <<>> \in Seq(Events) /\ Off \in ThreadStates
  BY DEF Off, ThreadStates
<1> QED BY <1>1 DEF DaemonTypes, Exit

LEMMA ShapeInit == Init => Shape
<1> SUFFICES ASSUME Init PROVE Shape
  OBVIOUS
<1>1. <<>> \in Seq(Events) /\ Off \in ThreadStates /\ Off.pc = "off"
  BY DEF Off, ThreadStates
<1>2. Idle \in CommandStates /\ Idle.pc = "idle"
  BY DEF Idle, CommandStates, CommandPcs
<1>3. TypeOK
  BY <1>1, <1>2, SidsAreUuids DEF Init, TypeOK, Alive, Threads
<1>4. ASSUME NEW d \in Daemons PROVE DaemonStage(d)
  BY <1>1 DEF Init, DaemonStage, Threads, Up, MainPcs
<1>5. ASSUME NEW c \in Clis PROVE CommandStage(cmd[c])
  BY <1>2 DEF Init, CommandStage, Holding, MemPcs
<1> QED BY <1>3, <1>4, <1>5 DEF Shape

\* dbgs and the clients touch neither daemons nor commands.
LEMMA ShapeClient ==
  ASSUME Shape, Client
  PROVE  Shape'
<1> USE DEF Client, vars, dbgs, daemons
<1>1. \A d \in Daemons : DaemonStage(d)'
  BY DEF Shape, DaemonStage, StartTarget, Stop, Quit, Up
<1>2. \A c \in Clis : CommandStage(cmd[c])'
  BY DEF Shape, CommandStage, StartTarget, Stop, Quit, Holding
<1>3. TypeOK'
  <2>1. ASSUME NEW t \in Targets, StartTarget(t)
        PROVE  TypeOK'
    <3>1. Started(t) \in Events
      BY DEF Started, Events
    <3>2. events' \in Seq(Events)
      BY <3>1, <2>1, HitsOfMore DEF StartTarget, Shape, TypeOK
    <3> QED BY <3>2, <2>1 DEF StartTarget, Shape, TypeOK, Alive
  <2>2. ASSUME NEW t \in Targets, Stop(t)
        PROVE  TypeOK'
    <3>1. Stopped(t, stops + 1) \in Events
      BY DEF Stopped, Events, Shape, TypeOK
    <3>2. events' \in Seq(Events)
      BY <3>1, <2>2, HitsOfMore DEF Stop, Shape, TypeOK
    <3> QED BY <3>2, <2>2 DEF Stop, Shape, TypeOK, Alive
  <2>3. ASSUME NEW t \in Targets, Quit(t)
        PROVE  TypeOK'
    BY <2>3 DEF Quit, Shape, TypeOK, Alive
  <2> QED BY <2>1, <2>2, <2>3
<1> QED BY <1>1, <1>2, <1>3 DEF Shape

\* A step of a daemon that keeps the others.
LEMMA ShapeOfOthers ==
  ASSUME Shape, NEW d \in Daemons, cmd' = cmd,
         \A e \in Daemons \ {d} :
            /\ thread'[e] = thread[e] /\ sid'[e] = sid[e]
            /\ mem'[e] = mem[e] /\ body'[e] = body[e],
         DaemonStage(d)', Common', DaemonTypes'
  PROVE  Shape'
<1>1. ASSUME NEW e \in Daemons, e # d PROVE DaemonStage(e)'
  BY <1>1 DEF Shape, DaemonStage, Up
<1>2. \A c \in Clis : CommandStage(cmd[c])'
  BY DEF Shape, CommandStage, Holding
<1> QED BY <1>1, <1>2, TypesSplitNext DEF Shape

LEMMA ShapeExit ==
  ASSUME Shape, NEW d \in Daemons, Exit(d), cmd' = cmd, Common'
  PROVE  Shape'
<1>1. DaemonTypes
  BY TypesSplit DEF Shape
<1>2. DaemonTypes' /\ thread'[d] = [x \in Threads |-> Off] /\ body'[d] = <<>>
  BY <1>1, Exits
<1>3. "main" \in Threads /\ "scan" \in Threads
  BY DEF Threads
<1>4. DaemonStage(d)'
  BY <1>2, <1>3 DEF DaemonStage, Up, MainPcs, Off
<1>5. \A e \in Daemons \ {d} : /\ thread'[e] = thread[e] /\ sid'[e] = sid[e]
                               /\ mem'[e] = mem[e] /\ body'[e] = body[e]
  BY <1>1, Exits
<1> QED BY <1>2, <1>4, <1>5, ShapeOfOthers

\* A step that moves one thread of a running daemon to another place.
LEMMA ShapeBecome ==
  ASSUME Shape, NEW d \in Daemons, NEW x \in Threads, NEW pc, NEW todo, NEW t,
         Become(d, x, pc, todo, t), [pc |-> pc, todo |-> todo, tid |-> t] \in ThreadStates,
         Up(d), pc # "off", x = "main" => pc \in MainPcs,
         pc \in {"post", "save"} => t \in Targets,
         cmd' = cmd, Common', sid' = sid,
         live' \in [Daemons -> SUBSET Targets],
         attachLock' \in [Daemons -> Threads \cup {Null}],
         mem' \in [Daemons -> Mems \cup {Null}], mem'[d] \in Mems,
         body' \in [Daemons -> Seq(Events)],
         \A e \in Daemons \ {d} : mem'[e] = mem[e] /\ body'[e] = body[e],
         \/ body'[d] = <<>>
         \/ x = "main" /\ pc \in {"attach", "post", "save"}
         \/ x = "scan" /\ body'[d] = body[d]
  PROVE  Shape'
<1>0. /\ DaemonTypes /\ DaemonStage(d)
      /\ "main" \in Threads /\ "scan" \in Threads /\ Threads = {"main", "scan"}
  BY TypesSplit DEF Shape, Threads
<1> DEFINE now == [pc |-> pc, todo |-> todo, tid |-> t]
<1>1. /\ \A y \in Threads : thread'[d][y] = IF y = x THEN now ELSE thread[d][y]
      /\ \A e \in Daemons \ {d} : thread'[e] = thread[e]
      /\ thread' \in [Daemons -> [Threads -> ThreadStates]]
  BY <1>0, Becomes
<1>2. now.pc = pc /\ now.tid = t
  OBVIOUS
<1> HIDE DEF now
<1>3. sid'[d] \in SidSet /\ sid'[d] # Null
  BY <1>0 DEF DaemonStage
<1>4. thread'[d]["main"].pc \in MainPcs
  BY <1>0, <1>1, <1>2 DEF Up
<1>5. thread'[d]["main"].pc \notin {"attach", "post", "save"} => body'[d] = <<>>
  <2>1. CASE x = "main"
    BY <2>1, <1>0, <1>1, <1>2
  <2>2. CASE x = "scan"
    BY <2>2, <1>0, <1>1, <1>2 DEF DaemonStage
  <2> QED BY <2>1, <2>2, <1>0
<1>6. \A y \in Threads : thread'[d][y].pc \in {"post", "save"} => thread'[d][y].tid \in Targets
  BY <1>0, <1>1, <1>2 DEF DaemonStage
<1>7. DaemonStage(d)'
  BY <1>3, <1>4, <1>5, <1>6 DEF DaemonStage, Up
<1>8. DaemonTypes'
  BY <1>0, <1>1 DEF DaemonTypes
<1> QED BY <1>0, <1>1, <1>7, <1>8, ShapeOfOthers DEF DaemonTypes

LEMMA ShapeDaemon ==
  ASSUME Shape, NEW d \in Daemons, Daemon(d)
  PROVE  Shape'
<1> USE DEF dbgs, daemons
<1>0. /\ Common /\ DaemonTypes /\ DaemonStage(d)
      /\ "main" \in Threads /\ "scan" \in Threads
  BY TypesSplit DEF Shape, Threads
<1>1. CASE Bootstrap(d)
  <2>0. Common'
    BY <1>0, <1>1 DEF Bootstrap, Common
  <2>1. CASE file = Null
    BY <1>1, <2>1, <2>0, ShapeExit DEF Bootstrap
  <2>2. CASE file # Null
    <3>1. file \in Records /\ file.sessionId \in SidSet /\ file.sessionId # Null
          /\ file.attachedTargets \in SUBSET Targets
      BY <2>2, <1>0, SidsAreUuids DEF Common, Records, SidSet
    <3> DEFINE m == [DebugSession(file.sessionId) EXCEPT !.attached_targets = file.attachedTargets]
               start == [x \in Threads |-> [Off EXCEPT !.pc = IF x = "main" THEN "check" ELSE "idle"]]
    <3>2. m \in Mems
      BY <3>1, NewMemory DEF Mems
    <3>3. start \in [Threads -> ThreadStates] /\ start["main"].pc = "check" /\ start["scan"].pc = "idle"
      BY <1>0 DEF Off, ThreadStates, MainPcs
    <3> HIDE DEF m, start
    <3>4. /\ sid' = [sid EXCEPT ![d] = file.sessionId]
          /\ mem' = [mem EXCEPT ![d] = m]
          /\ thread' = [thread EXCEPT ![d] = start]
          /\ UNCHANGED <<body, live, attachLock, cmd>>
      BY <1>1, <2>2 DEF Bootstrap, m, start
    <3>5. body[d] = <<>>
      BY <1>0, <1>1 DEF Bootstrap, DaemonStage
    <3>6. DaemonTypes'
      BY <3>1, <3>2, <3>3, <3>4, <1>0 DEF DaemonTypes
    <3>7. sid'[d] = file.sessionId /\ mem'[d] = m /\ thread'[d] = start /\ body'[d] = <<>>
      BY <3>4, <3>5, <1>0 DEF DaemonTypes
    <3>8. \A x \in Threads : start[x].pc \notin {"post", "save"}
      BY DEF Off, start
    <3>9. DaemonStage(d)'
      BY <3>1, <3>2, <3>3, <3>7, <3>8 DEF DaemonStage, Up, MainPcs
    <3>10. \A e \in Daemons \ {d} : /\ thread'[e] = thread[e] /\ sid'[e] = sid[e]
                                    /\ mem'[e] = mem[e] /\ body'[e] = body[e]
      BY <3>4, <1>0 DEF DaemonTypes
    <3> QED BY <3>4, <3>6, <3>9, <3>10, <2>0, ShapeOfOthers
  <2> QED BY <2>1, <2>2
<1>2. CASE CheckSession(d)
  <2>0. Common'
    BY <1>0, <1>2 DEF CheckSession, Common
  <2>1. CASE Exit(d)
    BY <1>2, <2>1, <2>0, ShapeExit DEF CheckSession
  <2>2. CASE ~Exit(d)
    <3>1. /\ Become(d, "main", "ping", {}, Null)
          /\ UNCHANGED <<sid, body, live, mem, attachLock, cmd>>
      BY <1>2, <2>2 DEF CheckSession
    <3>2. [pc |-> "ping", todo |-> {}, tid |-> Null] \in ThreadStates
      BY DEF ThreadStates, MainPcs
    <3>3. /\ thread'[d]["main"].pc = "ping" /\ thread'[d]["scan"] = thread[d]["scan"]
          /\ \A e \in Daemons \ {d} : thread'[e] = thread[e]
          /\ thread' \in [Daemons -> [Threads -> ThreadStates]]
      BY <3>1, <3>2, <1>0, Becomes
    <3>4. thread[d]["main"].pc = "check"
      BY <1>2 DEF CheckSession
    <3>5. DaemonStage(d)'
      BY <3>1, <3>3, <3>4, <1>0 DEF DaemonStage, Up, MainPcs, Threads
    <3>6. DaemonTypes'
      BY <3>1, <3>3, <1>0 DEF DaemonTypes
    <3> QED BY <3>1, <3>3, <3>5, <3>6, <2>0, ShapeOfOthers
  <2> QED BY <2>1, <2>2
<1>3. CASE PingDelivers(d)
  <2> DEFINE new == {events[i].tid : i \in EventsOf(events, "targetStarted")}
  <2>1. new \subseteq Targets
    <3>1. \A i \in EventsOf(events, "targetStarted") : events[i] \in Events
      BY <1>0 DEF EventsOf, Common
    <3> QED BY <3>1 DEF Events
  <2>2. [pc |-> "attach", todo |-> new, tid |-> Null] \in ThreadStates
    BY <2>1 DEF ThreadStates, MainPcs
  <2>3. Become(d, "main", "attach", new, Null)
    BY <1>3 DEF PingDelivers
  <2> HIDE DEF new
  <2>4. <<>> \in Seq(Events)
    OBVIOUS
  <2>5. Common'
    BY <1>0, <1>3, <2>4 DEF PingDelivers, Common
  <2>6. Up(d) /\ mem[d] \in Mems
    BY <1>0, <1>3 DEF PingDelivers, Up, MainPcs, DaemonStage
  <2>7. /\ UNCHANGED <<cmd, sid, live, mem, attachLock>>
        /\ body' = [body EXCEPT ![d] = events]
    BY <1>3 DEF PingDelivers
  <2>8. body' \in [Daemons -> Seq(Events)] /\ \A e \in Daemons \ {d} : body'[e] = body[e]
    BY <2>7, <1>0 DEF Common, DaemonTypes
  <2>9. "attach" \in MainPcs
    BY DEF MainPcs
  <2> QED BY <1>0, <2>2, <2>3, <2>5, <2>6, <2>7, <2>8, <2>9, ShapeBecome DEF DaemonTypes
<1>4. CASE PingEmpty(d)
  <2>1. [pc |-> "check", todo |-> {}, tid |-> Null] \in ThreadStates /\ "check" \in MainPcs
    BY DEF ThreadStates, MainPcs
  <2>2. /\ Become(d, "main", "check", {}, Null)
        /\ UNCHANGED <<cmd, sid, body, live, mem, attachLock>>
    BY <1>4 DEF PingEmpty
  <2>3. Common'
    BY <1>0, <1>4 DEF PingEmpty, Common
  <2>4. Up(d) /\ mem[d] \in Mems /\ body[d] = <<>>
    BY <1>0, <1>4 DEF PingEmpty, Up, MainPcs, DaemonStage
  <2> QED BY <1>0, <2>1, <2>2, <2>3, <2>4, ShapeBecome DEF DaemonTypes
<1>5. CASE Scan(d)
  <2>1. TargetsSeenBy(sid[d]) \subseteq Targets
    BY DEF TargetsSeenBy, LiveTargets
  <2>2. [pc |-> "attach", todo |-> TargetsSeenBy(sid[d]), tid |-> Null] \in ThreadStates
    BY <2>1 DEF ThreadStates, MainPcs
  <2>3. /\ Become(d, "scan", "attach", TargetsSeenBy(sid[d]), Null)
        /\ UNCHANGED <<cmd, sid, body, mem, attachLock>>
        /\ live' = [live EXCEPT ![d] = TargetsSeenBy(sid[d])]
    BY <1>5 DEF Scan
  <2>4. Common'
    BY <1>0, <1>5 DEF Scan, Common
  <2>5. Up(d) /\ mem[d] \in Mems
    BY <1>0, <1>5 DEF Scan, Up, DaemonStage
  <2>6. live' \in [Daemons -> SUBSET Targets]
    BY <1>0, <2>1, <2>3 DEF DaemonTypes
  <2> QED BY <1>0, <2>2, <2>3, <2>4, <2>5, <2>6, ShapeBecome DEF DaemonTypes
\* The same for the steps of attach_target, which either thread takes.
<1>6. ASSUME NEW x \in Threads, thread[d][x].pc \in {"attach", "post", "save"}
      PROVE  /\ Up(d) /\ mem[d] \in Mems /\ x \in {"main", "scan"}
             /\ thread[d][x].todo \subseteq Targets
             /\ x = "scan" \/ thread[d]["main"].pc \in {"attach", "post", "save"}
             /\ thread[d][x].pc \in {"post", "save"} => thread[d][x].tid \in Targets
  <2>1. thread[d][x] \in ThreadStates
    BY <1>0, <1>6 DEF DaemonTypes
  <2>2. Up(d)
    BY <1>0, <1>6 DEF DaemonStage, Threads, Up, MainPcs
  <2> QED BY <1>0, <1>6, <2>1, <2>2 DEF DaemonStage, ThreadStates, Threads
<1>7. ASSUME NEW x \in Threads, AttachTarget(d, x) PROVE Shape'
  <2> DEFINE known == mem[d].attached_targets \cup (IF file = Null THEN {} ELSE file.attachedTargets)
             bps == IF file = Null \/ file.breakpoints = Null THEN {} ELSE file.breakpoints
  <2>0. /\ known \subseteq Targets /\ bps \subseteq Breakpoints
        /\ Up(d) /\ mem[d] \in Mems /\ x \in {"main", "scan"}
        /\ thread[d][x].todo \subseteq Targets
    <3>1. thread[d][x].pc = "attach"
      BY <1>7 DEF AttachTarget
    <3> QED BY <3>1, <1>0, <1>6 DEF Mems, Records, Common
  <2>1. Common'
    BY <1>0, <1>7 DEF AttachTarget, Common
  <2>2. PICK t \in thread[d][x].todo :
          \/ /\ Become(d, x, "attach", thread[d][x].todo \ {t}, Null)
             /\ mem' = [mem EXCEPT ![d].attached_targets = known]
             /\ UNCHANGED attachLock
          \/ /\ Become(d, x, "post", thread[d][x].todo \ {t}, t)
             /\ mem' = [mem EXCEPT ![d].attached_targets = known, ![d].breakpoints = bps]
             /\ attachLock' = [attachLock EXCEPT ![d] = x]
    BY <1>7 DEF AttachTarget
  <2> HIDE DEF known, bps
  <2>3. UNCHANGED <<cmd, sid, body, live>>
    BY <1>7 DEF AttachTarget
  <2>4. /\ mem' \in [Daemons -> Mems \cup {Null}] /\ mem'[d] \in Mems
        /\ \A e \in Daemons \ {d} : mem'[e] = mem[e]
    <3> DEFINE merged == [mem[d] EXCEPT !.attached_targets = known]
               sent == [mem[d] EXCEPT !.attached_targets = known, !.breakpoints = bps]
    <3>1. merged \in Mems /\ sent \in Mems
      BY <2>0 DEF Mems
    <3>2. mem' = [mem EXCEPT ![d] = merged] \/ mem' = [mem EXCEPT ![d] = sent]
      BY <2>2
    <3> HIDE DEF merged, sent
    <3> QED BY <3>1, <3>2, <1>0 DEF DaemonTypes
  <2>5. attachLock' \in [Daemons -> Threads \cup {Null}]
    BY <2>2, <1>0 DEF DaemonTypes
  <2>6. /\ [pc |-> "attach", todo |-> thread[d][x].todo \ {t}, tid |-> Null] \in ThreadStates
        /\ [pc |-> "post", todo |-> thread[d][x].todo \ {t}, tid |-> t] \in ThreadStates
        /\ t \in Targets /\ "attach" \in MainPcs /\ "post" \in MainPcs
    BY <2>0, <2>2 DEF ThreadStates, MainPcs
  <2>7. x = "main" \/ (x = "scan" /\ body'[d] = body[d])
    BY <2>0, <2>3
  <2>8. live' \in [Daemons -> SUBSET Targets] /\ body' \in [Daemons -> Seq(Events)]
        /\ \A e \in Daemons \ {d} : body'[e] = body[e]
    BY <2>3, <1>0 DEF DaemonTypes
  <2>9. CASE Become(d, x, "attach", thread[d][x].todo \ {t}, Null)
    BY <1>0, <2>0, <2>1, <2>3, <2>4, <2>5, <2>6, <2>7, <2>8, <2>9, ShapeBecome
  <2>10. CASE Become(d, x, "post", thread[d][x].todo \ {t}, t)
    BY <1>0, <2>0, <2>1, <2>3, <2>4, <2>5, <2>6, <2>7, <2>8, <2>10, ShapeBecome
  <2> QED BY <2>2, <2>9, <2>10
\* What the attach request does to dbgs.
<1>8. ASSUME NEW t \in Targets, NEW B \in SUBSET Breakpoints, AttachRequest(sid[d], t, B),
             UNCHANGED <<file, pingPid, cmd, spawned, missed>>
      PROVE  Common'
  BY <1>0, <1>8 DEF AttachRequest, Common
<1>9. ASSUME NEW x \in Threads, AttachPost(d, x) PROVE Shape'
  <2>0. /\ Up(d) /\ mem[d] \in Mems /\ x \in {"main", "scan"}
        /\ thread[d][x].todo \subseteq Targets /\ thread[d][x].tid \in Targets
        /\ mem[d].breakpoints \subseteq Breakpoints
    <3>1. thread[d][x].pc = "post"
      BY <1>9 DEF AttachPost
    <3> QED BY <3>1, <1>0, <1>6 DEF Mems
  <2>1. Common'
    BY <2>0, <1>8, <1>9 DEF AttachPost
  <2>2. /\ UNCHANGED <<cmd, sid, body, live, attachLock>>
        /\ mem' = [mem EXCEPT ![d].attached_targets = @ \cup {thread[d][x].tid}]
        /\ Become(d, x, "save", thread[d][x].todo, thread[d][x].tid)
    BY <1>9 DEF AttachPost
  <2>3. /\ mem' \in [Daemons -> Mems \cup {Null}] /\ mem'[d] \in Mems
        /\ \A e \in Daemons \ {d} : mem'[e] = mem[e]
    BY <2>0, <2>2, <1>0 DEF DaemonTypes, Mems
  <2>4. [pc |-> "save", todo |-> thread[d][x].todo, tid |-> thread[d][x].tid] \in ThreadStates
        /\ "save" \in MainPcs
    BY <2>0 DEF ThreadStates, MainPcs
  <2>5. x = "main" \/ (x = "scan" /\ body'[d] = body[d])
    BY <2>0, <2>2
  <2> QED BY <1>0, <2>0, <2>1, <2>2, <2>3, <2>4, <2>5, ShapeBecome DEF DaemonTypes
<1>10. ASSUME NEW x \in Threads, AttachFails(d, x) PROVE Shape'
  <2>0. /\ Up(d) /\ mem[d] \in Mems /\ x \in {"main", "scan"}
        /\ thread[d][x].todo \subseteq Targets /\ thread[d][x].tid \in Targets
        /\ mem[d].breakpoints \subseteq Breakpoints
    <3>1. thread[d][x].pc = "post"
      BY <1>10 DEF AttachFails
    <3> QED BY <3>1, <1>0, <1>6 DEF Mems
  <2>1. /\ UNCHANGED <<file, pingPid, sid, body, live, cmd, spawned, missed>>
        /\ attachLock' = [attachLock EXCEPT ![d] = Null]
        /\ \/ UNCHANGED <<dbgs, mem>>
           \/ /\ AttachRequest(sid[d], thread[d][x].tid, {})
              /\ mem' = [mem EXCEPT ![d].attached_targets = @ \cup {thread[d][x].tid}]
        /\ \/ x = "main" /\ Become(d, x, "attach", thread[d][x].todo, Null)
           \/ x = "scan" /\ Become(d, x, "idle", {}, Null)
    BY <1>10, <2>0 DEF AttachFails
  <2>2. Common'
    <3>1. CASE UNCHANGED <<dbgs, mem>>
      BY <3>1, <2>1, <1>0 DEF Common
    <3>2. CASE AttachRequest(sid[d], thread[d][x].tid, {})
      BY <3>2, <2>0, <2>1, <1>8
    <3> QED BY <3>1, <3>2, <2>1
  <2>3. /\ mem' \in [Daemons -> Mems \cup {Null}] /\ mem'[d] \in Mems
        /\ \A e \in Daemons \ {d} : mem'[e] = mem[e]
    <3> DEFINE attached == [mem[d] EXCEPT !.attached_targets = @ \cup {thread[d][x].tid}]
    <3>1. attached \in Mems
      BY <2>0 DEF Mems
    <3>2. mem' = mem \/ mem' = [mem EXCEPT ![d] = attached]
      BY <2>1
    <3> HIDE DEF attached
    <3> QED BY <2>0, <3>1, <3>2, <1>0 DEF DaemonTypes
  <2>4. attachLock' \in [Daemons -> Threads \cup {Null}]
    BY <2>1, <1>0 DEF DaemonTypes
  <2>5. /\ [pc |-> "attach", todo |-> thread[d][x].todo, tid |-> Null] \in ThreadStates
        /\ [pc |-> "idle", todo |-> {}, tid |-> Null] \in ThreadStates
        /\ "attach" \in MainPcs
    BY <2>0 DEF ThreadStates, MainPcs
  <2>6. live' \in [Daemons -> SUBSET Targets] /\ body' \in [Daemons -> Seq(Events)]
        /\ \A e \in Daemons : body'[e] = body[e]
    BY <2>1, <1>0 DEF DaemonTypes
  <2>7. CASE x = "main" /\ Become(d, x, "attach", thread[d][x].todo, Null)
    BY <1>0, <2>0, <2>1, <2>2, <2>3, <2>4, <2>5, <2>6, <2>7, ShapeBecome
  <2>8. CASE x = "scan" /\ Become(d, x, "idle", {}, Null)
    BY <1>0, <2>0, <2>1, <2>2, <2>3, <2>4, <2>5, <2>6, <2>8, ShapeBecome
  <2> QED BY <2>1, <2>7, <2>8
<1>11. ASSUME NEW x \in Threads, AttachSave(d, x) PROVE Shape'
  <2>0. /\ Up(d) /\ mem[d] \in Mems /\ x \in {"main", "scan"}
        /\ thread[d][x].todo \subseteq Targets
        /\ mem[d].attached_targets \in SUBSET Targets
    <3>1. thread[d][x].pc = "save"
      BY <1>11 DEF AttachSave
    <3> QED BY <3>1, <1>0, <1>6 DEF Mems
  <2>1. /\ file' = persist_targets(file, sid[d], mem[d].attached_targets)
        /\ attachLock' = [attachLock EXCEPT ![d] = Null]
        /\ Become(d, x, "attach", thread[d][x].todo, Null)
        /\ UNCHANGED <<pingPid, dbgs, sid, body, live, mem, cmd, spawned, missed>>
    BY <1>11 DEF AttachSave
  <2>2. file' \in Records \cup {Null}
    BY <1>0, <2>0, <2>1, TargetsWritten DEF Common
  <2>3. Common'
    BY <2>1, <2>2, <1>0 DEF Common
  <2>4. attachLock' \in [Daemons -> Threads \cup {Null}]
    BY <2>1, <1>0 DEF DaemonTypes
  <2>5. /\ [pc |-> "attach", todo |-> thread[d][x].todo, tid |-> Null] \in ThreadStates
        /\ "attach" \in MainPcs
    BY <2>0 DEF ThreadStates, MainPcs
  <2>6. x = "main" \/ (x = "scan" /\ body'[d] = body[d])
    BY <2>0, <2>1
  <2> QED BY <1>0, <2>0, <2>1, <2>3, <2>4, <2>5, <2>6, ShapeBecome DEF DaemonTypes
<1>12. CASE Prune(d)
  <2> DEFINE stale == mem[d].attached_targets \ live[d]
  <2>0. /\ Up(d) /\ mem[d] \in Mems
        /\ mem[d].attached_targets \ stale \in SUBSET Targets
    <3>1. thread[d]["scan"].pc = "attach"
      BY <1>12 DEF Prune
    <3> QED BY <3>1, <1>0, <1>6 DEF Mems
  <2>1. /\ mem' = [mem EXCEPT ![d].attached_targets = @ \ stale]
        /\ file' = IF stale = {} THEN file
                   ELSE persist_targets(file, sid[d], mem[d].attached_targets \ stale)
        /\ live' = [live EXCEPT ![d] = {}]
        /\ Become(d, "scan", "idle", {}, Null)
        /\ UNCHANGED <<pingPid, dbgs, sid, body, attachLock, cmd, spawned, missed>>
    BY <1>12 DEF Prune
  <2> HIDE DEF stale
  <2>2. file' \in Records \cup {Null}
    BY <1>0, <2>0, <2>1, TargetsWritten DEF Common
  <2>3. Common'
    BY <2>1, <2>2, <1>0 DEF Common
  <2>4. /\ mem' \in [Daemons -> Mems \cup {Null}] /\ mem'[d] \in Mems
        /\ \A e \in Daemons \ {d} : mem'[e] = mem[e]
        /\ live' \in [Daemons -> SUBSET Targets]
    BY <2>0, <2>1, <1>0 DEF DaemonTypes, Mems
  <2>5. [pc |-> "idle", todo |-> {}, tid |-> Null] \in ThreadStates
    BY DEF ThreadStates
  <2> QED BY <1>0, <2>0, <2>1, <2>3, <2>4, <2>5, ShapeBecome DEF DaemonTypes
<1>13. CASE PersistStop(d)
  <2> DEFINE formed == EventsOf(body[d], "callStackFormed")
             event == body[d][First(formed)]
             stop == [tid |-> event.tid, hit |-> event.hit]
  <2>1. /\ IF formed = {}
           THEN UNCHANGED <<file, missed>>
           ELSE /\ file' = persist_stop(file, stop)
                /\ missed' = missed \cup DroppedStop \cup (Hits(body[d]) \ {event.hit})
        /\ body' = [body EXCEPT ![d] = <<>>]
        /\ Become(d, "main", "check", {}, Null)
        /\ UNCHANGED <<pingPid, dbgs, sid, live, mem, attachLock, cmd, spawned>>
    BY <1>13 DEF PersistStop
  <2>2. body[d] \in Seq(Events)
    BY <1>0 DEF DaemonTypes
  <2>3. formed # {} => stop \in Stops
    <3>1. formed # {} => event \in Events
      BY <2>2, FirstEvent
    <3> QED BY <3>1 DEF Events, Stops
  <2> HIDE DEF event, stop, formed
  <2>4. file' \in Records \cup {Null}
    BY <1>0, <2>1, <2>3, StopPersisted DEF Common
  <2>5. missed' \subseteq Nat
    <3>1. Hits(body[d]) \subseteq Nat
      BY <2>2, HitsAreNat
    <3>2. DroppedStop \subseteq Nat /\ missed \subseteq Nat
      BY <1>0 DEF Common, DroppedStop, Records, Stops
    <3> QED BY <3>1, <3>2, <2>1
  <2>6. Common'
    BY <2>1, <2>4, <2>5, <1>0 DEF Common
  <2>7. Up(d) /\ mem[d] \in Mems
    <3>1. thread[d]["main"].pc = "attach"
      BY <1>13 DEF PersistStop
    <3> QED BY <3>1, <1>0, <1>6
  <2>8. body' \in [Daemons -> Seq(Events)] /\ body'[d] = <<>>
        /\ \A e \in Daemons \ {d} : body'[e] = body[e]
    BY <2>1, <1>0 DEF DaemonTypes
  <2>9. [pc |-> "check", todo |-> {}, tid |-> Null] \in ThreadStates /\ "check" \in MainPcs
    BY DEF ThreadStates, MainPcs
  <2> QED BY <1>0, <2>1, <2>6, <2>7, <2>8, <2>9, ShapeBecome DEF DaemonTypes
<1>14. CASE Crash(d)
  <2>1. Hits(body[d]) \subseteq Nat
    BY <1>0, HitsAreNat DEF DaemonTypes
  <2>2. Common'
    BY <2>1, <1>0, <1>14 DEF Crash, Common, Unwritten
  <2> QED BY <1>14, <2>2, ShapeExit DEF Crash
<1> QED
  BY <1>0, <1>1, <1>2, <1>3, <1>4, <1>5, <1>7, <1>9, <1>10, <1>11, <1>12, <1>13, <1>14
     DEF Daemon, MainThread, ScanThread

-----------------------------------------------------------------------------
(* The commands. *)

\* A command at another place.
LEMMA Moves ==
  ASSUME NEW k \in CommandStates, NEW pc \in CommandPcs
  PROVE  LET r == [k EXCEPT !.pc = pc]
         IN r \in CommandStates /\ r.pc = pc /\ r.op = k.op /\ r.mem = k.mem
            /\ r.pinned = k.pinned /\ r.sessionId = k.sessionId
BY DEF CommandStates

LEMMA IdleMoves ==
  Idle \in CommandStates /\ Idle.pc = "idle" /\ Idle.op = "none" /\ Idle.mem = Null
  /\ Idle.pinned = 0
BY DEF Idle, CommandStates, CommandPcs

LEMMA DaemonsKept ==
  ASSUME Shape, UNCHANGED daemons
  PROVE  DaemonTypes' /\ \A d \in Daemons : DaemonStage(d)'
<1>1. \A d \in Daemons : DaemonStage(d)'
  BY DEF Shape, DaemonStage, Up, daemons
<1>2. DaemonTypes
  BY TypesSplit DEF Shape
<1> QED BY <1>1, <1>2 DEF DaemonTypes, daemons

LEMMA DaemonEnds ==
  ASSUME Shape, NEW d \in Daemons, Exit(d)
  PROVE  DaemonTypes' /\ \A e \in Daemons : DaemonStage(e)'
<1>1. DaemonTypes
  BY TypesSplit DEF Shape
<1>2. DaemonTypes' /\ thread'[d] = [x \in Threads |-> Off] /\ body'[d] = <<>>
  BY <1>1, Exits
<1>3. "main" \in Threads /\ "scan" \in Threads
  BY DEF Threads
<1>4. DaemonStage(d)'
  BY <1>2, <1>3 DEF DaemonStage, Up, MainPcs, Off
<1>5. \A e \in Daemons \ {d} : /\ thread'[e] = thread[e] /\ sid'[e] = sid[e]
                               /\ mem'[e] = mem[e] /\ body'[e] = body[e]
  BY <1>1, Exits
<1>6. ASSUME NEW e \in Daemons, e # d PROVE DaemonStage(e)'
  BY <1>5, <1>6 DEF Shape, DaemonStage, Up
<1> QED BY <1>2, <1>4, <1>6

\* A step of a command: the command is well formed, and the rest is.
LEMMA ShapeMove ==
  ASSUME Shape, NEW c \in Clis, NEW r \in CommandStates, CommandStage(r),
         cmd' = [cmd EXCEPT ![c] = r], cmd' \in [Clis -> CommandStates] => Common',
         DaemonTypes', \A d \in Daemons : DaemonStage(d)'
  PROVE  Shape'
<1>1. cmd \in [Clis -> CommandStates]
  BY DEF Shape, TypeOK
<1>2. cmd' \in [Clis -> CommandStates] /\ cmd'[c] = r /\ \A b \in Clis \ {c} : cmd'[b] = cmd[b]
  BY <1>1
<1>3. \A b \in Clis : CommandStage(cmd[b])'
  <2> SUFFICES ASSUME NEW b \in Clis PROVE CommandStage(cmd'[b])
    BY DEF CommandStage, Holding
  <2>1. CASE b = c
    BY <2>1, <1>2
  <2>2. CASE b # c
    BY <2>2, <1>2 DEF Shape
  <2> QED BY <2>1, <2>2
<1> QED BY <1>2, <1>3, TypesSplitNext DEF Shape

LEMMA ShapeDone ==
  ASSUME Shape, NEW c \in Clis, Done(c), cmd' \in [Clis -> CommandStates] => Common',
         DaemonTypes', \A d \in Daemons : DaemonStage(d)'
  PROVE  Shape'
<1>1. Idle \in CommandStates /\ CommandStage(Idle)
  BY IdleMoves DEF CommandStage, Holding, MemPcs
<1> QED BY <1>1, ShapeMove DEF Done

LEMMA ShapeGo ==
  ASSUME Shape, NEW c \in Clis, NEW pc \in CommandPcs, Go(c, pc),
         cmd' \in [Clis -> CommandStates] => Common',
         DaemonTypes', \A d \in Daemons : DaemonStage(d)',
         pc \in MemPcs => cmd[c].mem \in Mems,
         pc \notin {"restore", "spawn", "fresh", "attach", "write", "prepare", "targets", "arm"},
         pc = "ensure" => cmd[c].op \in {"attach", "prepare"},
         pc = "clear" => cmd[c].op \in {"step", "pause"}
  PROVE  Shape'
<1>1. cmd[c] \in CommandStates /\ cmd \in [Clis -> CommandStates]
  BY DEF Shape, TypeOK
<1> DEFINE r == [cmd[c] EXCEPT !.pc = pc]
<1>2. r \in CommandStates /\ r.pc = pc /\ r.op = cmd[c].op /\ r.mem = cmd[c].mem
  BY <1>1, Moves
<1>3. cmd' = [cmd EXCEPT ![c] = r]
  BY <1>1 DEF Go
<1> HIDE DEF r
<1>4. CommandStage(r)
  BY <1>2 DEF CommandStage, Holding, WaitOps
<1> QED BY <1>2, <1>3, <1>4, ShapeMove

LEMMA ShapeGoWith ==
  ASSUME Shape, NEW c \in Clis, NEW pc \in CommandPcs, NEW m \in Mems, GoWith(c, pc, m),
         cmd' \in [Clis -> CommandStates] => Common',
         DaemonTypes', \A d \in Daemons : DaemonStage(d)',
         pc \notin {"restore", "spawn", "clear", "fresh", "attach", "prepare", "arm"},
         pc = "targets" => cmd[c].op # "step",
         pc = "ensure" => cmd[c].op \in WaitOps,
         pc = "write" => cmd[c].op = "attach"
  PROVE  Shape'
<1>1. cmd[c] \in CommandStates /\ cmd \in [Clis -> CommandStates]
  BY DEF Shape, TypeOK
<1> DEFINE r == [cmd[c] EXCEPT !.pc = pc, !.mem = m]
<1>2. r \in CommandStates /\ r.pc = pc /\ r.op = cmd[c].op /\ r.mem = m
  BY <1>1 DEF CommandStates
<1>3. cmd' = [cmd EXCEPT ![c] = r]
  BY <1>1 DEF GoWith
<1> HIDE DEF r
<1>4. CommandStage(r)
  BY <1>2 DEF CommandStage, Holding
<1> QED BY <1>2, <1>3, <1>4, ShapeMove

\* Where a command is after the daemon was ensured.
LEMMA ShapeAfterEnsure ==
  ASSUME Shape, NEW c \in Clis, cmd[c].pc \in {"ensure", "spawn"},
         IF AfterEnsure(cmd[c].op) = "idle" THEN Done(c) ELSE Go(c, AfterEnsure(cmd[c].op)),
         cmd' \in [Clis -> CommandStates] => Common',
         DaemonTypes', \A d \in Daemons : DaemonStage(d)'
  PROVE  Shape'
<1>1. CASE AfterEnsure(cmd[c].op) = "idle"
  BY <1>1, ShapeDone
<1>2. CASE AfterEnsure(cmd[c].op) # "idle"
  <2>1. /\ AfterEnsure(cmd[c].op) \in {"poll", "clear", "post"}
        /\ AfterEnsure(cmd[c].op) = "clear" => cmd[c].op \in {"step", "pause"}
        /\ cmd[c].op \in WaitOps
    BY <1>2 DEF AfterEnsure, WaitOps
  <2>2. cmd[c].mem \in Mems
    BY <2>1 DEF Shape, CommandStage, Holding
  <2>3. AfterEnsure(cmd[c].op) \in CommandPcs
    BY <2>1 DEF CommandPcs, MemPcs
  <2> QED BY <1>2, <2>1, <2>2, <2>3, ShapeGo
<1> QED BY <1>1, <1>2

\* A record update of session.json that leaves dbgs, the pids and the ids alone.
LEMMA CommonWith ==
  ASSUME Shape, file' \in Records \cup {Null}, missed' \subseteq Nat,
         cmd' \in [Clis -> CommandStates], UNCHANGED <<pingPid, dbgs, spawned>>
  PROVE  Common'
<1>1. Common
  BY TypesSplit DEF Shape
<1> QED BY <1>1 DEF Common, dbgs

LEMMA DroppedStopTyped == TypeOK => DroppedStop \subseteq Nat
BY DEF TypeOK, DroppedStop, Records, Stops

LEMMA MemCleared ==
  ASSUME NEW m \in Mems
  PROVE  [m EXCEPT !.last_stop = Null] \in Mems
         /\ [m EXCEPT !.last_stop = Null].session_id = m.session_id
         /\ [m EXCEPT !.last_stop = Null].last_stop = Null
BY DEF Mems

LEMMA PersistClearedTyped ==
  ASSUME Shape, NEW c \in Clis, cmd[c].mem \in Mems, PersistCleared(c)
  PROVE  /\ file' \in Records /\ file' # Null
         /\ file'.sessionId = cmd[c].mem.session_id /\ file'.lastStop = Null
         /\ missed' = missed \cup DroppedStop /\ missed' \subseteq Nat
         /\ UNCHANGED <<pingPid, dbgs, daemons, spawned>>
<1> DEFINE m == [cmd[c].mem EXCEPT !.last_stop = Null]
<1>1. m \in Mems /\ m.session_id = cmd[c].mem.session_id
  BY MemCleared
<1>2. file' = persist_session_runtime(file, m, TRUE) /\ missed' = missed \cup DroppedStop
      /\ UNCHANGED <<pingPid, dbgs, daemons, spawned>>
  BY DEF PersistCleared
<1> HIDE DEF m
<1>3. file \in Records \cup {Null} /\ missed \subseteq Nat /\ DroppedStop \subseteq Nat
  BY DroppedStopTyped DEF Shape, TypeOK
<1> QED BY <1>1, <1>2, <1>3, PersistRuntime

\* What the request of an attach or a detach does to dbgs.
LEMMA RegisterTyped ==
  ASSUME Shape, NEW s \in SidSet \cup {Null}, RegisterUi(s)
  PROVE  /\ ui' \in SidSet \cup {Null}
         /\ status' \in [Targets -> {"new", "running", "stopped", "gone"}]
         /\ stopOf' \in [Targets -> Nat] /\ stops' \in Nat
         /\ events' \in Seq(Events)
         /\ armed' \subseteq Targets
         /\ workspace' \subseteq Breakpoints
<1>1. <<>> \in Seq(Events)
  OBVIOUS
<1> QED BY <1>1 DEF Shape, TypeOK, RegisterUi

LEMMA ShapeCommand ==
  ASSUME Shape, NEW c \in Clis, Command(c)
  PROVE  Shape'
<1>0. /\ TypeOK /\ CommandStage(cmd[c]) /\ cmd[c] \in CommandStates
      /\ file \in Records \cup {Null} /\ missed \subseteq Nat
      /\ Common /\ DaemonTypes /\ \A d \in Daemons : DaemonStage(d)
  BY TypesSplit DEF Shape, TypeOK
<1>k. ASSUME UNCHANGED daemons PROVE DaemonTypes' /\ \A d \in Daemons : DaemonStage(d)'
  BY <1>k, DaemonsKept
<1>p. {"idle", "attach", "prepare", "kill", "detach", "remove", "restore", "ensure", "spawn",
       "fresh", "clear", "post", "drop", "exited", "poll", "persist", "bp", "targets", "arm",
       "write"} \subseteq CommandPcs
  BY DEF CommandPcs, MemPcs
<1>m. cmd[c].pc \in MemPcs => cmd[c].mem \in Mems
  BY <1>0 DEF CommandStage, Holding
\* Steps that move the command and leave the types of the rest alone.
<1>c. ASSUME UNCHANGED <<file, pingPid, dbgs, spawned, missed>>
      PROVE  cmd' \in [Clis -> CommandStates] => Common'
  BY <1>c, <1>0 DEF Common, dbgs
<1>1. CASE StartCommand(c)
  <2>1. PICK o \in Commands :
          cmd' = [cmd EXCEPT ![c] =
                    [Idle EXCEPT !.op = o,
                                 !.pc = CASE o = "attach" -> "attach"
                                          [] o = "prepare" -> "prepare"
                                          [] o \in {"detach", "force_detach"} -> "kill"
                                          [] OTHER -> "restore"]]
    BY <1>1 DEF StartCommand
  <2> DEFINE pc == CASE o = "attach" -> "attach"
                     [] o = "prepare" -> "prepare"
                     [] o \in {"detach", "force_detach"} -> "kill"
                     [] OTHER -> "restore"
             r == [Idle EXCEPT !.op = o, !.pc = pc]
  <2>2. pc \in {"attach", "prepare", "kill", "restore"}
        /\ (pc = "restore" => o \in RestoreOps)
        /\ (pc = "attach" => o = "attach") /\ (pc = "prepare" => o = "prepare")
    BY CommandsKnown DEF AllCommands, RestoreOps, WaitOps
  <2>3. cmd' = [cmd EXCEPT ![c] = r]
    BY <2>1
  <2> HIDE DEF pc
  <2>4. r \in CommandStates /\ r.pc = pc /\ r.op = o
    BY <2>2, <1>p DEF Idle, CommandStates
  <2> HIDE DEF r
  <2>5. CommandStage(r)
    BY <2>2, <2>4 DEF CommandStage, Holding, MemPcs
  <2>6. UNCHANGED <<file, pingPid, dbgs, daemons, spawned, missed>>
    BY <1>1 DEF StartCommand
  <2> QED BY <2>3, <2>4, <2>5, <2>6, <1>c, <1>k, ShapeMove
<1>2. CASE Restore(c)
  <2>0. UNCHANGED <<file, pingPid, dbgs, daemons, spawned, missed>>
    BY <1>2 DEF Restore
  <2>1. CASE file = Null
    BY <1>2, <2>0, <2>1, <1>c, <1>k, ShapeDone DEF Restore
  <2>2. CASE file # Null
    <3> DEFINE m == restore_session(file)
               pc == CASE cmd[c].op = "wait_fresh" -> "fresh"
                       [] cmd[c].op \in {"wait", "step", "step_no_wait", "pause"} -> "ensure"
                       [] cmd[c].op \in {"bp_set", "bp_clear"} -> "bp"
                       [] cmd[c].op = "targets" -> "targets"
               tid == IF m.last_stop = Null THEN Null ELSE m.last_stop.tid
               r == [cmd[c] EXCEPT !.mem = m, !.pinned = HitOf(m.last_stop), !.tid = tid, !.pc = pc]
    <3>1. m \in Mems
      BY <2>2, <1>0, SessionRestored
    <3>2. cmd[c].op \in RestoreOps /\ cmd \in [Clis -> CommandStates]
      BY <1>0, <1>2 DEF Restore, CommandStage, TypeOK
    <3>3. /\ pc \in {"fresh", "ensure", "bp", "targets"}
          /\ pc \in {"ensure", "fresh"} => cmd[c].op \in WaitOps
          /\ pc = "targets" => cmd[c].op # "step"
      BY <3>2 DEF RestoreOps, WaitOps
    <3>4. cmd' = [cmd EXCEPT ![c] = r]
      BY <1>2, <2>2, <3>2 DEF Restore
    <3> HIDE DEF m, pc
    <3>5. HitOf(m.last_stop) \in Nat /\ tid \in Targets \cup {Null}
      BY <3>1 DEF HitOf, Mems, Stops
    <3> HIDE DEF tid
    <3>6. r \in CommandStates /\ r.pc = pc /\ r.op = cmd[c].op /\ r.mem = m
      BY <3>1, <3>3, <3>5, <1>0, <1>p DEF CommandStates
    <3> HIDE DEF r
    <3>7. CommandStage(r)
      BY <3>1, <3>3, <3>6 DEF CommandStage, Holding, MemPcs
    <3> QED BY <3>4, <3>6, <3>7, <2>0, <1>c, <1>k, ShapeMove
  <2> QED BY <2>1, <2>2
<1>3. CASE ClearForFreshWait(c) \/ ClearBeforeStep(c)
  <2>1. cmd[c].mem \in Mems /\ PersistCleared(c)
    BY <1>3, <1>m DEF ClearForFreshWait, ClearBeforeStep, MemPcs
  <2>2. /\ [cmd[c].mem EXCEPT !.last_stop = Null] \in Mems
        /\ cmd' \in [Clis -> CommandStates] => Common'
        /\ DaemonTypes' /\ \A d \in Daemons : DaemonStage(d)'
    BY <2>1, <1>k, PersistClearedTyped, CommonWith, MemCleared
  <2>3. CASE ClearForFreshWait(c)
    <3>1. cmd[c].op \in WaitOps
      BY <2>3, <1>0 DEF ClearForFreshWait, CommandStage
    <3> QED BY <2>2, <2>3, <3>1, <1>p, ShapeGoWith DEF ClearForFreshWait
  <2>4. CASE ClearBeforeStep(c)
    BY <2>2, <2>4, <1>p, ShapeGoWith DEF ClearBeforeStep
  <2> QED BY <1>3, <2>3, <2>4
<1>4. CASE ClearAfterExit(c) \/ ClearAfterStep(c)
  <2>1. cmd[c].mem \in Mems /\ PersistCleared(c) /\ Done(c)
    BY <1>4, <1>m DEF ClearAfterExit, ClearAfterStep, MemPcs
  <2>2. /\ cmd' \in [Clis -> CommandStates] => Common'
        /\ DaemonTypes' /\ \A d \in Daemons : DaemonStage(d)'
    BY <2>1, <1>k, PersistClearedTyped, CommonWith
  <2> QED BY <2>1, <2>2, ShapeDone
<1>5. CASE EnsurePing(c)
  <2> DEFINE running == pingPid # Null /\ Alive(pingPid.daemon)
  <2>0. /\ UNCHANGED <<file, dbgs, spawned>>
        /\ pingPid' \in {pingPid, Null}
        /\ \/ UNCHANGED <<daemons, missed>>
           \/ pingPid # Null /\ Exit(pingPid.daemon) /\ missed' = missed \cup Unwritten(pingPid.daemon)
    BY <1>5 DEF EnsurePing
  <2>1. DaemonTypes' /\ (\A d \in Daemons : DaemonStage(d)') /\ missed' \subseteq Nat
    <3>1. CASE UNCHANGED <<daemons, missed>>
      BY <3>1, <1>0, <1>k
    <3>2. CASE pingPid # Null /\ Exit(pingPid.daemon) /\ missed' = missed \cup Unwritten(pingPid.daemon)
      <4>1. pingPid.daemon \in Daemons
        BY <3>2, <1>0 DEF Common, Pids
      <4>2. Unwritten(pingPid.daemon) \subseteq Nat
        BY <4>1, <1>0, HitsAreNat DEF Unwritten, DaemonTypes
      <4> QED BY <3>2, <4>1, <4>2, <1>0, DaemonEnds
    <3> QED BY <2>0, <3>1, <3>2
  <2>2. cmd' \in [Clis -> CommandStates] => Common'
    BY <2>0, <2>1, <1>0 DEF Common, dbgs
  <2>3. CASE file = Null \/ (running /\ pingPid.sessionId = file.sessionId)
    BY <1>5, <2>1, <2>2, <2>3, ShapeAfterEnsure DEF EnsurePing
  <2>4. CASE ~(file = Null \/ (running /\ pingPid.sessionId = file.sessionId))
    <3> DEFINE r == [cmd[c] EXCEPT !.pc = "spawn", !.sessionId = file.sessionId]
    <3>1. cmd[c].pc = "ensure" /\ cmd' = [cmd EXCEPT ![c] = r]
      BY <1>5, <2>4, <1>0 DEF EnsurePing, TypeOK
    <3>2. file.sessionId \in SidSet
      BY <2>4, <1>0 DEF Records
    <3>3. r \in CommandStates /\ r.pc = "spawn" /\ r.op = cmd[c].op /\ r.mem = cmd[c].mem
          /\ r.sessionId = file.sessionId
      BY <3>2, <1>0, <1>p DEF CommandStates
    <3> HIDE DEF r
    <3>4. CommandStage(r)
      BY <3>1, <3>2, <3>3, <1>0 DEF CommandStage, Holding, MemPcs
    <3> QED BY <3>1, <3>3, <3>4, <2>1, <2>2, ShapeMove
  <2> QED BY <2>3, <2>4
<1>6. CASE SpawnPing(c)
  <2>1. cmd[c].sessionId \in SidSet /\ cmd[c].pc = "spawn"
    BY <1>6, <1>0 DEF SpawnPing, CommandStage
  <2>2. UNCHANGED <<file, dbgs, sid, body, live, mem, attachLock, spawned, missed>>
    BY <1>6 DEF SpawnPing
  <2>3. CASE UNCHANGED <<thread, pingPid>>
    <3>1. UNCHANGED daemons
      BY <2>2, <2>3 DEF daemons
    <3> QED BY <1>6, <2>1, <2>2, <2>3, <3>1, <1>c, <1>k, ShapeAfterEnsure DEF SpawnPing
  <2>4. ASSUME NEW d \in Daemons, ~Alive(d), Become(d, "main", "boot", {}, Null),
               pingPid' = [daemon |-> d, sessionId |-> cmd[c].sessionId]
        PROVE  Shape'
    <3>1. pingPid' \in Pids
      BY <2>1, <2>4 DEF Pids
    <3>2. cmd' \in [Clis -> CommandStates] => Common'
      BY <2>2, <3>1, <1>0 DEF Common, dbgs
    <3>3. [pc |-> "boot", todo |-> {}, tid |-> Null] \in ThreadStates /\ "main" \in Threads
      BY DEF ThreadStates, Threads
    <3>4. /\ thread'[d]["main"].pc = "boot" /\ thread'[d]["scan"] = thread[d]["scan"]
          /\ \A e \in Daemons \ {d} : thread'[e] = thread[e]
          /\ thread' \in [Daemons -> [Threads -> ThreadStates]]
      BY <2>4, <3>3, <1>0, Becomes DEF Threads
    <3>5. DaemonTypes'
      BY <2>2, <3>4, <1>0 DEF DaemonTypes
    <3>6. ASSUME NEW e \in Daemons PROVE DaemonStage(e)'
      <4>1. CASE e = d
        BY <4>1, <2>2, <2>4, <3>4, <1>0 DEF DaemonStage, Up, Alive, MainPcs, Threads
      <4>2. CASE e # d
        BY <4>2, <2>2, <3>4, <1>0 DEF DaemonStage, Up
      <4> QED BY <4>1, <4>2
    <3> QED BY <1>6, <2>1, <3>2, <3>5, <3>6, ShapeAfterEnsure DEF SpawnPing
  <2> QED BY <1>6, <2>3, <2>4 DEF SpawnPing
<1>7. CASE PollFinds(c)
  <2>1. apply_stored_runtime(cmd[c].mem, file) \in Mems
    BY <1>7, <1>0, <1>m, RuntimeApplied DEF PollFinds, MemPcs
  <2> QED BY <1>7, <2>1, <1>c, <1>k, <1>p, ShapeGoWith DEF PollFinds
<1>8. CASE PollEnds(c)
  <2>1. cmd[c].mem \in Mems /\ UNCHANGED <<file, pingPid, dbgs, daemons, spawned, missed>>
    BY <1>8, <1>m DEF PollEnds, MemPcs
  <2>2. Done(c) \/ Go(c, "exited")
    BY <1>8 DEF PollEnds
  <2>3. CASE Done(c)
    BY <2>1, <2>3, <1>c, <1>k, ShapeDone
  <2>4. CASE Go(c, "exited")
    BY <2>1, <2>4, <1>c, <1>k, <1>p, ShapeGo
  <2> QED BY <2>2, <2>3, <2>4
<1>9. CASE PostStep(c)
  <2>1. cmd[c].mem \in Mems
    BY <1>9, <1>m DEF PostStep, MemPcs
  <2>2. /\ UNCHANGED <<file, pingPid, ui, stopOf, stops, events, armed, workspace, daemons, spawned,
                       missed>>
        /\ Done(c) \/ Go(c, "poll") \/ Go(c, "drop")
    BY <1>9 DEF PostStep
  <2>3. status' \in [Targets -> {"new", "running", "stopped", "gone"}]
    BY <1>9, <1>0 DEF PostStep, Common
  <2>4. cmd' \in [Clis -> CommandStates] => Common'
    BY <2>2, <2>3, <1>0 DEF Common
  <2>5. DaemonTypes' /\ \A d \in Daemons : DaemonStage(d)'
    BY <2>2, <1>k
  <2>6. CASE Done(c)
    BY <2>4, <2>5, <2>6, ShapeDone
  <2>7. CASE Go(c, "poll")
    BY <2>1, <2>4, <2>5, <2>7, <1>p, ShapeGo
  <2>8. CASE Go(c, "drop")
    BY <2>1, <2>4, <2>5, <2>8, <1>p, ShapeGo
  <2> QED BY <2>2, <2>6, <2>7, <2>8
<1>10. CASE PostStepFails(c) \/ RequestFails(c)
  BY <1>10, <1>c, <1>k, ShapeDone DEF PostStepFails, RequestFails
<1>11. CASE Persist(c)
  <2>1. cmd[c].mem \in Mems
    BY <1>11, <1>m DEF Persist, MemPcs
  <2>2. file' \in Records
    BY <2>1, <1>11, <1>0, PersistRuntime DEF Persist
  <2>3. cmd' \in [Clis -> CommandStates] => Common'
    BY <2>2, <1>11, <1>0, CommonWith DEF Persist
  <2> QED BY <1>11, <2>3, <1>k, ShapeDone DEF Persist
<1>12. CASE PostBreakpoints(c)
  <2>1. cmd[c].mem \in Mems
    BY <1>12, <1>m DEF PostBreakpoints, MemPcs
  <2>2. PICK bps \in SUBSET Breakpoints, pc \in {"targets", "persist"} :
          /\ GoWith(c, pc, [cmd[c].mem EXCEPT !.breakpoints = bps])
          /\ cmd[c].op # "step"
          /\ workspace' = IF ui = cmd[c].mem.session_id THEN bps ELSE workspace
    <3>0. cmd[c].op # "step"
      BY <1>12 DEF PostBreakpoints
    <3>1. CASE \E b \in Breakpoints :
                 /\ GoWith(c, "targets", [cmd[c].mem EXCEPT !.breakpoints = cmd[c].mem.breakpoints \cup {b}])
                 /\ workspace' = IF ui = cmd[c].mem.session_id THEN cmd[c].mem.breakpoints \cup {b} ELSE workspace
      <4>1. \A b \in Breakpoints : cmd[c].mem.breakpoints \cup {b} \in SUBSET Breakpoints
        BY <2>1 DEF Mems
      <4> QED BY <3>0, <3>1, <4>1
    <3>2. CASE /\ GoWith(c, "persist", [cmd[c].mem EXCEPT !.breakpoints = {}])
               /\ workspace' = IF ui = cmd[c].mem.session_id THEN {} ELSE workspace
      BY <3>0, <3>2
    <3> QED BY <1>12, <3>1, <3>2 DEF PostBreakpoints
  <2>3. /\ UNCHANGED <<file, pingPid, ui, status, stopOf, stops, events, armed, daemons, spawned,
                       missed>>
    BY <1>12 DEF PostBreakpoints
  <2>4. cmd' \in [Clis -> CommandStates] => Common'
    BY <2>2, <2>3, <1>0 DEF Common
  <2>5. [cmd[c].mem EXCEPT !.breakpoints = bps] \in Mems
    BY <2>1 DEF Mems
  <2> QED BY <2>2, <2>3, <2>4, <2>5, <1>k, <1>p, ShapeGoWith
<1>13. CASE RequestTargets(c)
  <2> DEFINE seen == TargetsSeenBy(cmd[c].mem.session_id)
             r == [cmd[c] EXCEPT !.pc = "arm", !.todo = seen]
  <2>1. cmd[c].mem \in Mems
    BY <1>13, <1>m DEF RequestTargets, MemPcs
  <2>2. seen \subseteq Targets
    BY DEF TargetsSeenBy, LiveTargets
  <2>3. cmd' = [cmd EXCEPT ![c] = r]
    BY <1>13, <1>0 DEF RequestTargets, TypeOK
  <2> HIDE DEF seen
  <2>4. r \in CommandStates /\ r.pc = "arm" /\ r.mem = cmd[c].mem /\ r.op = cmd[c].op
    BY <2>2, <1>0, <1>p DEF CommandStates
  <2> HIDE DEF r
  <2>5. CommandStage(r)
    BY <2>1, <2>4, <1>13, <1>0 DEF CommandStage, RequestTargets
  <2> QED BY <1>13, <2>3, <2>4, <2>5, <1>c, <1>k, ShapeMove DEF RequestTargets
<1>14. CASE ArmTarget(c)
  <2>1. cmd[c].mem \in Mems /\ cmd[c].pc = "arm"
    BY <1>14, <1>m DEF ArmTarget, MemPcs
  <2>2. CASE cmd[c].todo = {} /\ Go(c, "persist") /\ UNCHANGED dbgs
    BY <1>14, <2>1, <2>2, <1>c, <1>k, <1>p, ShapeGo DEF ArmTarget
  <2>3. ASSUME NEW t \in cmd[c].todo,
               cmd' = [cmd EXCEPT ![c].todo = @ \ {t},
                                  ![c].mem.attached_targets = @ \cup {t},
                                  ![c].mem.last_target_id = t],
               IF t \in cmd[c].mem.attached_targets THEN UNCHANGED dbgs
               ELSE AttachRequest(cmd[c].mem.session_id, t, cmd[c].mem.breakpoints)
        PROVE  Shape'
    <3> DEFINE m == [cmd[c].mem EXCEPT !.attached_targets = @ \cup {t}, !.last_target_id = t]
               r == [cmd[c] EXCEPT !.todo = @ \ {t}, !.mem = m]
    <3>1. t \in Targets /\ cmd \in [Clis -> CommandStates]
      BY <1>0, TypeOK DEF CommandStates, TypeOK
    <3>2. m \in Mems
      BY <2>1, <3>1 DEF Mems
    <3>3. cmd' = [cmd EXCEPT ![c] = r]
      BY <2>1, <2>3, <3>1, <1>0 DEF CommandStates, Mems
    <3> HIDE DEF m
    <3>4. r \in CommandStates /\ r.pc = "arm" /\ r.mem = m /\ r.op = cmd[c].op
      BY <3>2, <2>1, <1>0 DEF CommandStates
    <3> HIDE DEF r
    <3>5. CommandStage(r)
      BY <3>2, <3>4, <2>1, <1>0 DEF CommandStage
    <3>6. UNCHANGED <<file, pingPid, daemons, spawned, missed>>
      BY <1>14 DEF ArmTarget
    <3>7. cmd' \in [Clis -> CommandStates] => Common'
      BY <2>1, <2>3, <3>1, <3>6, <1>0 DEF Common, dbgs, AttachRequest, Mems
    <3> QED BY <3>3, <3>4, <3>5, <3>6, <3>7, <1>k, ShapeMove
  <2> QED BY <1>14, <2>2, <2>3 DEF ArmTarget
<1>15. CASE PostAttach(c)
  <2>1. /\ UNCHANGED <<file, pingPid, daemons, missed>>
        /\ spawned < Len(Sids) /\ spawned' = spawned + 1
    BY <1>15 DEF PostAttach
  <2>2. spawned' \in 0..Len(Sids) /\ spawned + 1 \in DOMAIN Sids
    BY <2>1, <1>0, SidsAreUuids DEF Common
  <2> DEFINE s == Sids[spawned + 1]
  <2>3. s \in SidSet /\ DebugSession(s) \in Mems
    BY <2>2, NewMemory DEF SidSet
  <2>4. RegisterUi(s) \/ UNCHANGED dbgs
    BY <1>15 DEF PostAttach
  <2>5. GoWith(c, "write", DebugSession(s)) \/ Done(c)
    BY <1>15 DEF PostAttach
  <2> HIDE DEF s
  <2>6. cmd' \in [Clis -> CommandStates] => Common'
    <3>1. CASE RegisterUi(s)
      BY <3>1, <2>1, <2>2, <2>3, <1>0, RegisterTyped DEF Common
    <3>2. CASE UNCHANGED dbgs
      BY <3>2, <2>1, <2>2, <1>0 DEF Common, dbgs
    <3> QED BY <2>4, <3>1, <3>2
  <2>7. CASE GoWith(c, "write", DebugSession(s))
    <3>1. cmd[c].op = "attach"
      BY <1>15, <1>0 DEF PostAttach, CommandStage
    <3> QED BY <3>1, <2>1, <2>3, <2>6, <2>7, <1>k, <1>p, ShapeGoWith
  <2>8. CASE Done(c)
    BY <2>1, <2>6, <2>8, <1>k, ShapeDone
  <2> QED BY <2>5, <2>7, <2>8
<1>16. CASE WriteSession(c)
  <2>1. /\ cmd[c].mem.session_id \in SidSet /\ cmd[c].op = "attach"
        /\ file' = write_session(file, attach_args(cmd[c].mem.session_id))
        /\ UNCHANGED <<pingPid, dbgs, daemons, spawned, missed>>
    BY <1>16, <1>0, <1>m DEF WriteSession, MemPcs, Mems, CommandStage
  <2>2. file' \in Records
    BY <2>1, <1>0, AttachWrites
  <2>3. cmd' \in [Clis -> CommandStates] => Common'
    BY <2>1, <2>2, <1>0, CommonWith
  <2> QED BY <1>16, <2>1, <2>3, <1>k, <1>p, ShapeGo DEF WriteSession, MemPcs
<1>17. CASE Prepare(c)
  <2>1. /\ file' = reset_session_runtime(file)
        /\ UNCHANGED <<pingPid, dbgs, daemons, spawned>>
        /\ missed' = missed \/ missed' = missed \cup DroppedStop
        /\ Done(c) \/ Go(c, "ensure")
        /\ cmd[c].op = "prepare"
    BY <1>17, <1>0 DEF Prepare, CommandStage
  <2>2. file' \in Records \cup {Null} /\ missed' \subseteq Nat
    BY <2>1, <1>0, RuntimeReset, DroppedStopTyped
  <2>3. cmd' \in [Clis -> CommandStates] => Common'
    BY <2>1, <2>2, CommonWith
  <2>4. CASE Done(c)
    BY <2>1, <2>3, <2>4, <1>k, ShapeDone
  <2>5. CASE Go(c, "ensure")
    BY <2>1, <2>3, <2>5, <1>k, <1>p, ShapeGo DEF MemPcs
  <2> QED BY <2>1, <2>4, <2>5
<1>18. CASE KillPing(c)
  <2>1. /\ pingPid' = Null /\ Go(c, "detach") /\ UNCHANGED <<file, dbgs, spawned>>
        /\ \/ UNCHANGED <<daemons, missed>>
           \/ pingPid # Null /\ Exit(pingPid.daemon) /\ missed' = missed \cup Unwritten(pingPid.daemon)
    BY <1>18 DEF KillPing
  <2>2. DaemonTypes' /\ (\A d \in Daemons : DaemonStage(d)') /\ missed' \subseteq Nat
    <3>1. CASE UNCHANGED <<daemons, missed>>
      BY <3>1, <1>0, <1>k
    <3>2. CASE pingPid # Null /\ Exit(pingPid.daemon) /\ missed' = missed \cup Unwritten(pingPid.daemon)
      <4>1. pingPid.daemon \in Daemons
        BY <3>2, <1>0 DEF Common, Pids
      <4>2. Unwritten(pingPid.daemon) \subseteq Nat
        BY <4>1, <1>0, HitsAreNat DEF Unwritten, DaemonTypes
      <4> QED BY <3>2, <4>1, <4>2, <1>0, DaemonEnds
    <3> QED BY <2>1, <3>1, <3>2
  <2>3. cmd' \in [Clis -> CommandStates] => Common'
    BY <2>1, <2>2, <1>0 DEF Common, dbgs
  <2> QED BY <2>1, <2>2, <2>3, <1>p, ShapeGo DEF MemPcs
<1>19. CASE PostDetach(c)
  <2>1. /\ UNCHANGED <<file, pingPid, daemons, spawned, missed>>
        /\ RegisterUi(Null) \/ UNCHANGED dbgs
        /\ Done(c) \/ Go(c, "remove")
    BY <1>19 DEF PostDetach
  <2>2. cmd' \in [Clis -> CommandStates] => Common'
    <3>1. CASE RegisterUi(Null)
      BY <3>1, <2>1, <1>0, RegisterTyped DEF Common
    <3>2. CASE UNCHANGED dbgs
      BY <3>2, <2>1, <1>0 DEF Common, dbgs
    <3> QED BY <2>1, <3>1, <3>2
  <2>3. CASE Done(c)
    BY <2>1, <2>2, <2>3, <1>k, ShapeDone
  <2>4. CASE Go(c, "remove")
    BY <2>1, <2>2, <2>4, <1>k, <1>p, ShapeGo DEF MemPcs
  <2> QED BY <2>1, <2>3, <2>4
<1>20. CASE ClearSession(c)
  <2>1. cmd' \in [Clis -> CommandStates] => Common'
    BY <1>20, <1>0 DEF ClearSession, Common, dbgs
  <2> QED BY <1>20, <2>1, <1>k, ShapeDone DEF ClearSession
<1> QED
  BY <1>1, <1>2, <1>3, <1>4, <1>5, <1>6, <1>7, <1>8, <1>9, <1>10, <1>11, <1>12, <1>13, <1>14,
     <1>15, <1>16, <1>17, <1>18, <1>19, <1>20
     DEF Command

LEMMA ShapeNext == Shape /\ [Next]_vars => Shape'
<1>1. Shape /\ UNCHANGED vars => Shape'
  <2> SUFFICES ASSUME Shape, UNCHANGED vars PROVE Shape'
    OBVIOUS
  <2>1. DaemonTypes' /\ \A d \in Daemons : DaemonStage(d)'
    BY DaemonsKept DEF vars
  <2>2. Common'
    <3>1. Common
      BY TypesSplit DEF Shape
    <3> QED BY <3>1 DEF Common, vars, dbgs
  <2>3. \A c \in Clis : CommandStage(cmd[c])'
    BY DEF Shape, CommandStage, Holding, vars
  <2> QED BY <2>1, <2>2, <2>3, TypesSplitNext DEF Shape
<1> QED BY <1>1, ShapeClient, ShapeDaemon, ShapeCommand DEF Next

LEMMA ShapeInvariant == Spec => []Shape
BY ShapeInit, ShapeNext, PTL DEF Spec

\* Types: every variable keeps its type, whatever the number of terminals, and a daemon
\* past its bootstrap serves a session (ping_worker.py _bootstrap, state.py, common.py).
THEOREM Types == Spec => []TypeOK
<1>1. Shape => TypeOK
  BY DEF Shape
<1> QED BY <1>1, ShapeInvariant, PTL

-----------------------------------------------------------------------------
(* What a step of a daemon and of a client may do to the rest. *)

\* A daemon keeps the session of the record, attaches targets only for the session it
\* serves and starts no other daemon.
LEMMA DaemonEffect ==
  ASSUME Shape, NEW d \in Daemons, Daemon(d)
  PROVE  /\ UNCHANGED <<cmd, pingPid, spawned, ui, status, stopOf, stops>>
         /\ file = Null => file' = Null
         /\ file # Null => file' # Null /\ file'.sessionId = file.sessionId
         /\ armed' = armed \/ ui = sid[d]
         /\ \A e \in Daemons : /\ Alive(e)' => Alive(e)
                               /\ \/ sid'[e] = sid[e]
                                  \/ sid'[e] = Null
                                  \/ file # Null /\ sid'[e] = file.sessionId
<1> USE DEF dbgs, daemons
<1>0. /\ DaemonTypes /\ DaemonStage(d) /\ file \in Records \cup {Null}
      /\ "main" \in Threads /\ "scan" \in Threads
  BY TypesSplit DEF Shape, Threads, Common
<1>1. UNCHANGED <<cmd, pingPid, spawned, ui, status, stopOf, stops>>
  BY DEF Daemon, MainThread, ScanThread, Bootstrap, CheckSession, PingDelivers, PingEmpty,
         AttachTarget, AttachPost, AttachRequest, AttachSave, PersistStop, Scan, Prune, Crash,
         AttachFails
\* The record.
<1>2. \/ file' = file
      \/ \E T \in SUBSET Targets : file' = persist_targets(file, sid[d], T)
      \/ \E stop \in Stops : file' = persist_stop(file, stop)
  <2>1. ASSUME NEW x \in Threads, AttachSave(d, x)
        PROVE  \E T \in SUBSET Targets : file' = persist_targets(file, sid[d], T)
    <3>1. mem[d] \in Mems
      BY <2>1, <1>0 DEF AttachSave, DaemonStage, Threads, Up, MainPcs
    <3> QED BY <2>1, <3>1 DEF AttachSave, Mems
  <2>2. ASSUME Prune(d)
        PROVE  file' = file \/ \E T \in SUBSET Targets : file' = persist_targets(file, sid[d], T)
    <3>1. mem[d] \in Mems
      BY <2>2, <1>0 DEF Prune, DaemonStage, Threads, Up, MainPcs
    <3>2. mem[d].attached_targets \ (mem[d].attached_targets \ live[d]) \in SUBSET Targets
      BY <3>1 DEF Mems
    <3> QED BY <2>2, <3>2 DEF Prune
  <2>3. ASSUME PersistStop(d)
        PROVE  file' = file \/ \E stop \in Stops : file' = persist_stop(file, stop)
    <3> DEFINE formed == EventsOf(body[d], "callStackFormed")
               event == body[d][First(formed)]
    <3>1. formed # {} => event \in Events
      BY <1>0, FirstEvent DEF DaemonTypes
    <3>2. formed # {} => [tid |-> event.tid, hit |-> event.hit] \in Stops
      BY <3>1 DEF Events, Stops
    <3>3. IF formed = {} THEN file' = file
          ELSE file' = persist_stop(file, [tid |-> event.tid, hit |-> event.hit])
      BY <2>3 DEF PersistStop
    <3> HIDE DEF formed, event
    <3> QED BY <3>2, <3>3
  <2>4. file' = file \/ (\E x \in Threads : AttachSave(d, x)) \/ Prune(d) \/ PersistStop(d)
    BY <1>0 DEF Daemon, MainThread, ScanThread, Bootstrap, CheckSession, PingDelivers, PingEmpty,
           AttachTarget, AttachPost, Scan, Crash, AttachFails
  <2> QED BY <2>1, <2>2, <2>3, <2>4
<1>3. /\ file = Null => file' = Null
      /\ file # Null => file' # Null /\ file'.sessionId = file.sessionId
  BY <1>2, <1>0, TargetsWritten, StopPersisted
<1>4. armed' = armed \/ ui = sid[d]
  BY DEF Daemon, MainThread, ScanThread, Bootstrap, CheckSession, PingDelivers, PingEmpty,
         AttachTarget, AttachPost, AttachRequest, AttachSave, PersistStop, Scan, Prune, Crash,
         AttachFails
\* The threads: only a daemon that runs takes a step.
<1>5. Alive(d)
  BY <1>0 DEF Daemon, MainThread, ScanThread, Bootstrap, CheckSession, PingDelivers, PingEmpty,
         AttachTarget, AttachPost, AttachSave, PersistStop, Scan, Prune, Crash,
         AttachFails, Alive, DaemonStage, Up, MainPcs, Threads
<1>6. \A e \in Daemons \ {d} : thread'[e] = thread[e]
  BY <1>0 DEF Daemon, MainThread, ScanThread, Bootstrap, CheckSession, PingDelivers, PingEmpty,
         AttachTarget, AttachPost, AttachSave, PersistStop, Scan, Prune, Crash,
         AttachFails, Become, Exit, DaemonTypes
<1>7. \/ sid' = sid
      \/ sid' = [sid EXCEPT ![d] = Null]
      \/ file # Null /\ sid' = [sid EXCEPT ![d] = file.sessionId]
  BY DEF Daemon, MainThread, ScanThread, Bootstrap, CheckSession, PingDelivers, PingEmpty,
         AttachTarget, AttachPost, AttachSave, PersistStop, Scan, Prune, Crash,
         AttachFails, Exit
<1>8. \A e \in Daemons : /\ Alive(e)' => Alive(e)
                         /\ \/ sid'[e] = sid[e]
                            \/ sid'[e] = Null
                            \/ file # Null /\ sid'[e] = file.sessionId
  BY <1>0, <1>5, <1>6, <1>7 DEF Alive, DaemonTypes
<1> QED BY <1>1, <1>3, <1>4, <1>8

\* Only an attached target stops.
LEMMA ClientEffect ==
  ASSUME Shape, Client
  PROVE  /\ UNCHANGED <<file, pingPid, daemons, cmd, spawned, missed, ui, armed>>
         /\ \A t \in Targets : status'[t] = "stopped" => status[t] = "stopped" \/ t \in armed
<1>1. UNCHANGED <<file, pingPid, daemons, cmd, spawned, missed, ui, armed>>
  BY DEF Client, StartTarget, Stop, Quit
<1>2. \A t \in Targets : status'[t] = "stopped" => status[t] = "stopped" \/ t \in armed
  BY DEF Client, StartTarget, Stop, Quit, Shape, TypeOK
<1> QED BY <1>1, <1>2

-----------------------------------------------------------------------------
(* One reader: with one terminal there is one daemon. *)

\* Arming keeps the session and the stop of the command.
LEMMA ArmEffect ==
  ASSUME Shape, NEW c \in Clis, ArmTarget(c)
  PROVE  /\ cmd[c].pc = "arm" /\ cmd'[c].pc \in {"arm", "persist"}
         /\ cmd'[c].op = cmd[c].op /\ cmd'[c].pinned = cmd[c].pinned
         /\ cmd[c].mem # Null /\ cmd'[c].mem # Null
         /\ cmd'[c].mem.session_id = cmd[c].mem.session_id
         /\ cmd'[c].mem.last_stop = cmd[c].mem.last_stop
<1>1. cmd[c] \in CommandStates /\ cmd \in [Clis -> CommandStates]
  BY DEF Shape, TypeOK
<1>2. cmd[c].pc = "arm" /\ cmd[c].mem \in Mems
  BY DEF ArmTarget, Shape, CommandStage, Holding, MemPcs
<1>3. CASE Go(c, "persist")
  BY <1>1, <1>2, <1>3, NullIsNoValue DEF Go, CommandStates
<1>4. ASSUME NEW t \in cmd[c].todo,
             cmd' = [cmd EXCEPT ![c].todo = @ \ {t},
                                ![c].mem.attached_targets = @ \cup {t},
                                ![c].mem.last_target_id = t]
      PROVE  /\ cmd'[c].pc \in {"arm", "persist"}
             /\ cmd'[c].op = cmd[c].op /\ cmd'[c].pinned = cmd[c].pinned
             /\ cmd'[c].mem \in Mems
             /\ cmd'[c].mem.session_id = cmd[c].mem.session_id
             /\ cmd'[c].mem.last_stop = cmd[c].mem.last_stop
  <2> DEFINE m == [cmd[c].mem EXCEPT !.attached_targets = @ \cup {t}, !.last_target_id = t]
             r == [cmd[c] EXCEPT !.todo = @ \ {t}, !.mem = m]
  <2>1. t \in Targets
    BY <1>1 DEF CommandStates
  <2>2. m \in Mems /\ m.session_id = cmd[c].mem.session_id /\ m.last_stop = cmd[c].mem.last_stop
    BY <1>2, <2>1 DEF Mems
  <2>3. cmd' = [cmd EXCEPT ![c] = r]
    BY <1>1, <1>2, <1>4 DEF CommandStates, Mems
  <2> HIDE DEF m
  <2>4. r.pc = "arm" /\ r.op = cmd[c].op /\ r.pinned = cmd[c].pinned /\ r.mem = m
    BY <1>1, <1>2 DEF CommandStates
  <2> HIDE DEF r
  <2> QED BY <2>2, <2>3, <2>4, <1>1
<1> QED BY <1>2, <1>3, <1>4, NullIsNoValue DEF ArmTarget

\* What a command may do to the daemons: nothing, end the one ping.pid names, or start
\* one where none runs.
LEMMA CommandDaemons ==
  ASSUME Shape, NEW c \in Clis, Command(c)
  PROVE  \/ /\ UNCHANGED <<daemons, pingPid>>
            /\ cmd'[c].pc = "spawn" => cmd[c].pc = "ensure" /\ EnsurePing(c)
         \/ EnsurePing(c) \/ SpawnPing(c) \/ KillPing(c)
<1>1. cmd[c] \in CommandStates /\ cmd \in [Clis -> CommandStates]
  BY DEF Shape, TypeOK
<1>2. CASE StartCommand(c) \/ Restore(c)
  <2>1. StartCommand(c) => cmd'[c].pc # "spawn"
    BY <1>1 DEF StartCommand, Idle
  <2>2. Restore(c) => cmd'[c].pc # "spawn"
    <3> SUFFICES ASSUME Restore(c) PROVE cmd'[c].pc # "spawn"
      OBVIOUS
    <3>1. cmd[c].op \in RestoreOps
      BY DEF Restore, Shape, CommandStage
    <3> QED BY <1>1, <3>1 DEF Restore, Done, Idle, RestoreOps, WaitOps, CommandStates
  <2> QED BY <1>2, <2>1, <2>2 DEF StartCommand, Restore
<1>3. CASE \/ ClearForFreshWait(c) \/ PollFinds(c) \/ PollEnds(c) \/ ClearAfterExit(c)
           \/ ClearBeforeStep(c) \/ PostStep(c) \/ PostStepFails(c) \/ ClearAfterStep(c)
           \/ Persist(c) \/ PostBreakpoints(c) \/ RequestTargets(c) \/ RequestFails(c)
           \/ PostAttach(c) \/ WriteSession(c) \/ Prepare(c) \/ PostDetach(c) \/ ClearSession(c)
  <2>1. \A pc \in CommandPcs : Go(c, pc) => cmd'[c].pc = pc
    BY <1>1 DEF Go, CommandStates
  <2>2. \A pc \in CommandPcs : \A m : GoWith(c, pc, m) => cmd'[c].pc = pc
    BY <1>1 DEF GoWith, CommandStates
  <2>3. Done(c) => cmd'[c].pc = "idle"
    BY <1>1 DEF Done, Idle
  <2>4. RequestTargets(c) => cmd'[c].pc = "arm"
    BY <1>1 DEF RequestTargets, CommandStates
  <2>5. {"ensure", "persist", "exited", "post", "poll", "drop", "targets", "write", "remove"}
          \subseteq CommandPcs
    BY DEF CommandPcs, MemPcs
  <2>6. cmd'[c].pc # "spawn"
    BY <1>3, <2>1, <2>2, <2>3, <2>4, <2>5
       DEF ClearForFreshWait, PollFinds, PollEnds, ClearAfterExit, ClearBeforeStep, PostStep,
           PostStepFails, ClearAfterStep, Persist, PostBreakpoints, RequestFails, PostAttach,
           WriteSession, Prepare, PostDetach, ClearSession
  <2>7. UNCHANGED <<daemons, pingPid>>
    BY <1>3
       DEF ClearForFreshWait, PollFinds, PollEnds, ClearAfterExit, ClearBeforeStep, PostStep,
           PostStepFails, ClearAfterStep, Persist, PostBreakpoints, RequestFails, PostAttach,
           WriteSession, Prepare, PostDetach, ClearSession, PersistCleared, RequestTargets
  <2> QED BY <2>6, <2>7
<1>4. CASE ArmTarget(c)
  <2>1. UNCHANGED <<daemons, pingPid>>
    BY <1>4 DEF ArmTarget
  <2> QED BY <1>4, <2>1, ArmEffect
<1> QED BY <1>2, <1>3, <1>4 DEF Command

LEMMA ReaderNext ==
  ASSUME Shape, Reader, OneTerminal, [Next]_vars
  PROVE  Reader'
<1>0. /\ cmd \in [Clis -> CommandStates] /\ pingPid \in Pids \cup {Null} /\ DaemonTypes
      /\ "main" \in Threads
  BY TypesSplit DEF Shape, TypeOK, Threads
<1>1. CASE UNCHANGED <<daemons, pingPid, cmd>>
  BY <1>1 DEF Reader, Alive, daemons
<1>2. ASSUME NEW d \in Daemons, Daemon(d)
      PROVE  Reader'
  BY <1>2, DaemonEffect DEF Reader, Alive
<1>3. ASSUME NEW c \in Clis, Command(c)
      PROVE  Reader'
  <2>0. \A b \in Clis : b = c
    BY DEF OneTerminal
  <2>1. CASE /\ UNCHANGED <<daemons, pingPid>> /\ cmd'[c].pc # "spawn"
    BY <2>0, <2>1 DEF Reader, Alive, daemons
  <2>2. CASE EnsurePing(c)
    <3> DEFINE running == pingPid # Null /\ Alive(pingPid.daemon)
    <3>1. \A d \in Daemons : Alive(d) => running /\ d = pingPid.daemon
      BY DEF Reader
    <3>2. CASE file = Null \/ (running /\ pingPid.sessionId = file.sessionId)
      <4>1. /\ UNCHANGED daemons /\ pingPid' = (IF running THEN pingPid ELSE Null)
            /\ IF AfterEnsure(cmd[c].op) = "idle" THEN Done(c) ELSE Go(c, AfterEnsure(cmd[c].op))
        BY <2>2, <3>2 DEF EnsurePing
      <4>2. cmd'[c].pc # "spawn"
        BY <1>0, <4>1 DEF Done, Go, Idle, AfterEnsure, CommandStates
      <4>3. \A d \in Daemons : Alive(d)' => Alive(d)
        BY <4>1 DEF Alive, daemons
      <4> QED BY <2>0, <3>1, <4>1, <4>2, <4>3 DEF Reader
    <3>3. CASE ~(file = Null \/ (running /\ pingPid.sessionId = file.sessionId))
      <4>1. IF running THEN Exit(pingPid.daemon) ELSE UNCHANGED daemons
        BY <2>2, <3>3 DEF EnsurePing
      <4>2. ASSUME NEW d \in Daemons PROVE ~Alive(d)'
        <5>1. CASE running
          <6>1. pingPid.daemon \in Daemons
            BY <5>1, <1>0 DEF Pids
          <6>2. thread'[pingPid.daemon] = [x \in Threads |-> Off]
                /\ \A e \in Daemons \ {pingPid.daemon} : thread'[e] = thread[e]
            BY <4>1, <5>1, <6>1, <1>0, Exits
          <6> QED BY <3>1, <6>2, <1>0 DEF Alive, Off
        <5>2. CASE ~running
          BY <3>1, <4>1, <5>2 DEF Alive, daemons
        <5> QED BY <5>1, <5>2
      <4> QED BY <4>2 DEF Reader
    <3> QED BY <3>2, <3>3
  <2>3. CASE SpawnPing(c)
    <3>1. \A d \in Daemons : ~Alive(d)
      BY <2>3 DEF SpawnPing, Reader
    <3>2. cmd'[c].pc # "spawn"
      BY <1>0, <2>3 DEF SpawnPing, Done, Go, Idle, AfterEnsure, CommandStates
    <3>3. CASE UNCHANGED <<thread, pingPid>>
      BY <2>0, <3>1, <3>2, <3>3 DEF Reader, Alive
    <3>4. ASSUME NEW d \in Daemons, Become(d, "main", "boot", {}, Null),
                 pingPid' = [daemon |-> d, sessionId |-> cmd[c].sessionId]
          PROVE  Reader'
      <4>1. cmd[c].sessionId \in SidSet
        BY <2>3 DEF SpawnPing, Shape, CommandStage
      <4>2. pingPid' # Null /\ pingPid'.daemon = d
        BY <3>4, <4>1, NullIsNoValue DEF Pids
      <4>3. \A e \in Daemons \ {d} : thread'[e] = thread[e]
        BY <3>4, <1>0 DEF Become, DaemonTypes
      <4> QED BY <2>0, <3>1, <3>2, <4>2, <4>3 DEF Reader, Alive
    <3> QED BY <2>3, <3>3, <3>4 DEF SpawnPing
  <2>4. CASE KillPing(c)
    <3>1. cmd'[c].pc # "spawn"
      BY <1>0, <2>4 DEF KillPing, Go, CommandStates
    <3>2. ASSUME NEW d \in Daemons PROVE ~Alive(d)'
      <4>1. CASE pingPid # Null /\ Alive(pingPid.daemon)
        <5>1. pingPid.daemon \in Daemons
          BY <4>1, <1>0 DEF Pids
        <5>2. thread'[pingPid.daemon] = [x \in Threads |-> Off]
              /\ \A e \in Daemons \ {pingPid.daemon} : thread'[e] = thread[e]
          BY <2>4, <4>1, <5>1, <1>0, Exits DEF KillPing
        <5> QED BY <5>2, <1>0 DEF Alive, Off, Reader
      <4>2. CASE ~(pingPid # Null /\ Alive(pingPid.daemon))
        BY <2>4, <4>2 DEF Alive, daemons, KillPing, Reader
      <4> QED BY <4>1, <4>2
    <3> QED BY <3>2 DEF Reader
  <2> QED BY <1>3, <2>1, <2>2, <2>3, <2>4, CommandDaemons
<1> QED BY <1>1, <1>2, <1>3 DEF Next, Client, StartTarget, Stop, Quit, vars

LEMMA ReaderInit == Init => Reader
BY DEF Init, Reader, Alive, Off, Idle, Threads

-----------------------------------------------------------------------------
(* Session ids: with one terminal a command works on the session on disk. *)

LEMMA GoEffect ==
  ASSUME Shape, NEW c \in Clis, NEW pc \in CommandPcs, Go(c, pc)
  PROVE  /\ cmd'[c].pc = pc /\ cmd'[c].op = cmd[c].op /\ cmd'[c].mem = cmd[c].mem
         /\ cmd'[c].pinned = cmd[c].pinned
BY DEF Shape, TypeOK, Go, CommandStates

LEMMA GoWithEffect ==
  ASSUME Shape, NEW c \in Clis, NEW pc \in CommandPcs, NEW m, GoWith(c, pc, m)
  PROVE  /\ cmd'[c].pc = pc /\ cmd'[c].op = cmd[c].op /\ cmd'[c].mem = m
         /\ cmd'[c].pinned = cmd[c].pinned
BY DEF Shape, TypeOK, GoWith, CommandStates

LEMMA DoneEffect ==
  ASSUME Shape, NEW c \in Clis, Done(c)
  PROVE  /\ cmd'[c].pc = "idle" /\ cmd'[c].op = "none" /\ cmd'[c].mem = Null
         /\ cmd'[c].pinned = 0
BY DEF Shape, TypeOK, Done, Idle

LEMMA Places ==
  /\ {"idle", "attach", "prepare", "kill", "detach", "remove", "restore", "ensure", "spawn",
      "fresh", "clear", "post", "drop", "exited", "poll", "persist", "bp", "targets", "arm",
      "write"} \subseteq CommandPcs
  /\ MemPcs \subseteq CommandPcs
BY DEF CommandPcs, MemPcs

\* Where ensure_background_ping leaves the command.
LEMMA EnsureEffect ==
  ASSUME Shape, NEW c \in Clis, EnsurePing(c) \/ SpawnPing(c)
  PROVE  /\ UNCHANGED <<file, dbgs, spawned>>
         /\ cmd[c].pc \in {"ensure", "spawn"}
         /\ cmd'[c].mem = Null \/ cmd'[c].mem = cmd[c].mem
         /\ cmd'[c].pc \in {"idle", "spawn", "poll", "clear", "post"}
         /\ cmd'[c].pinned = 0 \/ cmd'[c].pinned = cmd[c].pinned
         /\ cmd'[c].pc = "idle" => cmd'[c].mem = Null
         /\ cmd'[c].pc # "idle" => /\ cmd'[c].op = cmd[c].op /\ cmd'[c].pinned = cmd[c].pinned
                                   /\ cmd'[c].mem = cmd[c].mem
         /\ Holding(cmd'[c]) => Holding(cmd[c]) /\ cmd'[c].mem = cmd[c].mem
         /\ cmd[c].op = "step" => cmd'[c].pc \in {"idle", "spawn", "clear"}
<1>0. cmd \in [Clis -> CommandStates] /\ cmd[c] \in CommandStates
  BY DEF Shape, TypeOK
<1> DEFINE next == AfterEnsure(cmd[c].op)
<1>1. /\ next \in {"idle", "poll", "clear", "post"}
      /\ next # "idle" => cmd[c].op \in WaitOps
      /\ cmd[c].op = "step" => next = "clear"
  BY DEF AfterEnsure, WaitOps
<1>2. UNCHANGED <<file, dbgs, spawned>> /\ cmd[c].pc \in {"ensure", "spawn"}
  BY DEF EnsurePing, SpawnPing
<1>3. \/ IF next = "idle" THEN Done(c) ELSE Go(c, next)
      \/ cmd' = [cmd EXCEPT ![c].pc = "spawn", ![c].sessionId = file.sessionId]
  BY DEF EnsurePing, SpawnPing
<1> HIDE DEF next
<1>4. CASE next = "idle" /\ Done(c)
  BY <1>2, <1>4, DoneEffect DEF Holding, MemPcs
<1>5. CASE next # "idle" /\ Go(c, next)
  <2>1. next \in CommandPcs
    BY <1>1, Places
  <2> QED BY <1>1, <1>2, <1>5, <2>1, GoEffect DEF Holding, MemPcs
<1>6. CASE cmd' = [cmd EXCEPT ![c].pc = "spawn", ![c].sessionId = file.sessionId]
  <2>1. /\ cmd'[c].pc = "spawn" /\ cmd'[c].op = cmd[c].op /\ cmd'[c].mem = cmd[c].mem
        /\ cmd'[c].pinned = cmd[c].pinned
    BY <1>0, <1>6 DEF CommandStates
  <2> QED BY <1>2, <2>1 DEF Holding, MemPcs
<1> QED BY <1>3, <1>4, <1>5, <1>6

LEMMA UsedIds ==
  ASSUME Shape
  PROVE  /\ Used \subseteq SidSet /\ Null \notin Used
         /\ spawned < Len(Sids) => /\ Sids[spawned + 1] \notin Used
                                   /\ Sids[spawned + 1] # Null
<1>1. spawned \in 0..Len(Sids) /\ Len(Sids) \in Nat
  BY SidsAreUuids DEF Shape, TypeOK
<1>2. \A i \in 1..spawned : i \in DOMAIN Sids
  BY <1>1, SidsAreUuids
<1>3. spawned < Len(Sids) => spawned + 1 \in DOMAIN Sids /\ spawned + 1 \notin 1..spawned
  BY <1>1, SidsAreUuids
<1> QED BY <1>2, <1>3, SidsAreUuids DEF Used, SidSet

\* A step of a command that draws no id.
LEMMA AloneMove ==
  ASSUME Shape, IdsUsed, OneTerminal, NEW c \in Clis,
         spawned' = spawned, ui' \in {ui, Null},
         \A d \in Daemons : sid'[d] \in {sid[d], Null},
         \/ file' = Null
         \/ file # Null /\ file'.sessionId = file.sessionId
         \/ cmd[c].mem # Null /\ file'.sessionId = cmd[c].mem.session_id,
         \/ cmd'[c].mem = Null
         \/ cmd[c].mem # Null /\ cmd'[c].mem.session_id = cmd[c].mem.session_id
         \/ file # Null /\ cmd'[c].mem.session_id = file.sessionId,
         cmd'[c].pc # "write",
         Holding(cmd'[c]) => file' # Null /\ file'.sessionId = cmd'[c].mem.session_id
  PROVE  IdsUsed' /\ \A b \in Clis : Sessions(b)'
<1>1. \A b \in Clis : b = c
  BY DEF OneTerminal
<1>2. Used' = Used
  BY DEF Used
<1>3. IdsUsed'
  BY <1>1, <1>2 DEF IdsUsed
<1>4. Sessions(c)'
  BY DEF Sessions, Holding
<1> QED BY <1>1, <1>3, <1>4

LEMMA AloneDaemon ==
  ASSUME Shape, IdsUsed, \A c \in Clis : Sessions(c), NEW d \in Daemons, Daemon(d)
  PROVE  IdsUsed' /\ \A c \in Clis : Sessions(c)'
<1>0. /\ UNCHANGED <<cmd, spawned, ui, status>>
      /\ file = Null => file' = Null
      /\ file # Null => file' # Null /\ file'.sessionId = file.sessionId
      /\ armed' = armed \/ ui = sid[d]
      /\ \A e \in Daemons : sid'[e] = sid[e] \/ sid'[e] = Null \/ (file # Null /\ sid'[e] = file.sessionId)
  BY DaemonEffect
<1>1. Used' = Used
  BY <1>0 DEF Used
<1>2. IdsUsed'
  BY <1>0, <1>1 DEF IdsUsed
<1>3. ASSUME NEW c \in Clis PROVE Sessions(c)'
  <2>1. CASE cmd[c].pc = "write"
    <3>1. cmd[c].mem \in Mems
      BY <2>1 DEF Shape, CommandStage, Holding, MemPcs
    <3>2. cmd[c].mem.session_id # Null
      BY <3>1, SidsAreUuids DEF Mems, SidSet
    <3> QED BY <1>0, <2>1, <3>2 DEF Sessions, Holding
  <2>2. CASE cmd[c].pc # "write"
    BY <1>0, <2>2 DEF Sessions, Holding
  <2> QED BY <2>1, <2>2
<1> QED BY <1>2, <1>3

LEMMA AloneCommand ==
  ASSUME Shape, IdsUsed, \A c \in Clis : Sessions(c), OneTerminal, NEW c \in Clis, Command(c)
  PROVE  IdsUsed' /\ \A b \in Clis : Sessions(b)'
<1>0. /\ file \in Records \cup {Null} /\ cmd[c] \in CommandStates /\ cmd \in [Clis -> CommandStates]
      /\ DaemonTypes /\ pingPid \in Pids \cup {Null}
      /\ CommandStage(cmd[c]) /\ Sessions(c)
  BY TypesSplit DEF Shape, TypeOK
<1>1. /\ Holding(cmd[c]) => cmd[c].mem \in Mems /\ cmd[c].mem # Null
      /\ Holding(cmd[c]) /\ cmd[c].pc # "write" =>
           file # Null /\ file.sessionId = cmd[c].mem.session_id
  BY <1>0, NullIsNoValue DEF CommandStage, Sessions
<1>2. \A pc \in MemPcs : cmd[c].pc = pc => Holding(cmd[c])
  BY DEF Holding
<1>3. \A k : Holding(k) => k.pc \in MemPcs \cup {"ensure", "spawn"}
  BY DEF Holding
<1> USE DEF MemPcs
<1>4. CASE StartCommand(c)
  <2>1. cmd'[c].mem = Null /\ cmd'[c].pc \in {"attach", "prepare", "kill", "restore"}
    BY <1>4, <1>0 DEF StartCommand, Idle
  <2>2. UNCHANGED <<spawned, ui, sid, file>>
    BY <1>4 DEF StartCommand, dbgs, daemons
  <2> QED BY <2>1, <2>2, <1>3, AloneMove
<1>5. CASE Restore(c)
  <2>1. UNCHANGED <<spawned, ui, sid, file>>
    BY <1>5 DEF Restore, dbgs, daemons
  <2>2. CASE file = Null
    <3>1. cmd'[c].mem = Null /\ cmd'[c].pc = "idle"
      BY <1>5, <2>2, DoneEffect DEF Restore
    <3> QED BY <2>1, <3>1, <1>3, AloneMove
  <2>3. CASE file # Null
    <3>1. cmd[c].op \in RestoreOps
      BY <1>0, <1>5 DEF Restore, CommandStage
    <3>2. /\ cmd'[c].mem = restore_session(file)
          /\ cmd'[c].pc \in {"fresh", "ensure", "bp", "targets"}
      BY <1>0, <1>5, <2>3, <3>1 DEF Restore, CommandStates, RestoreOps, WaitOps
    <3>3. cmd'[c].mem.session_id = file.sessionId
      BY <3>2, <2>3, <1>0, SessionRestored
    <3> QED BY <2>1, <2>3, <3>2, <3>3, AloneMove
  <2> QED BY <2>2, <2>3
<1>6. CASE ClearForFreshWait(c) \/ ClearBeforeStep(c) \/ ClearAfterExit(c) \/ ClearAfterStep(c)
  <2>1. Holding(cmd[c]) /\ PersistCleared(c) /\ cmd[c].mem \in Mems
    BY <1>6, <1>1, <1>2 DEF ClearForFreshWait, ClearBeforeStep, ClearAfterExit, ClearAfterStep
  <2>2. /\ file' # Null /\ file'.sessionId = cmd[c].mem.session_id
        /\ UNCHANGED <<spawned, ui, sid>>
    BY <2>1, PersistClearedTyped DEF dbgs, daemons
  <2>3. /\ cmd'[c].mem = Null \/ cmd'[c].mem.session_id = cmd[c].mem.session_id
        /\ cmd'[c].pc \in {"idle", "ensure", "post"}
        /\ cmd'[c].pc # "idle" => cmd'[c].mem.session_id = cmd[c].mem.session_id
    <3> DEFINE m == [cmd[c].mem EXCEPT !.last_stop = Null]
    <3>1. m.session_id = cmd[c].mem.session_id
      BY <2>1, MemCleared
    <3>2. Done(c) \/ GoWith(c, "ensure", m) \/ GoWith(c, "post", m)
      BY <1>6 DEF ClearForFreshWait, ClearBeforeStep, ClearAfterExit, ClearAfterStep
    <3> HIDE DEF m
    <3>3. CASE Done(c)
      BY <3>3, DoneEffect
    <3>4. CASE GoWith(c, "ensure", m) \/ GoWith(c, "post", m)
      BY <3>1, <3>4, GoWithEffect, Places
    <3> QED BY <3>2, <3>3, <3>4
  <2>4. Holding(cmd'[c]) => cmd'[c].pc # "idle"
    BY <1>3
  <2> QED BY <1>1, <2>1, <2>2, <2>3, <2>4, AloneMove
<1>7. CASE EnsurePing(c) \/ SpawnPing(c)
  <2>1. /\ UNCHANGED <<file, spawned, ui>>
        /\ cmd'[c].mem = Null \/ cmd'[c].mem = cmd[c].mem
        /\ cmd'[c].pc # "write"
        /\ Holding(cmd'[c]) => Holding(cmd[c]) /\ cmd'[c].mem = cmd[c].mem
        /\ cmd[c].pc # "write"
    BY <1>7, EnsureEffect DEF dbgs
  <2>2. \A d \in Daemons : sid'[d] \in {sid[d], Null}
    <3>1. CASE UNCHANGED sid
      BY <3>1
    <3>2. CASE pingPid # Null /\ Exit(pingPid.daemon)
      BY <3>2, <1>0 DEF Exit, DaemonTypes
    <3> QED BY <1>7, <3>1, <3>2 DEF EnsurePing, SpawnPing, daemons
  <2>3. cmd'[c].mem = Null \/ (cmd[c].mem # Null /\ cmd'[c].mem.session_id = cmd[c].mem.session_id)
    BY <2>1
  <2> QED BY <1>1, <2>1, <2>2, <2>3, AloneMove
<1>8. CASE PollFinds(c)
  <2>1. Holding(cmd[c]) /\ UNCHANGED <<spawned, ui, sid, file>>
    BY <1>8, <1>2 DEF PollFinds, dbgs, daemons
  <2>2. /\ cmd'[c].mem.session_id = cmd[c].mem.session_id /\ cmd'[c].pc = "persist"
        /\ cmd[c].pc # "write"
    BY <1>8, <2>1, <1>0, <1>1, GoWithEffect, Places, RuntimeApplied DEF PollFinds
  <2> QED BY <1>1, <2>1, <2>2, AloneMove
<1>9. CASE PollEnds(c) \/ PostStep(c) \/ PostStepFails(c) \/ RequestFails(c)
  <2>1. Holding(cmd[c]) /\ cmd[c].pc # "write" /\ UNCHANGED <<spawned, ui, sid, file>>
    BY <1>9, <1>2 DEF PollEnds, PostStep, PostStepFails, RequestFails, dbgs, daemons
  <2>2. Done(c) \/ Go(c, "exited") \/ Go(c, "poll") \/ Go(c, "drop")
    BY <1>9 DEF PollEnds, PostStep, PostStepFails, RequestFails
  <2>3. /\ cmd'[c].mem = Null \/ cmd'[c].mem = cmd[c].mem
        /\ cmd'[c].pc \in {"idle", "exited", "poll", "drop"}
        /\ cmd'[c].pc # "idle" => cmd'[c].mem = cmd[c].mem
    BY <2>2, GoEffect, DoneEffect, Places
  <2>4. Holding(cmd'[c]) => cmd'[c].pc # "idle"
    BY <1>3
  <2> QED BY <1>1, <2>1, <2>3, <2>4, AloneMove
<1>10. CASE Persist(c)
  <2>1. Holding(cmd[c]) /\ cmd[c].pc # "write" /\ UNCHANGED <<spawned, ui, sid>> /\ Done(c)
    BY <1>10, <1>2 DEF Persist, dbgs, daemons
  <2>2. file'.sessionId = cmd[c].mem.session_id
    BY <1>10, <2>1, <1>0, <1>1, PersistRuntime DEF Persist
  <2>3. cmd'[c].mem = Null /\ cmd'[c].pc = "idle" /\ ~Holding(cmd'[c])
    BY <2>1, <1>3, DoneEffect
  <2> QED BY <1>1, <2>1, <2>2, <2>3, AloneMove
<1>11. CASE PostBreakpoints(c)
  <2>1. Holding(cmd[c]) /\ cmd[c].pc # "write" /\ UNCHANGED <<spawned, ui, sid, file>>
    BY <1>11, <1>2 DEF PostBreakpoints, daemons
  <2>2. \E bps : GoWith(c, "targets", [cmd[c].mem EXCEPT !.breakpoints = bps])
                 \/ GoWith(c, "persist", [cmd[c].mem EXCEPT !.breakpoints = bps])
    BY <1>11 DEF PostBreakpoints
  <2>3. /\ cmd'[c].mem.session_id = cmd[c].mem.session_id
        /\ cmd'[c].pc \in {"targets", "persist"}
    BY <2>1, <2>2, <1>1, GoWithEffect, Places DEF Mems
  <2> QED BY <1>1, <2>1, <2>3, AloneMove
<1>12. CASE RequestTargets(c)
  <2>1. Holding(cmd[c]) /\ cmd[c].pc # "write" /\ UNCHANGED <<spawned, ui, sid, file>>
    BY <1>12, <1>2 DEF RequestTargets, dbgs, daemons
  <2>2. cmd'[c].mem = cmd[c].mem /\ cmd'[c].pc = "arm"
    BY <1>12, <1>0 DEF RequestTargets, CommandStates
  <2> QED BY <1>1, <2>1, <2>2, AloneMove
<1>13. CASE ArmTarget(c)
  <2>1. Holding(cmd[c]) /\ cmd[c].pc # "write" /\ UNCHANGED <<spawned, ui, sid, file>>
    BY <1>13, <1>2 DEF ArmTarget, dbgs, daemons, AttachRequest
  <2> QED BY <1>1, <1>13, <2>1, ArmEffect, AloneMove
<1>14. CASE PostAttach(c)
  <2> DEFINE new == Sids[spawned + 1]
  <2>1. /\ spawned < Len(Sids) /\ spawned' = spawned + 1 /\ spawned \in Nat
        /\ UNCHANGED <<file, sid>>
    BY <1>14 DEF PostAttach, daemons, Shape, TypeOK
  <2>2. new \notin Used /\ new # Null /\ Null \notin Used
    BY <2>1, UsedIds
  <2>3. Used' = Used \cup {new}
    BY <2>1 DEF Used
  <2>4. /\ RegisterUi(new) \/ UNCHANGED dbgs
        /\ \/ RegisterUi(new) /\ GoWith(c, "write", DebugSession(new))
           \/ Done(c)
    BY <1>14 DEF PostAttach
  <2>5. ui' \in {ui, new}
    BY <2>4 DEF RegisterUi, dbgs
  <2>6. /\ DebugSession(new) # Null /\ DebugSession(new).session_id = new
    <3>1. new \in SidSet
      BY <2>1, SidsAreUuids DEF SidSet
    <3> QED BY <3>1, NewMemory
  <2>7. CASE RegisterUi(new) /\ GoWith(c, "write", DebugSession(new))
    <3>1. cmd'[c].pc = "write" /\ cmd'[c].mem = DebugSession(new)
      BY <2>7, GoWithEffect, Places
    <3> HIDE DEF new
    <3>2. IdsUsed'
      BY <2>1, <2>3, <2>5, <2>6, <3>1 DEF IdsUsed, OneTerminal
    <3>3. armed' = {} /\ \A t \in Targets : status'[t] # "stopped"
      BY <2>7 DEF RegisterUi
    <3>4. Sessions(c)'
      BY <2>1, <2>2, <2>6, <3>1, <3>3 DEF Sessions, IdsUsed
    <3> QED BY <3>2, <3>4 DEF OneTerminal
  <2>8. CASE Done(c)
    <3>1. cmd'[c].mem = Null /\ cmd'[c].pc = "idle"
      BY <2>8, DoneEffect
    <3> HIDE DEF new
    <3>2. IdsUsed'
      BY <2>1, <2>3, <2>5, <3>1 DEF IdsUsed, OneTerminal
    <3>3. Sessions(c)'
      BY <3>1 DEF Sessions, Holding
    <3> QED BY <3>2, <3>3 DEF OneTerminal
  <2> QED BY <2>4, <2>7, <2>8
<1>15. CASE WriteSession(c)
  <2>1. /\ Holding(cmd[c]) /\ UNCHANGED <<spawned, ui, sid>> /\ cmd[c].op = "attach"
        /\ Go(c, "ensure")
    BY <1>15, <1>0, <1>2 DEF WriteSession, dbgs, daemons, CommandStage
  <2>2. cmd'[c].mem = cmd[c].mem /\ cmd'[c].pc = "ensure" /\ cmd'[c].op = "attach"
    BY <2>1, GoEffect, Places
  <2>3. ~Holding(cmd'[c])
    BY <2>2 DEF Holding, WaitOps
  <2>4. file'.sessionId = cmd[c].mem.session_id
    BY <1>15, <2>1, <1>0, <1>1, AttachWrites DEF WriteSession, Mems
  <2> QED BY <1>1, <2>1, <2>2, <2>3, <2>4, AloneMove
<1>16. CASE Prepare(c)
  <2>1. /\ UNCHANGED <<spawned, ui, sid>> /\ cmd[c].op = "prepare"
        /\ Done(c) \/ Go(c, "ensure")
        /\ file' = reset_session_runtime(file)
    BY <1>16, <1>0 DEF Prepare, dbgs, daemons, CommandStage
  <2>2. /\ cmd'[c].mem = Null \/ cmd'[c].mem = cmd[c].mem
        /\ cmd'[c].pc = "idle" \/ (cmd'[c].pc = "ensure" /\ cmd'[c].op = "prepare")
    BY <2>1, GoEffect, DoneEffect, Places
  <2>3. ~Holding(cmd'[c])
    BY <2>2 DEF Holding, WaitOps
  <2>4. file' = Null \/ (file # Null /\ file'.sessionId = file.sessionId)
    BY <2>1, <1>0, RuntimeReset
  <2>5. cmd'[c].mem = Null \/ (cmd[c].mem # Null /\ cmd'[c].mem.session_id = cmd[c].mem.session_id)
    BY <2>2
  <2> QED BY <2>1, <2>2, <2>3, <2>4, <2>5, AloneMove
<1>17. CASE KillPing(c) \/ PostDetach(c) \/ ClearSession(c)
  <2>1. /\ spawned' = spawned /\ file' \in {file, Null}
        /\ Done(c) \/ Go(c, "detach") \/ Go(c, "remove")
    BY <1>17 DEF KillPing, PostDetach, ClearSession, dbgs, daemons
  <2>2. ui' \in {ui, Null}
    BY <1>17 DEF KillPing, PostDetach, ClearSession, dbgs, RegisterUi
  <2>3. /\ cmd'[c].mem = Null \/ cmd'[c].mem = cmd[c].mem
        /\ cmd'[c].pc \in {"idle", "detach", "remove"}
    BY <2>1, GoEffect, DoneEffect, Places
  <2>4. ~Holding(cmd'[c])
    BY <2>3, <1>3
  <2>5. \A d \in Daemons : sid'[d] \in {sid[d], Null}
    <3>1. CASE UNCHANGED sid
      BY <3>1
    <3>2. CASE pingPid # Null /\ Exit(pingPid.daemon)
      BY <3>2, <1>0 DEF Exit, DaemonTypes
    <3> QED BY <1>17, <3>1, <3>2 DEF KillPing, PostDetach, ClearSession, daemons
  <2>6. cmd'[c].mem = Null \/ (cmd[c].mem # Null /\ cmd'[c].mem.session_id = cmd[c].mem.session_id)
    BY <2>3
  <2>7. file' = Null \/ (file # Null /\ file'.sessionId = file.sessionId)
    BY <2>1
  <2> QED BY <2>1, <2>2, <2>3, <2>4, <2>5, <2>6, <2>7, AloneMove
<1> QED
  BY <1>4, <1>5, <1>6, <1>7, <1>8, <1>9, <1>10, <1>11, <1>12, <1>13, <1>14, <1>15, <1>16, <1>17
     DEF Command

LEMMA AloneInit == Init => IdsUsed /\ \A c \in Clis : Sessions(c)
BY DEF Init, IdsUsed, Sessions, Holding, Idle, MemPcs

LEMMA AloneNext ==
  ASSUME Shape, IdsUsed, \A c \in Clis : Sessions(c), OneTerminal, [Next]_vars
  PROVE  IdsUsed' /\ \A c \in Clis : Sessions(c)'
<1>1. CASE UNCHANGED vars
  BY <1>1 DEF vars, dbgs, daemons, IdsUsed, Used, Sessions, Holding
<1>2. CASE Client
  <2>1. /\ UNCHANGED <<file, sid, cmd, spawned, ui, armed>>
        /\ \A t \in Targets : status'[t] = "stopped" => status[t] = "stopped" \/ t \in armed
    BY <1>2, ClientEffect DEF daemons
  <2> QED BY <2>1 DEF IdsUsed, Used, Sessions, Holding
<1> QED BY <1>1, <1>2, AloneDaemon, AloneCommand DEF Next

-----------------------------------------------------------------------------
(* The stops. *)

\* What the record holds, as the writers change it.
LEMMA StoredAs ==
  /\ file = Null \/ file.lastStop = Null => DroppedStop = {}
  /\ file # Null /\ file.lastStop # Null => DroppedStop = {file.lastStop.hit}
BY DEF DroppedStop

LEMMA StoredAsNext ==
  /\ file' = Null \/ file'.lastStop = Null => DroppedStop' = {}
  /\ file' # Null /\ file'.lastStop # Null => DroppedStop' = {file'.lastStop.hit}
BY DEF DroppedStop

LEMMA StopsAreNumbers ==
  ASSUME Shape
  PROVE  /\ stops \in Nat /\ Coming \subseteq Nat /\ Known \subseteq Nat
         /\ DroppedStop \subseteq Nat
         /\ \A d \in Daemons : Hits(body[d]) \subseteq Nat
         /\ Hits(events) \subseteq Nat
<1>1. /\ DaemonTypes /\ events \in Seq(Events) /\ stops \in Nat
      /\ cmd \in [Clis -> CommandStates] /\ TypeOK
  BY TypesSplit DEF Shape, TypeOK
<1>2. \A d \in Daemons : Hits(body[d]) \subseteq Nat
  BY <1>1, HitsAreNat DEF DaemonTypes
<1>3. Hits(events) \subseteq Nat /\ DroppedStop \subseteq Nat
  BY <1>1, HitsAreNat, DroppedStopTyped
<1>4. ASSUME NEW c \in Clis
      PROVE  cmd[c].pinned \in Nat /\ (cmd[c].mem # Null => HitOf(cmd[c].mem.last_stop) \in Nat)
  <2>1. cmd[c] \in CommandStates
    BY <1>1
  <2> QED BY <2>1 DEF CommandStates, Mems, Stops, HitOf
<1> QED BY <1>1, <1>2, <1>3, <1>4 DEF Coming, Known

\* How a step of a daemon treats the stops: it leaves them, ends with its body, takes
\* them from dbgs or writes the first one down.
LEMMA DaemonCases ==
  ASSUME Shape, NEW d \in Daemons, Daemon(d)
  PROVE  \/ UNCHANGED <<events, body, missed>> /\ DroppedStop' = DroppedStop
         \/ /\ Exit(d) /\ UNCHANGED <<events, file>>
            /\ missed' = missed \cup Hits(body[d])
         \/ PingDelivers(d)
         \/ PersistStop(d)
<1> USE DEF dbgs, daemons
<1>0. /\ DaemonTypes /\ DaemonStage(d) /\ file \in Records \cup {Null}
  BY TypesSplit DEF Shape, Common
<1>1. CASE Bootstrap(d) \/ CheckSession(d)
  <2>1. UNCHANGED <<events, file, missed>> /\ body[d] = <<>>
    BY <1>0, <1>1 DEF Bootstrap, CheckSession, DaemonStage
  <2>2. Exit(d) \/ UNCHANGED body
    BY <1>1 DEF Bootstrap, CheckSession
  <2>3. Hits(body[d]) = {}
    BY <2>1, HitsOfNone
  <2> QED BY <2>1, <2>2, <2>3 DEF DroppedStop
<1>2. CASE Crash(d)
  BY <1>2 DEF Crash, Unwritten
<1>3. CASE \/ PingEmpty(d) \/ Scan(d)
           \/ \E x \in Threads : AttachTarget(d, x) \/ AttachPost(d, x) \/ AttachFails(d, x)
  <2>1. UNCHANGED <<events, body, missed, file>>
    BY <1>3 DEF PingEmpty, Scan, AttachTarget, AttachPost, AttachFails, AttachRequest
  <2> QED BY <2>1 DEF DroppedStop
<1>4. CASE Prune(d) \/ \E x \in Threads : AttachSave(d, x)
  <2>1. mem[d] \in Mems
    BY <1>0, <1>4 DEF Prune, AttachSave, DaemonStage, Threads, Up, MainPcs
  <2>2. UNCHANGED <<events, body, missed>>
    BY <1>4 DEF Prune, AttachSave
  <2>3. file' = file \/ \E T \in SUBSET Targets : file' = persist_targets(file, sid[d], T)
    <3>1. /\ mem[d].attached_targets \ (mem[d].attached_targets \ live[d]) \in SUBSET Targets
          /\ mem[d].attached_targets \in SUBSET Targets
      BY <2>1 DEF Mems
    <3> QED BY <1>4, <3>1 DEF Prune, AttachSave
  <2>4. /\ file = Null => file' = Null
        /\ file # Null => file' # Null /\ file'.lastStop = file.lastStop
    BY <2>3, <1>0, TargetsWritten
  <2> QED BY <2>2, <2>4, StoredAs, StoredAsNext
<1> QED
  <2>1. "main" \in Threads /\ "scan" \in Threads
    BY DEF Threads
  <2> QED BY <2>1, <1>1, <1>2, <1>3, <1>4 DEF Daemon, MainThread, ScanThread

\* The stop a daemon writes down is the first of its body.
LEMMA StopWrittenDown ==
  ASSUME Shape, NEW d \in Daemons, PersistStop(d)
  PROVE  /\ UNCHANGED <<events, stops, stopOf, status, ui, cmd>>
         /\ body' = [body EXCEPT ![d] = <<>>]
         /\ \/ Hits(body[d]) = {} /\ missed' = missed /\ DroppedStop' = DroppedStop
            \/ \E n \in Hits(body[d]) :
                  /\ missed' = missed \cup DroppedStop \cup (Hits(body[d]) \ {n})
                  /\ file' # Null => DroppedStop' = {n}
                  /\ DroppedStop' \subseteq {n}
<1> DEFINE formed == EventsOf(body[d], "callStackFormed")
           event == body[d][First(formed)]
           stop == [tid |-> event.tid, hit |-> event.hit]
<1>0. body[d] \in Seq(Events) /\ file \in Records \cup {Null}
  BY TypesSplit DEF Shape, DaemonTypes, Common
<1>1. /\ UNCHANGED <<events, stops, stopOf, status, ui, cmd>>
      /\ body' = [body EXCEPT ![d] = <<>>]
      /\ IF formed = {} THEN UNCHANGED <<file, missed>>
         ELSE /\ file' = persist_stop(file, stop)
              /\ missed' = missed \cup DroppedStop \cup (Hits(body[d]) \ {event.hit})
  BY DEF PersistStop, dbgs
<1>2. CASE formed = {}
  <2>1. Hits(body[d]) = {}
    BY <1>2 DEF Hits
  <2> QED BY <1>1, <1>2, <2>1 DEF DroppedStop
<1>3. CASE formed # {}
  <2>1. First(formed) \in formed /\ event \in Events
    BY <1>0, <1>3, FirstEvent
  <2>2. event.hit \in Hits(body[d])
    BY <2>1 DEF Hits
  <2>3. stop \in Stops /\ stop.hit = event.hit /\ stop # Null
    BY <2>1, NullIsNoValue DEF Events, Stops
  <2> HIDE DEF event, stop, formed
  <2>4. /\ file = Null => file' = Null
        /\ file # Null => file' # Null /\ file'.lastStop = stop
    BY <1>0, <1>1, <1>3, <2>3, StopPersisted
  <2>5. /\ file' # Null => DroppedStop' = {event.hit}
        /\ DroppedStop' \subseteq {event.hit}
    BY <2>3, <2>4, StoredAsNext
  <2> QED BY <1>1, <1>3, <2>2, <2>5
<1> QED BY <1>2, <1>3

\* With one reader no other daemon has a body in hand.
LEMMA OtherBodies ==
  ASSUME Shape, Reader, NEW d \in Daemons, Alive(d)
  PROVE  \A e \in Daemons \ {d} : body[e] = <<>> /\ Hits(body[e]) = {}
<1>1. \A e \in Daemons \ {d} : ~Alive(e)
  BY DEF Reader
<1> QED BY <1>1, HitsOfNone DEF Alive, Shape, DaemonStage

LEMMA OrderedDaemon ==
  ASSUME Shape, Reader, Ordered, NEW d \in Daemons, Daemon(d)
  PROVE  Ordered'
<1>0. /\ stops \in Nat /\ Coming \subseteq Nat /\ Known \subseteq Nat
      /\ \A e \in Daemons : Hits(body[e]) \subseteq Nat
      /\ DaemonTypes
  BY StopsAreNumbers, TypesSplit DEF Shape
<1>1. UNCHANGED <<cmd, stops>>
  BY DaemonEffect
<1>2. CASE UNCHANGED <<events, body>> /\ DroppedStop' = DroppedStop
  <2>1. Coming' = Coming /\ Known' = Known
    BY <1>1, <1>2 DEF Coming, Known
  <2> QED BY <1>1, <1>2, <2>1 DEF Ordered
<1>3. CASE Exit(d) /\ UNCHANGED <<events, file>>
  <2>1. \A e \in Daemons : Hits(body'[e]) \subseteq Hits(body[e])
    BY <1>0, <1>3, HitsOfNone DEF Exit, DaemonTypes
  <2>2. DroppedStop' = DroppedStop
    BY <1>3 DEF DroppedStop
  <2>3. Coming' \subseteq Coming /\ Known' = Known
    BY <1>1, <1>3, <2>1, <2>2 DEF Coming, Known
  <2> QED BY <1>1, <1>3, <2>1, <2>3 DEF Ordered
<1>4. CASE PingDelivers(d)
  <2>1. events' = <<>> /\ body' = [body EXCEPT ![d] = events] /\ UNCHANGED file
    BY <1>4 DEF PingDelivers
  <2>2. Hits(events') = {} /\ (\A e \in Daemons : Hits(body'[e]) \subseteq Hits(body[e]) \cup Hits(events))
    BY <2>1, <1>0, HitsOfNone DEF DaemonTypes
  <2>3. Coming' \subseteq Coming /\ Known' = Known
    BY <1>1, <2>1, <2>2 DEF Coming, Known, DroppedStop
  <2> QED BY <1>1, <2>2, <2>3 DEF Ordered
<1>5. CASE PersistStop(d)
  <2>1. Alive(d)
    BY <1>5 DEF PersistStop, Alive
  <2>2. /\ events' = events /\ body' = [body EXCEPT ![d] = <<>>]
        /\ DroppedStop' \subseteq DroppedStop \cup Hits(body[d])
    BY <1>5, StopWrittenDown
  <2>3. \A e \in Daemons : Hits(body'[e]) = {}
    BY <2>1, <2>2, <1>0, OtherBodies, HitsOfNone DEF DaemonTypes
  <2>4. Coming' = Hits(events) /\ Coming' \subseteq Coming
    BY <2>2, <2>3 DEF Coming
  <2>5. Known' \subseteq Known \cup Hits(body[d])
    BY <1>1, <2>2 DEF Known
  <2>6. \A m \in Hits(body[d]) : m \in Coming
    BY DEF Coming
  <2>7. \A m \in Known' : m <= stops
    BY <2>5, <2>6, <1>0 DEF Ordered
  <2>8. \A m \in Known', n \in Coming' : m < n
    BY <2>4, <2>5 DEF Ordered
  <2> QED BY <1>1, <2>3, <2>4, <2>7, <2>8 DEF Ordered
<1> QED BY <1>2, <1>3, <1>4, <1>5, DaemonCases

\* A new stop is later than all others.
LEMMA OrderedClient ==
  ASSUME Shape, Ordered, Client
  PROVE  Ordered'
<1>0. /\ stops \in Nat /\ Coming \subseteq Nat /\ Known \subseteq Nat
      /\ \A e \in Daemons : Hits(body[e]) \subseteq Nat
      /\ Hits(events) \subseteq Nat /\ events \in Seq(Events)
  BY StopsAreNumbers DEF Shape, TypeOK
<1>1. UNCHANGED <<file, body, cmd>>
  BY ClientEffect DEF daemons
<1>2. Known' = Known
  BY <1>1 DEF Known, DroppedStop
<1>3. CASE Hits(events') = Hits(events) /\ stops' = stops
  <2>1. Coming' = Coming
    BY <1>1, <1>3 DEF Coming
  <2> QED BY <1>1, <1>2, <1>3, <2>1 DEF Ordered
<1>4. CASE Hits(events') = Hits(events) \cup {stops + 1} /\ stops' = stops + 1
  <2>1. Coming' = Coming \cup {stops + 1}
    BY <1>1, <1>4 DEF Coming
  <2>2. \A d \in Daemons : Hits(body[d]) \subseteq Coming
    BY DEF Coming
  <2>3. Coming' \subseteq 1..stops'
    BY <2>1, <1>0, <1>4 DEF Ordered
  <2>4. \A m \in Known' : m <= stops'
    BY <1>2, <1>0, <1>4 DEF Ordered
  <2>5. \A m \in Known', n \in Coming' : m < n
    BY <1>2, <1>0, <2>1 DEF Ordered
  <2>6. \A d \in Daemons : \A m \in Hits(body'[d]), n \in Hits(events') : m < n
    BY <1>0, <1>1, <1>4, <2>2 DEF Ordered
  <2> QED BY <2>3, <2>4, <2>5, <2>6 DEF Ordered
<1>5. ASSUME NEW t \in Targets, StartTarget(t)
      PROVE  Hits(events') = Hits(events) /\ stops' = stops
  <2>1. Started(t) \in Events /\ Started(t).type # "callStackFormed"
    BY DEF Started, Events
  <2> QED BY <1>0, <1>5, <2>1, HitsOfMore DEF StartTarget
<1>6. ASSUME NEW t \in Targets, Stop(t)
      PROVE  Hits(events') = Hits(events) \cup {stops + 1} /\ stops' = stops + 1
  <2>1. /\ Stopped(t, stops + 1) \in Events /\ Stopped(t, stops + 1).type = "callStackFormed"
        /\ Stopped(t, stops + 1).hit = stops + 1
    BY <1>0 DEF Stopped, Events
  <2> QED BY <1>0, <1>6, <2>1, HitsOfMore DEF Stop
<1>7. ASSUME NEW t \in Targets, Quit(t)
      PROVE  Hits(events') = Hits(events) /\ stops' = stops
  BY <1>7 DEF Quit
<1> QED BY <1>3, <1>4, <1>5, <1>6, <1>7 DEF Client

\* How a step of a command treats the stops.
LEMMA CommandCases ==
  ASSUME Shape, IdsUsed, NEW c \in Clis, Sessions(c), Command(c)
  PROVE  /\ UNCHANGED <<stops, stopOf>>
         /\ \/ /\ UNCHANGED <<events, body, missed, ui, file>>
               /\ \A t \in Targets : status'[t] = "stopped" => status[t] = "stopped"
            \/ /\ UNCHANGED <<events, file, ui, status>>
               /\ \E d \in Daemons : Exit(d) /\ missed' = missed \cup Hits(body[d])
            \/ /\ UNCHANGED <<events, body, ui, status>>
               /\ file' # Null => file # Null /\ file'.sessionId = file.sessionId
               /\ DroppedStop' = {} /\ missed' = missed \cup DroppedStop
            \/ /\ UNCHANGED <<events, body, ui, status, missed>>
               /\ file # Null /\ file'.sessionId = file.sessionId
               /\ DroppedStop = {} \/ DroppedStop' = DroppedStop
               /\ cmd[c].mem # Null
               /\ DroppedStop' \subseteq DroppedStop \cup {HitOf(cmd[c].mem.last_stop)}
            \/ /\ UNCHANGED <<body, file, missed>> /\ events' = <<>>
               /\ file # Null => file.sessionId # ui'
            \/ /\ UNCHANGED <<events, body, ui, status, missed>> /\ DroppedStop' = {}
               /\ file' # Null /\ ui = file'.sessionId => \A t \in Targets : status[t] # "stopped"
<1>0. /\ file \in Records \cup {Null} /\ cmd[c] \in CommandStates
      /\ DaemonTypes /\ pingPid \in Pids \cup {Null} /\ CommandStage(cmd[c])
      /\ status \in [Targets -> {"new", "running", "stopped", "gone"}]
  BY TypesSplit DEF Shape, TypeOK
<1>1. /\ Holding(cmd[c]) => cmd[c].mem \in Mems /\ cmd[c].mem # Null
      /\ Holding(cmd[c]) /\ cmd[c].pc # "write" =>
           file # Null /\ file.sessionId = cmd[c].mem.session_id
  BY <1>0, NullIsNoValue DEF CommandStage, Sessions
<1>2. \A pc \in MemPcs : cmd[c].pc = pc => Holding(cmd[c])
  BY DEF Holding
<1> USE DEF MemPcs
<1>3. CASE \/ StartCommand(c) \/ Restore(c) \/ SpawnPing(c) \/ PollFinds(c) \/ PollEnds(c)
           \/ PostStep(c) \/ PostStepFails(c) \/ PostBreakpoints(c) \/ RequestTargets(c)
           \/ ArmTarget(c) \/ RequestFails(c)
  <2>1. UNCHANGED <<events, body, missed, ui, file, stops, stopOf>>
    BY <1>3 DEF StartCommand, Restore, SpawnPing, PollFinds, PollEnds, PostStep, PostStepFails,
         PostBreakpoints, RequestTargets, ArmTarget, AttachRequest, RequestFails, dbgs, daemons
  <2>2. status' = status \/ \E t \in Targets : status' = [status EXCEPT ![t] = "running"]
    <3>1. CASE PostStep(c)
      <4> DEFINE goals == IF cmd[c].tid # Null THEN {cmd[c].tid} ELSE step_targets(cmd[c].mem)
      <4>1. cmd[c].mem \in Mems /\ cmd[c].tid \in Targets \cup {Null}
        BY <3>1, <1>0, <1>1, <1>2 DEF PostStep, CommandStates
      <4>2. goals \subseteq Targets
        BY <4>1, StepGoals
      <4>3. \/ status' = status
            \/ \E t \in goals : status' = [status EXCEPT ![t] = "running"]
        BY <3>1 DEF PostStep
      <4> QED BY <4>2, <4>3
    <3>2. CASE ~PostStep(c)
      BY <1>3, <3>2 DEF StartCommand, Restore, SpawnPing, PollFinds, PollEnds, PostStepFails,
         PostBreakpoints, RequestTargets, ArmTarget, AttachRequest, RequestFails, dbgs
    <3> QED BY <3>1, <3>2
  <2>3. \A t \in Targets : status'[t] = "stopped" => status[t] = "stopped"
    BY <2>2, <1>0
  <2> QED BY <2>1, <2>3
<1>4. CASE EnsurePing(c) \/ KillPing(c)
  <2>1. UNCHANGED <<events, ui, file, status, stops, stopOf>>
    BY <1>4 DEF EnsurePing, KillPing, dbgs
  <2>2. \/ UNCHANGED <<body, missed>>
        \/ /\ pingPid # Null /\ Exit(pingPid.daemon)
           /\ missed' = missed \cup Hits(body[pingPid.daemon])
    BY <1>4 DEF EnsurePing, KillPing, daemons, Unwritten
  <2>3. pingPid # Null => pingPid.daemon \in Daemons
    BY <1>0 DEF Pids
  <2> QED BY <2>1, <2>2, <2>3
<1>5. CASE ClearForFreshWait(c) \/ ClearBeforeStep(c) \/ ClearAfterExit(c) \/ ClearAfterStep(c)
  <2>1. Holding(cmd[c]) /\ PersistCleared(c) /\ cmd[c].mem \in Mems /\ cmd[c].pc # "write"
    BY <1>5, <1>1, <1>2 DEF ClearForFreshWait, ClearBeforeStep, ClearAfterExit, ClearAfterStep
  <2>2. /\ file' # Null /\ file'.sessionId = cmd[c].mem.session_id /\ file'.lastStop = Null
        /\ missed' = missed \cup DroppedStop
        /\ UNCHANGED <<events, body, ui, status, stops, stopOf>>
    BY <2>1, PersistClearedTyped DEF dbgs, daemons
  <2>3. DroppedStop' = {}
    BY <2>2, StoredAsNext
  <2> QED BY <1>1, <2>1, <2>2, <2>3
<1>6. CASE Prepare(c)
  <2>1. /\ file' = reset_session_runtime(file)
        /\ IF file = Null THEN missed' = missed ELSE missed' = missed \cup DroppedStop
        /\ UNCHANGED <<events, body, ui, status, stops, stopOf>>
    BY <1>6 DEF Prepare, dbgs, daemons
  <2>2. /\ file = Null => file' = Null
        /\ file # Null => file' # Null /\ file'.sessionId = file.sessionId /\ file'.lastStop = Null
    BY <2>1, <1>0, RuntimeReset
  <2>3. DroppedStop' = {} /\ (file = Null => DroppedStop = {})
    BY <2>2, StoredAs, StoredAsNext
  <2>4. missed' = missed \cup DroppedStop
    BY <2>1, <2>3
  <2> QED BY <2>1, <2>2, <2>3, <2>4
<1>7. CASE Persist(c)
  <2>1. /\ Holding(cmd[c]) /\ cmd[c].pc # "write"
        /\ file' = persist_session_runtime(file, cmd[c].mem, FALSE)
        /\ UNCHANGED <<events, body, missed, ui, status, stops, stopOf>>
    BY <1>7, <1>2 DEF Persist, dbgs, daemons
  <2>2. /\ file # Null /\ file.sessionId = cmd[c].mem.session_id /\ cmd[c].mem \in Mems
        /\ cmd[c].mem # Null
    BY <2>1, <1>1
  <2>3. /\ file' # Null /\ file'.sessionId = file.sessionId
        /\ file.lastStop # Null => file'.lastStop = file.lastStop
        /\ file'.lastStop # Null => file'.lastStop \in {file.lastStop, cmd[c].mem.last_stop}
    BY <2>1, <2>2, <1>0, PersistRuntime
  <2>4. DroppedStop = {} \/ DroppedStop' = DroppedStop
    BY <2>2, <2>3, StoredAs, StoredAsNext
  <2>5. DroppedStop' \subseteq DroppedStop \cup {HitOf(cmd[c].mem.last_stop)}
    <3>1. CASE file'.lastStop = Null
      BY <3>1, StoredAsNext
    <3>2. CASE file'.lastStop # Null /\ file'.lastStop = file.lastStop
      BY <3>2, <2>2, <2>3, StoredAs, StoredAsNext
    <3>3. CASE file'.lastStop # Null /\ file'.lastStop = cmd[c].mem.last_stop
      BY <3>3, <2>3, StoredAsNext DEF HitOf
    <3> QED BY <3>1, <3>2, <3>3, <2>3
  <2> QED BY <2>1, <2>2, <2>3, <2>4, <2>5
<1>8. CASE PostAttach(c) \/ PostDetach(c)
  <2>1. UNCHANGED <<body, file, missed>>
    BY <1>8 DEF PostAttach, PostDetach, daemons
  <2>2. CASE UNCHANGED dbgs
    BY <2>1, <2>2 DEF dbgs
  <2>3. ASSUME PostAttach(c), RegisterUi(Sids[spawned + 1])
        PROVE  /\ events' = <<>> /\ UNCHANGED <<stops, stopOf>>
               /\ file # Null => file.sessionId # ui'
    <3>1. spawned < Len(Sids)
      BY <2>3 DEF PostAttach
    <3>2. Sids[spawned + 1] \notin Used
      BY <3>1, UsedIds
    <3> QED BY <2>3, <3>2 DEF RegisterUi, IdsUsed
  <2>4. ASSUME RegisterUi(Null)
        PROVE  /\ events' = <<>> /\ UNCHANGED <<stops, stopOf>>
               /\ file # Null => file.sessionId # ui'
    <3>1. Null \notin Used
      BY UsedIds
    <3> QED BY <2>4, <3>1 DEF RegisterUi, IdsUsed
  <2> QED BY <1>8, <2>1, <2>2, <2>3, <2>4 DEF PostAttach, PostDetach
<1>9. CASE WriteSession(c)
  <2>1. /\ Holding(cmd[c]) /\ cmd[c].pc = "write"
        /\ file' = write_session(file, attach_args(cmd[c].mem.session_id))
        /\ UNCHANGED <<events, body, missed, ui, status, stops, stopOf>>
    BY <1>9, <1>2 DEF WriteSession, dbgs, daemons
  <2> DEFINE new == cmd[c].mem.session_id
  <2>2. /\ new \in SidSet /\ (file # Null => file.sessionId # new)
        /\ ui = new => \A t \in Targets : status[t] # "stopped"
    BY <2>1, <1>1 DEF Mems, Sessions
  <2>3. file'.sessionId = new /\ file'.lastStop = Null
    BY <2>1, <2>2, <1>0, AttachWrites
  <2>4. DroppedStop' = {}
    BY <2>3, StoredAsNext
  <2> QED BY <2>1, <2>2, <2>3, <2>4
<1>10. CASE ClearSession(c)
  <2>1. file' = Null /\ UNCHANGED <<events, body, missed, ui, status, stops, stopOf>>
    BY <1>10 DEF ClearSession, dbgs, daemons
  <2> QED BY <2>1, StoredAsNext
<1> QED BY <1>3, <1>4, <1>5, <1>6, <1>7, <1>8, <1>9, <1>10 DEF Command

\* A command holds no stop that it did not find on disk.
LEMMA CommandKnows ==
  ASSUME Shape, IdsUsed, NEW c \in Clis, Sessions(c), Command(c)
  PROVE  /\ cmd'[c].pinned \in Known \cup {0}
         /\ cmd'[c].mem # Null => HitOf(cmd'[c].mem.last_stop) \in Known \cup {0}
<1>0. /\ file \in Records \cup {Null} /\ cmd[c] \in CommandStates /\ cmd \in [Clis -> CommandStates]
      /\ CommandStage(cmd[c])
  BY DEF Shape, TypeOK
<1>1. /\ cmd[c].pinned \in Known
      /\ cmd[c].mem # Null => HitOf(cmd[c].mem.last_stop) \in Known
      /\ DroppedStop \subseteq Known
  BY DEF Known
<1>2. file # Null => HitOf(file.lastStop) \in Known \cup {0}
  BY <1>1, StoredAs DEF HitOf
<1>3. HitOf(Null) = 0
  BY DEF HitOf
<1>4. \A pc \in MemPcs : cmd[c].pc = pc => cmd[c].mem \in Mems /\ cmd[c].mem # Null
  BY <1>0, NullIsNoValue DEF CommandStage, Holding
<1> USE DEF MemPcs
<1>5. CASE Restore(c)
  <2>1. CASE file = Null
    BY <1>5, <2>1, DoneEffect DEF Restore
  <2>2. CASE file # Null
    <3>1. /\ cmd'[c].mem = restore_session(file)
          /\ cmd'[c].pinned = HitOf(restore_session(file).last_stop)
      BY <1>0, <1>5, <2>2 DEF Restore, CommandStates
    <3> QED BY <3>1, <2>2, <1>0, <1>2, SessionRestored
  <2> QED BY <2>1, <2>2
<1>6. CASE PollFinds(c)
  <2>1. cmd'[c].mem = apply_stored_runtime(cmd[c].mem, file) /\ cmd'[c].pinned = cmd[c].pinned
        /\ cmd[c].mem \in Mems /\ file \in Records /\ file.lastStop # Null
    BY <1>0, <1>4, <1>6, GoWithEffect, Places DEF PollFinds
  <2>2. cmd'[c].mem.last_stop = file.lastStop
    BY <2>1, RuntimeApplied
  <2> QED BY <2>1, <2>2, <1>1, <1>2, <1>6 DEF PollFinds
<1>7. CASE \/ \E pc \in CommandPcs, m \in Mems :
                 /\ GoWith(c, pc, m)
                 /\ m.last_stop = Null \/ (cmd[c].mem # Null /\ m.last_stop = cmd[c].mem.last_stop)
           \/ \E pc \in CommandPcs : Go(c, pc)
           \/ Done(c)
  BY <1>7, <1>1, <1>3, GoEffect, GoWithEffect, DoneEffect
<1>8. CASE EnsurePing(c) \/ SpawnPing(c)
  BY <1>8, <1>1, EnsureEffect
<1>9. CASE StartCommand(c)
  BY <1>9, <1>0 DEF StartCommand, Idle
<1>10. CASE RequestTargets(c)
  BY <1>10, <1>0, <1>1 DEF RequestTargets, CommandStates
<1>11. CASE ArmTarget(c)
  BY <1>11, <1>1, ArmEffect
<1>12. CASE ClearForFreshWait(c) \/ ClearBeforeStep(c) \/ ClearAfterExit(c) \/ ClearAfterStep(c)
  <2>1. cmd[c].mem \in Mems
    BY <1>4, <1>12 DEF ClearForFreshWait, ClearBeforeStep, ClearAfterExit, ClearAfterStep
  <2>2. /\ [cmd[c].mem EXCEPT !.last_stop = Null] \in Mems
        /\ [cmd[c].mem EXCEPT !.last_stop = Null].last_stop = Null
    BY <2>1, MemCleared
  <2> QED BY <1>7, <1>12, <2>2, Places
          DEF ClearForFreshWait, ClearBeforeStep, ClearAfterExit, ClearAfterStep
<1>13. CASE PostBreakpoints(c)
  <2>1. cmd[c].mem \in Mems /\ cmd[c].mem # Null
    BY <1>4, <1>13 DEF PostBreakpoints
  <2>2. PICK bps \in SUBSET Breakpoints, pc \in {"targets", "persist"} :
          GoWith(c, pc, [cmd[c].mem EXCEPT !.breakpoints = bps])
    <3>1. \A b \in Breakpoints : cmd[c].mem.breakpoints \cup {b} \in SUBSET Breakpoints
      BY <2>1 DEF Mems
    <3> QED BY <1>13, <3>1 DEF PostBreakpoints
  <2>3. /\ [cmd[c].mem EXCEPT !.breakpoints = bps] \in Mems
        /\ [cmd[c].mem EXCEPT !.breakpoints = bps].last_stop = cmd[c].mem.last_stop
    BY <2>1 DEF Mems
  <2> QED BY <1>7, <2>1, <2>2, <2>3, Places
<1>14. CASE PostAttach(c)
  <2>1. spawned + 1 \in DOMAIN Sids
    BY <1>14, SidsAreUuids DEF PostAttach, Shape, TypeOK
  <2>2. Sids[spawned + 1] \in SidSet
    BY <2>1 DEF SidSet
  <2>3. DebugSession(Sids[spawned + 1]) \in Mems /\ DebugSession(Sids[spawned + 1]).last_stop = Null
    BY <2>2, NewMemory
  <2> QED BY <1>7, <1>14, <2>3, Places DEF PostAttach
<1>15. CASE \/ PollEnds(c) \/ PostStep(c) \/ PostStepFails(c) \/ Persist(c) \/ RequestFails(c)
            \/ WriteSession(c) \/ Prepare(c) \/ KillPing(c) \/ PostDetach(c) \/ ClearSession(c)
  <2>1. Done(c) \/ \E pc \in {"exited", "poll", "drop", "ensure", "detach", "remove"} : Go(c, pc)
    BY <1>15 DEF PollEnds, PostStep, PostStepFails, Persist, RequestFails, WriteSession, Prepare,
                 KillPing, PostDetach, ClearSession
  <2> QED BY <1>7, <2>1, Places
<1> QED
  BY <1>5, <1>6, <1>8, <1>9, <1>10, <1>11, <1>12, <1>13, <1>14, <1>15 DEF Command

LEMMA OrderedCommand ==
  ASSUME Shape, IdsUsed, OneTerminal, Ordered, NEW c \in Clis, Sessions(c), Command(c)
  PROVE  Ordered'
<1>0. /\ stops \in Nat /\ Coming \subseteq Nat /\ Known \subseteq Nat
      /\ \A e \in Daemons : Hits(body[e]) \subseteq Nat
      /\ DaemonTypes
  BY StopsAreNumbers, TypesSplit DEF Shape
<1>1. /\ stops' = stops
      /\ \/ UNCHANGED <<events, body>>
         \/ UNCHANGED events /\ \E d \in Daemons : Exit(d)
         \/ events' = <<>> /\ UNCHANGED body
      /\ DroppedStop' \subseteq Known
  <2>1. DroppedStop \subseteq Known /\ (cmd[c].mem # Null => HitOf(cmd[c].mem.last_stop) \in Known)
    BY DEF Known
  <2>2. UNCHANGED file => DroppedStop' = DroppedStop
    BY DEF DroppedStop
  <2> QED BY <2>1, <2>2, CommandCases
<1>2. /\ \A e \in Daemons : Hits(body'[e]) \subseteq Hits(body[e])
      /\ Hits(events') \subseteq Hits(events)
  <2>1. \A e \in Daemons : body'[e] = body[e] \/ body'[e] = <<>>
    BY <1>0, <1>1 DEF Exit, DaemonTypes
  <2>2. events' = events \/ events' = <<>>
    BY <1>1
  <2> QED BY <2>1, <2>2, HitsOfNone
<1>3. Coming' \subseteq Coming
  BY <1>2 DEF Coming
<1>4. Known' \subseteq Known \cup {0}
  <2>1. \A b \in Clis : b = c
    BY DEF OneTerminal
  <2>2. /\ cmd'[c].pinned \in Known \cup {0}
        /\ cmd'[c].mem # Null => HitOf(cmd'[c].mem.last_stop) \in Known \cup {0}
    BY CommandKnows
  <2>3. SUFFICES ASSUME NEW n \in Known' PROVE n \in Known \cup {0}
    OBVIOUS
  <2>4. CASE n \in DroppedStop'
    BY <1>1, <2>4
  <2>5. CASE \E b \in Clis : n = cmd'[b].pinned
    BY <2>1, <2>2, <2>5
  <2>6. CASE \E b \in Clis : cmd'[b].mem # Null /\ n = HitOf(cmd'[b].mem.last_stop)
    BY <2>1, <2>2, <2>6
  <2> QED BY <2>4, <2>5, <2>6 DEF Known
<1>5. \A m \in Known' : m <= stops'
  <2>1. \A m \in Known \cup {0} : m <= stops
    BY <1>0 DEF Ordered
  <2> QED BY <1>1, <1>4, <2>1
<1>6. \A m \in Known', n \in Coming' : m < n
  <2>1. \A n \in Coming : 0 < n
    BY <1>0 DEF Ordered
  <2>2. \A m \in Known \cup {0}, n \in Coming : m < n
    BY <2>1 DEF Ordered
  <2> QED BY <1>3, <1>4, <2>2
<1> QED BY <1>1, <1>2, <1>3, <1>5, <1>6 DEF Ordered

LEMMA OrderedInit == Init => Ordered
<1> SUFFICES ASSUME Init PROVE Ordered
  OBVIOUS
<1>1. Coming = {}
  BY HitsOfNone DEF Init, Coming
<1>2. Known \subseteq {0}
  BY IdleMoves DEF Init, Known, DroppedStop
<1>3. \A d \in Daemons : Hits(body[d]) = {}
  BY HitsOfNone DEF Init
<1> QED BY <1>1, <1>2, <1>3 DEF Ordered, Init

-----------------------------------------------------------------------------
(* Steps answer with a new stop, and stops stay visible. *)

LEMMA FreshDaemon ==
  ASSUME Shape, Ordered, NEW c \in Clis, Fresh(c), NEW d \in Daemons, Daemon(d)
  PROVE  Fresh(c)'
<1>1. cmd' = cmd
  BY DaemonEffect
<1>2. CASE DroppedStop' = DroppedStop
  BY <1>1, <1>2 DEF Fresh
<1>3. CASE PersistStop(d)
  <2>1. DroppedStop' \subseteq DroppedStop \cup Hits(body[d])
    BY <1>3, StopWrittenDown
  <2>2. \A n \in Hits(body[d]) : n \in Coming
    BY DEF Coming
  <2>3. \A n \in Hits(body[d]) : cmd[c].pinned < n
    BY <2>2 DEF Ordered, Known
  <2> QED BY <1>1, <2>1, <2>3 DEF Fresh
<1>4. CASE UNCHANGED file
  BY <1>2, <1>4 DEF DroppedStop
<1> QED BY <1>2, <1>3, <1>4, DaemonCases DEF PingDelivers

LEMMA FreshCommand ==
  ASSUME Shape, NEW c \in Clis, Sessions(c), Fresh(c), Command(c)
  PROVE  Fresh(c)'
<1>0. /\ file \in Records \cup {Null} /\ cmd[c] \in CommandStates /\ cmd \in [Clis -> CommandStates]
      /\ CommandStage(cmd[c])
  BY DEF Shape, TypeOK
<1>1. \A pc \in MemPcs : cmd[c].pc = pc => cmd[c].mem \in Mems /\ cmd[c].mem # Null
  BY <1>0, NullIsNoValue DEF CommandStage, Holding
<1> USE DEF MemPcs
<1>2. ASSUME cmd'[c].op # "step" \/ cmd'[c].pc \notin {"post", "poll", "persist"}
      PROVE  Fresh(c)'
  BY <1>2 DEF Fresh
<1>3. CASE Done(c) \/ \E pc \in {"exited", "drop", "ensure", "detach", "remove"} : Go(c, pc)
  BY <1>2, <1>3, DoneEffect, GoEffect, Places
<1>4. CASE \E pc \in {"ensure", "targets", "write"} : \E m : GoWith(c, pc, m)
  BY <1>2, <1>4, GoWithEffect, Places
<1>5. CASE StartCommand(c)
  BY <1>0, <1>2, <1>5 DEF StartCommand, Idle
<1>6. CASE Restore(c)
  <2>1. CASE file = Null
    BY <1>2, <1>6, <2>1, DoneEffect DEF Restore
  <2>2. CASE file # Null
    <3>1. cmd[c].op \in RestoreOps
      BY <1>0, <1>6 DEF Restore, CommandStage
    <3>2. cmd'[c].pc \in {"fresh", "ensure", "bp", "targets"}
      BY <1>0, <1>6, <2>2, <3>1 DEF Restore, CommandStates, RestoreOps, WaitOps
    <3> QED BY <1>2, <3>2
  <2> QED BY <2>1, <2>2
<1>7. CASE EnsurePing(c) \/ SpawnPing(c)
  BY <1>2, <1>7, EnsureEffect
<1>8. CASE ClearBeforeStep(c)
  <2>1. cmd[c].mem \in Mems /\ PersistCleared(c)
    BY <1>1, <1>8 DEF ClearBeforeStep
  <2>2. DroppedStop' = {}
    BY <2>1, PersistClearedTyped, StoredAsNext
  <2>3. cmd'[c].pc = "post"
    BY <1>8, GoWithEffect, Places DEF ClearBeforeStep
  <2> QED BY <2>2, <2>3 DEF Fresh
<1>9. CASE PostStep(c)
  <2>1. /\ DroppedStop' = DroppedStop /\ cmd[c].pc = "post"
        /\ Done(c) \/ Go(c, "poll") \/ Go(c, "drop")
    BY <1>9 DEF PostStep, DroppedStop
  <2>2. CASE Go(c, "poll")
    BY <2>1, <2>2, GoEffect, Places DEF Fresh
  <2> QED BY <1>3, <2>1, <2>2
<1>10. CASE PollFinds(c)
  <2>1. /\ cmd'[c].mem = apply_stored_runtime(cmd[c].mem, file) /\ cmd'[c].pc = "persist"
        /\ cmd'[c].op = cmd[c].op /\ cmd'[c].pinned = cmd[c].pinned
        /\ cmd[c].pc = "poll" /\ file # Null /\ file.lastStop # Null
    BY <1>10, GoWithEffect, Places DEF PollFinds
  <2>2. cmd'[c].mem.last_stop = file.lastStop
    BY <2>1, <1>0, <1>1, RuntimeApplied
  <2>3. cmd[c].op = "step" => cmd[c].pinned < file.lastStop.hit
    BY <2>1, StoredAs DEF Fresh
  <2> QED BY <2>1, <2>2, <2>3 DEF Fresh
<1>11. CASE PostBreakpoints(c)
  <2>1. cmd[c].op \in {"bp_set", "bp_clear"}
    BY <1>11 DEF PostBreakpoints
  <2>2. \E pc \in {"targets", "persist"} : \E m : GoWith(c, pc, m)
    BY <1>11 DEF PostBreakpoints
  <2>3. cmd'[c].op = cmd[c].op
    BY <2>2, GoWithEffect, Places
  <2> QED BY <1>2, <2>1, <2>3
<1>12. CASE RequestTargets(c)
  BY <1>0, <1>2, <1>12 DEF RequestTargets, CommandStates
<1>13. CASE ArmTarget(c)
  <2>1. cmd'[c].op # "step"
    BY <1>0, <1>13, ArmEffect DEF CommandStage
  <2> QED BY <1>2, <2>1
<1> QED
  BY <1>3, <1>4, <1>5, <1>6, <1>7, <1>8, <1>9, <1>10, <1>11, <1>12, <1>13
     DEF Command, ClearForFreshWait, PollEnds, ClearAfterExit, PostStepFails, ClearAfterStep,
         Persist, RequestFails, PostAttach, WriteSession, Prepare, KillPing, PostDetach,
         ClearSession

LEMMA VisibleClient ==
  ASSUME Shape, Visible, Client
  PROVE  Visible'
<1>0. /\ stops \in Nat /\ events \in Seq(Events) /\ stopOf \in [Targets -> Nat]
      /\ status \in [Targets -> {"new", "running", "stopped", "gone"}]
  BY DEF Shape, TypeOK
<1>1. UNCHANGED <<file, body, ui, missed>>
  BY ClientEffect DEF daemons
<1>2. DroppedStop' = DroppedStop
  BY <1>1 DEF DroppedStop
<1>3. ASSUME Hits(events) \subseteq Hits(events')
      PROVE  Coming \subseteq Coming'
  BY <1>1, <1>3 DEF Coming
<1>4. ASSUME NEW t \in Targets, StartTarget(t)
      PROVE  Visible'
  <2>1. Started(t) \in Events
    BY DEF Started, Events
  <2>2. Hits(events) \subseteq Hits(events')
    BY <1>0, <1>4, <2>1, HitsOfMore DEF StartTarget
  <2>3. stopOf' = stopOf /\ \A u \in Targets : status'[u] = "stopped" => status[u] = "stopped"
    BY <1>0, <1>4 DEF StartTarget
  <2> QED BY <1>1, <1>2, <1>3, <2>2, <2>3 DEF Visible
<1>5. ASSUME NEW t \in Targets, Stop(t)
      PROVE  Visible'
  <2>1. /\ Stopped(t, stops + 1) \in Events /\ Stopped(t, stops + 1).type = "callStackFormed"
        /\ Stopped(t, stops + 1).hit = stops + 1
    BY <1>0 DEF Stopped, Events
  <2>2. Hits(events') = Hits(events) \cup {stops + 1}
    BY <1>0, <1>5, <2>1, HitsOfMore DEF Stop
  <2>3. /\ \A u \in Targets \ {t} : status'[u] = status[u] /\ stopOf'[u] = stopOf[u]
        /\ stopOf'[t] = stops + 1
    BY <1>0, <1>5 DEF Stop
  <2>4. stops + 1 \in Coming'
    BY <2>2 DEF Coming
  <2> QED BY <1>1, <1>2, <1>3, <2>2, <2>3, <2>4 DEF Visible
<1>6. ASSUME NEW t \in Targets, Quit(t)
      PROVE  Visible'
  <2>1. events' = events /\ stopOf' = stopOf
        /\ \A u \in Targets : status'[u] = "stopped" => status[u] = "stopped"
    BY <1>0, <1>6 DEF Quit
  <2> QED BY <1>1, <1>2, <1>3, <2>1 DEF Visible
<1> QED BY <1>4, <1>5, <1>6 DEF Client

LEMMA VisibleDaemon ==
  ASSUME Shape, Reader, Visible, NEW d \in Daemons, Daemon(d)
  PROVE  Visible'
<1>0. DaemonTypes
  BY TypesSplit DEF Shape
<1>1. /\ UNCHANGED <<ui, status, stopOf>>
      /\ file' # Null => file # Null /\ file'.sessionId = file.sessionId
  BY DaemonEffect
<1>2. ASSUME missed \cup Coming \cup DroppedStop \subseteq missed' \cup Coming' \cup DroppedStop'
      PROVE  Visible'
  BY <1>1, <1>2 DEF Visible
<1>3. CASE UNCHANGED <<events, body, missed>> /\ DroppedStop' = DroppedStop
  <2>1. Coming' = Coming
    BY <1>3 DEF Coming
  <2> QED BY <1>2, <1>3, <2>1
<1>4. CASE Exit(d) /\ UNCHANGED <<events, file>> /\ missed' = missed \cup Hits(body[d])
  <2>1. \A e \in Daemons \ {d} : body'[e] = body[e]
    BY <1>0, <1>4, Exits
  <2>2. Coming \subseteq Coming' \cup Hits(body[d])
    BY <1>4, <2>1 DEF Coming
  <2>3. DroppedStop' = DroppedStop
    BY <1>4 DEF DroppedStop
  <2> QED BY <1>2, <1>4, <2>2, <2>3
<1>5. CASE PingDelivers(d)
  <2>1. /\ body' = [body EXCEPT ![d] = events] /\ UNCHANGED <<file, missed>>
        /\ thread[d]["main"].pc = "ping"
    BY <1>5 DEF PingDelivers
  <2>2. Hits(body[d]) = {}
    BY <2>1, HitsOfNone DEF Shape, DaemonStage
  <2>3. /\ \A e \in Daemons \ {d} : body'[e] = body[e]
        /\ body'[d] = events
    BY <1>0, <2>1 DEF DaemonTypes
  <2>4. Coming \subseteq Coming'
    BY <2>2, <2>3 DEF Coming
  <2>5. DroppedStop' = DroppedStop
    BY <2>1 DEF DroppedStop
  <2> QED BY <1>2, <2>1, <2>4, <2>5
<1>6. CASE PersistStop(d)
  <2>1. events' = events /\ body' = [body EXCEPT ![d] = <<>>]
    BY <1>6, StopWrittenDown
  <2>2. \A e \in Daemons \ {d} : body'[e] = body[e]
    BY <1>0, <2>1 DEF DaemonTypes
  <2>3. Coming \subseteq Coming' \cup Hits(body[d])
    BY <2>1, <2>2 DEF Coming
  <2>4. CASE Hits(body[d]) = {} /\ missed' = missed /\ DroppedStop' = DroppedStop
    BY <1>2, <2>3, <2>4
  <2>5. ASSUME NEW n \in Hits(body[d]),
               missed' = missed \cup DroppedStop \cup (Hits(body[d]) \ {n}),
               file' # Null => DroppedStop' = {n}
        PROVE  Visible'
    <3>1. CASE file' = Null
      BY <3>1 DEF Visible
    <3>2. CASE file' # Null
      <4>1. missed \cup Coming \cup DroppedStop \subseteq missed' \cup Coming' \cup DroppedStop'
        BY <2>3, <2>5, <3>2
      <4> QED BY <1>2, <4>1
    <3> QED BY <3>1, <3>2
  <2> QED BY <1>6, <2>4, <2>5, StopWrittenDown
<1> QED BY <1>3, <1>4, <1>5, <1>6, DaemonCases

LEMMA VisibleCommand ==
  ASSUME Shape, IdsUsed, Visible, NEW c \in Clis, Sessions(c), Command(c)
  PROVE  Visible'
<1>0. DaemonTypes
  BY TypesSplit DEF Shape
<1>1. stopOf' = stopOf
  BY CommandCases
<1>2. ASSUME UNCHANGED <<events, body>> PROVE Coming' = Coming
  BY <1>2 DEF Coming
<1>3. ASSUME UNCHANGED file PROVE DroppedStop' = DroppedStop
  BY <1>3 DEF DroppedStop
<1>4. CASE /\ UNCHANGED <<events, body, missed, ui, file>>
           /\ \A t \in Targets : status'[t] = "stopped" => status[t] = "stopped"
  BY <1>1, <1>2, <1>3, <1>4 DEF Visible
<1>5. CASE /\ UNCHANGED <<events, file, ui, status>>
           /\ \E d \in Daemons : Exit(d) /\ missed' = missed \cup Hits(body[d])
  <2>1. PICK d \in Daemons : Exit(d) /\ missed' = missed \cup Hits(body[d])
    BY <1>5
  <2>2. \A e \in Daemons \ {d} : body'[e] = body[e]
    BY <1>0, <2>1, Exits
  <2>3. Coming \subseteq Coming' \cup Hits(body[d])
    BY <1>5, <2>2 DEF Coming
  <2> QED BY <1>1, <1>3, <1>5, <2>1, <2>3 DEF Visible
<1>6. CASE /\ UNCHANGED <<events, body, ui, status>>
           /\ file' # Null => file # Null /\ file'.sessionId = file.sessionId
           /\ DroppedStop' = {} /\ missed' = missed \cup DroppedStop
  BY <1>1, <1>2, <1>6 DEF Visible
<1>7. CASE /\ UNCHANGED <<events, body, ui, status, missed>>
           /\ file # Null /\ file'.sessionId = file.sessionId
           /\ DroppedStop = {} \/ DroppedStop' = DroppedStop
  BY <1>1, <1>2, <1>7 DEF Visible
<1>8. CASE /\ UNCHANGED <<body, file, missed>> /\ events' = <<>>
           /\ file # Null => file.sessionId # ui'
  BY <1>8 DEF Visible
<1>9. CASE /\ UNCHANGED <<events, body, ui, status, missed>> /\ DroppedStop' = {}
           /\ file' # Null /\ ui = file'.sessionId => \A t \in Targets : status[t] # "stopped"
  BY <1>9 DEF Visible
<1> QED BY <1>4, <1>5, <1>6, <1>7, <1>8, <1>9, CommandCases

-----------------------------------------------------------------------------
(* The invariant, and the theorems for one terminal. *)

LEMMA IInvInit == Init => IInv
<1> SUFFICES ASSUME Init PROVE IInv
  OBVIOUS
<1>1. Visible /\ \A c \in Clis : Fresh(c)
  BY IdleMoves DEF Init, Visible, Fresh
<1> QED BY <1>1, ShapeInit, ReaderInit, AloneInit, OrderedInit DEF IInv, Alone

LEMMA IInvNext == IInv /\ OneTerminal /\ [Next]_vars => IInv'
<1> SUFFICES ASSUME IInv, OneTerminal, [Next]_vars PROVE IInv'
  OBVIOUS
<1>1. /\ Shape /\ Reader /\ IdsUsed /\ (\A c \in Clis : Sessions(c)) /\ Visible /\ Ordered
      /\ \A c \in Clis : Fresh(c)
  BY DEF IInv, Alone
<1>2. Shape' /\ Reader' /\ IdsUsed' /\ \A c \in Clis : Sessions(c)'
  BY <1>1, ShapeNext, ReaderNext, AloneNext
<1>3. CASE UNCHANGED vars
  <2>1. Visible' /\ Ordered'
    BY <1>1, <1>3 DEF Visible, Ordered, Coming, Known, DroppedStop, vars, dbgs, daemons
  <2>2. \A c \in Clis : Fresh(c)'
    BY <1>1, <1>3 DEF Fresh, DroppedStop, vars
  <2> QED BY <1>2, <2>1, <2>2 DEF IInv, Alone
<1>4. CASE Client
  <2>1. Visible' /\ Ordered'
    BY <1>1, <1>4, VisibleClient, OrderedClient
  <2>2. UNCHANGED <<cmd, file>>
    BY <1>1, <1>4, ClientEffect
  <2>3. \A c \in Clis : Fresh(c)'
    BY <1>1, <2>2 DEF Fresh, DroppedStop
  <2> QED BY <1>2, <2>1, <2>3 DEF IInv, Alone
<1>5. ASSUME NEW d \in Daemons, Daemon(d)
      PROVE  IInv'
  <2>1. Visible' /\ Ordered' /\ \A c \in Clis : Fresh(c)'
    BY <1>1, <1>5, VisibleDaemon, OrderedDaemon, FreshDaemon
  <2> QED BY <1>2, <2>1 DEF IInv, Alone
<1>6. ASSUME NEW c \in Clis, Command(c)
      PROVE  IInv'
  <2>1. Visible' /\ Ordered' /\ Fresh(c)'
    BY <1>1, <1>6, VisibleCommand, OrderedCommand, FreshCommand
  <2>2. \A b \in Clis : Fresh(b)'
    BY <2>1 DEF OneTerminal
  <2> QED BY <1>2, <2>1, <2>2 DEF IInv, Alone
<1> QED BY <1>3, <1>4, <1>5, <1>6 DEF Next

LEMMA IInvInvariant == OneTerminal => (Spec => []IInv)
<1> SUFFICES ASSUME OneTerminal PROVE Spec => []IInv
  OBVIOUS
<1>1. IInv /\ [Next]_vars => IInv'
  BY IInvNext
<1> QED BY <1>1, IInvInit, PTL DEF Spec

\* With one terminal dbgs never has two ping daemons to divide its events between
\* (ping.py ensure_background_ping, ping_worker.py).
THEOREM OneReaderAtATime == OneTerminal => (Spec => []OneReader)
<1> SUFFICES ASSUME OneTerminal PROVE Spec => []OneReader
  OBVIOUS
<1>1. IInv => OneReader
  BY DEF IInv, Alone, Reader, OneReader
<1>2. Spec => []IInv
  BY IInvInvariant
<1> QED BY <1>1, <1>2, PTL

\* With one terminal every stop of a target that is still stopped is on disk once
\* nothing is under way, unless a command, a dead daemon or another stop dropped it
\* (ping_worker.py persist_stop_from_ping_body, state.py write_session).
THEOREM StopsAreVisible == OneTerminal => (Spec => []StopVisible)
<1> SUFFICES ASSUME OneTerminal PROVE Spec => []StopVisible
  OBVIOUS
<1>1. IInv => StopVisible
  <2> SUFFICES ASSUME IInv, Quiet, file # Null, ui = file.sessionId, NEW t \in Targets,
                      status[t] = "stopped", stopOf[t] \notin missed
               PROVE  file.lastStop # Null /\ file.lastStop.hit = stopOf[t]
    BY DEF StopVisible
  <2>1. Coming = {}
    BY HitsOfNone DEF Quiet, Coming
  <2>2. stopOf[t] \in DroppedStop
    BY <2>1 DEF IInv, Visible
  <2> QED BY <2>2, StoredAs
<1>2. Spec => []IInv
  BY IInvInvariant
<1> QED BY <1>1, <1>2, PTL

\* With one terminal a step that waits answers with a stop later than the one it was
\* started at (control.py _run_step, _await_persisted_stop).
THEOREM StepsAnswerFresh == OneTerminal => (Spec => []StepAnswersFresh)
<1> SUFFICES ASSUME OneTerminal PROVE Spec => []StepAnswersFresh
  OBVIOUS
<1>1. IInv => StepAnswersFresh
  <2> SUFFICES ASSUME IInv, NEW c \in Clis, cmd[c].op = "step", cmd[c].pc = "persist"
               PROVE  cmd[c].mem.last_stop.hit > cmd[c].pinned
    BY DEF StepAnswersFresh
  <2>1. cmd[c].mem.last_stop # Null /\ cmd[c].pinned < cmd[c].mem.last_stop.hit
    BY DEF IInv, Fresh
  <2>2. cmd[c] \in CommandStates /\ cmd[c].mem \in Mems
    BY DEF IInv, Shape, TypeOK, CommandStage, Holding, MemPcs
  <2>3. cmd[c].mem.last_stop.hit \in Nat /\ cmd[c].pinned \in Nat
    BY <2>1, <2>2 DEF CommandStates, Mems, Stops
  <2> QED BY <2>1, <2>3
<1>2. Spec => []IInv
  BY IInvInvariant
<1> QED BY <1>1, <1>2, PTL
=============================================================================
