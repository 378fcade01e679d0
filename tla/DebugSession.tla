----------------------------- MODULE DebugSession -----------------------------
(***************************************************************************)
(* One debug session at work: the CLI commands of core/debug (attach, wait, *)
(* step, breakpoint, targets, detach, the reset before a client is spawned) *)
(* and the ping daemon of core/debug/ping_worker.py with its two threads,   *)
(* talking through session.json and to dbgs, the 1C debug server.           *)
(*                                                                         *)
(* Each read-modify-write of session.json is one step here: SessionFile     *)
(* justifies that.  dbgs and the 1C clients are external: what they do is   *)
(* taken from what the code sends them and expects back.                    *)
(***************************************************************************)
EXTENDS SessionRecord, Sequences, FiniteSets

CONSTANTS
  Clis,         \* the terminals: each runs one CLI command at a time
  Commands,     \* the commands they run, of AllCommands
  Daemons,      \* ids of the ping daemon processes that may be spawned
  Sids,         \* sequence of the session ids uuid4 will return
  Targets,      \* ids of the debug targets (1C client connections)
  Breakpoints,  \* the breakpoints a user sets, one per module
  MaxStops,     \* bound: how often targets stop in all
  HttpFails     \* whether a request may fail for want of a connection

AllCommands == {"attach", "wait", "wait_fresh", "step", "step_no_wait", "pause", "bp_set",
                "bp_clear", "targets", "detach", "force_detach", "prepare"}

ASSUME CommandsKnown == Commands \subseteq AllCommands
ASSUME MaxStopsNat == MaxStops \in Nat
ASSUME HttpFailsBoolean == HttpFails \in BOOLEAN
ASSUME SidsAreUuids == /\ Len(Sids) \in Nat /\ DOMAIN Sids = 1..Len(Sids)
                       /\ \A i \in DOMAIN Sids : Sids[i] # Null
                       /\ \A i, j \in DOMAIN Sids : Sids[i] = Sids[j] => i = j
SidSet == {Sids[i] : i \in DOMAIN Sids}
Stops == [tid : Targets, hit : Nat]
Records == [sessionId : SidSet, lastStop : Stops \cup {Null}, attachedTargets : SUBSET Targets,
            breakpoints : (SUBSET Breakpoints) \cup {Null}, lastTargetId : Targets \cup {Null}]
Mems == [session_id : SidSet, last_stop : Stops \cup {Null}, attached_targets : SUBSET Targets,
         breakpoints : SUBSET Breakpoints, last_target_id : Targets \cup {Null}]
Pids == [daemon : Daemons, sessionId : SidSet]

ASSUME NullIsNoValue == Null \notin Stops \cup Records \cup Mems \cup Pids

Threads == {"main", "scan"}

VARIABLES
  file,         \* session.json
  pingPid,      \* ping.pid and ping.meta: [daemon, sessionId], or Null
  \* dbgs and the clients
  ui,           \* the registered debug UI session, or Null
  status,       \* what each target does: new, running, stopped, gone
  stopOf,       \* the stop a stopped target is at
  stops,        \* how many stops there were
  events,       \* events not yet delivered to a ping, in order
  armed,        \* targets attached to the registered UI
  workspace,    \* the breakpoints dbgs holds
  \* the daemons
  thread,       \* per daemon and thread: pc, the targets left to attach, the current one
  sid,          \* per daemon: the session it serves
  body,         \* per daemon: the ping body being handled
  live,         \* per daemon: what the scanner got from getDbgAllTargetStates
  mem,          \* per daemon: the DebugSession object its threads share
  attachLock,   \* per daemon: the thread inside attach_target's lock, or Null
  \* the commands
  cmd,          \* per terminal: the running command
  spawned,      \* how many session ids are used up
  missed        \* history: the stops a command, a dead daemon or another stop dropped

dbgs == <<ui, status, stopOf, stops, events, armed, workspace>>
daemons == <<thread, sid, body, live, mem, attachLock>>
vars == <<file, pingPid, dbgs, daemons, cmd, spawned, missed>>

Idle == [op |-> "none", pc |-> "idle", mem |-> Null, todo |-> {}, pinned |-> 0, tid |-> Null,
         sessionId |-> Null]
Off == [pc |-> "off", todo |-> {}, tid |-> Null]

MainPcs == {"check", "ping", "attach", "post", "save"}
ThreadStates == [pc : {"off", "boot", "idle"} \cup MainPcs, todo : SUBSET Targets,
                 tid : Targets \cup {Null}]
\* The places of a command that holds a DebugSession object, and the rest of them.
MemPcs == {"fresh", "clear", "post", "drop", "exited", "poll", "persist", "bp", "targets", "arm",
           "write"}
CommandPcs == {"idle", "attach", "prepare", "kill", "detach", "remove", "restore", "ensure",
               "spawn"} \cup MemPcs
CommandStates == [op : Commands \cup {"none"}, pc : CommandPcs, mem : Mems \cup {Null},
                  todo : SUBSET Targets, pinned : Nat, tid : Targets \cup {Null},
                  sessionId : SidSet \cup {Null}]

Events == [type : {"targetStarted", "callStackFormed"}, tid : Targets, hit : Nat]
Started(t) == [type |-> "targetStarted", tid |-> t, hit |-> 0]
Stopped(t, n) == [type |-> "callStackFormed", tid |-> t, hit |-> n]

\* The places of the events of a kind, the stops they tell of, and the first of them.
EventsOf(seq, type) == {i \in DOMAIN seq : seq[i].type = type}
Hits(seq) == {seq[i].hit : i \in EventsOf(seq, "callStackFormed")}
First(places) == CHOOSE i \in places : \A j \in places : i <= j

Alive(d) == thread[d]["main"].pc # "off"
LiveTargets == {t \in Targets : status[t] \in {"running", "stopped"}}
\* parse_targets of the answer to session s: an error body holds no targets.
TargetsSeenBy(s) == IF ui = s THEN LiveTargets ELSE {}
HitOf(stop) == IF stop = Null THEN 0 ELSE stop.hit

Init ==
  /\ file = Null /\ pingPid = Null
  /\ ui = Null /\ events = <<>> /\ workspace = {} /\ stops = 0
  /\ status = [t \in Targets |-> "new"]
  /\ stopOf = [t \in Targets |-> 0]
  /\ armed = {}
  /\ thread = [d \in Daemons |-> [x \in Threads |-> Off]]
  /\ sid = [d \in Daemons |-> Null]
  /\ body = [d \in Daemons |-> <<>>]
  /\ live = [d \in Daemons |-> {}]
  /\ mem = [d \in Daemons |-> Null]
  /\ attachLock = [d \in Daemons |-> Null]
  /\ cmd = [c \in Clis |-> Idle]
  /\ spawned = 0 /\ missed = {}

-----------------------------------------------------------------------------
(* dbgs and the 1C clients. *)

\* A client connects; with autoAttach set dbgs reports it to the debug UI.
StartTarget(t) ==
  /\ status[t] = "new"
  /\ status' = [status EXCEPT ![t] = "running"]
  /\ events' = IF ui = Null THEN events ELSE Append(events, Started(t))
  /\ UNCHANGED <<file, pingPid, ui, stopOf, stops, armed, workspace, daemons, cmd, spawned, missed>>

\* An attached target reaches a breakpoint or ends a step.
Stop(t) ==
  /\ status[t] = "running" /\ t \in armed /\ stops < MaxStops
  /\ status' = [status EXCEPT ![t] = "stopped"]
  /\ stops' = stops + 1
  /\ stopOf' = [stopOf EXCEPT ![t] = stops + 1]
  /\ events' = Append(events, Stopped(t, stops + 1))
  /\ UNCHANGED <<file, pingPid, ui, armed, workspace, daemons, cmd, spawned, missed>>

\* The client exits or is closed.
Quit(t) ==
  /\ status[t] \in {"running", "stopped"}
  /\ status' = [status EXCEPT ![t] = "gone"]
  /\ UNCHANGED <<file, pingPid, ui, stopOf, stops, events, armed, workspace, daemons, cmd,
                 spawned, missed>>

\* dbgs has no UI session any more, or another one: targets are let go and what
\* was kept for the old one is dropped.
RegisterUi(s) ==
  /\ ui' = s
  /\ status' = [t \in Targets |-> IF status[t] = "stopped" THEN "running" ELSE status[t]]
  /\ events' = <<>>
  /\ armed' = {}
  /\ workspace' = {}
  /\ UNCHANGED <<stopOf, stops>>

\* attachDetachDbgTargets and, when there are any, setBreakpoints.
AttachRequest(s, t, bps) ==
  /\ armed' = IF ui = s THEN armed \cup {t} ELSE armed
  /\ workspace' = IF ui = s /\ bps # {} THEN bps ELSE workspace
  /\ UNCHANGED <<ui, status, stopOf, stops, events>>

-----------------------------------------------------------------------------
(* The ping daemon. *)

Become(d, x, pc, todo, t) ==
  thread' = [thread EXCEPT ![d][x] = [pc |-> pc, todo |-> todo, tid |-> t]]

\* The process ends: both threads are gone, and with them the body in hand.
Exit(d) ==
  /\ thread' = [thread EXCEPT ![d] = [x \in Threads |-> Off]]
  /\ body' = [body EXCEPT ![d] = <<>>]
  /\ live' = [live EXCEPT ![d] = {}]
  /\ mem' = [mem EXCEPT ![d] = Null]
  /\ attachLock' = [attachLock EXCEPT ![d] = Null]
  /\ sid' = [sid EXCEPT ![d] = Null]

\* The stop a write of session.json takes off the disk or overwrites.
DroppedStop == IF file = Null \/ file.lastStop = Null THEN {} ELSE {file.lastStop.hit}

\* The stops a daemon has received and not yet written down.
Unwritten(d) == Hits(body[d])

\* Mutant for TypeOK: the session id is not remembered.
Bootstrap_NoSid(d) ==
  /\ thread[d]["main"].pc = "boot" /\ file # Null
  /\ mem' = [mem EXCEPT ![d] = DebugSession(file.sessionId)]
  /\ thread' = [thread EXCEPT ![d] = [x \in Threads |-> [Off EXCEPT !.pc = "check"]]]
  /\ UNCHANGED <<sid, body, live, attachLock, file, pingPid, dbgs, cmd, spawned, missed>>

\* _Daemon._bootstrap and the start of the scanner thread.
Bootstrap(d) ==
  /\ thread[d]["main"].pc = "boot"
  /\ IF file = Null
     THEN Exit(d)
     ELSE /\ sid' = [sid EXCEPT ![d] = file.sessionId]
          /\ mem' = [mem EXCEPT ![d] = [DebugSession(file.sessionId) EXCEPT
                                          !.attached_targets = file.attachedTargets]]
          /\ thread' = [thread EXCEPT ![d] = [x \in Threads |->
                                                [Off EXCEPT !.pc = IF x = "main" THEN "check"
                                                                   ELSE "idle"]]]
          /\ UNCHANGED <<body, live, attachLock>>
  /\ UNCHANGED <<file, pingPid, dbgs, cmd, spawned, missed>>

\* Mutant for OrphanExits: any session.json keeps the daemon alive.
CheckSession_AnySession(d) ==
  /\ thread[d]["main"].pc = "check"
  /\ IF file # Null
     THEN Become(d, "main", "ping", {}, Null) /\ UNCHANGED <<sid, body, live, mem, attachLock>>
     ELSE Exit(d)
  /\ UNCHANGED <<file, pingPid, dbgs, cmd, spawned, missed>>

\* The head of the main loop: _session_alive.
CheckSession(d) ==
  /\ thread[d]["main"].pc = "check"
  /\ IF file # Null /\ file.sessionId = sid[d]
     THEN Become(d, "main", "ping", {}, Null) /\ UNCHANGED <<sid, body, live, mem, attachLock>>
     ELSE Exit(d)
  /\ UNCHANGED <<file, pingPid, dbgs, cmd, spawned, missed>>

\* pingDebugUIParams answers with everything that happened: delivered once.
PingDelivers(d) ==
  /\ thread[d]["main"].pc = "ping"
  /\ ui = sid[d] /\ events # <<>>
  /\ body' = [body EXCEPT ![d] = events]
  /\ events' = <<>>
  /\ Become(d, "main", "attach", {events[i].tid : i \in EventsOf(events, "targetStarted")}, Null)
  /\ UNCHANGED <<file, pingPid, ui, status, stopOf, stops, armed, workspace, sid, live, mem,
                 attachLock, cmd, spawned, missed>>

\* The long poll ends with nothing to tell, an error status or a timeout.
PingEmpty(d) ==
  /\ thread[d]["main"].pc = "ping"
  /\ ui # sid[d] \/ events = <<>>
  /\ Become(d, "main", "check", {}, Null)
  /\ UNCHANGED <<file, pingPid, dbgs, sid, body, live, mem, attachLock, cmd, spawned, missed>>

\* _scanner: getDbgAllTargetStates.
Scan(d) ==
  /\ thread[d]["scan"].pc = "idle"
  /\ live' = [live EXCEPT ![d] = TargetsSeenBy(sid[d])]
  /\ Become(d, "scan", "attach", TargetsSeenBy(sid[d]), Null)
  /\ UNCHANGED <<file, pingPid, dbgs, sid, body, mem, attachLock, cmd, spawned, missed>>

\* attach_target up to the request: take the lock, merge the targets session.json
\* names, leave if this one is attached, else take the breakpoints from disk.
AttachTarget(d, x) ==
  LET th == thread[d][x]
      known == mem[d].attached_targets \cup (IF file = Null THEN {} ELSE file.attachedTargets)
      bps == IF file = Null \/ file.breakpoints = Null THEN {} ELSE file.breakpoints
  IN /\ th.pc = "attach"
     /\ attachLock[d] = Null
     /\ \E t \in th.todo :
          IF t \in known
          THEN /\ Become(d, x, "attach", th.todo \ {t}, Null)
               /\ mem' = [mem EXCEPT ![d].attached_targets = known]
               /\ UNCHANGED attachLock
          ELSE /\ Become(d, x, "post", th.todo \ {t}, t)
               /\ mem' = [mem EXCEPT ![d].attached_targets = known, ![d].breakpoints = bps]
               /\ attachLock' = [attachLock EXCEPT ![d] = x]
     /\ UNCHANGED <<file, pingPid, dbgs, sid, body, live, cmd, spawned, missed>>

\* DebugSession.attach_target: attach, remember, re-send the breakpoints.
AttachPost(d, x) ==
  LET th == thread[d][x]
  IN /\ th.pc = "post"
     /\ AttachRequest(sid[d], th.tid, mem[d].breakpoints)
     /\ mem' = [mem EXCEPT ![d].attached_targets = @ \cup {th.tid}]
     /\ Become(d, x, "save", th.todo, th.tid)
     /\ UNCHANGED <<file, pingPid, sid, body, live, attachLock, cmd, spawned, missed>>

\* A request fails, the attach or the setBreakpoints after it: the main thread
\* goes on with the next target, the scanner gives this scan up.
AttachFails(d, x) ==
  LET th == thread[d][x]
  IN /\ HttpFails /\ th.pc = "post"
     /\ \/ UNCHANGED <<dbgs, mem>>
        \/ /\ mem[d].breakpoints # {}
           /\ AttachRequest(sid[d], th.tid, {})
           /\ mem' = [mem EXCEPT ![d].attached_targets = @ \cup {th.tid}]
     /\ IF x = "main" THEN Become(d, x, "attach", th.todo, Null)
                      ELSE Become(d, x, "idle", {}, Null)
     /\ attachLock' = [attachLock EXCEPT ![d] = Null]
     /\ UNCHANGED <<file, pingPid, sid, body, live, cmd, spawned, missed>>

\* attach_target's _persist_targets, and the release of the lock.
AttachSave(d, x) ==
  LET th == thread[d][x]
  IN /\ th.pc = "save"
     /\ file' = persist_targets(file, sid[d], mem[d].attached_targets)
     /\ attachLock' = [attachLock EXCEPT ![d] = Null]
     /\ Become(d, x, "attach", th.todo, Null)
     /\ UNCHANGED <<pingPid, dbgs, sid, body, live, mem, cmd, spawned, missed>>

\* The end of scan_targets: forget the targets that were not in the answer.
Prune(d) ==
  LET th == thread[d]["scan"]
      stale == mem[d].attached_targets \ live[d]
  IN /\ th.pc = "attach" /\ th.todo = {}
     /\ attachLock[d] = Null
     /\ mem' = [mem EXCEPT ![d].attached_targets = @ \ stale]
     /\ file' = IF stale = {} THEN file
                ELSE persist_targets(file, sid[d], mem[d].attached_targets \ stale)
     /\ live' = [live EXCEPT ![d] = {}]
     /\ Become(d, "scan", "idle", {}, Null)
     /\ UNCHANGED <<pingPid, dbgs, sid, body, attachLock, cmd, spawned, missed>>

\* Mutant for StopWritten: a body that also starts a target is taken for no stop.
PersistStop_OneKind(d) ==
  LET formed == EventsOf(body[d], "callStackFormed")
      event == body[d][First(formed)]
  IN /\ thread[d]["main"].pc = "attach" /\ thread[d]["main"].todo = {}
     /\ file' = IF formed = {} \/ EventsOf(body[d], "targetStarted") # {} THEN file
                ELSE persist_stop(file, [tid |-> event.tid, hit |-> event.hit])
     /\ body' = [body EXCEPT ![d] = <<>>]
     /\ Become(d, "main", "check", {}, Null)
     /\ UNCHANGED <<pingPid, dbgs, sid, live, mem, attachLock, cmd, spawned, missed>>

\* The end of _handle_ping_body: the first callStackFormed becomes lastStop, in
\* place of an earlier one.
PersistStop(d) ==
  LET th == thread[d]["main"]
      formed == EventsOf(body[d], "callStackFormed")
      event == body[d][First(formed)]
  IN /\ th.pc = "attach" /\ th.todo = {}
     /\ IF formed = {}
        THEN UNCHANGED <<file, missed>>
        ELSE /\ file' = persist_stop(file, [tid |-> event.tid, hit |-> event.hit])
             /\ missed' = missed \cup DroppedStop \cup (Hits(body[d]) \ {event.hit})
     /\ body' = [body EXCEPT ![d] = <<>>]
     /\ Become(d, "main", "check", {}, Null)
     /\ UNCHANGED <<pingPid, dbgs, sid, live, mem, attachLock, cmd, spawned>>

\* The daemon is killed, or gives up after MAX_CONSECUTIVE_ERRORS.
Crash(d) ==
  /\ Alive(d)
  /\ Exit(d)
  /\ missed' = missed \cup Unwritten(d)
  /\ UNCHANGED <<file, pingPid, dbgs, cmd, spawned>>

-----------------------------------------------------------------------------
(* The CLI commands.  A command that fails goes back to Idle. *)

Go(c, pc) == cmd' = [cmd EXCEPT ![c].pc = pc]
GoWith(c, pc, m) == cmd' = [cmd EXCEPT ![c].pc = pc, ![c].mem = m]
Done(c) == cmd' = [cmd EXCEPT ![c] = Idle]

StartCommand(c) ==
  /\ cmd[c].pc = "idle"
  /\ \E o \in Commands :
       /\ o = "attach" => spawned < Len(Sids)
       /\ cmd' = [cmd EXCEPT ![c] =
                    [Idle EXCEPT !.op = o,
                                 !.pc = CASE o = "attach" -> "attach"
                                          [] o = "prepare" -> "prepare"
                                          [] o \in {"detach", "force_detach"} -> "kill"
                                          [] OTHER -> "restore"]]
  /\ UNCHANGED <<file, pingPid, dbgs, daemons, spawned, missed>>

\* DebugContext.restore, and the pin of the stopped target in _run_step.
Restore(c) ==
  /\ cmd[c].pc = "restore"
  /\ IF file = Null
     THEN Done(c)
     ELSE LET m == restore_session(file)
          IN cmd' = [cmd EXCEPT
               ![c].mem = m,
               ![c].pinned = HitOf(m.last_stop),
               ![c].tid = IF m.last_stop = Null THEN Null ELSE m.last_stop.tid,
               ![c].pc = CASE cmd[c].op = "wait_fresh" -> "fresh"
                           [] cmd[c].op \in {"wait", "step", "step_no_wait", "pause"} -> "ensure"
                           [] cmd[c].op \in {"bp_set", "bp_clear"} -> "bp"
                           [] cmd[c].op = "targets" -> "targets"]
  /\ UNCHANGED <<file, pingPid, dbgs, daemons, spawned, missed>>

\* session.clear_cached_stop and ctx.persist(clear_last_stop=True).
PersistCleared(c) ==
  /\ file' = persist_session_runtime(file, [cmd[c].mem EXCEPT !.last_stop = Null], TRUE)
  /\ missed' = missed \cup DroppedStop
  /\ UNCHANGED <<pingPid, dbgs, daemons, spawned>>

\* run_wait(fresh=True): drop what is there first.
ClearForFreshWait(c) ==
  /\ cmd[c].pc = "fresh"
  /\ PersistCleared(c)
  /\ GoWith(c, "ensure", [cmd[c].mem EXCEPT !.last_stop = Null])

AfterEnsure(op) ==
  CASE op \in {"wait", "wait_fresh"} -> "poll"
    [] op \in {"step", "pause"}      -> "clear"
    [] op = "step_no_wait"           -> "post"
    [] OTHER                         -> "idle"

\* Mutant for OneReader: the daemon of another session is left running.
EnsurePing_KeepsOld(c) ==
  /\ cmd[c].pc = "ensure"
  /\ IF file = Null \/ (pingPid # Null /\ pingPid.sessionId = file.sessionId)
     THEN Done(c) /\ UNCHANGED pingPid
     ELSE /\ cmd' = [cmd EXCEPT ![c].pc = "spawn", ![c].sessionId = file.sessionId]
          /\ pingPid' = Null
  /\ UNCHANGED <<file, dbgs, daemons, spawned, missed>>

\* ensure_background_ping up to the decision to spawn: alive_ping clears a stale
\* pid, a daemon of another session is stopped.
EnsurePing(c) ==
  LET running == pingPid # Null /\ Alive(pingPid.daemon)
      next == AfterEnsure(cmd[c].op)
  IN /\ cmd[c].pc = "ensure"
     /\ IF file = Null \/ (running /\ pingPid.sessionId = file.sessionId)
        THEN /\ IF next = "idle" THEN Done(c) ELSE Go(c, next)
             /\ pingPid' = IF running THEN pingPid ELSE Null
             /\ UNCHANGED <<daemons, missed>>
        ELSE /\ cmd' = [cmd EXCEPT ![c].pc = "spawn", ![c].sessionId = file.sessionId]
             /\ pingPid' = Null
             /\ IF running
                THEN /\ Exit(pingPid.daemon)
                     /\ missed' = missed \cup Unwritten(pingPid.daemon)
                ELSE UNCHANGED <<daemons, missed>>
     /\ UNCHANGED <<file, dbgs, spawned>>

\* default_spawn_ping and write_ping_state; a failed spawn is only a warning.
SpawnPing(c) ==
  LET free == {d \in Daemons : ~Alive(d) /\ (pingPid = Null \/ pingPid.daemon # d)}
      next == AfterEnsure(cmd[c].op)
  IN /\ cmd[c].pc = "spawn"
     /\ IF next = "idle" THEN Done(c) ELSE Go(c, next)
     /\ \/ /\ free = {}
           /\ UNCHANGED <<thread, pingPid>>
        \/ \E d \in free :
             /\ Become(d, "main", "boot", {}, Null)
             /\ pingPid' = [daemon |-> d, sessionId |-> cmd[c].sessionId]
     /\ UNCHANGED <<file, dbgs, sid, body, live, mem, attachLock, spawned, missed>>

\* _await_persisted_stop finds lastStop on disk.
PollFinds(c) ==
  /\ cmd[c].pc = "poll"
  /\ file # Null /\ file.lastStop # Null
  /\ GoWith(c, "persist", apply_stored_runtime(cmd[c].mem, file))
  /\ UNCHANGED <<file, pingPid, dbgs, daemons, spawned, missed>>

\* No stop on disk: the deadline passes, or the client exited (which is how a
\* step may end, not a wait).
PollEnds(c) ==
  /\ cmd[c].pc = "poll"
  /\ file = Null \/ file.lastStop = Null
  /\ \/ Done(c)
     \/ /\ cmd[c].op = "step"
        /\ LiveTargets = {} /\ \E t \in Targets : status[t] = "gone"
        /\ Go(c, "exited")
  /\ UNCHANGED <<file, pingPid, dbgs, daemons, spawned, missed>>

\* _run_step after the client exited: clear once more and report success.
ClearAfterExit(c) ==
  /\ cmd[c].pc = "exited"
  /\ PersistCleared(c)
  /\ Done(c)

\* Mutant for StepAnswersFresh: the stop is cleared in memory only.
ClearBeforeStep_InMemory(c) ==
  /\ cmd[c].pc = "clear"
  /\ GoWith(c, "post", [cmd[c].mem EXCEPT !.last_stop = Null])
  /\ UNCHANGED <<file, pingPid, dbgs, daemons, spawned, missed>>

\* _run_step(wait=True): clear before the request is sent.
ClearBeforeStep(c) ==
  /\ cmd[c].pc = "clear"
  /\ PersistCleared(c)
  /\ GoWith(c, "post", [cmd[c].mem EXCEPT !.last_stop = Null])

\* The step request: to the pinned target or the one _require_target_id finds.
\* dbgs resumes a stopped target of its UI session; any other answer is ignored.
\* run_pause asks for a stop at the next line instead.
PostStep(c) ==
  LET goals == IF cmd[c].tid # Null THEN {cmd[c].tid} ELSE step_targets(cmd[c].mem)
  IN /\ cmd[c].pc = "post"
     /\ \/ /\ cmd[c].op = "pause"
           /\ Go(c, "poll")
           /\ UNCHANGED status
        \/ /\ cmd[c].op # "pause" /\ goals = {}
           /\ Done(c)
           /\ UNCHANGED status
        \/ cmd[c].op # "pause" /\ \E t \in goals :
             /\ status' = IF ui = cmd[c].mem.session_id /\ status[t] = "stopped"
                          THEN [status EXCEPT ![t] = "running"] ELSE status
             /\ Go(c, IF cmd[c].op = "step" THEN "poll" ELSE "drop")
     /\ UNCHANGED <<file, pingPid, ui, stopOf, stops, events, armed, workspace, daemons, spawned,
                    missed>>

\* The request fails: the command ends, and a stop cleared before stays cleared.
PostStepFails(c) ==
  /\ HttpFails /\ cmd[c].pc = "post"
  /\ Done(c)
  /\ UNCHANGED <<file, pingPid, dbgs, daemons, spawned, missed>>

\* _run_step(wait=False): clear after the request was sent.
ClearAfterStep(c) ==
  /\ cmd[c].pc = "drop"
  /\ PersistCleared(c)
  /\ Done(c)

\* The ctx.persist that ends a wait, step, breakpoint or targets command.
Persist(c) ==
  /\ cmd[c].pc = "persist"
  /\ file' = persist_session_runtime(file, cmd[c].mem, FALSE)
  /\ Done(c)
  /\ UNCHANGED <<pingPid, dbgs, daemons, spawned, missed>>

\* run_breakpoint_set and run_breakpoint_clear: the whole workspace is sent.
PostBreakpoints(c) ==
  LET m == cmd[c].mem
      Send(bps, pc) == /\ GoWith(c, pc, [m EXCEPT !.breakpoints = bps])
                       /\ workspace' = IF ui = m.session_id THEN bps ELSE workspace
  IN /\ cmd[c].pc = "bp"
     /\ \/ /\ cmd[c].op = "bp_set"
           /\ \E b \in Breakpoints : Send(m.breakpoints \cup {b}, "targets")
        \/ cmd[c].op = "bp_clear" /\ Send({}, "persist")
     /\ UNCHANGED <<file, pingPid, ui, status, stopOf, stops, events, armed, daemons, spawned,
                    missed>>

\* ensure_targets_attached: the targets dbgs names ...
RequestTargets(c) ==
  /\ cmd[c].pc = "targets"
  /\ cmd' = [cmd EXCEPT ![c].pc = "arm", ![c].todo = TargetsSeenBy(cmd[c].mem.session_id)]
  /\ UNCHANGED <<file, pingPid, dbgs, daemons, spawned, missed>>

\* ... are attached one by one unless this process knows them to be.
ArmTarget(c) ==
  LET m == cmd[c].mem
  IN /\ cmd[c].pc = "arm"
     /\ \/ cmd[c].todo = {} /\ Go(c, "persist") /\ UNCHANGED dbgs
        \/ \E t \in cmd[c].todo :
             /\ cmd' = [cmd EXCEPT ![c].todo = @ \ {t},
                                   ![c].mem.attached_targets = @ \cup {t},
                                   ![c].mem.last_target_id = t]
             /\ IF t \in m.attached_targets THEN UNCHANGED dbgs
                ELSE AttachRequest(m.session_id, t, m.breakpoints)
     /\ UNCHANGED <<file, pingPid, daemons, spawned, missed>>

\* A breakpoint or targets command whose request fails does not persist.
RequestFails(c) ==
  /\ HttpFails /\ cmd[c].pc \in {"bp", "targets", "arm"}
  /\ Done(c)
  /\ UNCHANGED <<file, pingPid, dbgs, daemons, spawned, missed>>

\* DebugSession.attach: a new session id; ibInDebug ends in a take-over or, after
\* the retries, in an error.  A request after the registration may fail as well.
PostAttach(c) ==
  /\ cmd[c].pc = "attach"
  /\ spawned < Len(Sids)
  /\ spawned' = spawned + 1
  /\ \/ /\ RegisterUi(Sids[spawned + 1])
        /\ GoWith(c, "write", DebugSession(Sids[spawned + 1]))
     \/ HttpFails /\ RegisterUi(Sids[spawned + 1]) /\ Done(c)
     \/ (ui # Null \/ HttpFails) /\ Done(c) /\ UNCHANGED dbgs
  /\ UNCHANGED <<file, pingPid, daemons, missed>>

\* run_attach: write_session with nothing but the session id.
WriteSession(c) ==
  /\ cmd[c].pc = "write"
  /\ file' = write_session(file, attach_args(cmd[c].mem.session_id))
  /\ Go(c, "ensure")
  /\ UNCHANGED <<pingPid, dbgs, daemons, spawned, missed>>

\* prepare_debug_for_spawn: reset_session_runtime, then the daemon.
Prepare(c) ==
  /\ cmd[c].pc = "prepare"
  /\ file' = reset_session_runtime(file)
  /\ IF file = Null
     THEN Done(c) /\ UNCHANGED missed
     ELSE /\ Go(c, "ensure")
          /\ missed' = missed \cup DroppedStop
  /\ UNCHANGED <<pingPid, dbgs, daemons, spawned>>

\* run_detach: stop_background_ping first, ...
KillPing(c) ==
  /\ cmd[c].pc = "kill"
  /\ pingPid' = Null
  /\ IF pingPid # Null /\ Alive(pingPid.daemon)
     THEN /\ Exit(pingPid.daemon)
          /\ missed' = missed \cup Unwritten(pingPid.daemon)
     ELSE UNCHANGED <<daemons, missed>>
  /\ Go(c, "detach")
  /\ UNCHANGED <<file, dbgs, spawned>>

\* ... then detachDebugUI; only force_detach goes on without a session or an answer.
PostDetach(c) ==
  LET forced == cmd[c].op = "force_detach"
  IN /\ cmd[c].pc = "detach"
     /\ \/ /\ file = Null
           /\ IF forced THEN Go(c, "remove") ELSE Done(c)
           /\ UNCHANGED dbgs
        \/ /\ file # Null
           /\ IF ui = file.sessionId THEN RegisterUi(Null) ELSE UNCHANGED dbgs
           /\ Go(c, "remove")
        \/ /\ file # Null /\ HttpFails
           /\ IF forced THEN Go(c, "remove") ELSE Done(c)
           /\ UNCHANGED dbgs
     /\ UNCHANGED <<file, pingPid, daemons, spawned, missed>>

\* ... and clear_session.
ClearSession(c) ==
  /\ cmd[c].pc = "remove"
  /\ file' = Null
  /\ Done(c)
  /\ UNCHANGED <<pingPid, dbgs, daemons, spawned, missed>>

-----------------------------------------------------------------------------
Client == \E t \in Targets : StartTarget(t) \/ Stop(t) \/ Quit(t)

MainThread(d) == \/ Bootstrap(d) \/ CheckSession(d) \/ PingDelivers(d) \/ PingEmpty(d)
                 \/ AttachTarget(d, "main") \/ AttachPost(d, "main") \/ AttachSave(d, "main")
                 \/ PersistStop(d)

ScanThread(d) == \/ Scan(d) \/ AttachTarget(d, "scan") \/ AttachPost(d, "scan")
                 \/ AttachSave(d, "scan") \/ Prune(d)

Command(c) == \/ StartCommand(c) \/ Restore(c) \/ ClearForFreshWait(c) \/ EnsurePing(c)
              \/ SpawnPing(c) \/ PollFinds(c) \/ PollEnds(c) \/ ClearAfterExit(c)
              \/ ClearBeforeStep(c) \/ PostStep(c) \/ PostStepFails(c) \/ ClearAfterStep(c)
              \/ Persist(c) \/ PostBreakpoints(c) \/ RequestTargets(c) \/ ArmTarget(c)
              \/ RequestFails(c) \/ PostAttach(c) \/ WriteSession(c) \/ Prepare(c)
              \/ KillPing(c) \/ PostDetach(c) \/ ClearSession(c)

Daemon(d) == \/ MainThread(d) \/ ScanThread(d) \/ Crash(d)
             \/ \E x \in Threads : AttachFails(d, x)

Next == \/ Client
        \/ \E d \in Daemons : Daemon(d)
        \/ \E c \in Clis : Command(c)

\* Both threads of a live daemon keep running, and a thread that waits for the
\* attach lock gets it although the other one comes back for it.
Fairness == \A d \in Daemons :
              /\ WF_vars(MainThread(d)) /\ WF_vars(ScanThread(d))
              /\ SF_vars(AttachTarget(d, "main"))

Spec == Init /\ [][Next]_vars

FairSpec == Spec /\ Fairness

-----------------------------------------------------------------------------
\* What each variable holds, and that a daemon serves a session once it is up.
TypeOK ==
  /\ file \in Records \cup {Null}
  /\ pingPid \in Pids \cup {Null}
  /\ ui \in SidSet \cup {Null}
  /\ status \in [Targets -> {"new", "running", "stopped", "gone"}]
  /\ stopOf \in [Targets -> Nat] /\ stops \in Nat
  /\ events \in Seq(Events)
  /\ armed \subseteq Targets
  /\ workspace \subseteq Breakpoints
  /\ thread \in [Daemons -> [Threads -> ThreadStates]]
  /\ sid \in [Daemons -> SidSet \cup {Null}]
  /\ body \in [Daemons -> Seq(Events)]
  /\ live \in [Daemons -> SUBSET Targets]
  /\ mem \in [Daemons -> Mems \cup {Null}]
  /\ attachLock \in [Daemons -> Threads \cup {Null}]
  /\ cmd \in [Clis -> CommandStates]
  /\ spawned \in 0..Len(Sids)
  /\ missed \subseteq Nat
  /\ \A d \in Daemons : Alive(d) /\ thread[d]["main"].pc # "boot" => sid[d] # Null

\* ping_worker.py: the daemon is the only pingDebugUIParams reader; events are
\* delivered once, so a second reader would take half of them away.
OneReader == \A d, e \in Daemons : Alive(d) /\ Alive(e) => d = e

Quiet == /\ \A c \in Clis : cmd[c].pc = "idle"
         /\ events = <<>> /\ \A d \in Daemons : body[d] = <<>>

\* Nothing is under way and the session is intact: a stopped target's stop is
\* on disk for the next wait, or it is one of those that a command, a dead daemon or
\* another stop is known to have dropped.
StopVisible ==
  Quiet /\ file # Null /\ ui = file.sessionId =>
    \A t \in Targets : status[t] = "stopped" =>
      \/ file.lastStop # Null /\ file.lastStop.hit = stopOf[t]
      \/ stopOf[t] \in missed

\* A step waits for the next stop: it does not answer with the stop it left.
StepAnswersFresh ==
  \A c \in Clis : cmd[c].op = "step" /\ cmd[c].pc = "persist" /\ cmd[c].pinned > 0 =>
    cmd[c].mem.last_stop.hit > cmd[c].pinned

\* A daemon whose session is gone or replaced ends, whatever its threads do.
Orphan(d) == Alive(d) /\ sid[d] # Null /\ (file = Null \/ file.sessionId # sid[d])
OrphanExits == \A d \in Daemons : Orphan(d) ~> ~Orphan(d)

\* A stop is written to disk as long as the daemon that serves the session lives.
Serving(d) == Alive(d) /\ file # Null /\ ui = file.sessionId /\ sid[d] = ui
StopWritten ==
  \A d \in Daemons, t \in Targets, n \in 1..MaxStops :
    (Serving(d) /\ status[t] = "stopped" /\ stopOf[t] = n) ~>
      \/ ~Serving(d) \/ status[t] # "stopped" \/ stopOf[t] # n
      \/ n \in missed
      \/ file.lastStop # Null /\ file.lastStop.hit >= n
=============================================================================
