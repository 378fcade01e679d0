---------------------------- MODULE SessionRecord ----------------------------
(***************************************************************************)
(* The content of .1c-dev/debug/session.json and the pure functions that   *)
(* core/debug/state.py, ping_worker.py and common.py apply to it.          *)
(*                                                                         *)
(* A record holds the fields several processes write:                      *)
(*   sessionId        the debug UI session it belongs to                   *)
(*   lastStop         [tid, hit]: the target that stopped and which stop   *)
(*                    of the run it is; the frames are abstracted by hit   *)
(*   attachedTargets  the ids of the attached targets; an absent field and *)
(*                    {} are the same (no writer stores an empty list)     *)
(*   breakpoints      the breakpoint workspace, Null when absent           *)
(*   lastTargetId     the target the next step goes to, Null when absent   *)
(* url, alias and attachedAt never differ between the writers of one       *)
(* session and are left out.  Null also stands for "no session.json".      *)
(***************************************************************************)
EXTENDS Naturals

CONSTANTS
  Null,      \* an absent file, field or value (Python None, a missing key, "")
  None       \* an argument the caller of write_session leaves out

ASSUME NullIsNotNone == Null # None

\* A debug UI session as run_attach first writes it.
FreshRecord(sid) ==
  [sessionId |-> sid, lastStop |-> Null, attachedTargets |-> {},
   breakpoints |-> Null, lastTargetId |-> Null]

\* Mutant for StopVisible: a caller without a stop drops the one on disk.
write_session_DropsStop(file, arg) ==
  LET existing == IF file # Null /\ file.sessionId = arg.sessionId
                  THEN file ELSE FreshRecord(arg.sessionId)
  IN [existing EXCEPT !.lastStop = IF arg.last_stop = None THEN Null ELSE arg.last_stop]

\* write_session merges the caller's arguments into the record on disk; a
\* record of another sessionId counts as absent.
write_session(file, arg) ==
  LET existing == IF file # Null /\ file.sessionId = arg.sessionId
                  THEN file ELSE FreshRecord(arg.sessionId)
      newStop == arg.last_stop # None /\ ~(arg.keep_existing_stop /\ existing.lastStop # Null)
  IN [sessionId |-> arg.sessionId,
      lastStop |-> IF arg.clear_last_stop THEN Null
                   ELSE IF newStop THEN arg.last_stop
                   ELSE existing.lastStop,
      attachedTargets |-> existing.attachedTargets \cup
                          (IF arg.attached_targets = None THEN {} ELSE arg.attached_targets),
      breakpoints |-> IF arg.breakpoints = None THEN existing.breakpoints ELSE arg.breakpoints,
      lastTargetId |-> IF arg.last_target_id = None THEN existing.lastTargetId
                       ELSE arg.last_target_id]

\* The arguments of run_attach: a session id and nothing else.
attach_args(sid) ==
  [sessionId |-> sid, last_stop |-> None, attached_targets |-> None, breakpoints |-> None,
   last_target_id |-> None, clear_last_stop |-> FALSE, keep_existing_stop |-> FALSE]

\* persist_session_runtime: every in-memory field of a DebugSession is an
\* argument; an empty last_target_id is passed as "" and drops the field.
persist_args(mem, clear) ==
  [sessionId |-> mem.session_id,
   last_stop |-> IF clear \/ mem.last_stop = Null THEN None ELSE mem.last_stop,
   attached_targets |-> mem.attached_targets,
   breakpoints |-> mem.breakpoints,
   last_target_id |-> mem.last_target_id,
   clear_last_stop |-> clear,
   keep_existing_stop |-> TRUE]

persist_session_runtime(file, mem, clear) == write_session(file, persist_args(mem, clear))

\* update_session: the mutation runs on the record under the lock and only
\* when there is a record.
update_session(file, mutate(_)) == IF file = Null THEN Null ELSE mutate(file)

\* ping_worker.persist_stop_from_ping_body: the sessionId is not looked at.
persist_stop(file, stop) ==
  LET mutate(data) == [data EXCEPT !.lastStop = stop,
                                   !.lastTargetId = stop.tid,
                                   !.attachedTargets = @ \cup {stop.tid}]
  IN update_session(file, mutate)

\* ping_worker._Daemon._persist_targets: the daemon's set replaces the one on
\* disk, only in a record of the daemon's own session.
persist_targets(file, sid, targets) ==
  LET mutate(data) == IF data.sessionId # sid THEN data
                      ELSE [data EXCEPT !.attachedTargets = targets]
  IN update_session(file, mutate)

\* reset_session_runtime: breakpoints and the session stay.
reset_session_runtime(file) ==
  LET mutate(data) == [data EXCEPT !.lastStop = Null,
                                   !.attachedTargets = {},
                                   !.lastTargetId = Null]
  IN update_session(file, mutate)

-----------------------------------------------------------------------------
(***************************************************************************)
(* The in-memory side: adapters.debug_http.session.DebugSession, reduced to *)
(* the fields that are stored and restored.                                *)
(***************************************************************************)

DebugSession(sid) ==
  [session_id |-> sid, last_stop |-> Null, attached_targets |-> {},
   breakpoints |-> {}, last_target_id |-> Null]

\* apply_stored_runtime: parse_stored_runtime + DebugSession.restore_state.  An
\* absent field leaves the memory alone; a stored stop wins over lastTargetId
\* and makes its target an attached one.
apply_stored_runtime(mem, stored) ==
  LET stop    == stored.lastStop
      targets == IF stored.attachedTargets # {} THEN stored.attachedTargets
                 ELSE mem.attached_targets
  IN [mem EXCEPT
        !.attached_targets = IF stop = Null THEN targets ELSE targets \cup {stop.tid},
        !.last_target_id = IF stop # Null THEN stop.tid
                           ELSE IF stored.lastTargetId # Null THEN stored.lastTargetId
                           ELSE @,
        !.breakpoints = IF stored.breakpoints = Null THEN @ ELSE stored.breakpoints,
        !.last_stop = IF stop = Null THEN @ ELSE stop]

\* restore_session: the session a short-lived CLI process rebuilds.
restore_session(stored) == apply_stored_runtime(DebugSession(stored.sessionId), stored)

\* The targets a step may go to: the pinned target of the restored stop, else
\* DebugSession._require_target_id, whose last resort is any attached target.
step_targets(mem) ==
  IF mem.last_stop # Null THEN {mem.last_stop.tid}
  ELSE IF mem.last_target_id # Null THEN {mem.last_target_id}
  ELSE mem.attached_targets
=============================================================================
