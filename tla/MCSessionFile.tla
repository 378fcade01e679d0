---------------------------- MODULE MCSessionFile ----------------------------
(* Small operations for SessionFile: two sessions, two targets, two stops.  *)
EXTENDS SessionFile

CONSTANTS s1, s2, t1, t2, writer, stopper

Stop1 == [tid |-> t1, hit |-> 1]
Stop2 == [tid |-> t2, hit |-> 2]

\* A CLI command that restored an older record and writes its snapshot back.
Snapshot == [DebugSession(s1) EXCEPT !.last_stop = Stop1, !.attached_targets = {t1},
                                     !.last_target_id = t1]

MCOperations ==
  { [kind |-> "write", arg |-> attach_args(s1)],
    [kind |-> "write", arg |-> attach_args(s2)],
    [kind |-> "write", arg |-> persist_args(Snapshot, TRUE)],
    [kind |-> "stop", stop |-> Stop2],
    [kind |-> "targets", sessionId |-> s1, targets |-> {t2}],
    [kind |-> "reset"] }

Pair == {writer, stopper}
OnlyStopper == {stopper}
=============================================================================
