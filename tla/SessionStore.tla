----------------------------- MODULE SessionStore -----------------------------
(***************************************************************************)
(* What session.json promises its writers: the record changes by whole     *)
(* operations, each applied to the record that is there when it takes      *)
(* effect, so no operation undoes a field another one wrote.  Removing the *)
(* file is an operation as well.  The one weakening, which the code has, is *)
(* Reappear: a file that was removed may come back.                        *)
(***************************************************************************)
CONSTANTS
  Null,           \* no session.json
  Operations,     \* the read-modify-writes the processes perform
  Apply(_, _)     \* Apply(op, record): the record op turns another one into

VARIABLE session

Init == session = Null

Update == \E op \in Operations : session' = Apply(op, session)

Remove == session' = Null

Reappear == session = Null /\ session' # Null

Next == Update \/ Remove \/ Reappear

Spec == Init /\ [][Next]_session
=============================================================================
