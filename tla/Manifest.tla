------------------------------ MODULE Manifest ------------------------------
(***************************************************************************)
(* The project manifest, .1c-dev/project.yaml, as data: configurations,     *)
(* runtimes and publish profiles, what each command makes of a manifest it  *)
(* has loaded, what validation asks of one, and which configuration and     *)
(* runtime a command without flags selects.                                *)
(*                                                                         *)
(* The lists are sets of records that carry their place in the list (pos),  *)
(* so that "the first remaining one" has its meaning. A runtime made by a   *)
(* command has the id of its configuration; a publish profile has the id    *)
(* local-<backend>.                                                        *)
(***************************************************************************)
EXTENDS Naturals

CONSTANTS
  Ids,        \* ids of configurations and of their runtimes
  Exts,       \* ids of extensions
  Main,       \* the id the templates use
  None        \* no id

ASSUME MainIsId == Main \in Ids
ASSUME NoneIsNoId == None \notin Ids

Backends == {"webinst", "ibsrv"}
Flags == {"unset", "yes", "no"}

Conf == [id : Ids, kind : {"configuration", "extension"}, pos : Nat,
         default : BOOLEAN, exts : SUBSET Exts]
Runtime == [id : Ids, conf : Ids, pos : Nat, default : BOOLEAN]
Publish == [default : Backends \cup {None}, profile : [Backends -> Ids \cup {None}]]
Manifests == [confs : SUBSET Conf, rts : SUBSET Runtime, pub : Publish]

NoPublish == [default |-> None, profile |-> [b \in Backends |-> None]]
EmptyManifest == [confs |-> {}, rts |-> {}, pub |-> NoPublish]

(***************************************************************************)
(* Lists.                                                                  *)
(***************************************************************************)
IdsOf(list) == {x.id : x \in list}
Defaults(list) == {x \in list : x.default}
First(list) == CHOOSE x \in list : \A y \in list : x.pos <= y.pos
NextPos(list) ==
  IF list = {} THEN 1
  ELSE 1 + (CHOOSE x \in list : \A y \in list : y.pos <= x.pos).pos
Unmarked(list) == {[x EXCEPT !.default = FALSE] : x \in list}
Mark(list, y) == (list \ {y}) \cup {[y EXCEPT !.default = TRUE]}
Profiles(pub) == {b \in Backends : pub.profile[b] # None}

(***************************************************************************)
(* What validation checks.                                                 *)
(***************************************************************************)
ValidConfs(m) ==
  /\ \A c, d \in m.confs : c.id = d.id => c = d
  /\ \A c, d \in Defaults(m.confs) : c = d
ValidRuntimes(m) ==
  /\ \A r, s \in m.rts : r.id = s.id => r = s
  /\ \A r \in m.rts : r.conf \in IdsOf(m.confs)
  /\ \A r, s \in Defaults(m.rts) : r = s
  /\ m.rts # {} => Defaults(m.rts) # {}
ValidPublish(m) ==
  /\ \A b \in Profiles(m.pub) : m.pub.profile[b] \in IdsOf(m.rts)
  /\ m.pub.default # None => m.pub.default \in Profiles(m.pub)
Covered(m) == \A c \in m.confs : \E r \in m.rts : r.conf = c.id
Valid(m) == ValidConfs(m) /\ ValidRuntimes(m) /\ ValidPublish(m)

(***************************************************************************)
(* Selecting a configuration and a runtime.                                *)
(***************************************************************************)
NoTarget == [conf |-> None, rt |-> None]
Target(m, r) == [conf |-> r.conf, rt |-> r.id]

\* Without flags, a command on sources alone takes the default configuration.
DefaultConf(m) ==
  LET marked == Defaults(m.confs)
      only(S) == \A c, d \in S : c = d
  IN IF marked # {} /\ only(marked) THEN First(marked).id
     ELSE IF marked = {} /\ m.confs # {} /\ only(m.confs) THEN First(m.confs).id
     ELSE None

\* Without flags, a command on an infobase takes the default runtime.
DefaultRuntime(m) ==
  LET marked == Defaults(m.rts)
      only(S) == \A r, s \in S : r = s
  IN IF marked # {} /\ only(marked) THEN Target(m, First(marked))
     ELSE IF marked = {} /\ m.rts # {} /\ only(m.rts) THEN Target(m, First(m.rts))
     ELSE NoTarget

\* With --config: its only runtime, or the default one among several.
RuntimeOfConf(m, c) ==
  LET related == {r \in m.rts : r.conf = c}
      pick == IF \A r, s \in related : r = s THEN related ELSE Defaults(related)
  IN IF pick # {} /\ (\A r, s \in pick : r = s)
     THEN Target(m, First(pick)) ELSE NoTarget

\* resolve_config_runtime: conf None when --config was not given.
Resolve(m, c, requireRuntime) ==
  IF m.confs = {} THEN NoTarget
  ELSE IF c # None /\ c \notin IdsOf(m.confs) THEN NoTarget
  ELSE IF requireRuntime
       THEN IF c = None THEN DefaultRuntime(m) ELSE RuntimeOfConf(m, c)
       ELSE [conf |-> IF c = None THEN DefaultConf(m) ELSE c, rt |-> None]

(***************************************************************************)
(* What the commands make of a manifest.                                   *)
(***************************************************************************)
\* The manifest that ide configure writes where there is none, and the one of
\* a standalone extension project.
TemplateManifest(kind) ==
  [confs |-> {[id |-> Main, kind |-> kind, pos |-> 1, default |-> TRUE, exts |-> {}]},
   rts |-> {[id |-> Main, conf |-> Main, pos |-> 1, default |-> TRUE]},
   pub |-> IF kind = "extension" THEN NoPublish
           ELSE [default |-> "ibsrv",
                 profile |-> [b \in Backends |-> IF b = "ibsrv" THEN Main ELSE None]]]

\* Mutant: a new default configuration leaves the default runtime where it was.
Register_KeepsRuntime(m, id, setDefault, withRuntime) ==
  LET mark == setDefault = "yes" \/ (setDefault = "unset" /\ m.confs = {})
      rmark == m.rts = {}
  IN [m EXCEPT
       !.confs = (IF mark THEN Unmarked(@) ELSE @) \cup
                 {[id |-> id, kind |-> "configuration", pos |-> NextPos(@),
                   default |-> mark, exts |-> {}]},
       !.rts = IF withRuntime
               THEN @ \cup {[id |-> id, conf |-> id, pos |-> NextPos(@), default |-> rmark]}
               ELSE @]

\* configuration add: append the configuration and, unless told otherwise, its
\* runtime; the first runtime of a project brings the webinst profile.
Register(m, id, setDefault, withRuntime) ==
  LET mark == setDefault = "yes" \/ (setDefault = "unset" /\ m.confs = {})
      rmark == m.rts = {} \/ mark
      conf == [id |-> id, kind |-> "configuration", pos |-> NextPos(m.confs),
               default |-> mark, exts |-> {}]
      rt == [id |-> id, conf |-> id, pos |-> NextPos(m.rts), default |-> rmark]
  IN [confs |-> (IF mark THEN Unmarked(m.confs) ELSE m.confs) \cup {conf},
      rts |-> IF withRuntime
              THEN (IF rmark THEN Unmarked(m.rts) ELSE m.rts) \cup {rt} ELSE m.rts,
      pub |-> IF withRuntime /\ m.rts = {} /\ m.pub = NoPublish
              THEN [default |-> "webinst",
                    profile |-> [NoPublish.profile EXCEPT !["webinst"] = id]]
              ELSE m.pub]

\* configuration set-default: the only default, and the default runtime follows
\* to the first runtime of that configuration, when it has one.
SetDefault(m, id) ==
  LET linked == {r \in m.rts : r.conf = id}
      first == First(linked)
  IN [m EXCEPT
       !.confs = {[c EXCEPT !.default = (c.id = id)] : c \in @},
       !.rts = IF linked = {} THEN @ ELSE {[r EXCEPT !.default = (r = first)] : r \in @}]

\* Mutant: profiles of a removed runtime are left as they are.
Without_KeepsProfiles(m, id, heir) ==
  LET confs == {c \in m.confs : c.id # id}
      rts == {r \in m.rts : r.conf # id}
      wasDefault == \E c \in m.confs : c.id = id /\ c.default
  IN [m EXCEPT !.confs = IF wasDefault /\ confs # {} THEN Mark(confs, First(confs)) ELSE confs,
               !.rts = IF rts # {} /\ Defaults(rts) = {} THEN Mark(rts, First(rts)) ELSE rts]

\* configuration remove: its runtimes go with it, the first remaining
\* configuration and the first remaining runtime inherit the marks, and a profile
\* of a removed runtime goes to a surviving one (heir: the code takes any) or is
\* dropped with the last runtime.
Without(m, id, heir) ==
  LET confs == {c \in m.confs : c.id # id}
      rts == {r \in m.rts : r.conf # id}
      gone == IdsOf(m.rts \ rts)
      wasDefault == \E c \in m.confs : c.id = id /\ c.default
      profile == [b \in Backends |-> IF m.pub.profile[b] \in gone
                                     THEN IF rts = {} THEN None ELSE heir
                                     ELSE m.pub.profile[b]]
      kept == {b \in Backends : profile[b] # None}
  IN [confs |-> IF wasDefault /\ confs # {} THEN Mark(confs, First(confs)) ELSE confs,
      rts |-> IF rts # {} /\ Defaults(rts) = {} THEN Mark(rts, First(rts)) ELSE rts,
      pub |-> IF kept = {} THEN NoPublish
              ELSE [default |-> IF m.pub.default = None \/ m.pub.default \in kept
                                THEN m.pub.default
                                ELSE CHOOSE b \in Backends : b \in kept,
                    profile |-> profile]]

\* extension add: appended to the extensions of one configuration.
WithExtension(m, id, e) ==
  [m EXCEPT !.confs = {IF c.id = id THEN [c EXCEPT !.exts = @ \cup {e}] ELSE c : c \in @}]

\* Mutant: a new profile makes a new publish section.
WithProfile_Resets(m, backend) ==
  [m EXCEPT !.pub = [default |-> backend,
                     profile |-> [NoPublish.profile EXCEPT ![backend] = Resolve(m, None, TRUE).rt]]]

\* publish up --backend: the profile that has the backend, or a new one on the
\* default runtime; publish.default is only set where there was none.
WithProfile(m, backend) ==
  [m EXCEPT !.pub = [default |-> IF @.default = None THEN backend ELSE @.default,
                     profile |-> [@.profile EXCEPT ![backend] = Resolve(m, None, TRUE).rt]]]
=============================================================================
