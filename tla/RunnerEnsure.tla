---------------------------- MODULE RunnerEnsure ----------------------------
(***************************************************************************)
(* ensure_yaxunit_runner (core/test/runner_ensure.py): before tests run, the *)
(* extension YAXUNIT of the version in the user cache is loaded into the     *)
(* infobase, and safe mode is switched off for it and for the extensions     *)
(* with tests.  What was loaded is remembered in runner-yaxunit.json by the  *)
(* digest of the file alone, whatever infobase it was loaded into.           *)
(*                                                                         *)
(* A version stands for a .cfe file, its digest and its pin; 0 for none.     *)
(***************************************************************************)
EXTENDS Integers

CONSTANTS
  Clis,       \* the terminals
  Ibs,        \* the infobases of the project
  Declared,   \* those whose configuration ships YAXUNIT itself
  MaxVersion

ASSUME DeclaredAreIbs == Declared \subseteq Ibs
ASSUME MaxVersionIsPositive == MaxVersion \in Nat \ {0}

Versions == 1..MaxVersion
Extensions == {"YAXUNIT", "tests"}

VARIABLES
  cache,        \* the version of YAxUnit.cfe in the user cache, which only gets newer
  ib,           \* per infobase: YAXUNIT in it, whether the tests are, and what may run unsafe
  runnerState,  \* runner-yaxunit.json
  ensure        \* per terminal: the ensure that runs; shared: another one overlapped it

ensureVars == <<cache, ib, runnerState, ensure>>

Infobases == [version : 0..MaxVersion, tests : BOOLEAN, unsafe : SUBSET Extensions]

NoEnsure(b) == [pc |-> "idle", ib |-> b, digest |-> 0, version |-> 0, todo |-> {},
                shared |-> FALSE]

InitEnsure ==
  /\ cache \in Versions
  /\ ib \in [Ibs -> [version : 0..MaxVersion, tests : {TRUE}, unsafe : {{}, Extensions}]]
  /\ runnerState = 0
  /\ \E b \in Ibs : ensure = [c \in Clis |-> NoEnsure(b)]

EnsureIdle(c) == ensure[c].pc \in {"idle", "ok", "failed"}

\* list_extensions
Present(b) == {x \in Extensions : CASE x = "YAXUNIT" -> ib[b].version # 0
                                     [] x = "tests" -> ib[b].tests}
\* _needs_safe_mode_off
NeedSafeModeOff(b) == Present(b) \ ib[b].unsafe

EnsureGo(c, pc) == ensure' = [ensure EXCEPT ![c].pc = pc]
EnsureFails(c) == EnsureGo(c, "failed")

-----------------------------------------------------------------------------
(* What happens around: tools sync puts a newer file in the cache; build      *)
(* loads the tests, with safe mode on again, or creates the infobase anew.    *)

ToolsSync ==
  /\ cache' \in {v \in Versions : v > cache}
  /\ UNCHANGED <<ib, runnerState, ensure>>

\* A build beside an ensure of the same infobase is not supported (ADR-029).
Build(b) ==
  /\ \A c \in Clis : EnsureIdle(c) \/ ensure[c].ib # b
  /\ \E version \in IF b \in Declared THEN Versions ELSE {0, ib[b].version}, tests \in BOOLEAN :
       ib' = [ib EXCEPT ![b] =
                [version |-> version, tests |-> tests,
                 unsafe |-> IF version = 0 \/ b \in Declared THEN {}
                            ELSE @.unsafe \ {"tests"}]]
  /\ UNCHANGED <<cache, runnerState, ensure>>

-----------------------------------------------------------------------------
(* The steps of one ensure; each call of ibcmd may fail.                      *)

\* sha256_file(cfe); the infobase, ibcmd or the file may be missing.
EnsureBegin(c, b) ==
  /\ \/ LET overlap == {d \in Clis \ {c} : ~EnsureIdle(d) /\ ensure[d].ib = b}
        IN  ensure' = [d \in Clis |->
                         IF d = c THEN [NoEnsure(b) EXCEPT !.pc = "list", !.digest = cache,
                                                           !.shared = overlap # {}]
                         ELSE [ensure[d] EXCEPT !.shared = @ \/ d \in overlap]]
     \/ ensure' = [ensure EXCEPT ![c] = [NoEnsure(b) EXCEPT !.pc = "failed"]]
  /\ UNCHANGED <<cache, ib, runnerState>>

EnsureList(c) ==
  /\ ensure[c].pc = "list"
  /\ \/ LET b == ensure[c].ib
        IN  ensure' = [ensure EXCEPT ![c].pc = "decide", ![c].version = ib[b].version,
                                     ![c].todo = NeedSafeModeOff(b)]
     \/ EnsureFails(c)
  /\ UNCHANGED <<cache, ib, runnerState>>

\* Mutant for RunnerIsFresh: a runner that is installed is up to date.
UpToDate_Installed(c) == ensure[c].version # 0

\* With no state file, an installed extension with the version of the pin is trusted.
UpToDate(c) ==
  /\ ensure[c].version # 0
  /\ \/ runnerState = ensure[c].digest
     \/ runnerState = 0 /\ ensure[c].version = ensure[c].digest

EnsureDecide(c) ==
  /\ ensure[c].pc = "decide"
  /\ EnsureGo(c, IF ensure[c].ib \in Declared \/ UpToDate(c) THEN "update" ELSE "load")
  /\ UNCHANGED <<cache, ib, runnerState>>

\* Mutant for SafeModeIsOff: the extensions are not listed again after a load.
EnsureLoad_NoRelist(c) ==
  /\ ensure[c].pc = "load"
  /\ \/ /\ ib' = [ib EXCEPT ![ensure[c].ib].version = cache,
                            ![ensure[c].ib].unsafe = @ \ {"YAXUNIT"}]
        /\ EnsureGo(c, "update")
     \/ EnsureFails(c) /\ UNCHANGED ib
  /\ UNCHANGED <<cache, runnerState>>

\* load_cf_with_ibcmd loads what is in the cache by now, with safe mode on; what is
\* listed changes when the load is applied.
EnsureLoad(c) ==
  /\ ensure[c].pc = "load"
  /\ \/ /\ ib' = [ib EXCEPT ![ensure[c].ib].version = cache,
                            ![ensure[c].ib].unsafe = @ \ {"YAXUNIT"}]
        /\ EnsureGo(c, "relist")
     \/ EnsureFails(c) /\ UNCHANGED ib
  /\ UNCHANGED <<cache, runnerState>>

EnsureRelist(c) ==
  /\ ensure[c].pc = "relist"
  /\ \/ ensure' = [ensure EXCEPT ![c].pc = "update",
                                 ![c].todo = NeedSafeModeOff(ensure[c].ib)]
     \/ EnsureFails(c)
  /\ UNCHANGED <<cache, ib, runnerState>>

\* update_extension_properties, YAXUNIT first.
EnsureUpdate(c) ==
  /\ ensure[c].pc = "update" /\ ensure[c].todo # {}
  /\ \/ \E x \in ensure[c].todo :
          /\ x = "tests" => "YAXUNIT" \notin ensure[c].todo
          /\ ib' = [ib EXCEPT ![ensure[c].ib].unsafe = @ \cup {x}]
          /\ ensure' = [ensure EXCEPT ![c].todo = @ \ {x}]
     \/ EnsureFails(c) /\ UNCHANGED ib
  /\ UNCHANGED <<cache, runnerState>>

\* _write_state, except for a project that ships YAXUNIT itself.
EnsureWrite(c) ==
  /\ ensure[c].pc = "update" /\ ensure[c].todo = {}
  /\ runnerState' = IF ensure[c].ib \in Declared THEN runnerState ELSE ensure[c].digest
  /\ EnsureGo(c, "ok")
  /\ UNCHANGED <<cache, ib>>

EnsureStep(c) ==
  \/ EnsureList(c) \/ EnsureDecide(c) \/ EnsureLoad(c) \/ EnsureRelist(c)
  \/ EnsureUpdate(c) \/ EnsureWrite(c)

Around == ToolsSync \/ \E b \in Ibs : Build(b)

\* The command is over, or killed half way: what it has changed stays as it is.
EnsureEnds(c) ==
  /\ ensure' = [ensure EXCEPT ![c] = NoEnsure(@.ib)]
  /\ UNCHANGED <<cache, ib, runnerState>>

EnsureNext ==
  \/ Around
  \/ \E c \in Clis :
       \/ EnsureIdle(c) /\ \E b \in Ibs : EnsureBegin(c, b)
       \/ EnsureStep(c)
       \/ EnsureEnds(c)

EnsureSpec == InitEnsure /\ [][EnsureNext]_ensureVars

-----------------------------------------------------------------------------
Locations == {"idle", "list", "decide", "load", "relist", "update", "ok", "failed"}

EnsureType == [pc : Locations,
               ib : Ibs, digest : 0..MaxVersion, version : 0..MaxVersion,
               todo : SUBSET Extensions, shared : BOOLEAN]

EnsureTypeOK ==
  /\ cache \in Versions
  /\ ib \in [Ibs -> Infobases]
  /\ runnerState \in 0..MaxVersion
  /\ ensure \in [Clis -> EnsureType]

\* "Make sure YAXUNIT is installed in the IB", and a changed file is loaded again: an
\* ensure that reports success leaves a runner that is not older than the cached file
\* it found, although it loads one only when the state file tells it to.
RunnerIsFresh ==
  [][\A c \in Clis : EnsureWrite(c) =>
       ensure[c].ib \in Declared \/ ib[ensure[c].ib].version >= ensure[c].digest]_ensureVars

\* "... and test extensions are not in safe-mode": nor is the runner, which a load puts
\* back into it, unless another ensure worked on the infobase at the same time.
SafeModeIsOff ==
  [][\A c \in Clis : EnsureWrite(c) =>
       ensure[c].shared \/ NeedSafeModeOff(ensure[c].ib) = {}]_ensureVars
=============================================================================
