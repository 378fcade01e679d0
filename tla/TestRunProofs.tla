---------------------------- MODULE TestRunProofs ----------------------------
(***************************************************************************)
(* What TestRun promises, for every number of terminals, runs, infobases and *)
(* versions.  First the runner (RunnerEnsure) by itself: typing, that safe   *)
(* mode is off, and, in a project with one infobase, that the runner is not  *)
(* older than the cached file.  Then the runs, of which every step is a step *)
(* of RunnerEnsure or leaves the runner alone.                               *)
(***************************************************************************)
EXTENDS TestRun, TLAPS

Ensuring(c) == ~EnsureIdle(c)

\* The infobase of an ensure has the version that was asked for, or a newer one.
Fresh(c) == ib[ensure[c].ib].version >= ensure[c].digest

\* A version that was recorded is in the infobase, unless the infobase was made anew:
\* this takes a project with one infobase.
Recorded ==
  \A b \in Ibs \ Declared :
    runnerState # 0 /\ ib[b].version # 0 => ib[b].version >= runnerState

\* What an ensure knows of the runner at each of its steps.
RunnerStage(c) ==
  /\ ensure[c].pc = "decide" /\ ensure[c].version # 0 =>
       /\ ib[ensure[c].ib].version # 0
       /\ ensure[c].version >= ensure[c].digest => Fresh(c)
  /\ ensure[c].pc \in {"relist", "update"} => Fresh(c)

FreshInv ==
  /\ runnerState <= cache
  /\ \A c \in Clis : Ensuring(c) => ensure[c].digest <= cache
  /\ Recorded
  /\ \A c \in Clis : ensure[c].ib \notin Declared => RunnerStage(c)

\* An ensure that is alone with its infobase knows what is left to be done there.
SafeInv ==
  \A c \in Clis : Ensuring(c) /\ ~ensure[c].shared =>
    /\ \A d \in Clis \ {c} : Ensuring(d) => ensure[d].ib # ensure[c].ib
    /\ ensure[c].pc \in {"decide", "update"} => ensure[c].todo = NeedSafeModeOff(ensure[c].ib)

-----------------------------------------------------------------------------
(* Typing *)

LEMMA EnsureTypeInit == InitEnsure => EnsureTypeOK
<1> SUFFICES ASSUME InitEnsure
             PROVE  EnsureTypeOK
  OBVIOUS
<1>1. cache \in Versions /\ runnerState \in 0..MaxVersion
  BY MaxVersionIsPositive DEF InitEnsure
<1>2. [version : 0..MaxVersion, tests : {TRUE}, unsafe : {{}, Extensions}] \subseteq Infobases
  BY DEF Infobases
<1>3. ib \in [Ibs -> Infobases]
  BY <1>2 DEF InitEnsure
<1>4. \A b \in Ibs : NoEnsure(b) \in EnsureType
  BY MaxVersionIsPositive DEF NoEnsure, EnsureType, Locations
<1>5. ensure \in [Clis -> EnsureType]
  BY <1>4 DEF InitEnsure
<1> QED BY <1>1, <1>3, <1>5 DEF EnsureTypeOK

LEMMA EnsureTypeStep == EnsureTypeOK /\ [EnsureNext]_ensureVars => EnsureTypeOK'
<1> SUFFICES ASSUME EnsureTypeOK, [EnsureNext]_ensureVars
             PROVE  EnsureTypeOK'
  OBVIOUS
<1>a. /\ cache \in 0..MaxVersion /\ cache \in Versions /\ runnerState \in 0..MaxVersion
      /\ ib \in [Ibs -> Infobases] /\ ensure \in [Clis -> EnsureType]
  BY MaxVersionIsPositive DEF EnsureTypeOK, Versions
<1>b. \A e \in EnsureType : e.ib \in Ibs /\ e.digest \in 0..MaxVersion /\ e.todo \subseteq Extensions
  BY DEF EnsureType
<1>c. \A e \in EnsureType, pc \in Locations : [e EXCEPT !.pc = pc] \in EnsureType
  BY DEF EnsureType
<1>d. \A e \in EnsureType, todo \in SUBSET Extensions : [e EXCEPT !.todo = todo] \in EnsureType
  BY DEF EnsureType
<1>e. \A e \in EnsureType, version \in 0..MaxVersion : [e EXCEPT !.version = version] \in EnsureType
  BY DEF EnsureType
<1>f. \A b \in Ibs : NoEnsure(b) \in EnsureType
  BY MaxVersionIsPositive DEF EnsureType, NoEnsure, Locations
<1>l. \A e \in EnsureType, digest \in 0..MaxVersion, shared \in BOOLEAN :
        [e EXCEPT !.pc = "list", !.digest = digest, !.shared = shared] \in EnsureType
  BY DEF EnsureType, Locations
<1>g. \A e \in EnsureType, shared \in BOOLEAN : [e EXCEPT !.shared = shared] \in EnsureType
  BY DEF EnsureType
<1>h. \A x \in Infobases, version \in 0..MaxVersion, unsafe \in SUBSET Extensions :
        /\ [x EXCEPT !.version = version, !.unsafe = unsafe] \in Infobases
        /\ [x EXCEPT !.unsafe = unsafe] \in Infobases
  BY DEF Infobases
<1>i. \A x \in Infobases : x.version \in 0..MaxVersion /\ x.unsafe \subseteq Extensions
  BY DEF Infobases
<1>j. \A b \in Ibs : NeedSafeModeOff(b) \in SUBSET Extensions
  BY DEF NeedSafeModeOff, Present
<1>k. \A c \in Clis : EnsureFails(c) => ensure' \in [Clis -> EnsureType]
  BY <1>a, <1>c, ZenonT(40) DEF EnsureFails, EnsureGo, Locations
<1>1. CASE ToolsSync
  BY <1>1, <1>a DEF ToolsSync, EnsureTypeOK
<1>2. ASSUME NEW b \in Ibs, Build(b)
      PROVE  EnsureTypeOK'
  <2>1. PICK version \in IF b \in Declared THEN Versions ELSE {0, ib[b].version},
             tests \in BOOLEAN :
          ib' = [ib EXCEPT ![b] =
                   [version |-> version, tests |-> tests,
                    unsafe |-> IF version = 0 \/ b \in Declared THEN {}
                               ELSE @.unsafe \ {"tests"}]]
    BY <1>2 DEF Build
  <2>2. version \in 0..MaxVersion
    BY <1>a, <1>i, MaxVersionIsPositive DEF Versions
  <2>3. ib[b].unsafe \ {"tests"} \subseteq Extensions
    BY <1>a, <1>i
  <2>4. ib' \in [Ibs -> Infobases]
    BY <1>a, <2>1, <2>2, <2>3 DEF Infobases
  <2> QED BY <1>2, <1>a, <2>4 DEF Build, EnsureTypeOK
<1>3. ASSUME NEW c \in Clis, NEW b \in Ibs, EnsureBegin(c, b)
      PROVE  EnsureTypeOK'
  <2>1. [NoEnsure(b) EXCEPT !.pc = "failed"] \in EnsureType
    BY <1>c, <1>f DEF Locations
  <2>2. \A d \in Clis, shared \in BOOLEAN : [ensure[d] EXCEPT !.shared = shared] \in EnsureType
    BY <1>a, <1>g
  <2>4. \A d \in Clis : ensure[d].shared \in BOOLEAN
    BY <1>a DEF EnsureType
  <2>5. ensure' \in [Clis -> EnsureType]
    <3> DEFINE overlap == {d \in Clis \ {c} : ~EnsureIdle(d) /\ ensure[d].ib = b}
               begun == [NoEnsure(b) EXCEPT !.pc = "list", !.digest = cache,
                                            !.shared = overlap # {}]
               other(d) == [ensure[d] EXCEPT !.shared = ensure[d].shared \/ d \in overlap]
    <3>1. begun \in EnsureType
      BY <1>a, <1>f, <1>l
    <3>2. \A d \in Clis : other(d) \in EnsureType
      BY <2>2, <2>4
    <3>3. CASE ensure' = [ensure EXCEPT ![c] = [NoEnsure(b) EXCEPT !.pc = "failed"]]
      BY <3>3, <2>1, <1>a
    <3>4. CASE ensure' = [d \in Clis |-> IF d = c THEN begun ELSE other(d)]
      <4> HIDE DEF begun, other
      <4> QED BY <3>1, <3>2, <3>4
    <3>5. \/ ensure' = [ensure EXCEPT ![c] = [NoEnsure(b) EXCEPT !.pc = "failed"]]
          \/ ensure' = [d \in Clis |-> IF d = c THEN begun ELSE other(d)]
      BY <1>3 DEF EnsureBegin
    <3> QED BY <3>3, <3>4, <3>5
  <2> QED BY <1>3, <1>a, <2>5 DEF EnsureBegin, EnsureTypeOK
<1>4. ASSUME NEW c \in Clis, EnsureList(c)
      PROVE  EnsureTypeOK'
  <2> DEFINE b == ensure[c].ib
             e1 == [ensure[c] EXCEPT !.pc = "decide"]
             e2 == [e1 EXCEPT !.version = ib[b].version]
             e3 == [e2 EXCEPT !.todo = NeedSafeModeOff(b)]
  <2>1. b \in Ibs /\ ib[b].version \in 0..MaxVersion
    BY <1>a, <1>b, <1>i
  <2>2. e1 \in EnsureType
    BY <1>a, <1>c DEF Locations
  <2>3. e2 \in EnsureType
    BY <2>1, <2>2, <1>e
  <2>4. e3 \in EnsureType
    BY <2>1, <2>3, <1>d, <1>j
  <2>5. CASE ensure' = [ensure EXCEPT ![c] = e3]
    BY <2>5, <2>4, <1>4, <1>a DEF EnsureList, EnsureTypeOK
  <2> QED BY <2>5, <1>4, <1>a, <1>k DEF EnsureList, EnsureTypeOK
<1>5. ASSUME NEW c \in Clis, EnsureDecide(c)
      PROVE  EnsureTypeOK'
  BY <1>5, <1>a, <1>c DEF EnsureDecide, EnsureGo, Locations, EnsureTypeOK
<1>6. ASSUME NEW c \in Clis, EnsureLoad(c)
      PROVE  EnsureTypeOK'
  <2>1. ensure' \in [Clis -> EnsureType]
    <3>1. CASE EnsureGo(c, "relist")
      BY <3>1, <1>a, <1>c DEF EnsureGo, Locations
    <3> QED BY <1>6, <1>k, <3>1 DEF EnsureLoad
  <2>2. ib' \in [Ibs -> Infobases]
    <3>1. ensure[c].ib \in Ibs /\ ib[ensure[c].ib] \in Infobases
      BY <1>a, <1>b
    <3>2. ib[ensure[c].ib].unsafe \ {"YAXUNIT"} \in SUBSET Extensions
      BY <3>1, <1>i
    <3> DEFINE b == ensure[c].ib
               x == [ib[b] EXCEPT !.version = cache, !.unsafe = ib[b].unsafe \ {"YAXUNIT"}]
    <3>3. x \in Infobases
      BY <3>1, <3>2, <1>a, <1>h
    <3>4. UNCHANGED ib \/ ib' = [ib EXCEPT ![b] = x]
      BY <1>6, <1>a, <3>1 DEF EnsureLoad, Infobases
    <3> QED BY <3>1, <3>3, <3>4, <1>a
  <2> QED BY <1>6, <1>a, <2>1, <2>2 DEF EnsureLoad, EnsureTypeOK
<1>7. ASSUME NEW c \in Clis, EnsureRelist(c)
      PROVE  EnsureTypeOK'
  <2> DEFINE e1 == [ensure[c] EXCEPT !.pc = "update"]
             e2 == [e1 EXCEPT !.todo = NeedSafeModeOff(ensure[c].ib)]
  <2>1. e1 \in EnsureType
    BY <1>a, <1>c DEF Locations
  <2>2. e2 \in EnsureType
    BY <2>1, <1>a, <1>b, <1>d, <1>j
  <2>3. CASE ensure' = [ensure EXCEPT ![c] = e2]
    BY <2>3, <2>2, <1>7, <1>a DEF EnsureRelist, EnsureTypeOK
  <2> QED BY <2>3, <1>7, <1>a, <1>k DEF EnsureRelist, EnsureTypeOK
<1>8. ASSUME NEW c \in Clis, EnsureUpdate(c)
      PROVE  EnsureTypeOK'
  <2>1. CASE EnsureFails(c) /\ UNCHANGED ib
    BY <2>1, <1>8, <1>a, <1>k DEF EnsureUpdate, EnsureTypeOK
  <2>2. ASSUME NEW x \in ensure[c].todo,
               ib' = [ib EXCEPT ![ensure[c].ib].unsafe = @ \cup {x}],
               ensure' = [ensure EXCEPT ![c].todo = @ \ {x}]
        PROVE  EnsureTypeOK'
    <3>1. /\ ensure[c].ib \in Ibs /\ ib[ensure[c].ib] \in Infobases
          /\ ensure[c].todo \ {x} \in SUBSET Extensions /\ x \in Extensions
      BY <1>a, <1>b
    <3>2. ib[ensure[c].ib].unsafe \cup {x} \in SUBSET Extensions
      BY <3>1, <1>i
    <3>3. ib' \in [Ibs -> Infobases]
      BY <2>2, <1>a, <1>h, <3>1, <3>2
    <3>4. ensure' \in [Clis -> EnsureType]
      BY <2>2, <1>a, <1>d, <3>1
    <3> QED BY <1>8, <1>a, <3>3, <3>4 DEF EnsureUpdate, EnsureTypeOK
  <2> QED BY <2>1, <2>2, <1>8 DEF EnsureUpdate
<1>9. ASSUME NEW c \in Clis, EnsureWrite(c)
      PROVE  EnsureTypeOK'
  BY <1>9, <1>a, <1>b, <1>c DEF EnsureWrite, EnsureGo, Locations, EnsureTypeOK
<1>10. ASSUME NEW c \in Clis, EnsureEnds(c)
       PROVE  EnsureTypeOK'
  BY <1>10, <1>a, <1>b, <1>f DEF EnsureEnds, EnsureTypeOK
<1>11. CASE UNCHANGED ensureVars
  BY <1>11 DEF ensureVars, EnsureTypeOK
<1> QED
  BY <1>1, <1>2, <1>3, <1>4, <1>5, <1>6, <1>7, <1>8, <1>9, <1>10, <1>11
  DEF EnsureNext, Around, EnsureStep

\* Every variable of an ensure keeps its type.
THEOREM EnsureTypes == EnsureSpec => []EnsureTypeOK
  BY EnsureTypeInit, EnsureTypeStep, PTL DEF EnsureSpec

-----------------------------------------------------------------------------
(* What a step leaves alone *)

LEMMA EnsureFrame ==
  ASSUME EnsureTypeOK, NEW c \in Clis, EnsureStep(c)
  PROVE  /\ cache' = cache
         /\ Ensuring(c) /\ ensure[c].ib \in Ibs
         /\ \A d \in Clis \ {c} : ensure'[d] = ensure[d]
         /\ ensure'[c].ib = ensure[c].ib
         /\ ensure'[c].digest = ensure[c].digest
         /\ ensure'[c].shared = ensure[c].shared
         /\ \A b \in Ibs \ {ensure[c].ib} : ib'[b] = ib[b]
<1> DEFINE b == ensure[c].ib
<1>a. /\ ensure \in [Clis -> EnsureType] /\ ib \in [Ibs -> Infobases]
      /\ ensure[c] \in EnsureType /\ b \in Ibs
  BY DEF EnsureTypeOK, EnsureType
<1>1. CASE EnsureList(c)
  BY <1>1, <1>a DEF EnsureList, EnsureFails, EnsureGo, Ensuring, EnsureIdle, EnsureType
<1>2. CASE EnsureDecide(c)
  BY <1>2, <1>a DEF EnsureDecide, EnsureGo, Ensuring, EnsureIdle, EnsureType
<1>3. CASE EnsureLoad(c)
  BY <1>3, <1>a DEF EnsureLoad, EnsureFails, EnsureGo, Ensuring, EnsureIdle, EnsureType
<1>4. CASE EnsureRelist(c)
  BY <1>4, <1>a DEF EnsureRelist, EnsureFails, EnsureGo, Ensuring, EnsureIdle, EnsureType
<1>5. CASE EnsureUpdate(c)
  BY <1>5, <1>a DEF EnsureUpdate, EnsureFails, EnsureGo, Ensuring, EnsureIdle, EnsureType
<1>6. CASE EnsureWrite(c)
  BY <1>6, <1>a DEF EnsureWrite, EnsureGo, Ensuring, EnsureIdle, EnsureType
<1> QED BY <1>1, <1>2, <1>3, <1>4, <1>5, <1>6 DEF EnsureStep

\* An ensure that begins knows who else is at its infobase.
LEMMA EnsureBegun ==
  ASSUME EnsureTypeOK, NEW c \in Clis, NEW b \in Ibs, EnsureBegin(c, b)
  PROVE  /\ cache' = cache /\ ib' = ib /\ runnerState' = runnerState
         /\ Ensuring(c)' => /\ ensure'[c].pc = "list" /\ ensure'[c].digest = cache
                            /\ ensure'[c].ib = b
                            /\ ensure'[c].shared
                                 <=> \E d \in Clis \ {c} : Ensuring(d) /\ ensure[d].ib = b
         /\ \A d \in Clis \ {c} :
              /\ ensure'[d].pc = ensure[d].pc /\ ensure'[d].ib = ensure[d].ib
              /\ ensure'[d].digest = ensure[d].digest /\ ensure'[d].version = ensure[d].version
              /\ ensure'[d].todo = ensure[d].todo
              /\ ensure[d].shared => ensure'[d].shared
              /\ Ensuring(c)' /\ Ensuring(d) /\ ensure[d].ib = b => ensure'[d].shared
         /\ ensure'[c].pc \in {"list", "failed"}
<1> DEFINE overlap == {d \in Clis \ {c} : ~EnsureIdle(d) /\ ensure[d].ib = b}
           begun == [NoEnsure(b) EXCEPT !.pc = "list", !.digest = cache,
                                        !.shared = overlap # {}]
           other(d) == [ensure[d] EXCEPT !.shared = @ \/ d \in overlap]
<1>a. ensure \in [Clis -> EnsureType] /\ \A d \in Clis : ensure[d] \in EnsureType
  BY DEF EnsureTypeOK
<1>b. cache' = cache /\ ib' = ib /\ runnerState' = runnerState
  BY DEF EnsureBegin
<1>1. CASE ensure' = [ensure EXCEPT ![c] = [NoEnsure(b) EXCEPT !.pc = "failed"]]
  <2>1. ensure'[c].pc = "failed"
    BY <1>1, <1>a DEF NoEnsure
  <2>2. \A d \in Clis \ {c} : ensure'[d] = ensure[d]
    BY <1>1, <1>a
  <2>3. ~Ensuring(c)'
    BY <2>1 DEF Ensuring, EnsureIdle
  <2> QED BY <1>b, <2>1, <2>2, <2>3
<1>2. CASE ensure' = [d \in Clis |-> IF d = c THEN begun ELSE other(d)]
  <2>1. ensure'[c] = begun /\ \A d \in Clis \ {c} : ensure'[d] = other(d)
    BY <1>2
  <2>2. begun.pc = "list" /\ begun.digest = cache /\ begun.ib = b /\ begun.shared = (overlap # {})
    BY DEF NoEnsure
  <2>3. \A d \in Clis \ {c} :
          /\ other(d).pc = ensure[d].pc /\ other(d).ib = ensure[d].ib
          /\ other(d).digest = ensure[d].digest /\ other(d).version = ensure[d].version
          /\ other(d).todo = ensure[d].todo
          /\ other(d).shared = (ensure[d].shared \/ d \in overlap)
    BY <1>a DEF EnsureType
  <2>4. \A d \in Clis \ {c} : d \in overlap <=> Ensuring(d) /\ ensure[d].ib = b
    BY DEF Ensuring
  <2>5. (overlap # {}) <=> \E d \in Clis \ {c} : Ensuring(d) /\ ensure[d].ib = b
    BY <2>4
  <2>6. /\ ensure'[c].pc = "list" /\ ensure'[c].digest = cache /\ ensure'[c].ib = b
        /\ ensure'[c].shared = (overlap # {})
    <3> HIDE DEF begun, overlap
    <3> QED BY <2>1, <2>2
  <2>7. \A d \in Clis \ {c} :
          /\ ensure'[d].pc = ensure[d].pc /\ ensure'[d].ib = ensure[d].ib
          /\ ensure'[d].digest = ensure[d].digest /\ ensure'[d].version = ensure[d].version
          /\ ensure'[d].todo = ensure[d].todo
          /\ ensure'[d].shared = (ensure[d].shared \/ d \in overlap)
    <3> HIDE DEF other, overlap
    <3> QED BY <2>1, <2>3
  <2>8. \A d \in Clis \ {c} :
          /\ ensure[d].shared => ensure'[d].shared
          /\ Ensuring(d) /\ ensure[d].ib = b => ensure'[d].shared
    <3> HIDE DEF overlap
    <3> QED BY <2>7, <2>4
  <2>9. ensure'[c].shared <=> \E d \in Clis \ {c} : Ensuring(d) /\ ensure[d].ib = b
    <3> HIDE DEF overlap
    <3> QED BY <2>6, <2>5
  <2> HIDE DEF overlap
  <2> QED BY <1>b, <2>6, <2>7, <2>8, <2>9
<1> QED BY <1>1, <1>2 DEF EnsureBegin

-----------------------------------------------------------------------------
(* Safe mode *)

\* What is listed in an infobase is a matter of that infobase.
LEMMA NeedSafeModeOffFrame ==
  ASSUME NEW b \in Ibs, ib'[b] = ib[b]
  PROVE  NeedSafeModeOff(b)' = NeedSafeModeOff(b)
  BY DEF NeedSafeModeOff, Present

LEMMA SafeInvInit == InitEnsure => SafeInv
  BY DEF InitEnsure, SafeInv, Ensuring, EnsureIdle, NoEnsure

LEMMA SafeInvStep == EnsureTypeOK /\ SafeInv /\ [EnsureNext]_ensureVars => SafeInv'
<1> SUFFICES ASSUME EnsureTypeOK, SafeInv, [EnsureNext]_ensureVars,
                    NEW c \in Clis, Ensuring(c)', ~ensure'[c].shared
             PROVE  /\ \A d \in Clis \ {c} : Ensuring(d)' => ensure'[d].ib # ensure'[c].ib
                    /\ ensure'[c].pc \in {"decide", "update"} =>
                         ensure'[c].todo = NeedSafeModeOff(ensure[c].ib)'
  BY DEF SafeInv
<1> DEFINE Alone == \A d \in Clis \ {c} : Ensuring(d) => ensure[d].ib # ensure[c].ib
           Knows == ensure[c].pc \in {"decide", "update"} =>
                      ensure[c].todo = NeedSafeModeOff(ensure[c].ib)
<1>a. /\ ensure \in [Clis -> EnsureType] /\ ib \in [Ibs -> Infobases]
      /\ \A d \in Clis : ensure[d].ib \in Ibs /\ ensure[d].todo \subseteq Extensions
  BY DEF EnsureTypeOK, EnsureType
<1>b. Ensuring(c) /\ ~ensure[c].shared => Alone /\ Knows
  BY DEF SafeInv
\* Nothing of this ensure or of its infobase has changed.
<1>c. ASSUME \A d \in Clis : ensure'[d] = ensure[d] \/ ~Ensuring(d)',
             ib'[ensure[c].ib] = ib[ensure[c].ib]
      PROVE  Alone' /\ Knows'
  <2>1. ensure'[c] = ensure[c]
    BY <1>c
  <2>2. Alone /\ Knows
    BY <2>1, <1>b DEF Ensuring, EnsureIdle
  <2>3. NeedSafeModeOff(ensure[c].ib)' = NeedSafeModeOff(ensure[c].ib)
    BY <2>1, <1>a, <1>c, NeedSafeModeOffFrame DEF NeedSafeModeOff, Present
  <2> QED BY <1>c, <2>1, <2>2, <2>3 DEF Ensuring, EnsureIdle
<1>1. CASE ToolsSync \/ UNCHANGED ensureVars
  BY <1>1, <1>c DEF ToolsSync, ensureVars
<1>2. ASSUME NEW b \in Ibs, Build(b)
      PROVE  Alone' /\ Knows'
  <2>1. ensure' = ensure
    BY <1>2 DEF Build
  <2>2. ensure[c].ib # b
    BY <1>2, <2>1 DEF Build, Ensuring, EnsureIdle
  <2>3. ib'[ensure[c].ib] = ib[ensure[c].ib]
    BY <1>2, <2>2, <1>a DEF Build
  <2> QED BY <2>1, <2>3, <1>c
<1>3. ASSUME NEW e \in Clis, NEW b \in Ibs, EnsureBegin(e, b)
      PROVE  Alone' /\ Knows'
  <2>1. ib' = ib
    BY <1>3 DEF EnsureBegin
  <2>2. CASE e = c
    <3>1. /\ ensure'[c].pc = "list" /\ ensure'[c].ib = b
          /\ ~\E d \in Clis \ {c} : Ensuring(d) /\ ensure[d].ib = b
      BY <1>3, <2>2, EnsureBegun
    <3>2. \A d \in Clis \ {c} : ensure'[d].pc = ensure[d].pc /\ ensure'[d].ib = ensure[d].ib
      BY <1>3, <2>2, EnsureBegun
    <3> QED BY <3>1, <3>2 DEF Ensuring, EnsureIdle
  <2>3. CASE e # c
    <3>1. /\ ensure'[c].pc = ensure[c].pc /\ ensure'[c].ib = ensure[c].ib
          /\ ensure'[c].todo = ensure[c].todo /\ ~ensure[c].shared
      BY <1>3, <2>3, EnsureBegun
    <3>2. Ensuring(c) /\ Alone /\ Knows
      BY <3>1, <1>b DEF Ensuring, EnsureIdle
    <3>3. Knows'
      BY <3>1, <3>2, <2>1 DEF NeedSafeModeOff, Present
    <3>4. ASSUME NEW d \in Clis \ {c}, Ensuring(d)'
          PROVE  ensure'[d].ib # ensure'[c].ib
      <4>1. CASE d = e
        BY <4>1, <3>1, <3>2, <3>4, <1>3, EnsureBegun
      <4>2. CASE d # e
        <5>1. ensure'[d].pc = ensure[d].pc /\ ensure'[d].ib = ensure[d].ib
          BY <4>2, <1>3, EnsureBegun
        <5> QED BY <5>1, <3>1, <3>2, <3>4 DEF Ensuring, EnsureIdle
      <4> QED BY <4>1, <4>2
    <3> QED BY <3>3, <3>4
  <2> QED BY <2>2, <2>3
<1>4. ASSUME NEW e \in Clis, EnsureStep(e)
      PROVE  Alone' /\ Knows'
  <2>1. /\ Ensuring(e) /\ ensure[e].ib \in Ibs
        /\ \A d \in Clis \ {e} : ensure'[d] = ensure[d]
        /\ ensure'[e].ib = ensure[e].ib /\ ensure'[e].shared = ensure[e].shared
        /\ \A b \in Ibs \ {ensure[e].ib} : ib'[b] = ib[b]
    BY <1>4, EnsureFrame
  <2>2. \A d \in Clis : ensure'[d].ib = ensure[d].ib
    BY <2>1
  <2>3. \A d \in Clis : Ensuring(d)' => Ensuring(d)
    BY <2>1 DEF Ensuring, EnsureIdle
  <2>4. Ensuring(c) /\ ~ensure[c].shared
    BY <2>1, <2>3
  <2>5. Alone /\ Knows
    BY <2>4, <1>b
  <2>6. Alone'
    BY <2>2, <2>3, <2>5
  <2>7. CASE e # c
    <3>1. ensure'[c] = ensure[c] /\ ensure[c].ib # ensure[e].ib
      BY <2>7, <2>1, <2>5
    <3>2. ib'[ensure[c].ib] = ib[ensure[c].ib]
      BY <3>1, <2>1, <1>a
    <3> QED BY <3>1, <3>2, <2>5, <2>6 DEF NeedSafeModeOff, Present
  <2>8. CASE e = c
    <3>1. CASE EnsureList(c)
      <4>1. ib' = ib /\ (\/ ensure'[c].pc = "failed"
                        \/ ensure'[c].todo = NeedSafeModeOff(ensure[c].ib))
        BY <3>1, <1>a DEF EnsureList, EnsureFails, EnsureGo, EnsureType
      <4> QED BY <4>1, <2>2, <2>6 DEF NeedSafeModeOff, Present
    <3>2. CASE EnsureDecide(c)
      BY <3>2, <2>5, <2>6, <1>a DEF EnsureDecide, EnsureGo, EnsureType, NeedSafeModeOff, Present
    <3>3. CASE EnsureLoad(c)
      BY <3>3, <2>6, <1>a DEF EnsureLoad, EnsureFails, EnsureGo, EnsureType
    <3>4. CASE EnsureRelist(c)
      <4>1. ib' = ib /\ (\/ ensure'[c].pc = "failed"
                        \/ ensure'[c].todo = NeedSafeModeOff(ensure[c].ib))
        BY <3>4, <1>a DEF EnsureRelist, EnsureFails, EnsureGo, EnsureType
      <4> QED BY <4>1, <2>2, <2>6 DEF NeedSafeModeOff, Present
    <3>5. CASE EnsureUpdate(c)
      <4>1. CASE EnsureFails(c)
        BY <4>1, <2>6, <1>a DEF EnsureFails, EnsureGo, EnsureType
      <4>2. ASSUME NEW x \in ensure[c].todo,
                   ib' = [ib EXCEPT ![ensure[c].ib].unsafe = @ \cup {x}],
                   ensure' = [ensure EXCEPT ![c].todo = @ \ {x}]
            PROVE  Knows'
        <5> DEFINE b == ensure[c].ib
        <5>1. b \in Ibs /\ ib[b] \in Infobases /\ ensure'[c].pc = ensure[c].pc
              /\ ensure'[c].todo = ensure[c].todo \ {x}
          BY <4>2, <1>a DEF EnsureType
        <5>2. ib'[b] = [ib[b] EXCEPT !.unsafe = @ \cup {x}]
          BY <4>2, <5>1, <1>a
        <5>3. ib'[b].version = ib[b].version /\ ib'[b].tests = ib[b].tests
              /\ ib'[b].unsafe = ib[b].unsafe \cup {x}
          BY <5>1, <5>2 DEF Infobases
        <5>4. NeedSafeModeOff(b)' = NeedSafeModeOff(b) \ {x}
          BY <5>3, <2>2 DEF NeedSafeModeOff, Present
        <5> QED BY <5>1, <5>4, <2>5
      <4> QED BY <3>5, <4>1, <4>2, <2>6 DEF EnsureUpdate
    <3>6. CASE EnsureWrite(c)
      BY <3>6, <2>6, <1>a DEF EnsureWrite, EnsureGo, EnsureType
    <3> QED BY <1>4, <2>8, <3>1, <3>2, <3>3, <3>4, <3>5, <3>6 DEF EnsureStep
  <2> QED BY <2>7, <2>8
<1>5. ASSUME NEW e \in Clis, EnsureEnds(e)
      PROVE  Alone' /\ Knows'
  BY <1>5, <1>a, <1>c DEF EnsureEnds, Ensuring, EnsureIdle, NoEnsure
<1>6. Alone' /\ Knows'
  BY <1>1, <1>2, <1>3, <1>4, <1>5 DEF EnsureNext, Around
<1> QED BY <1>6

\* An ensure that was alone leaves nothing in safe mode.
THEOREM SafeModeIsSwitchedOff == EnsureSpec => SafeModeIsOff
<1>1. SafeInv => \A c \in Clis : EnsureWrite(c) =>
        ensure[c].shared \/ NeedSafeModeOff(ensure[c].ib) = {}
  BY DEF SafeInv, EnsureWrite, Ensuring, EnsureIdle
<1> QED
  BY <1>1, EnsureTypes, SafeInvInit, SafeInvStep, PTL DEF EnsureSpec, SafeModeIsOff

-----------------------------------------------------------------------------
(* The age of the runner, in a project with one infobase *)

LEMMA FreshInvInit == InitEnsure => FreshInv
<1> SUFFICES ASSUME InitEnsure
             PROVE  FreshInv
  OBVIOUS
<1>1. cache \in Nat \ {0} /\ runnerState = 0
  BY MaxVersionIsPositive DEF InitEnsure, Versions
<1>2. \A c \in Clis : ensure[c].pc = "idle"
  <2>1. \A b \in Ibs : NoEnsure(b).pc = "idle"
    BY DEF NoEnsure
  <2> QED BY <2>1 DEF InitEnsure
<1> QED BY <1>1, <1>2 DEF FreshInv, Ensuring, EnsureIdle, Recorded, RunnerStage

LEMMA FreshInvStep ==
  ASSUME EnsureTypeOK, FreshInv, [EnsureNext]_ensureVars, \A a, b \in Ibs : a = b
  PROVE  FreshInv'
<1>a. /\ ensure \in [Clis -> EnsureType] /\ ib \in [Ibs -> Infobases]
      /\ cache \in 1..MaxVersion /\ runnerState \in 0..MaxVersion
      /\ \A d \in Clis : /\ ensure[d].ib \in Ibs
                         /\ ensure[d].digest \in 0..MaxVersion /\ ensure[d].version \in 0..MaxVersion
      /\ \A b \in Ibs : ib[b].version \in 0..MaxVersion
  BY DEF EnsureTypeOK, EnsureType, Infobases, Versions
<1>b. MaxVersion \in Nat /\ runnerState <= cache
  BY MaxVersionIsPositive DEF FreshInv
<1>c. \A c \in Clis : Ensuring(c) => ensure[c].digest <= cache
  BY DEF FreshInv
<1>d. \A c \in Clis : ensure[c].ib \notin Declared => RunnerStage(c)
  BY DEF FreshInv
<1>e. Recorded
  BY DEF FreshInv
<1>1. CASE ToolsSync
  <2>1. cache' \in 1..MaxVersion /\ cache' > cache /\ ib' = ib /\ ensure' = ensure
        /\ runnerState' = runnerState
    BY <1>1 DEF ToolsSync, Versions
  <2>2. runnerState' <= cache' /\ \A c \in Clis : Ensuring(c)' => ensure'[c].digest <= cache'
    BY <2>1, <1>a, <1>b, <1>c DEF Ensuring, EnsureIdle
  <2>3. Recorded' /\ \A c \in Clis : ensure'[c].ib \notin Declared => RunnerStage(c)'
    BY <2>1, <1>d, <1>e DEF Recorded, RunnerStage, Fresh
  <2> QED BY <2>2, <2>3 DEF FreshInv
<1>2. ASSUME NEW b \in Ibs, Build(b)
      PROVE  FreshInv'
  <2>1. ensure' = ensure /\ cache' = cache /\ runnerState' = runnerState
    BY <1>2 DEF Build
  <2>2. \A c \in Clis : EnsureIdle(c)
    BY <1>2, <1>a DEF Build
  <2>3. \A c \in Clis : RunnerStage(c)' /\ ~Ensuring(c)'
    BY <2>1, <2>2 DEF RunnerStage, Ensuring, EnsureIdle
  <2>4. b \notin Declared => ib'[b].version \in {0, ib[b].version}
    BY <1>2, <1>a DEF Build
  <2>5. Recorded'
    BY <2>1, <2>4, <1>e DEF Recorded
  <2> QED BY <2>1, <2>3, <2>5, <1>b DEF FreshInv
<1>3. ASSUME NEW e \in Clis, NEW b \in Ibs, EnsureBegin(e, b)
      PROVE  FreshInv'
  <2>1. /\ cache' = cache /\ ib' = ib /\ runnerState' = runnerState
        /\ Ensuring(e)' => ensure'[e].digest = cache
        /\ ensure'[e].pc \in {"list", "failed"}
    BY <1>3, EnsureBegun
  <2>2. \A d \in Clis \ {e} :
          /\ ensure'[d].pc = ensure[d].pc /\ ensure'[d].ib = ensure[d].ib
          /\ ensure'[d].digest = ensure[d].digest /\ ensure'[d].version = ensure[d].version
    BY <1>3, EnsureBegun
  <2>3. \A d \in Clis : Ensuring(d)' => ensure'[d].digest <= cache'
    BY <2>1, <2>2, <1>a, <1>b, <1>c DEF Ensuring, EnsureIdle
  <2>4. RunnerStage(e)'
    BY <2>1 DEF RunnerStage
  <2>5. \A d \in Clis \ {e} : ensure'[d].ib \notin Declared => RunnerStage(d)'
    BY <2>1, <2>2, <1>d DEF RunnerStage, Fresh
  <2> QED BY <2>1, <2>3, <2>4, <2>5, <1>b, <1>e DEF FreshInv, Recorded
<1>4. ASSUME NEW e \in Clis, EnsureStep(e)
      PROVE  FreshInv'
  <2>1. /\ cache' = cache /\ Ensuring(e)
        /\ \A d \in Clis \ {e} : ensure'[d] = ensure[d]
        /\ ensure'[e].ib = ensure[e].ib /\ ensure'[e].digest = ensure[e].digest
    BY <1>4, EnsureFrame
  <2>2. \A d \in Clis : Ensuring(d)' => ensure'[d].digest <= cache'
    BY <2>1, <1>c DEF Ensuring, EnsureIdle
  <2> DEFINE b == ensure[e].ib
  \* Without a load, the others stand where they stood.
  <2>3. ASSUME \A a \in Ibs : ib'[a].version = ib[a].version
        PROVE  \A d \in Clis \ {e} : ensure'[d].ib \notin Declared => RunnerStage(d)'
    BY <2>3, <2>1, <1>a, <1>d DEF RunnerStage, Fresh
  <2>4. ASSUME \A a \in Ibs : ib'[a].version = ib[a].version, runnerState' = runnerState,
               ensure'[e].ib \notin Declared => RunnerStage(e)'
        PROVE  FreshInv'
    BY <2>1, <2>2, <2>3, <2>4, <1>b, <1>e DEF FreshInv, Recorded
  <2>5. CASE EnsureList(e)
    <3>1. /\ ib' = ib /\ runnerState' = runnerState
          /\ \/ ensure'[e].pc = "failed"
             \/ ensure'[e].pc = "decide" /\ ensure'[e].version = ib[b].version
      BY <2>5, <1>a DEF EnsureList, EnsureFails, EnsureGo, EnsureType
    <3>2. RunnerStage(e)'
      BY <3>1, <2>1 DEF RunnerStage, Fresh
    <3> QED BY <3>1, <3>2, <2>4
  <2>6. CASE EnsureDecide(e)
    <3>1. /\ ib' = ib /\ runnerState' = runnerState /\ ensure[e].pc = "decide"
          /\ \/ ensure'[e].pc = "load"
             \/ ensure'[e].pc = "update" /\ (b \in Declared \/ UpToDate(e))
      BY <2>6, <1>a DEF EnsureDecide, EnsureGo, EnsureType
    <3>2. ASSUME b \notin Declared, UpToDate(e)
          PROVE  Fresh(e)
      <4>1. ensure[e].version # 0 /\ ib[b].version # 0
        BY <3>1, <3>2, <1>d DEF RunnerStage, UpToDate
      <4>2. CASE runnerState = ensure[e].digest
        BY <4>1, <4>2, <3>2, <1>a, <1>e DEF Recorded, Fresh
      <4>3. CASE ensure[e].version = ensure[e].digest
        BY <4>1, <4>3, <3>1, <3>2, <1>a, <1>d DEF RunnerStage
      <4> QED BY <4>2, <4>3, <3>2 DEF UpToDate
    <3>3. b \notin Declared => RunnerStage(e)'
      BY <3>1, <3>2, <2>1 DEF RunnerStage, Fresh
    <3> QED BY <3>1, <3>3, <2>1, <2>4
  <2>7. CASE EnsureLoad(e)
    <3>1. CASE EnsureFails(e) /\ UNCHANGED ib
      <4>1. ensure'[e].pc = "failed"
        BY <3>1, <1>a DEF EnsureFails, EnsureGo, EnsureType
      <4> QED BY <4>1, <3>1, <2>4, <2>7 DEF EnsureLoad, RunnerStage
    <3>2. CASE /\ ib' = [ib EXCEPT ![b].version = cache, ![b].unsafe = @ \ {"YAXUNIT"}]
               /\ EnsureGo(e, "relist")
      <4>1. ensure'[e].pc = "relist" /\ runnerState' = runnerState
        BY <3>2, <2>7, <1>a DEF EnsureLoad, EnsureGo, EnsureType
      <4>2. ib[b] \in Infobases /\ b \in Ibs
        BY <1>a
      <4>3. ib'[b].version = cache
        BY <3>2, <4>2, <1>a DEF Infobases
      <4>4. \A a \in Ibs : ib'[a].version = cache
        BY <4>2, <4>3
      <4>5. Recorded'
        BY <4>1, <4>4, <1>b DEF Recorded
      <4>6. \A d \in Clis : ensure'[d].ib \in Ibs
        BY <2>1, <1>a
      <4>7. \A d \in Clis : Ensuring(d)' => Fresh(d)' /\ ib'[ensure'[d].ib].version # 0
        <5>1. \A d \in Clis : Ensuring(d)' => cache >= ensure'[d].digest
          BY <2>1, <2>2, <1>a, <1>b
        <5> QED BY <5>1, <4>4, <4>6, <1>a DEF Fresh
      <4>8. \A d \in Clis : RunnerStage(d)'
        BY <4>7 DEF RunnerStage, Ensuring, EnsureIdle
      <4> QED BY <2>1, <2>2, <4>1, <4>5, <4>8, <1>b DEF FreshInv
    <3> QED BY <2>7, <3>1, <3>2 DEF EnsureLoad
  <2>8. CASE EnsureRelist(e)
    <3>1. /\ ib' = ib /\ runnerState' = runnerState /\ ensure[e].pc = "relist"
          /\ ensure'[e].pc \in {"failed", "update"}
      BY <2>8, <1>a DEF EnsureRelist, EnsureFails, EnsureGo, EnsureType
    <3>2. b \notin Declared => RunnerStage(e)'
      BY <3>1, <2>1, <1>d DEF RunnerStage, Fresh
    <3> QED BY <3>1, <3>2, <2>1, <2>4
  <2>9. CASE EnsureUpdate(e)
    <3>1. /\ runnerState' = runnerState /\ ensure[e].pc = "update"
          /\ ensure'[e].pc \in {"failed", "update"}
      BY <2>9, <1>a, ZenonT(40) DEF EnsureUpdate, EnsureFails, EnsureGo, EnsureType
    <3>2. \A a \in Ibs : ib'[a].version = ib[a].version
      <4>1. CASE UNCHANGED ib
        BY <4>1
      <4>2. ASSUME NEW x, ib' = [ib EXCEPT ![b].unsafe = @ \cup {x}]
            PROVE  \A a \in Ibs : ib'[a].version = ib[a].version
        <5>1. b \in Ibs /\ ib[b] \in Infobases /\ \A a \in Ibs \ {b} : ib'[a] = ib[a]
          BY <4>2, <1>a
        <5>2. ib'[b] = [ib[b] EXCEPT !.unsafe = @ \cup {x}]
          BY <4>2, <5>1, <1>a
        <5> QED BY <5>1, <5>2 DEF Infobases
      <4> QED BY <2>9, <4>1, <4>2 DEF EnsureUpdate
    <3>3. b \notin Declared => RunnerStage(e)'
      BY <3>1, <3>2, <2>1, <1>a, <1>d DEF RunnerStage, Fresh
    <3> QED BY <3>1, <3>2, <3>3, <2>1, <2>4
  <2>10. CASE EnsureWrite(e)
    <3>1. /\ ib' = ib /\ ensure[e].pc = "update" /\ ensure'[e].pc = "ok"
          /\ runnerState' = IF b \in Declared THEN runnerState ELSE ensure[e].digest
      BY <2>10, <1>a DEF EnsureWrite, EnsureGo, EnsureType
    <3>2. RunnerStage(e)'
      BY <3>1 DEF RunnerStage
    <3>3. CASE b \in Declared
      BY <3>1, <3>2, <3>3, <2>4
    <3>4. CASE b \notin Declared
      <4>1. Fresh(e)
        BY <3>1, <3>4, <1>d DEF RunnerStage
      <4>2. \A a \in Ibs : a = b
        BY <1>a
      <4>3. Recorded'
        BY <3>1, <3>4, <4>1, <4>2 DEF Recorded, Fresh
      <4>4. runnerState' <= cache'
        BY <3>1, <3>4, <2>1, <1>c
      <4> QED BY <3>1, <3>2, <4>3, <4>4, <2>1, <2>2, <2>3 DEF FreshInv
    <3> QED BY <3>3, <3>4
  <2> QED BY <1>4, <2>5, <2>6, <2>7, <2>8, <2>9, <2>10 DEF EnsureStep
<1>5. ASSUME NEW e \in Clis, EnsureEnds(e)
      PROVE  FreshInv'
  <2>1. /\ cache' = cache /\ ib' = ib /\ runnerState' = runnerState
        /\ \A d \in Clis \ {e} : ensure'[d] = ensure[d]
        /\ ensure'[e].pc = "idle"
    BY <1>5, <1>a DEF EnsureEnds, NoEnsure
  <2>2. RunnerStage(e)' /\ ~Ensuring(e)'
    BY <2>1 DEF RunnerStage, Ensuring, EnsureIdle
  <2>3. \A d \in Clis \ {e} : /\ Ensuring(d)' => ensure'[d].digest <= cache'
                              /\ ensure'[d].ib \notin Declared => RunnerStage(d)'
    BY <2>1, <1>c, <1>d DEF Ensuring, EnsureIdle, RunnerStage, Fresh
  <2> QED BY <2>1, <2>2, <2>3, <1>b, <1>e DEF FreshInv, Recorded
<1>6. CASE UNCHANGED ensureVars
  BY <1>6, <1>b, <1>c, <1>d, <1>e
  DEF ensureVars, FreshInv, Recorded, RunnerStage, Fresh, Ensuring, EnsureIdle
<1> QED BY <1>1, <1>2, <1>3, <1>4, <1>5, <1>6 DEF EnsureNext, Around

\* In a project with one infobase, an ensure that succeeds leaves a runner that is not
\* older than the cached file it found.
THEOREM RunnerStaysFresh ==
  ASSUME \A a, b \in Ibs : a = b
  PROVE  EnsureSpec => RunnerIsFresh
<1>1. FreshInv => \A c \in Clis : EnsureWrite(c) =>
        ensure[c].ib \in Declared \/ ib[ensure[c].ib].version >= ensure[c].digest
  BY DEF FreshInv, RunnerStage, Fresh, EnsureWrite
<1>2. EnsureTypeOK /\ FreshInv /\ [EnsureNext]_ensureVars => FreshInv'
  BY FreshInvStep
<1> QED
  BY <1>1, <1>2, EnsureTypes, FreshInvInit, PTL DEF EnsureSpec, RunnerIsFresh

-----------------------------------------------------------------------------
(* The runs. *)

\* A command ensures only while it is at that step.
EnsureOwned == \A c \in Clis : cmd[c].pc # "ensure" => EnsureIdle(c)

\* A command has a run, and a report once it has collected one.
Named ==
  \A c \in Clis :
    /\ cmd[c].pc # "idle" => cmd[c].run \in Runs
    /\ cmd[c].pc \in {"clear", "save"} => cmd[c].report \in Reports

\* Whose run it is.
Running(c) == cmd[c].op \in {"run", "debug"}
BeforeSpawn == {"ensure", "boot", "reset", "prepare", "config", "spawn"}
AfterExit == {"teardown", "collect", "clear", "save"}

Owns(c) ==
  /\ cmd[c].pc = "idle" => cmd[c] = Idle
  /\ Running(c) => metaFile # cmd[c].run /\ \A d \in Clis \ {c} : cmd[d].run # cmd[c].run
  /\ cmd[c].pc \in BeforeSpawn => Running(c) /\ client[cmd[c].run].state = "unused"
  /\ cmd[c].pc \in {"arm", "meta"} => Running(c)
  /\ cmd[c].pc \in AfterExit => ~Alive(cmd[c].run)
  /\ cmd[c].pc = "clear" => cmd[c].op = "wait"
  /\ cmd[c].pc \notin BeforeSpawn \cup {"idle"} => client[cmd[c].run].state # "unused"

Owner ==
  /\ \A c \in Clis : Owns(c)
  /\ metaFile # Null => client[metaFile].state # "unused"

\* A run in the directory, or with its report still to be collected, has it to itself
\* unless it is mixed.
Holder(r) == InUse(r) \/ metaFile = r
Apart == \A r, q \in Runs : Holder(r) /\ InUse(q) /\ q # r => r \in mixed

\* A client selects the tests of its own run.
Reads ==
  \A r \in Runs \ mixed :
    /\ (\E c \in Clis : cmd[c].pc = "spawn" /\ cmd[c].run = r) => cfg = r
    /\ client[r].state = "starting" => cfg = r
    /\ client[r].state \in {"running", "reported", "complete"} => client[r].tests \in {r, Null}

Own(r) == [by |-> r, tests |-> r]

\* The report in the directory is the one of its holder.
Written ==
  \A r \in Runs \ mixed : Holder(r) =>
    junit = IF client[r].state \in {"reported", "complete"} THEN Own(r) ELSE Null

Collected ==
  \A c \in Clis : cmd[c].pc \in {"clear", "save"} /\ cmd[c].run \notin mixed =>
    cmd[c].report = Own(cmd[c].run)

KnownInv ==
  \A r \in Runs \ (mixed \cup lost) : Alive(r) =>
    \/ metaFile = r
    \/ \E c \in Clis : cmd[c].run = r /\ Running(c) /\ cmd[c].pc \in {"arm", "meta", "wait"}

IInv == Owner /\ Apart /\ Reads /\ Written /\ Collected /\ ResultIsOwn /\ KnownInv

-----------------------------------------------------------------------------
(* Typing, and the steps of TestRun as steps of RunnerEnsure *)

LEMMA EnsureOwnedInit == Init => EnsureOwned
  BY DEF Init, InitEnsure, EnsureOwned, EnsureIdle, NoEnsure

LEMMA RunnerStep ==
  ASSUME EnsureOwned, [Next]_vars
  PROVE  [EnsureNext]_ensureVars
<1>1. CASE UNCHANGED vars
  BY <1>1 DEF vars
<1>2. CASE Machine
  BY <1>2 DEF Machine, EnsureNext, DebugCommand, ClientReadsConfig, ClientReports, ClientExits
<1>3. ASSUME NEW c \in Clis, Command(c)
      PROVE  EnsureNext \/ UNCHANGED ensureVars
  <2>1. CASE BeginRun(c)
    <3>1. EnsureIdle(c)
      BY <2>1 DEF BeginRun, EnsureOwned
    <3> QED BY <2>1, <3>1 DEF BeginRun, EnsureNext
  <2>2. CASE EnsureRunner(c)
    BY <2>2 DEF EnsureRunner, EnsureNext
  <2>3. CASE EnsuredRunner(c)
    BY <2>3 DEF EnsuredRunner, EnsureNext
  <2>4. CASE Killed(c)
    BY <2>4 DEF Killed, EnsureNext, EnsureEnds
  <2> QED
    BY <1>3, <2>1, <2>2, <2>3, <2>4
    DEF Command, BootDebug, ResetDebug, PrepareWorkDir, WriteConfig, Spawn, ArmTargets, SaveMeta,
        RunExits, RunTimesOut, BeginWait, WaitTimesOut, WaitExits, Teardown, Collect,
        CollectFails, ClearMeta, SaveResult
<1> QED BY <1>1, <1>2, <1>3 DEF Next

LEMMA CommandType ==
  /\ Idle \in Commands
  /\ \A e \in Commands : e.run \in Runs \cup {Null} /\ e.report \in Reports \cup {Null}
  /\ \A e \in Commands, pc \in {"ensure", "boot", "reset", "prepare", "config", "spawn", "arm",
                                "meta", "wait", "teardown", "collect", "clear", "save"} :
       [e EXCEPT !.pc = pc] \in Commands
  BY DEF Commands, Idle

LEMMA EnsureOwnedStep == TypeOK /\ EnsureOwned /\ [Next]_vars => EnsureOwned'
<1> SUFFICES ASSUME TypeOK, EnsureOwned, [Next]_vars
             PROVE  EnsureOwned'
  OBVIOUS
<1>a. EnsureTypeOK /\ cmd \in [Clis -> Commands] /\ ensure \in [Clis -> EnsureType]
  BY DEF TypeOK, EnsureTypeOK
<1>1. CASE UNCHANGED vars
  BY <1>1 DEF vars, testVars, ensureVars, EnsureOwned, EnsureIdle
<1>2. CASE Machine
  BY <1>2 DEF Machine, DebugCommand, ClientReadsConfig, ClientReports, ClientExits, testVars,
              ensureVars, Around, ToolsSync, Build, EnsureOwned, EnsureIdle
<1>3. ASSUME NEW c \in Clis, Command(c)
      PROVE  EnsureOwned'
  <2>1. CASE BeginRun(c)
    <3>1. \A d \in Clis \ {c} : cmd'[d] = cmd[d] /\ ensure'[d].pc = ensure[d].pc
      <4>1. CASE UNCHANGED ensureVars
        BY <2>1, <4>1, <1>a DEF BeginRun, ensureVars
      <4>2. CASE \E b \in Ibs : EnsureBegin(c, b)
        BY <2>1, <4>2, <1>a, EnsureBegun DEF BeginRun
      <4> QED BY <2>1, <4>1, <4>2 DEF BeginRun
    <3>2. cmd'[c].pc = "ensure" \/ (ensure' = ensure /\ cmd[c].pc = "idle")
      BY <2>1, <1>a DEF BeginRun, ensureVars, Idle
    <3> QED BY <3>1, <3>2 DEF EnsureOwned, EnsureIdle
  <2>2. CASE EnsureRunner(c)
    <3>1. \A d \in Clis \ {c} : ensure'[d] = ensure[d]
      BY <2>2, <1>a, EnsureFrame DEF EnsureRunner
    <3> QED BY <2>2, <3>1 DEF EnsureRunner, testVars, EnsureOwned, EnsureIdle
  <2>3. CASE EnsuredRunner(c) \/ Killed(c)
    <3>1. \A d \in Clis \ {c} : ensure'[d] = ensure[d] /\ cmd'[d] = cmd[d]
      BY <2>3, <1>a DEF EnsuredRunner, Killed, EnsureEnds, Go, Done
    <3>2. ensure'[c].pc = "idle"
      BY <2>3, <1>a DEF EnsuredRunner, Killed, EnsureEnds, NoEnsure
    <3> QED BY <3>1, <3>2 DEF EnsureOwned, EnsureIdle
  <2>4. ASSUME cmd[c].pc # "ensure", UNCHANGED ensureVars,
               \A d \in Clis \ {c} : cmd'[d] = cmd[d]
        PROVE  EnsureOwned'
    BY <2>4 DEF ensureVars, EnsureOwned, EnsureIdle
  <2>5. CASE BootDebug(c) \/ ResetDebug(c) \/ PrepareWorkDir(c) \/ WriteConfig(c) \/ Spawn(c)
    BY <2>5, <2>4, <1>a DEF BootDebug, ResetDebug, PrepareWorkDir, WriteConfig, Spawn, Go, Done
  <2>6. CASE ArmTargets(c) \/ SaveMeta(c) \/ RunExits(c) \/ RunTimesOut(c) \/ BeginWait(c)
    BY <2>6, <2>4, <1>a DEF ArmTargets, SaveMeta, RunExits, RunTimesOut, BeginWait, Go, Done
  <2>7. CASE WaitTimesOut(c) \/ WaitExits(c) \/ Teardown(c)
    BY <2>7, <2>4, <1>a DEF WaitTimesOut, WaitExits, Teardown, Go, Done
  <2>8. CASE Collect(c) \/ CollectFails(c) \/ ClearMeta(c) \/ SaveResult(c)
    BY <2>8, <2>4, <1>a DEF Collect, CollectFails, ClearMeta, SaveResult, Go, Done
  <2> QED BY <1>3, <2>1, <2>2, <2>3, <2>5, <2>6, <2>7, <2>8 DEF Command
<1> QED BY <1>1, <1>2, <1>3 DEF Next

LEMMA TypeInit == Init => TypeOK
<1> SUFFICES ASSUME Init
             PROVE  TypeOK
  OBVIOUS
<1>1. EnsureTypeOK
  BY EnsureTypeInit DEF Init
<1>2. client \in [Runs -> Clients] /\ cmd \in [Clis -> Commands]
  BY CommandType DEF Init, Clients
<1> QED BY <1>1, <1>2 DEF Init, TypeOK

LEMMA TypeStep == TypeOK /\ Named /\ EnsureOwned /\ [Next]_vars => TypeOK'
<1> SUFFICES ASSUME TypeOK, Named, EnsureOwned, [Next]_vars
             PROVE  TypeOK'
  OBVIOUS
<1>a. EnsureTypeOK'
  BY RunnerStep, EnsureTypeStep DEF TypeOK
<1>b. /\ cfg \in Runs \cup {Null} /\ junit \in Reports \cup {Null} /\ metaFile \in Runs \cup {Null}
      /\ lastResult \in [run : Runs, report : Reports] \cup {Null}
      /\ client \in [Runs -> Clients] /\ session \in BOOLEAN /\ cmd \in [Clis -> Commands]
      /\ mixed \in SUBSET Runs /\ lost \in SUBSET Runs
  BY DEF TypeOK
<1>c. \A r \in Runs : client[r].tests \in Runs \cup {Null}
  BY <1>b DEF Clients
<1>d. \A c \in Clis : cmd[c] \in Commands /\ cmd[c].run \in Runs \cup {Null}
  BY <1>b, CommandType
<1>e. \A e \in Clients, state \in {"starting", "running", "reported", "complete", "dead"} :
        [e EXCEPT !.state = state] \in Clients
  BY DEF Clients
<1>1. CASE UNCHANGED vars
  BY <1>1, <1>a, <1>b DEF vars, testVars, TypeOK
<1>2. CASE Machine
  <2>1. CASE Around /\ UNCHANGED testVars
    BY <2>1, <1>a, <1>b DEF testVars, TypeOK
  <2>2. CASE DebugCommand
    BY <2>2, <1>a, <1>b DEF DebugCommand, workDir, history, TypeOK
  <2>3. ASSUME NEW r \in Runs, ClientReadsConfig(r)
        PROVE  TypeOK'
    BY <2>3, <1>a, <1>b DEF ClientReadsConfig, workDir, history, Clients, TypeOK
  <2>4. ASSUME NEW r \in Runs, ClientReports(r)
        PROVE  TypeOK'
    <3>1. junit' \in Reports
      BY <2>4, <1>c DEF ClientReports, Reports
    <3> QED BY <2>4, <3>1, <1>a, <1>b DEF ClientReports, history, Clients, TypeOK
  <2>5. ASSUME NEW r \in Runs, ClientExits(r)
        PROVE  TypeOK'
    <3>1. client' \in [Runs -> Clients]
      BY <2>5, <1>b, <1>e DEF ClientExits, Exit
    <3> QED BY <2>5, <3>1, <1>a, <1>b DEF ClientExits, workDir, history, TypeOK
  <2> QED BY <1>2, <2>1, <2>2, <2>3, <2>4, <2>5 DEF Machine
<1>3. ASSUME NEW c \in Clis, Command(c)
      PROVE  TypeOK'
  <2>a. \A pc \in {"ensure", "boot", "reset", "prepare", "config", "spawn", "arm", "meta", "wait",
                   "teardown", "collect", "clear", "save"} :
          Go(c, pc) => cmd' \in [Clis -> Commands]
    <3>1. \A pc : [cmd[c] EXCEPT !.pc = pc] \in Commands /\ Go(c, pc) => cmd' \in [Clis -> Commands]
      BY <1>b DEF Go
    <3> QED BY <3>1, <1>d, CommandType
  <2>b. Done(c) => cmd' \in [Clis -> Commands]
    BY <1>b, CommandType DEF Done
  <2>1. CASE BeginRun(c)
    <3>1. \A r \in Runs, op \in {"run", "debug"}, pc \in {"ensure", "boot", "prepare"} :
            [Idle EXCEPT !.op = op, !.run = r, !.pc = pc] \in Commands
      BY DEF Idle, Commands
    <3>2. cmd' \in [Clis -> Commands]
      BY <2>1, <3>1, <1>b, ZenonT(40) DEF BeginRun
    <3> QED BY <2>1, <3>2, <1>a, <1>b DEF BeginRun, workDir, history, TypeOK
  <2>2. CASE EnsureRunner(c)
    BY <2>2, <1>a, <1>b DEF EnsureRunner, testVars, TypeOK
  <2>3. CASE EnsuredRunner(c)
    BY <2>3, <2>a, <2>b, <1>a, <1>b DEF EnsuredRunner, workDir, history, TypeOK
  <2>4. CASE BootDebug(c)
    BY <2>4, <2>a, <2>b, <1>a, <1>b DEF BootDebug, workDir, history, TypeOK
  <2>5. CASE ResetDebug(c)
    BY <2>5, <2>a, <2>b, <1>a, <1>b DEF ResetDebug, workDir, history, TypeOK
  <2>6. CASE PrepareWorkDir(c)
    <3>1. cmd[c].run \in Runs
      BY <2>6 DEF PrepareWorkDir, Named
    <3>2. Sharing(cmd[c].run) \subseteq Runs
      BY <3>1 DEF Sharing
    <3>3. EntersWorkDir(c) => mixed' \subseteq Runs
      BY <3>2, <1>b DEF EntersWorkDir
    <3> QED BY <2>6, <2>a, <2>b, <3>3, <1>a, <1>b, <1>d DEF PrepareWorkDir, workDir, TypeOK
  <2>7. CASE WriteConfig(c)
    BY <2>7, <2>a, <1>a, <1>b, <1>d DEF WriteConfig, history, TypeOK
  <2>8. CASE Spawn(c)
    BY <2>8, <2>a, <2>b, <1>a, <1>b DEF Spawn, workDir, history, Clients, TypeOK
  <2>9. CASE ArmTargets(c)
    BY <2>9, <2>a, <1>a, <1>b DEF ArmTargets, workDir, history, TypeOK
  <2>10. CASE SaveMeta(c)
    BY <2>10, <2>b, <1>a, <1>b, <1>d DEF SaveMeta, workDir, history, TypeOK
  <2>11. CASE RunExits(c)
    BY <2>11, <2>a, <1>a, <1>b DEF RunExits, workDir, history, TypeOK
  <2>12. CASE RunTimesOut(c)
    <3>1. cmd[c].run \in Runs
      BY <2>12 DEF RunTimesOut, Named
    <3>2. client' \in [Runs -> Clients]
      <4>1. Exit(cmd[c].run) => client' \in [Runs -> Clients]
        BY <3>1, <1>b DEF Exit, Clients
      <4> QED BY <2>12, <4>1, <1>b DEF RunTimesOut
    <3> QED BY <2>12, <2>b, <3>1, <3>2, <1>a, <1>b DEF RunTimesOut, workDir, TypeOK
  <2>13. CASE BeginWait(c)
    BY <2>13, <1>a, <1>b DEF BeginWait, Sharing, Idle, Commands, workDir, TypeOK
  <2>14. CASE WaitTimesOut(c) \/ WaitExits(c)
    BY <2>14, <2>a, <2>b, <1>a, <1>b DEF WaitTimesOut, WaitExits, workDir, history, TypeOK
  <2>15. CASE Teardown(c)
    BY <2>15, <2>a, <1>a, <1>b DEF Teardown, workDir, history, TypeOK
  <2>16. CASE Collect(c)
    BY <2>16, <1>a, <1>b DEF Collect, Commands, workDir, history, TypeOK
  <2>17. CASE CollectFails(c)
    BY <2>17, <2>b, <1>a, <1>b DEF CollectFails, workDir, history, TypeOK
  <2>18. CASE ClearMeta(c)
    BY <2>18, <2>a, <1>a, <1>b DEF ClearMeta, workDir, history, TypeOK
  <2>19. CASE SaveResult(c)
    <3>1. lastResult' \in [run : Runs, report : Reports]
      BY <2>19 DEF SaveResult, Named
    <3> QED BY <2>19, <2>b, <3>1, <1>a, <1>b DEF SaveResult, workDir, history, TypeOK
  <2>20. CASE Killed(c)
    BY <2>20, <2>b, <1>a, <1>b DEF Killed, workDir, TypeOK
  <2> QED
    BY <1>3, <2>1, <2>2, <2>3, <2>4, <2>5, <2>6, <2>7, <2>8, <2>9, <2>10, <2>11, <2>12, <2>13,
       <2>14, <2>15, <2>16, <2>17, <2>18, <2>19, <2>20 DEF Command
<1> QED BY <1>1, <1>2, <1>3 DEF Next

LEMMA NamedStep == TypeOK /\ Named /\ [Next]_vars => Named'
<1> SUFFICES ASSUME TypeOK, Named, [Next]_vars
             PROVE  Named'
  OBVIOUS
<1>b. /\ junit \in Reports \cup {Null} /\ metaFile \in Runs \cup {Null}
      /\ cmd \in [Clis -> Commands]
  BY DEF TypeOK
<1>1. CASE UNCHANGED vars \/ Machine
  BY <1>1 DEF vars, testVars, Machine, DebugCommand, ClientReadsConfig, ClientReports, ClientExits,
              Named
<1>2. ASSUME NEW c \in Clis, Command(c)
      PROVE  Named'
  <2>1. ASSUME \A d \in Clis \ {c} : cmd'[d] = cmd[d], cmd'[c].pc # "idle" => cmd'[c].run \in Runs,
               cmd'[c].pc \in {"clear", "save"} => cmd'[c].report \in Reports
        PROVE  Named'
    BY <2>1 DEF Named
  <2>2. ASSUME NEW pc, Go(c, pc), cmd[c].pc # "idle", pc \in {"clear", "save"} => cmd[c].pc = "clear"
        PROVE  Named'
    BY <2>2, <2>1, <1>b DEF Go, Named, Commands
  <2>3. CASE Done(c)
    BY <2>3, <2>1, <1>b DEF Done, Idle
  <2>4. CASE BeginRun(c)
    BY <2>4, <2>1, <1>b DEF BeginRun, Idle
  <2>5. CASE EnsureRunner(c)
    BY <2>5 DEF EnsureRunner, testVars, Named
  <2>6. CASE EnsuredRunner(c) \/ BootDebug(c) \/ ResetDebug(c) \/ PrepareWorkDir(c)
             \/ WriteConfig(c) \/ Spawn(c) \/ ArmTargets(c) \/ SaveMeta(c) \/ RunExits(c)
             \/ RunTimesOut(c) \/ WaitTimesOut(c) \/ WaitExits(c) \/ Teardown(c) \/ CollectFails(c)
             \/ ClearMeta(c) \/ SaveResult(c) \/ Killed(c)
    BY <2>6, <2>2, <2>3
    DEF EnsuredRunner, BootDebug, ResetDebug, PrepareWorkDir, WriteConfig, Spawn, ArmTargets,
        SaveMeta, RunExits, RunTimesOut, WaitTimesOut, WaitExits, Teardown, CollectFails,
        ClearMeta, SaveResult, Killed
  <2>7. CASE BeginWait(c)
    BY <2>7, <2>1, <1>b DEF BeginWait, Idle
  <2>8. CASE Collect(c)
    BY <2>8, <2>1, <1>b DEF Collect, Commands, Named
  <2> QED BY <1>2, <2>4, <2>5, <2>6, <2>7, <2>8 DEF Command
<1> QED BY <1>1, <1>2 DEF Next

TypeInv == TypeOK /\ Named /\ EnsureOwned

LEMMA TypeInvHolds == Spec => []TypeInv
<1>1. Init => TypeInv
  BY TypeInit, EnsureOwnedInit DEF TypeInv, Init, Named, Idle
<1>2. TypeInv /\ [Next]_vars => TypeInv'
  BY TypeStep, NamedStep, EnsureOwnedStep DEF TypeInv
<1> QED BY <1>1, <1>2, PTL DEF Spec

\* The variables of a test run and of its commands keep their types.
THEOREM Types == Spec => []TypeOK
  BY TypeInvHolds, PTL DEF TypeInv

\* Test runs that ensure their runner behave as RunnerEnsure does.
THEOREM RunsEnsure == Spec => EnsureSpec
<1>1. Init => InitEnsure
  BY DEF Init
<1>2. TypeInv /\ [Next]_vars => [EnsureNext]_ensureVars
  BY RunnerStep DEF TypeInv
<1> QED BY <1>1, <1>2, TypeInvHolds, PTL DEF Spec, EnsureSpec

-----------------------------------------------------------------------------
(* Each run has one owner *)

\* The client of r is not started, and does not come back to life.
Ages(r) ==
  /\ client'[r].state = "unused" <=> client[r].state = "unused"
  /\ Alive(r)' => Alive(r)

\* A command is not disturbed by the step of another one that does not touch its run.
LEMMA OwnsOther ==
  ASSUME TypeInv, Owner, NEW c \in Clis, NEW d \in Clis \ {c},
         \A e \in Clis \ {c} : cmd'[e] = cmd[e],
         cmd[d].run \in Runs => Ages(cmd[d].run),
         Running(d) => metaFile' # cmd[d].run /\ cmd'[c].run # cmd[d].run
  PROVE  Owns(d)'
<1>1. Owns(d) /\ cmd'[d] = cmd[d] /\ (cmd[d].pc # "idle" => cmd[d].run \in Runs)
  BY DEF Owner, TypeInv, Named
<1>2. Running(d)' = Running(d)
  BY <1>1 DEF Running
<1>3. Running(d) => metaFile' # cmd'[d].run /\ \A e \in Clis \ {d} : cmd'[e].run # cmd'[d].run
  BY <1>1 DEF Owns
<1>4. cmd[d].pc # "idle" => Ages(cmd[d].run)
  BY <1>1
<1> QED BY <1>1, <1>2, <1>3, <1>4 DEF Owns, Ages, BeforeSpawn, AfterExit, Alive

LEMMA OwnerMachine == TypeInv /\ Owner /\ Machine => Owner'
<1> SUFFICES ASSUME TypeInv, Owner, Machine
             PROVE  Owner'
  OBVIOUS
<1>a. client \in [Runs -> Clients] /\ metaFile \in Runs \cup {Null}
  BY DEF TypeInv, TypeOK
<1>1. cmd' = cmd /\ metaFile' = metaFile
  BY DEF Machine, testVars, DebugCommand, ClientReadsConfig, ClientReports, ClientExits
<1>2. \A r \in Runs : Ages(r)
  BY <1>a DEF Machine, testVars, DebugCommand, ClientReadsConfig, ClientReports, ClientExits, Exit,
              Ages, Alive, Clients
<1>3. ASSUME NEW c \in Clis
      PROVE  Owns(c)'
  <2>1. Owns(c) /\ (cmd[c].pc # "idle" => Ages(cmd[c].run))
    BY <1>2 DEF Owner, TypeInv, Named
  <2>2. Running(c)' = Running(c)
    BY <1>1 DEF Running
  <2> QED BY <1>1, <2>1, <2>2 DEF Owns, Ages, BeforeSpawn, AfterExit, Alive
<1>4. metaFile' # Null => client'[metaFile'].state # "unused"
  BY <1>1, <1>2, <1>a DEF Owner, Ages
<1> QED BY <1>3, <1>4 DEF Owner

LEMMA CommandFrame ==
  ASSUME TypeInv, NEW c \in Clis, Command(c)
  PROVE  \A e \in Clis \ {c} : cmd'[e] = cmd[e]
<1>a. cmd \in [Clis -> Commands]
  BY DEF TypeInv, TypeOK
<1>1. CASE BeginRun(c) \/ EnsureRunner(c) \/ EnsuredRunner(c) \/ BootDebug(c) \/ ResetDebug(c)
  BY <1>1, <1>a DEF BeginRun, EnsureRunner, EnsuredRunner, BootDebug, ResetDebug, testVars, Go, Done
<1>2. CASE PrepareWorkDir(c) \/ WriteConfig(c) \/ Spawn(c) \/ ArmTargets(c) \/ SaveMeta(c)
  BY <1>2, <1>a DEF PrepareWorkDir, WriteConfig, Spawn, ArmTargets, SaveMeta, Go, Done
<1>3. CASE RunExits(c) \/ RunTimesOut(c) \/ BeginWait(c) \/ WaitTimesOut(c) \/ WaitExits(c)
  BY <1>3, <1>a DEF RunExits, RunTimesOut, BeginWait, WaitTimesOut, WaitExits, Go, Done
<1>4. CASE Teardown(c) \/ Collect(c) \/ CollectFails(c) \/ ClearMeta(c) \/ SaveResult(c) \/ Killed(c)
  BY <1>4, <1>a DEF Teardown, Collect, CollectFails, ClearMeta, SaveResult, Killed, Go, Done
<1> QED BY <1>1, <1>2, <1>3, <1>4 DEF Command

LEMMA OwnerCommand ==
  ASSUME TypeInv, Owner, NEW c \in Clis, Command(c)
  PROVE  Owner'
<1>a. /\ client \in [Runs -> Clients] /\ metaFile \in Runs \cup {Null} /\ cmd \in [Clis -> Commands]
      /\ \A e \in Clis \ {c} : cmd'[e] = cmd[e]
      /\ \A e \in Clis : cmd[e].pc # "idle" => cmd[e].run \in Runs
  BY CommandFrame DEF TypeInv, TypeOK, Named
<1>b. /\ Owns(c)
      /\ \A d \in Clis : Running(d) => cmd[d].run \in Runs
      /\ \A d \in Clis \ {c} : Running(d) => metaFile # cmd[d].run /\ cmd[c].run # cmd[d].run
  BY <1>a DEF Owner, Owns, Running, Idle
\* A step that only ages clients and forgets runs.
<1>c. ASSUME \A r \in Runs : Ages(r), metaFile' \in {metaFile, Null},
             cmd'[c].run \in {cmd[c].run, Null}, Owns(c)'
      PROVE  Owner'
  <2>1. \A d \in Clis \ {c} : Owns(d)'
    BY <1>a, <1>b, <1>c, OwnsOther, NullIsNoRun
  <2>2. metaFile' # Null => client'[metaFile'].state # "unused"
    BY <1>a, <1>c DEF Owner, Ages
  <2> QED BY <1>c, <2>1, <2>2 DEF Owner
<1>d. UNCHANGED client => \A r \in Runs : Ages(r)
  BY DEF Ages, Alive
<1>e. cmd'[c] = Idle => Owns(c)' /\ cmd'[c].run = Null
  BY DEF Owns, Running, Idle, BeforeSpawn, AfterExit
<1>f. Done(c) => cmd'[c] = Idle
  BY <1>a DEF Done
<1>g. \A pc : Go(c, pc) => cmd'[c].pc = pc /\ cmd'[c].run = cmd[c].run /\ cmd'[c].op = cmd[c].op
  BY <1>a DEF Go, Commands
\* A step of one command that goes on.
<1>h. ASSUME UNCHANGED client, metaFile' \in {metaFile, Null}, cmd'[c].run = cmd[c].run,
             cmd'[c].op = cmd[c].op, cmd[c].pc # "idle", cmd'[c].pc # "idle",
             cmd'[c].pc \in BeforeSpawn => cmd[c].pc \in BeforeSpawn,
             cmd'[c].pc \in {"arm", "meta"} => Running(c),
             cmd'[c].pc \in AfterExit => ~Alive(cmd[c].run),
             cmd'[c].pc = "clear" => cmd[c].op = "wait",
             cmd'[c].pc \notin BeforeSpawn => cmd[c].pc \notin BeforeSpawn
      PROVE  Owner'
  <2>1. Running(c)' = Running(c) /\ Alive(cmd[c].run)' = Alive(cmd[c].run)
    BY <1>h DEF Running, Alive
  <2>2. Running(c)' => metaFile' # cmd'[c].run /\ \A d \in Clis \ {c} : cmd'[d].run # cmd'[c].run
    BY <2>1, <1>h, <1>a, <1>b, NullIsNoRun DEF Owns
  <2>3. Owns(c)'
    BY <2>1, <2>2, <1>h, <1>b DEF Owns, Alive
  <2> QED BY <2>3, <1>h, <1>c, <1>d
<1>1. CASE BeginRun(c)
  <2>0. PICK r \in {q \in Runs : Unused(q)}, op \in {"run", "debug"} :
          \/ cmd' = [cmd EXCEPT ![c] = [Idle EXCEPT !.op = op, !.run = r, !.pc = "ensure"]]
          \/ cmd' = [cmd EXCEPT ![c] = [Idle EXCEPT !.op = op, !.run = r,
                                           !.pc = IF op = "debug" THEN "boot" ELSE "prepare"]]
    BY <1>1, Zenon DEF BeginRun
  <2>1. PICK pc \in {"ensure", "boot", "prepare"} :
          cmd'[c] = [Idle EXCEPT !.op = op, !.run = r, !.pc = pc]
    <3>1. c \in DOMAIN cmd
      BY <1>a
    <3>2. CASE cmd' = [cmd EXCEPT ![c] = [Idle EXCEPT !.op = op, !.run = r, !.pc = "ensure"]]
      BY <3>1, <3>2
    <3>3. CASE cmd' = [cmd EXCEPT ![c] = [Idle EXCEPT !.op = op, !.run = r,
                                           !.pc = IF op = "debug" THEN "boot" ELSE "prepare"]]
      <4>1. cmd'[c] = [Idle EXCEPT !.op = op, !.run = r,
                                   !.pc = IF op = "debug" THEN "boot" ELSE "prepare"]
        BY <3>1, <3>3
      <4> QED BY <4>1
    <3> QED BY <2>0, <3>2, <3>3
  <2>2. r \in Runs /\ client[r].state = "unused" /\ \A d \in Clis : cmd[d].run # r
    BY DEF Unused
  <2>3. /\ cmd'[c].run = r /\ cmd'[c].op = op /\ cmd'[c].pc \in {"ensure", "boot", "prepare"}
        /\ UNCHANGED <<client, metaFile>>
    BY <2>1, <1>1 DEF Idle, BeginRun
  <2>4. metaFile # r
    BY <2>2, NullIsNoRun DEF Owner
  <2>5. Owns(c)'
    BY <2>2, <2>3, <2>4, <1>a DEF Owns, Running, BeforeSpawn, AfterExit
  <2>6. \A d \in Clis \ {c} : Owns(d)'
    BY <1>a, <1>b, <1>d, <2>2, <2>3, OwnsOther
  <2> QED BY <2>3, <2>5, <2>6 DEF Owner
<1>2. CASE EnsureRunner(c)
  BY <1>2, <1>c, <1>d, <1>b DEF EnsureRunner, testVars, Owns, Running, Alive
<1>3. CASE EnsuredRunner(c) \/ BootDebug(c) \/ ResetDebug(c) \/ PrepareWorkDir(c) \/ WriteConfig(c)
  <2>1. /\ UNCHANGED <<client, metaFile>> /\ cmd[c].pc \in BeforeSpawn
        /\ Done(c) \/ \E pc \in BeforeSpawn : Go(c, pc)
    BY <1>3 DEF EnsuredRunner, BootDebug, ResetDebug, PrepareWorkDir, WriteConfig, BeforeSpawn
  <2>2. CASE Done(c)
    BY <2>1, <2>2, <1>c, <1>d, <1>e, <1>f
  <2>3. ASSUME NEW pc \in BeforeSpawn, Go(c, pc)
        PROVE  Owner'
    BY <2>1, <2>3, <1>g, <1>h DEF BeforeSpawn, AfterExit
  <2> QED BY <2>1, <2>2, <2>3
<1>4. CASE Spawn(c)
  <2>1. CASE Done(c) /\ UNCHANGED client
    BY <2>1, <1>4, <1>c, <1>d, <1>e, <1>f DEF Spawn
  <2>2. CASE /\ client' = [client EXCEPT ![cmd[c].run].state = "starting"]
             /\ Go(c, IF cmd[c].op = "debug" THEN "arm" ELSE "wait")
    <3>1. cmd[c].run \in Runs /\ Running(c) /\ UNCHANGED metaFile
      BY <1>4, <1>a, <1>b DEF Spawn, Owns, BeforeSpawn
    <3>2. /\ cmd'[c].pc \in {"arm", "wait"} /\ cmd'[c].run = cmd[c].run /\ cmd'[c].op = cmd[c].op
      BY <2>2, <1>g
    <3>3. client'[cmd[c].run].state = "starting" /\ \A r \in Runs \ {cmd[c].run} : client'[r] = client[r]
      BY <2>2, <3>1, <1>a DEF Clients
    <3>4. Running(c)' /\ Owns(c)'
      BY <3>1, <3>2, <3>3, <1>a, <1>b DEF Owns, Running, BeforeSpawn, AfterExit
    <3>5. \A r \in Runs \ {cmd[c].run} : Ages(r)
      BY <3>3 DEF Ages, Alive
    <3>6. \A d \in Clis \ {c} : cmd[d].run # cmd[c].run
      BY <3>1, <1>b DEF Owns
    <3>7. \A d \in Clis \ {c} : Owns(d)'
      BY <3>1, <3>2, <3>5, <3>6, <1>a, <1>b, OwnsOther
    <3>8. metaFile' # Null => client'[metaFile'].state # "unused"
      BY <3>1, <3>3, <1>a DEF Owner
    <3> QED BY <3>4, <3>7, <3>8 DEF Owner
  <2> QED BY <1>4, <2>1, <2>2 DEF Spawn
<1>5. CASE ArmTargets(c)
  <2>1. cmd[c].pc = "arm" /\ Go(c, "meta") /\ UNCHANGED <<client, metaFile>>
    BY <1>5 DEF ArmTargets
  <2> QED BY <2>1, <1>b, <1>g, <1>h DEF Owns, BeforeSpawn, AfterExit
<1>6. CASE SaveMeta(c)
  <2>1. /\ cmd[c].pc = "meta" /\ Done(c) /\ UNCHANGED client /\ metaFile' = cmd[c].run
        /\ cmd[c].run \in Runs /\ Running(c)
    BY <1>6, <1>a, <1>b DEF SaveMeta, Owns
  <2>2. \A d \in Clis \ {c} : Owns(d)'
    BY <2>1, <1>a, <1>b, <1>d, <1>e, <1>f, OwnsOther, NullIsNoRun
  <2>3. client'[metaFile'].state # "unused"
    BY <2>1, <1>b DEF Owns, BeforeSpawn
  <2> QED BY <2>1, <2>2, <2>3, <1>e, <1>f DEF Owner
<1>7. CASE RunExits(c) \/ WaitExits(c)
  <2>1. /\ cmd[c].pc = "wait" /\ UNCHANGED <<client, metaFile>> /\ ~Alive(cmd[c].run)
        /\ Go(c, "collect") \/ Go(c, "teardown")
    BY <1>7 DEF RunExits, WaitExits
  <2> QED BY <2>1, <1>g, <1>h DEF BeforeSpawn, AfterExit
<1>8. CASE RunTimesOut(c)
  <2>1. Done(c) /\ UNCHANGED metaFile
    BY <1>8 DEF RunTimesOut
  <2>2. \A r \in Runs : Ages(r)
    BY <1>8, <1>a, <1>d DEF RunTimesOut, Exit, Ages, Alive, Clients
  <2> QED BY <2>1, <2>2, <1>c, <1>e, <1>f
<1>9. CASE BeginWait(c)
  <2>1. /\ metaFile \in Runs /\ UNCHANGED <<client, metaFile>>
        /\ cmd'[c] = [Idle EXCEPT !.op = "wait", !.run = metaFile, !.pc = "wait"]
    BY <1>9, <1>a DEF BeginWait
  <2>2. cmd'[c].op = "wait" /\ cmd'[c].run = metaFile /\ cmd'[c].pc = "wait"
    BY <2>1 DEF Idle
  <2>3. \A d \in Clis \ {c} : Owns(d)'
    BY <2>1, <2>2, <1>a, <1>b, <1>d, OwnsOther
  <2>4. Owns(c)'
    BY <2>1, <2>2, NullIsNoRun DEF Owner, Owns, Running, BeforeSpawn, AfterExit
  <2> QED BY <2>1, <2>3, <2>4 DEF Owner
<1>10. CASE WaitTimesOut(c) \/ CollectFails(c) \/ SaveResult(c) \/ Killed(c)
  <2>1. Done(c) /\ UNCHANGED client /\ metaFile' \in {metaFile, Null}
    BY <1>10 DEF WaitTimesOut, CollectFails, SaveResult, Killed
  <2> QED BY <2>1, <1>c, <1>d, <1>e, <1>f
<1>11. CASE Teardown(c) \/ ClearMeta(c)
  <2>1. /\ cmd[c].pc \in {"teardown", "clear"} /\ UNCHANGED client /\ metaFile' \in {metaFile, Null}
        /\ Go(c, "collect") \/ Go(c, "save")
    BY <1>11 DEF Teardown, ClearMeta
  <2> QED BY <2>1, <1>b, <1>g, <1>h DEF Owns, BeforeSpawn, AfterExit
<1>12. CASE Collect(c)
  <2>1. /\ cmd[c].pc = "collect" /\ UNCHANGED <<client, metaFile>>
        /\ cmd'[c].run = cmd[c].run /\ cmd'[c].op = cmd[c].op
        /\ cmd'[c].pc = IF cmd[c].op = "wait" THEN "clear" ELSE "save"
    BY <1>12, <1>a DEF Collect, Commands
  <2> QED BY <2>1, <1>b, <1>h DEF Owns, BeforeSpawn, AfterExit
<1> QED
  BY <1>1, <1>2, <1>3, <1>4, <1>5, <1>6, <1>7, <1>8, <1>9, <1>10, <1>11, <1>12 DEF Command

LEMMA OwnerStep == TypeInv /\ Owner /\ [Next]_vars => Owner'
<1>1. UNCHANGED vars /\ Owner => Owner'
  BY DEF vars, testVars, Owner, Owns, Running, Alive
<1> QED BY <1>1, OwnerMachine, OwnerCommand DEF Next

-----------------------------------------------------------------------------
(* Who uses the directory *)

Away == {"idle", "ensure", "boot", "reset", "prepare"}

LEMMA InUseDef ==
  ASSUME NEW r
  PROVE  InUse(r) <=> Alive(r) \/ (\E c \in Clis : cmd[c].run = r /\ cmd[c].pc \notin Away)
  BY DEF InUse, Away

\* The directory has no more users, and no more runs with a report to come, than before.
Shrinks ==
  /\ mixed' = mixed
  /\ \A r \in Runs : (InUse(r)' => InUse(r)) /\ (Holder(r)' => Holder(r))

LEMMA MachineShrinks == TypeInv /\ (Machine \/ UNCHANGED vars) => Shrinks
<1> SUFFICES ASSUME TypeInv, Machine \/ UNCHANGED vars
             PROVE  Shrinks
  OBVIOUS
<1>a. client \in [Runs -> Clients]
  BY DEF TypeInv, TypeOK
<1>1. UNCHANGED <<cmd, metaFile, mixed>>
  BY DEF Machine, vars, testVars, DebugCommand, ClientReadsConfig, ClientReports, ClientExits,
         history
<1>2. \A r \in Runs : Alive(r)' => Alive(r)
  BY <1>a DEF Machine, vars, testVars, DebugCommand, ClientReadsConfig, ClientReports, ClientExits,
              Exit, Alive, Clients
<1> QED BY <1>1, <1>2 DEF Shrinks, Holder, InUse

LEMMA CommandShrinks ==
  ASSUME TypeInv, Owner, NEW c \in Clis, Command(c), ~BeginWait(c),
         ~PrepareWorkDir(c) \/ (UNCHANGED mixed /\ cmd'[c] = Idle)
  PROVE  Shrinks
<1>a. /\ client \in [Runs -> Clients] /\ cmd \in [Clis -> Commands]
      /\ \A e \in Clis \ {c} : cmd'[e] = cmd[e]
  BY CommandFrame DEF TypeInv, TypeOK
<1>b. ASSUME UNCHANGED mixed,
             \A r \in Runs : Alive(r)' => InUse(r),
             metaFile' \in {metaFile, Null} \/ (metaFile' = cmd[c].run /\ cmd[c].pc \notin Away),
             cmd'[c].pc \in Away \/ (cmd'[c].run = cmd[c].run /\ cmd[c].pc \notin Away)
      PROVE  Shrinks
  <2>1. ASSUME NEW r \in Runs, InUse(r)'
        PROVE  InUse(r)
    <3>1. CASE Alive(r)'
      BY <3>1, <1>b
    <3>2. ASSUME NEW d \in Clis, cmd'[d].run = r, cmd'[d].pc \notin Away
          PROVE  InUse(r)
      <4>1. cmd[d].run = r /\ cmd[d].pc \notin Away
        BY <3>2, <1>a, <1>b
      <4> QED BY <4>1, InUseDef
    <3> QED BY <2>1, <3>1, <3>2 DEF InUse, Away
  <2>2. ASSUME NEW r \in Runs, Holder(r)'
        PROVE  Holder(r)
    <3>1. CASE InUse(r)'
      BY <2>1, <3>1 DEF Holder
    <3>2. CASE metaFile' = r
      BY <3>2, <1>b, InUseDef, NullIsNoRun DEF Holder
    <3> QED BY <2>2, <3>1, <3>2 DEF Holder
  <2> QED BY <2>1, <2>2, <1>b DEF Shrinks
<1>c. UNCHANGED client => \A r \in Runs : Alive(r)' => InUse(r)
  BY DEF Alive, InUse
<1>d. Done(c) => cmd'[c].pc \in Away
  BY <1>a DEF Done, Idle, Away
<1>e. \A pc : Go(c, pc) => cmd'[c].pc = pc /\ cmd'[c].run = cmd[c].run
  BY <1>a DEF Go, Commands
<1>1. CASE BeginRun(c)
  <2>1. cmd'[c].pc \in Away
    BY <1>1, <1>a DEF BeginRun, Idle, Away
  <2> QED BY <1>1, <2>1, <1>b, <1>c DEF BeginRun, history
<1>2. CASE EnsureRunner(c)
  BY <1>2, <1>b, <1>c DEF EnsureRunner, testVars, Away
<1>3. CASE EnsuredRunner(c) \/ BootDebug(c) \/ ResetDebug(c) \/ PrepareWorkDir(c)
  <2>1. /\ UNCHANGED <<client, metaFile, mixed>>
        /\ Done(c) \/ cmd'[c].pc \in Away
    <3>1. CASE PrepareWorkDir(c)
      <4>1. UNCHANGED mixed /\ cmd'[c] = Idle
        BY <3>1
      <4> QED BY <3>1, <4>1 DEF PrepareWorkDir, Idle, Away
    <3> QED BY <1>3, <3>1, <1>e DEF EnsuredRunner, BootDebug, ResetDebug, history, Away
  <2> QED BY <2>1, <1>b, <1>c, <1>d
<1>4. CASE Spawn(c)
  <2>1. cmd[c].pc \notin Away /\ UNCHANGED <<metaFile, mixed>>
    BY <1>4 DEF Spawn, Away, history
  <2>2. cmd'[c].pc \in Away \/ cmd'[c].run = cmd[c].run
    BY <1>4, <1>d, <1>e DEF Spawn
  <2>3. \A r \in Runs : Alive(r)' => Alive(r) \/ r = cmd[c].run
    BY <1>4, <1>a DEF Spawn, Alive
  <2> QED BY <2>1, <2>2, <2>3, <1>b, InUseDef
<1>5. CASE WriteConfig(c) \/ ArmTargets(c) \/ RunExits(c) \/ WaitExits(c) \/ Teardown(c) \/ ClearMeta(c)
  <2>1. /\ UNCHANGED <<client, mixed>> /\ metaFile' \in {metaFile, Null} /\ cmd[c].pc \notin Away
        /\ \E pc : Go(c, pc)
    BY <1>5 DEF WriteConfig, ArmTargets, RunExits, WaitExits, Teardown, ClearMeta, history, Away
  <2> QED BY <2>1, <1>b, <1>c, <1>e
<1>6. CASE SaveMeta(c)
  BY <1>6, <1>b, <1>c, <1>d DEF SaveMeta, history, Away
<1>7. CASE RunTimesOut(c)
  <2>1. \A r \in Runs : Alive(r)' => Alive(r)
    BY <1>7, <1>a DEF RunTimesOut, Exit, Alive
  <2> QED BY <1>7, <2>1, <1>b, <1>d, InUseDef DEF RunTimesOut
<1>8. CASE WaitTimesOut(c) \/ CollectFails(c) \/ SaveResult(c) \/ Killed(c)
  <2>1. Done(c) /\ UNCHANGED <<client, mixed>> /\ metaFile' \in {metaFile, Null}
    BY <1>8 DEF WaitTimesOut, CollectFails, SaveResult, Killed, history
  <2> QED BY <2>1, <1>b, <1>c, <1>d
<1>9. CASE Collect(c)
  <2>1. /\ UNCHANGED <<client, mixed, metaFile>> /\ cmd[c].pc \notin Away
        /\ cmd'[c].run = cmd[c].run
    BY <1>9, <1>a DEF Collect, Commands, history, Away
  <2> QED BY <2>1, <1>b, <1>c
<1> QED
  BY <1>1, <1>2, <1>3, <1>4, <1>5, <1>6, <1>7, <1>8, <1>9 DEF Command

\* Only the run that enters the directory is new there.
Enters(r) ==
  /\ \A q \in Runs \ {r} : (InUse(q)' => InUse(q)) /\ (Holder(q)' => Holder(q))
  /\ mixed' = mixed \cup Sharing(r) \cup ({metaFile} \ {Null})

LEMMA PrepareEnters ==
  ASSUME TypeInv, NEW c \in Clis, PrepareWorkDir(c)
  PROVE  \/ UNCHANGED <<mixed, junit, cfg>> /\ cmd'[c] = Idle
         \/ /\ cfg' = Null /\ junit' = Null /\ Enters(cmd[c].run) /\ cmd[c].run \in Runs
            /\ cmd'[c].pc = "config" /\ cmd'[c].run = cmd[c].run
<1>a. /\ cmd \in [Clis -> Commands] /\ UNCHANGED <<client, metaFile>> /\ cmd[c].run \in Runs
      /\ \A e \in Clis \ {c} : cmd'[e] = cmd[e]
  BY CommandFrame DEF TypeInv, TypeOK, Named, PrepareWorkDir, Command
<1>1. CASE Done(c) /\ UNCHANGED <<workDir, mixed>>
  BY <1>1, <1>a DEF Done, workDir
<1>2. CASE cfg' = Null /\ junit' = Null /\ Go(c, "config") /\ EntersWorkDir(c)
  <2>1. cmd'[c].pc = "config" /\ cmd'[c].run = cmd[c].run
    BY <1>2, <1>a DEF Go, Commands
  <2>2. \A q \in Runs \ {cmd[c].run} : InUse(q)' => InUse(q)
    BY <2>1, <1>a DEF InUse, Alive
  <2> QED BY <1>2, <2>1, <2>2, <1>a DEF Enters, EntersWorkDir, Holder
<1> QED BY <1>1, <1>2 DEF PrepareWorkDir

LEMMA WaitEnters ==
  ASSUME TypeInv, NEW c \in Clis, BeginWait(c)
  PROVE  /\ UNCHANGED <<client, metaFile, cfg, junit, lastResult, lost>> /\ metaFile \in Runs
         /\ cmd'[c].pc = "wait" /\ cmd'[c].run = metaFile
         /\ mixed' = mixed \cup Sharing(metaFile)
         /\ \A q \in Runs \ {metaFile} : InUse(q)' => InUse(q)
         /\ \A q \in Runs : Holder(q)' => Holder(q)
<1>a. /\ cmd \in [Clis -> Commands] /\ metaFile \in Runs \cup {Null}
      /\ \A e \in Clis \ {c} : cmd'[e] = cmd[e]
  BY CommandFrame DEF TypeInv, TypeOK, Command
<1>1. /\ UNCHANGED <<client, metaFile, cfg, junit, lastResult, lost>> /\ metaFile \in Runs
      /\ mixed' = mixed \cup Sharing(metaFile)
  BY <1>a DEF BeginWait, workDir
<1>2. cmd'[c].pc = "wait" /\ cmd'[c].run = metaFile
  BY <1>a DEF BeginWait, Idle
<1>3. \A q \in Runs \ {metaFile} : InUse(q)' => InUse(q)
  BY <1>1, <1>2, <1>a DEF InUse, Alive
<1>4. \A q \in Runs : Holder(q)' => Holder(q)
  BY <1>1, <1>3 DEF Holder
<1> QED BY <1>1, <1>2, <1>3, <1>4

LEMMA EnterOrShrink ==
  ASSUME TypeInv, Owner, [Next]_vars
  PROVE  \/ Shrinks
         \/ \E c \in Clis : \/ PrepareWorkDir(c) /\ Enters(cmd[c].run) /\ cmd[c].run \in Runs
                            \/ BeginWait(c)
<1>1. CASE Machine \/ UNCHANGED vars
  BY <1>1, MachineShrinks
<1>2. ASSUME NEW c \in Clis, Command(c), ~BeginWait(c), ~PrepareWorkDir(c)
      PROVE  Shrinks
  BY <1>2, CommandShrinks
<1>3. ASSUME NEW c \in Clis, PrepareWorkDir(c)
      PROVE  Shrinks \/ (Enters(cmd[c].run) /\ cmd[c].run \in Runs)
  <2>1. CASE UNCHANGED mixed /\ cmd'[c] = Idle
    <3>1. Command(c) /\ ~BeginWait(c)
      BY <1>3 DEF Command, PrepareWorkDir, BeginWait
    <3> QED BY <2>1, <3>1, CommandShrinks
  <2> QED BY <1>3, <2>1, PrepareEnters
<1> QED BY <1>1, <1>2, <1>3 DEF Next

LEMMA ApartStep == TypeInv /\ Owner /\ Apart /\ [Next]_vars => Apart' /\ mixed \subseteq mixed'
<1> SUFFICES ASSUME TypeInv, Owner, Apart, [Next]_vars
             PROVE  Apart' /\ mixed \subseteq mixed'
  OBVIOUS
<1>1. CASE Shrinks
  BY <1>1 DEF Shrinks, Apart
<1>2. ASSUME NEW c \in Clis, PrepareWorkDir(c), Enters(cmd[c].run), cmd[c].run \in Runs
      PROVE  Apart' /\ mixed \subseteq mixed'
  <2> DEFINE e == cmd[c].run
  <2>1. \A q \in Runs \ {e} : InUse(q) => {q, e} \subseteq mixed'
    BY <1>2 DEF Enters, Sharing
  <2>2. \A q \in Runs \ {e} : metaFile = q => q \in mixed'
    BY <1>2, NullIsNoRun DEF Enters
  <2>3. ASSUME NEW r \in Runs, NEW q \in Runs, Holder(r)', InUse(q)', q # r
        PROVE  r \in mixed'
    <3>1. CASE q = e
      BY <1>2, <2>1, <2>2, <2>3, <3>1 DEF Enters, Holder
    <3>2. CASE q # e /\ r = e
      BY <1>2, <2>1, <2>3, <3>2 DEF Enters
    <3>3. CASE q # e /\ r # e
      BY <1>2, <2>3, <3>3 DEF Enters, Apart
    <3> QED BY <3>1, <3>2, <3>3
  <2> QED BY <1>2, <2>3 DEF Apart, Enters
<1>3. ASSUME NEW c \in Clis, BeginWait(c)
      PROVE  Apart' /\ mixed \subseteq mixed'
  <2>1. /\ metaFile \in Runs /\ UNCHANGED metaFile /\ mixed' = mixed \cup Sharing(metaFile)
        /\ \A q \in Runs \ {metaFile} : InUse(q)' => InUse(q)
        /\ \A q \in Runs : Holder(q)' => Holder(q)
    BY <1>3, WaitEnters
  <2>2. \A q \in Runs \ {metaFile} : InUse(q) => {q, metaFile} \subseteq mixed'
    BY <2>1 DEF Sharing
  <2>3. ASSUME NEW r \in Runs, NEW q \in Runs, Holder(r)', InUse(q)', q # r
        PROVE  r \in mixed'
    <3>1. CASE q = metaFile
      BY <2>1, <2>2, <2>3, <3>1 DEF Holder
    <3>2. CASE q # metaFile
      BY <2>1, <2>3, <3>2 DEF Apart
    <3> QED BY <3>1, <3>2
  <2> QED BY <2>1, <2>3 DEF Apart
<1> QED BY <1>1, <1>2, <1>3, EnterOrShrink

-----------------------------------------------------------------------------
(* The configuration that is read is one's own *)

ReadsOwn(r) ==
  /\ \A c \in Clis : cmd[c].pc = "spawn" /\ cmd[c].run = r => cfg = r
  /\ client[r].state = "starting" => cfg = r
  /\ client[r].state \in {"running", "reported", "complete"} => client[r].tests \in {r, Null}

LEMMA ReadsDef == Reads <=> \A r \in Runs \ mixed : ReadsOwn(r)
  BY DEF Reads, ReadsOwn

LEMMA ReadsStep == TypeInv /\ Owner /\ Apart /\ Reads /\ [Next]_vars => Reads'
<1> SUFFICES ASSUME TypeInv, Owner, Apart, Reads, [Next]_vars,
                    NEW r \in Runs, r \notin mixed'
             PROVE  ReadsOwn(r)'
  BY ReadsDef DEF Reads, ReadsOwn
<1>a. /\ client \in [Runs -> Clients] /\ cmd \in [Clis -> Commands] /\ client[r] \in Clients
  BY DEF TypeInv, TypeOK
<1>b. ReadsOwn(r) /\ r \notin mixed
  BY ApartStep, ReadsDef
<1>c. ASSUME UNCHANGED <<client, cfg>>,
             \A d \in Clis : cmd'[d] = cmd[d] \/ cmd'[d].pc # "spawn"
      PROVE  ReadsOwn(r)'
  BY <1>b, <1>c DEF ReadsOwn
\* A run whose client starts, or is about to, is the only one in the directory.
<1>d. ASSUME NEW q \in Runs, q # r, InUse(q),
             \/ client[r].state = "starting"
             \/ \E c \in Clis : cmd[c].pc = "spawn" /\ cmd[c].run = r
      PROVE  FALSE
  BY <1>b, <1>d DEF Apart, Holder, InUse, Alive
<1>1. CASE UNCHANGED vars \/ DebugCommand \/ (Around /\ UNCHANGED testVars)
  BY <1>1, <1>c DEF vars, testVars, DebugCommand, workDir
<1>2. ASSUME NEW q \in Runs, ClientReadsConfig(q) \/ ClientReports(q) \/ ClientExits(q)
      PROVE  ReadsOwn(r)'
  <2>1. UNCHANGED <<cfg, cmd>>
    BY <1>2 DEF ClientReadsConfig, ClientReports, ClientExits, workDir
  <2>2. CASE q # r
    <3>1. client'[r] = client[r]
      BY <1>2, <2>2, <1>a DEF ClientReadsConfig, ClientReports, ClientExits, Exit
    <3> QED BY <2>1, <3>1, <1>b DEF ReadsOwn
  <2>3. CASE q = r
    <3>1. \/ /\ client[r].state = "starting" /\ client'[r].state = "running"
             /\ client'[r].tests = cfg
          \/ /\ client'[r].tests = client[r].tests /\ client[r].state \in {"running", "reported"}
             /\ client'[r].state # "starting"
          \/ client'[r].state = "dead"
      BY <1>2, <2>3, <1>a DEF ClientReadsConfig, ClientReports, ClientExits, Exit, Alive, Clients
    <3> QED BY <2>1, <3>1, <1>b DEF ReadsOwn
  <2> QED BY <2>2, <2>3
<1>3. ASSUME NEW c \in Clis, Command(c)
      PROVE  ReadsOwn(r)'
  <2>a. \A e \in Clis \ {c} : cmd'[e] = cmd[e]
    BY <1>3, CommandFrame
  <2>b. ASSUME UNCHANGED <<client, cfg>>, cmd'[c].pc # "spawn"
        PROVE  ReadsOwn(r)'
    BY <2>a, <2>b, <1>c
  <2>d. Done(c) => cmd'[c].pc = "idle"
    BY <1>a DEF Done, Idle
  <2>e. \A pc : Go(c, pc) => cmd'[c].pc = pc
    BY <1>a DEF Go, Commands
  <2>c. cmd[c].pc # "idle" => cmd[c].run \in Runs
    BY DEF TypeInv, Named
  <2>1. CASE BeginRun(c) \/ BeginWait(c) \/ Collect(c)
    <3>1. UNCHANGED <<client, cfg>>
      BY <2>1 DEF BeginRun, BeginWait, Collect, workDir
    <3>2. BeginRun(c) => cmd'[c].pc # "spawn"
      BY <1>a DEF BeginRun, Idle
    <3>3. BeginWait(c) => cmd'[c].pc # "spawn"
      BY <1>a DEF BeginWait, Idle
    <3>4. Collect(c) => cmd'[c].pc # "spawn"
      BY <1>a DEF Collect, Commands
    <3> QED BY <2>1, <2>b, <3>1, <3>2, <3>3, <3>4
  <2>2. CASE EnsureRunner(c)
    BY <2>2, <1>c DEF EnsureRunner, testVars
  <2>3. CASE EnsuredRunner(c) \/ BootDebug(c) \/ ResetDebug(c) \/ ArmTargets(c) \/ SaveMeta(c)
             \/ RunExits(c) \/ WaitTimesOut(c) \/ WaitExits(c) \/ Teardown(c)
             \/ CollectFails(c) \/ ClearMeta(c) \/ SaveResult(c) \/ Killed(c)
    BY <2>3, <2>b, <2>d, <2>e
    DEF EnsuredRunner, BootDebug, ResetDebug, ArmTargets, SaveMeta, RunExits, WaitTimesOut,
        WaitExits, Teardown, CollectFails, ClearMeta, SaveResult, Killed, workDir
  <2>4. CASE PrepareWorkDir(c)
    <3>1. UNCHANGED client
      BY <2>4 DEF PrepareWorkDir
    <3>2. CASE UNCHANGED cfg /\ cmd'[c] = Idle
      BY <3>1, <3>2, <2>a, <1>c DEF Idle
    <3>3. CASE Enters(cmd[c].run) /\ cmd'[c].pc = "config"
      <4>1. InUse(r) => r = cmd[c].run
        BY <3>3 DEF Enters, Sharing
      <4>2. client[cmd[c].run].state = "unused" /\ \A d \in Clis \ {c} : cmd[d].run # cmd[c].run
        BY <2>4 DEF PrepareWorkDir, Owner, Owns, BeforeSpawn
      <4>3. client[r].state # "starting" /\ \A d \in Clis : cmd[d].pc = "spawn" => cmd[d].run # r
        BY <4>1, <4>2, <2>4 DEF InUse, Alive, PrepareWorkDir
      <4>4. \A d \in Clis : cmd'[d].pc = "spawn" => cmd'[d].run # r
        BY <3>3, <4>3, <2>a
      <4> QED BY <3>1, <4>3, <4>4, <1>b DEF ReadsOwn
    <3> QED BY <2>4, <3>2, <3>3, PrepareEnters
  <2>5. CASE WriteConfig(c)
    <3>1. /\ UNCHANGED client /\ cfg' = cmd[c].run /\ cmd[c].run \in Runs /\ InUse(cmd[c].run)
          /\ cmd'[c].run = cmd[c].run
      BY <2>5, <2>c, <1>a DEF WriteConfig, InUse, Go, Commands
    <3>2. CASE cmd[c].run = r
      BY <3>1, <3>2, <1>b DEF ReadsOwn
    <3>3. CASE cmd[c].run # r
      <4>1. client[r].state # "starting" /\ \A d \in Clis : cmd[d].pc = "spawn" => cmd[d].run # r
        BY <3>1, <3>3, <1>d
      <4>2. \A d \in Clis : cmd'[d].pc = "spawn" => cmd'[d].run # r
        BY <3>1, <3>3, <4>1, <2>a
      <4> QED BY <3>1, <4>1, <4>2, <1>b DEF ReadsOwn
    <3> QED BY <3>2, <3>3
  <2>6. CASE Spawn(c)
    <3>1. CASE Done(c) /\ UNCHANGED client
      BY <2>6, <3>1, <2>b, <2>d DEF Spawn, workDir
    <3>2. CASE /\ client' = [client EXCEPT ![cmd[c].run].state = "starting"]
               /\ Go(c, IF cmd[c].op = "debug" THEN "arm" ELSE "wait")
      <4>1. UNCHANGED cfg /\ cmd'[c].pc # "spawn" /\ cmd[c].pc = "spawn"
        BY <2>6, <3>2, <1>a DEF Spawn, Go, workDir, Commands
      <4>2. CASE cmd[c].run = r
        <5>1. cfg = r /\ client'[r].state = "starting"
          BY <4>1, <4>2, <3>2, <1>a, <1>b DEF ReadsOwn, Clients
        <5> QED BY <4>1, <5>1 DEF ReadsOwn
      <4>3. CASE cmd[c].run # r
        <5>1. client'[r] = client[r]
          BY <4>3, <3>2, <1>a
        <5> QED BY <4>1, <5>1, <2>a, <1>b DEF ReadsOwn
      <4> QED BY <4>2, <4>3
    <3> QED BY <2>6, <3>1, <3>2 DEF Spawn
  <2>7. CASE RunTimesOut(c)
    <3>1. UNCHANGED cfg /\ cmd'[c].pc # "spawn"
      BY <2>7, <1>a DEF RunTimesOut, Done, Idle, workDir
    <3>2. \/ client'[r] = client[r]
          \/ /\ client'[r].tests = client[r].tests /\ client[r].state = "reported"
             /\ client'[r].state = "complete"
          \/ client'[r].state = "dead"
      BY <2>7, <1>a DEF RunTimesOut, Exit, Clients
    <3> QED BY <3>1, <3>2, <2>a, <1>b DEF ReadsOwn
  <2> QED BY <1>3, <2>1, <2>2, <2>3, <2>4, <2>5, <2>6, <2>7 DEF Command
<1> QED BY <1>1, <1>2, <1>3 DEF Next, Machine

-----------------------------------------------------------------------------
(* The report that is read is one's own *)

Reported(r) == client[r].state \in {"reported", "complete"}

LEMMA WrittenStep == TypeInv /\ Owner /\ Apart /\ Reads /\ Written /\ [Next]_vars => Written'
<1> SUFFICES ASSUME TypeInv, Owner, Apart, Reads, Written, [Next]_vars,
                    NEW r \in Runs, r \notin mixed', Holder(r)'
             PROVE  junit' = IF Reported(r)' THEN Own(r) ELSE Null
  BY DEF Written, Reported, Own
<1> DEFINE Goal == junit' = IF Reported(r)' THEN Own(r) ELSE Null
<1>a. /\ client \in [Runs -> Clients] /\ cmd \in [Clis -> Commands] /\ client[r] \in Clients
      /\ r \notin mixed /\ ReadsOwn(r)
  BY ApartStep, ReadsDef DEF TypeInv, TypeOK
<1>b. Holder(r) => junit = IF Reported(r) THEN Own(r) ELSE Null
  BY <1>a DEF Written, Reported
<1>c. ASSUME Shrinks, UNCHANGED junit, Reported(r)' = Reported(r)
      PROVE  Goal
  BY <1>b, <1>c DEF Shrinks
<1>d. UNCHANGED client => Reported(r)' = Reported(r)
  BY DEF Reported
<1>e. Exit(r) /\ client[r].state # "complete" => Reported(r)' = Reported(r)
  BY <1>a DEF Exit, Reported, Clients
<1>f. ASSUME NEW q \in Runs, q # r, Exit(q)
      PROVE  Reported(r)' = Reported(r)
  BY <1>a, <1>f DEF Exit, Reported
<1>1. CASE UNCHANGED vars \/ DebugCommand \/ (Around /\ UNCHANGED testVars)
  <2>1. Shrinks /\ UNCHANGED <<client, junit>>
    BY <1>1, MachineShrinks DEF Machine, vars, testVars, DebugCommand, workDir
  <2> QED BY <2>1, <1>c, <1>d
<1>2. ASSUME NEW q \in Runs, ClientReadsConfig(q) \/ ClientReports(q) \/ ClientExits(q)
      PROVE  Goal
  <2>1. Shrinks
    BY <1>2, MachineShrinks DEF Machine
  <2>2. CASE ClientReadsConfig(q)
    <3>1. Reported(r)' = Reported(r)
      BY <2>2, <1>a DEF ClientReadsConfig, Reported
    <3> QED BY <2>1, <2>2, <3>1, <1>c DEF ClientReadsConfig, workDir
  <2>3. CASE ClientReports(q)
    <3>1. InUse(q) /\ Holder(r)
      BY <2>1, <2>3 DEF ClientReports, InUse, Alive, Shrinks
    <3>2. q = r
      BY <3>1, <1>a DEF Apart
    <3>3. client[r].tests = r /\ Reported(r)'
      BY <2>3, <3>2, <1>a DEF ClientReports, ReadsOwn, Reported, Clients
    <3> QED BY <2>3, <3>2, <3>3 DEF ClientReports, Own
  <2>4. CASE ClientExits(q)
    <3>1. Reported(r)' = Reported(r)
      BY <2>4, <1>e, <1>f DEF ClientExits, Alive
    <3> QED BY <2>1, <2>4, <3>1, <1>c DEF ClientExits, workDir
  <2> QED BY <1>2, <2>2, <2>3, <2>4
<1>3. ASSUME NEW c \in Clis, Command(c)
      PROVE  Goal
  <2>1. CASE PrepareWorkDir(c)
    <3>1. UNCHANGED client
      BY <2>1 DEF PrepareWorkDir
    <3>2. CASE UNCHANGED <<mixed, junit>> /\ cmd'[c] = Idle
      <4>1. Shrinks
        BY <1>3, <2>1, <3>2, CommandShrinks DEF PrepareWorkDir, BeginWait
      <4> QED BY <3>1, <3>2, <4>1, <1>c, <1>d
    <3>3. CASE junit' = Null /\ Enters(cmd[c].run)
      <4>1. r = cmd[c].run
        BY <3>3, NullIsNoRun DEF Enters, Sharing, Holder
      <4>2. client[r].state = "unused"
        BY <2>1, <4>1 DEF PrepareWorkDir, Owner, Owns, BeforeSpawn
      <4> QED BY <3>1, <3>3, <4>2 DEF Reported
    <3> QED BY <2>1, <3>2, <3>3, PrepareEnters
  <2>2. CASE BeginWait(c)
    <3>1. UNCHANGED <<client, junit>> /\ Holder(r)
      BY <2>2, WaitEnters
    <3> QED BY <3>1, <1>b, <1>d
  <2>3. ASSUME ~PrepareWorkDir(c), ~BeginWait(c)
        PROVE  Shrinks
    BY <1>3, <2>3, CommandShrinks
  <2>4. CASE EnsureRunner(c) \/ BeginRun(c) \/ EnsuredRunner(c) \/ BootDebug(c) \/ ResetDebug(c)
             \/ WriteConfig(c) \/ ArmTargets(c) \/ SaveMeta(c) \/ RunExits(c) \/ WaitTimesOut(c)
             \/ WaitExits(c) \/ Teardown(c) \/ Collect(c) \/ CollectFails(c) \/ ClearMeta(c)
             \/ SaveResult(c) \/ Killed(c)
    <3>1. UNCHANGED <<client, junit>>
      BY <2>4
      DEF EnsureRunner, testVars, BeginRun, EnsuredRunner, BootDebug, ResetDebug, WriteConfig,
          ArmTargets, SaveMeta, RunExits, WaitTimesOut, WaitExits, Teardown, Collect, CollectFails,
          ClearMeta, SaveResult, Killed, workDir
    <3> QED BY <2>1, <2>2, <2>3, <3>1, <1>c, <1>d
  <2>5. CASE Spawn(c)
    <3>1. cmd[c].run \in Runs /\ client[cmd[c].run].state = "unused" /\ UNCHANGED junit
      BY <2>5 DEF Spawn, Owner, Owns, BeforeSpawn, TypeInv, Named, workDir
    <3>2. \/ UNCHANGED client
          \/ client' = [client EXCEPT ![cmd[c].run].state = "starting"]
      BY <2>5 DEF Spawn
    <3>3. Reported(r)' = Reported(r)
      BY <3>1, <3>2, <1>a DEF Reported, Clients
    <3> QED BY <2>1, <2>2, <2>3, <3>1, <3>3, <1>c
  <2>6. CASE RunTimesOut(c)
    <3>1. cmd[c].run \in Runs /\ Alive(cmd[c].run) /\ UNCHANGED junit
      BY <2>6 DEF RunTimesOut, TypeInv, Named, workDir
    <3>2. Exit(cmd[c].run) \/ UNCHANGED client
      BY <2>6 DEF RunTimesOut
    <3>3. Reported(r)' = Reported(r)
      BY <3>1, <3>2, <1>d, <1>e, <1>f DEF Alive
    <3> QED BY <2>1, <2>2, <2>3, <3>1, <3>3, <1>c
  <2> QED BY <1>3, <2>1, <2>2, <2>4, <2>5, <2>6 DEF Command
<1> QED BY <1>1, <1>2, <1>3 DEF Next, Machine

CollectedBy(c) ==
  cmd[c].pc \in {"clear", "save"} /\ cmd[c].run \notin mixed => cmd[c].report = Own(cmd[c].run)

LEMMA CollectedStep ==
  TypeInv /\ Owner /\ Apart /\ Written /\ Collected /\ [Next]_vars => Collected'
<1> SUFFICES ASSUME TypeInv, Owner, Apart, Written, Collected, [Next]_vars
             PROVE  \A d \in Clis : CollectedBy(d)'
  BY DEF Collected, CollectedBy, Own
<1>a. cmd \in [Clis -> Commands] /\ mixed \subseteq mixed' /\ \A d \in Clis : CollectedBy(d)
  BY ApartStep DEF TypeInv, TypeOK, Collected, CollectedBy
<1>b. ASSUME NEW d \in Clis, cmd'[d] = cmd[d]
      PROVE  CollectedBy(d)'
  BY <1>a, <1>b DEF CollectedBy, Own
<1>1. CASE Machine \/ UNCHANGED vars
  <2>1. cmd' = cmd
    BY <1>1 DEF Machine, vars, testVars, DebugCommand, ClientReadsConfig, ClientReports, ClientExits
  <2> QED BY <2>1, <1>b
<1>2. ASSUME NEW c \in Clis, Command(c)
      PROVE  \A d \in Clis : CollectedBy(d)'
  <2>1. \A d \in Clis \ {c} : CollectedBy(d)'
    BY <1>2, <1>b, CommandFrame
  <2>2. Done(c) => cmd'[c].pc = "idle"
    BY <1>a DEF Done, Idle
  <2>3. \A pc : Go(c, pc) => cmd'[c] = [cmd[c] EXCEPT !.pc = pc] /\ cmd'[c].pc = pc
    BY <1>a DEF Go, Commands
  <2>4. cmd'[c].pc \notin {"clear", "save"} => \A d \in Clis : CollectedBy(d)'
    BY <2>1 DEF CollectedBy
  <2>5. CASE BeginRun(c)
    BY <2>5, <2>4, <1>a DEF BeginRun, Idle
  <2>6. CASE BeginWait(c)
    BY <2>6, <2>4, WaitEnters
  <2>7. CASE EnsureRunner(c)
    BY <2>7, <1>b DEF EnsureRunner, testVars
  <2>8. CASE EnsuredRunner(c) \/ BootDebug(c) \/ ResetDebug(c) \/ PrepareWorkDir(c)
             \/ WriteConfig(c) \/ Spawn(c) \/ ArmTargets(c) \/ SaveMeta(c) \/ RunExits(c)
             \/ RunTimesOut(c) \/ WaitTimesOut(c) \/ WaitExits(c) \/ Teardown(c) \/ CollectFails(c)
             \/ SaveResult(c) \/ Killed(c)
    <3>1. \/ Done(c)
          \/ \E pc \in {"boot", "reset", "prepare", "config", "spawn", "arm", "meta", "wait",
                       "teardown", "collect"} : Go(c, pc)
      BY <2>8
      DEF EnsuredRunner, BootDebug, ResetDebug, PrepareWorkDir, WriteConfig, Spawn, ArmTargets,
          SaveMeta, RunExits, RunTimesOut, WaitTimesOut, WaitExits, Teardown, CollectFails,
          SaveResult, Killed
    <3>2. cmd'[c].pc \notin {"clear", "save"}
      BY <3>1, <2>2, <2>3
    <3> QED BY <3>2, <2>4
  <2>9. CASE Collect(c)
    <3>1. /\ cmd'[c].run = cmd[c].run /\ cmd'[c].report = junit /\ junit # Null
          /\ cmd[c].run \in Runs /\ InUse(cmd[c].run)
      BY <2>9, <1>a DEF Collect, Commands, TypeInv, Named, InUse
    <3>2. cmd[c].run \notin mixed => junit = Own(cmd[c].run)
      BY <3>1 DEF Written, Holder
    <3> QED BY <3>1, <3>2, <2>1, <1>a DEF CollectedBy, Own
  <2>10. CASE ClearMeta(c)
    <3>1. cmd'[c].run = cmd[c].run /\ cmd'[c].report = cmd[c].report /\ cmd[c].pc = "clear"
      BY <2>10, <1>a DEF ClearMeta, Go, Commands
    <3> QED BY <3>1, <2>1, <1>a DEF CollectedBy, Own
  <2> QED BY <1>2, <2>1, <2>5, <2>6, <2>7, <2>8, <2>9, <2>10 DEF Command
<1> QED BY <1>1, <1>2 DEF Next

LEMMA ResultStep ==
  TypeInv /\ Owner /\ Apart /\ Collected /\ ResultIsOwn /\ [Next]_vars => ResultIsOwn'
<1> SUFFICES ASSUME TypeInv, Owner, Apart, Collected, ResultIsOwn, [Next]_vars
             PROVE  ResultIsOwn'
  OBVIOUS
<1>1. mixed \subseteq mixed'
  BY ApartStep
<1>2. ASSUME NEW c \in Clis, SaveResult(c)
      PROVE  ResultIsOwn'
  <2>1. /\ lastResult'.run = cmd[c].run /\ lastResult'.report = cmd[c].report
        /\ cmd[c].pc = "save"
    BY <1>2 DEF SaveResult
  <2> QED BY <2>1, <1>1 DEF Collected, Own, ResultIsOwn
<1>3. CASE \A c \in Clis : ~SaveResult(c)
  <2>1. lastResult' = lastResult
    BY <1>3
    DEF Next, Machine, Command, vars, testVars, DebugCommand, ClientReadsConfig, ClientReports,
        ClientExits, BeginRun, EnsureRunner, EnsuredRunner, BootDebug, ResetDebug, PrepareWorkDir,
        WriteConfig, Spawn, ArmTargets, SaveMeta, RunExits, RunTimesOut, BeginWait, WaitTimesOut,
        WaitExits, Teardown, Collect, CollectFails, ClearMeta, Killed
  <2> QED BY <2>1, <1>1 DEF ResultIsOwn
<1> QED BY <1>2, <1>3

-----------------------------------------------------------------------------
(* A client that lives is known *)

Awaited(r) ==
  \/ metaFile = r
  \/ \E c \in Clis : cmd[c].run = r /\ Running(c) /\ cmd[c].pc \in {"arm", "meta", "wait"}

LEMMA KnownStep == TypeInv /\ Owner /\ Apart /\ KnownInv /\ [Next]_vars => KnownInv'
<1> SUFFICES ASSUME TypeInv, Owner, Apart, KnownInv, [Next]_vars,
                    NEW r \in Runs, r \notin mixed', r \notin lost', Alive(r)'
             PROVE  Awaited(r)'
  BY DEF KnownInv, Awaited, Running
<1>a. /\ client \in [Runs -> Clients] /\ cmd \in [Clis -> Commands] /\ metaFile \in Runs \cup {Null}
      /\ r \notin mixed
  BY ApartStep DEF TypeInv, TypeOK
<1>b. r \notin lost /\ Alive(r) => Awaited(r)
  BY <1>a DEF KnownInv, Awaited
\* While the run waits to be collected, no other one uses the directory.
<1>c. ASSUME NEW q \in Runs, q # r, InUse(q)
      PROVE  metaFile # r
  BY <1>c, <1>a DEF Apart, Holder
<1>1. CASE Machine \/ UNCHANGED vars
  <2>1. UNCHANGED <<cmd, metaFile, lost>>
    BY <1>1 DEF Machine, vars, testVars, DebugCommand, ClientReadsConfig, ClientReports,
                ClientExits, history
  <2>2. Alive(r)
    BY <1>1, <1>a DEF Machine, vars, testVars, DebugCommand, ClientReadsConfig, ClientReports,
                      ClientExits, Exit, Alive, Clients
  <2> QED BY <2>1, <2>2, <1>b DEF Awaited, Running
<1>2. ASSUME NEW c \in Clis, Command(c)
      PROVE  Awaited(r)'
  <2>a. \A e \in Clis \ {c} : cmd'[e] = cmd[e]
    BY <1>2, CommandFrame
  <2>b. Owns(c) /\ (cmd[c].pc # "idle" => cmd[c].run \in Runs)
    BY DEF Owner, TypeInv, Named
  \* The command was not the one that waits for the run, or still is.
  <2>c. ASSUME Awaited(r), UNCHANGED metaFile,
               \/ cmd[c].run # r \/ ~Running(c) \/ cmd[c].pc \notin {"arm", "meta", "wait"}
               \/ /\ cmd'[c].run = r /\ cmd'[c].op = cmd[c].op
                  /\ cmd'[c].pc \in {"arm", "meta", "wait"}
        PROVE  Awaited(r)'
    <3>1. CASE metaFile = r
      BY <3>1, <2>c DEF Awaited
    <3>2. ASSUME NEW d \in Clis, cmd[d].run = r, Running(d), cmd[d].pc \in {"arm", "meta", "wait"}
          PROVE  Awaited(r)'
      <4>1. CASE d = c
        BY <4>1, <3>2, <2>c DEF Awaited, Running
      <4>2. CASE d # c
        BY <4>2, <3>2, <2>a DEF Awaited, Running
      <4> QED BY <4>1, <4>2
    <3> QED BY <2>c, <3>1, <3>2 DEF Awaited
  <2>d. \A pc : Go(c, pc) => cmd'[c].pc = pc /\ cmd'[c].run = cmd[c].run /\ cmd'[c].op = cmd[c].op
    BY <1>a DEF Go, Commands
  <2>e. UNCHANGED client => Alive(r)
    BY DEF Alive
  <2>1. CASE BeginRun(c) \/ EnsuredRunner(c) \/ BootDebug(c) \/ ResetDebug(c) \/ WriteConfig(c)
    <3>1. /\ UNCHANGED <<client, metaFile, lost>>
          /\ cmd[c].pc \notin {"arm", "meta", "wait"}
      BY <2>1 DEF BeginRun, EnsuredRunner, BootDebug, ResetDebug, WriteConfig, history
    <3> QED BY <3>1, <2>c, <2>e, <1>b
  <2>2. CASE EnsureRunner(c)
    BY <2>2, <2>e, <1>b DEF EnsureRunner, testVars, Awaited, Running
  <2>3. CASE PrepareWorkDir(c)
    <3>1. /\ UNCHANGED <<client, metaFile, lost>>
          /\ cmd[c].pc \notin {"arm", "meta", "wait"}
      BY <2>3 DEF PrepareWorkDir
    <3> QED BY <3>1, <2>c, <2>e, <1>b
  <2>4. CASE Spawn(c)
    <3>1. /\ UNCHANGED <<metaFile, lost>> /\ cmd[c].pc = "spawn" /\ Running(c)
          /\ cmd[c].run \in Runs
      BY <2>4, <2>b DEF Spawn, history, Owns, BeforeSpawn
    <3>2. CASE UNCHANGED client
      BY <3>1, <3>2, <2>c, <2>e, <1>b
    <3>3. CASE /\ client' = [client EXCEPT ![cmd[c].run].state = "starting"]
               /\ Go(c, IF cmd[c].op = "debug" THEN "arm" ELSE "wait")
      <4>1. CASE cmd[c].run = r
        <5>1. cmd'[c].pc \in {"arm", "wait"} /\ cmd'[c].run = r /\ cmd'[c].op = cmd[c].op
          BY <4>1, <3>3, <2>d
        <5> QED BY <5>1, <3>1 DEF Awaited, Running
      <4>2. CASE cmd[c].run # r
        <5>1. Alive(r)
          BY <4>2, <3>3, <3>1, <1>a DEF Alive
        <5> QED BY <5>1, <3>1, <2>c, <1>b
      <4> QED BY <4>1, <4>2
    <3> QED BY <2>4, <3>2, <3>3 DEF Spawn
  <2>5. CASE ArmTargets(c)
    <3>1. UNCHANGED <<client, metaFile, lost>> /\ Go(c, "meta")
      BY <2>5 DEF ArmTargets, history
    <3> QED BY <3>1, <2>c, <2>d, <2>e, <1>b
  <2>6. CASE SaveMeta(c)
    <3>1. /\ UNCHANGED <<client, lost>> /\ metaFile' = cmd[c].run /\ cmd[c].pc = "meta"
          /\ cmd[c].run \in Runs /\ InUse(cmd[c].run)
      BY <2>6, <2>b DEF SaveMeta, history, InUse
    <3>2. CASE cmd[c].run = r
      BY <3>1, <3>2 DEF Awaited
    <3>3. CASE cmd[c].run # r
      <4>1. PICK d \in Clis : cmd[d].run = r /\ Running(d) /\ cmd[d].pc \in {"arm", "meta", "wait"}
        BY <3>1, <3>3, <2>e, <1>b, <1>c DEF Awaited
      <4> QED BY <4>1, <3>3, <2>a DEF Awaited, Running
    <3> QED BY <3>2, <3>3
  <2>7. CASE RunExits(c) \/ WaitExits(c) \/ WaitTimesOut(c) \/ BeginWait(c)
    <3>1. /\ UNCHANGED <<client, metaFile, lost>>
          /\ cmd[c].run # r \/ ~Running(c) \/ cmd[c].pc \notin {"arm", "meta", "wait"}
      BY <2>7, <2>e DEF RunExits, WaitExits, WaitTimesOut, BeginWait, history, Running
    <3> QED BY <3>1, <2>c, <2>e, <1>b
  <2>8. CASE RunTimesOut(c)
    <3>1. UNCHANGED metaFile /\ cmd[c].run \in Runs
      BY <2>8, <2>b DEF RunTimesOut
    <3>2. cmd[c].run # r
      <4>1. CASE Exit(cmd[c].run)
        <5>1. cmd[c].run = r => client'[r].state \in {"complete", "dead"}
          BY <4>1, <1>a DEF Exit, Clients
        <5> QED BY <5>1 DEF Alive
      <4> QED BY <2>8, <4>1 DEF RunTimesOut
    <3>3. Alive(r) /\ r \notin lost
      BY <2>8, <3>1, <3>2, <1>a DEF RunTimesOut, Exit, Alive
    <3> QED BY <3>1, <3>2, <3>3, <2>c, <1>b
  <2>9. CASE Teardown(c) \/ Collect(c) \/ SaveResult(c)
    <3>1. /\ UNCHANGED <<client, metaFile, lost>>
          /\ cmd[c].pc \notin {"arm", "meta", "wait"}
      BY <2>9 DEF Teardown, Collect, SaveResult, history
    <3> QED BY <3>1, <2>c, <2>e, <1>b
  <2>10. CASE CollectFails(c) \/ ClearMeta(c)
    <3>1. /\ UNCHANGED <<client, lost>> /\ cmd[c].pc \in {"collect", "clear"}
          /\ metaFile' \in {metaFile, Null} /\ InUse(cmd[c].run) /\ cmd[c].run \in Runs
      BY <2>10, <2>b DEF CollectFails, ClearMeta, history, InUse
    <3>2. cmd[c].run # r
      BY <3>1, <2>b, <2>e DEF Owns, AfterExit
    <3>3. PICK d \in Clis : cmd[d].run = r /\ Running(d) /\ cmd[d].pc \in {"arm", "meta", "wait"}
      BY <3>1, <3>2, <2>e, <1>b, <1>c DEF Awaited
    <3> QED BY <3>2, <3>3, <2>a DEF Awaited, Running
  <2>11. CASE Killed(c)
    <3>1. /\ UNCHANGED <<client, metaFile>> /\ r \notin lost
          /\ r # cmd[c].run \/ metaFile = r
      BY <2>11, <2>e DEF Killed
    <3>2. CASE metaFile = r
      BY <3>1, <3>2 DEF Awaited
    <3> QED BY <3>1, <3>2, <2>c, <2>e, <1>b
  <2> QED
    BY <1>2, <2>1, <2>2, <2>3, <2>4, <2>5, <2>6, <2>7, <2>8, <2>9, <2>10, <2>11 DEF Command
<1> QED BY <1>1, <1>2 DEF Next

-----------------------------------------------------------------------------
(* The theorems *)

LEMMA IInvInit == Init => IInv
<1> SUFFICES ASSUME Init
             PROVE  IInv
  OBVIOUS
<1>1. \A c \in Clis : cmd[c] = Idle /\ cmd[c].pc = "idle" /\ cmd[c].op = "none"
  BY DEF Init, Idle
<1>2. \A r \in Runs : client[r].state = "unused" /\ ~Alive(r) /\ ~InUse(r)
  BY <1>1 DEF Init, Alive, InUse
<1>3. metaFile = Null /\ lastResult = Null
  BY DEF Init
<1>4. Owner
  BY <1>1, <1>3 DEF Owner, Owns, Running, BeforeSpawn, AfterExit
<1> QED
  BY <1>1, <1>2, <1>3, <1>4, NullIsNoRun
  DEF IInv, Apart, Holder, Reads, Written, Collected, ResultIsOwn, KnownInv

LEMMA IInvStep == TypeInv /\ IInv /\ [Next]_vars => IInv'
<1> SUFFICES ASSUME TypeInv, IInv, [Next]_vars
             PROVE  IInv'
  OBVIOUS
<1>1. Owner /\ Apart /\ Reads /\ Written /\ Collected /\ ResultIsOwn /\ KnownInv
  BY DEF IInv
<1>2. Owner' /\ Apart' /\ Reads'
  BY <1>1, OwnerStep, ApartStep, ReadsStep
<1>3. Written' /\ Collected' /\ ResultIsOwn' /\ KnownInv'
  BY <1>1, WrittenStep, CollectedStep, ResultStep, KnownStep
<1> QED BY <1>2, <1>3 DEF IInv

LEMMA IInvHolds == Spec => [](TypeInv /\ IInv)
  BY IInvInit, IInvStep, TypeInvHolds, PTL DEF Spec

\* A result is made from the report of its own client about its own tests.
THEOREM ResultsAreOwn == Spec => []ResultIsOwn
  BY IInvHolds, PTL DEF IInv

\* When no command runs, a wait can find every client that lives.
THEOREM ClientsAreKnown == Spec => []ClientIsKnown
<1>1. IInv => ClientIsKnown
  BY DEF IInv, KnownInv, ClientIsKnown, Quiet
<1> QED BY <1>1, IInvHolds, PTL

\* A teardown does not take the debugger from a client that lives.
THEOREM TeardownIsSafe == Spec => TeardownSparesLive
<1>1. ASSUME TypeInv, IInv, NEW c \in Clis, Teardown(c), NEW r \in Runs, Alive(r)
      PROVE  r \in mixed
  <2>1. /\ cmd[c].pc = "teardown" /\ cmd[c].run \in Runs /\ ~Alive(cmd[c].run)
    BY <1>1 DEF Teardown, TypeInv, Named, IInv, Owner, Owns, AfterExit
  <2>2. r # cmd[c].run /\ InUse(cmd[c].run) /\ Holder(r)
    BY <1>1, <2>1 DEF InUse, Holder
  <2> QED BY <1>1, <2>1, <2>2 DEF IInv, Apart
<1>2. TypeInv /\ IInv => \A c \in Clis : Teardown(c) /\ session' # session =>
                           \A r \in Runs : Alive(r) => r \in mixed
  BY <1>1
<1> QED BY <1>2, IInvHolds, PTL DEF TeardownSparesLive

\* A report is not lost before it is collected.
THEOREM ReportsAreKept == Spec => ReportIsKept
<1>1. ASSUME TypeInv, IInv, NEW c \in Clis, CollectFails(c)
      PROVE  client[cmd[c].run].state # "complete" \/ cmd[c].run \in mixed
  <2>1. cmd[c].pc = "collect" /\ cmd[c].run \in Runs /\ junit = Null
    BY <1>1 DEF CollectFails, TypeInv, Named
  <2>2. Holder(cmd[c].run) /\ Own(cmd[c].run) # Null
    <3>1. Own(cmd[c].run) \in Reports
      BY <2>1 DEF Own, Reports
    <3> QED BY <2>1, <3>1, NullIsNoReport DEF Holder, InUse
  <2> QED BY <1>1, <2>1, <2>2 DEF IInv, Written
<1>2. TypeInv /\ IInv => \A c \in Clis : CollectFails(c) =>
                           client[cmd[c].run].state # "complete" \/ cmd[c].run \in mixed
  BY <1>1
<1> QED BY <1>2, IInvHolds, PTL DEF ReportIsKept
=============================================================================
