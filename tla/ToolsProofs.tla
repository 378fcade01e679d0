----------------------------- MODULE ToolsProofs -----------------------------
(***************************************************************************)
(* What Toolchain and IdeConfig promise, for any number of processes, tools, *)
(* releases and IDEs and any AGENTS.md.  A command that is alone is the only *)
(* active one, so each of its steps finds what the steps before it left:     *)
(* Stage says what that is, for a sync and for a configure.  That ide        *)
(* configure keeps the user's lines is a matter of sequences: where the      *)
(* managed block lies before and after it is replaced or appended.           *)
(***************************************************************************)
EXTENDS IdeConfig, SequenceTheorems, FunctionTheorems, FiniteSetTheorems, WellFoundedInduction, TLAPS

SyncPlaces == {"fetch", "get", "pinned", "stable", "hit"}
IdePlaces == {"agents", "ignore", "mcp", "rules"}

\* A command is where its kind may be.
RoutedCommand(c) == /\ c.op = "sync" <=> c.at \in SyncPlaces
                    /\ c.op \in IdeOps <=> c.at \in IdePlaces
Routed == \A p \in Procs : RoutedCommand(cmd[p])

\* A pinned artifact is part of the version it is named for, or all of it.
PinsAreOwn ==
  \A t \in Tools, r \in Releases :
    /\ pinned[t][r] \in {Missing, Bare, Torn, r}
    /\ pinned[t][r] = Bare => t \in Homes

\* What Installed says, of the present.
InPlace(t, c) ==
  IF t \in Homes THEN Recognised(t, stable[t])
  ELSE stable[t] = c.pin \/ (t \notin Verified /\ t \in c.worn)

\* The tools a sync has dealt with are in place or held against it.
DealtWith(c) ==
  \A j \in 1..(c.i - 1) :
    \/ InPlace(Components[j], c)
    \/ Components[j] = Tool(c) /\ c.at # "fetch"
    \/ IF Components[j] \in Must THEN c.failed ELSE c.warned

\* It knows the broken copies, and the tools that worked still do.
WornKnown(c) ==
  \A t \in Tools : pinned[t][c.pin] = Torn => t \in c.worn \/ (t = Tool(c) /\ c.at = "pinned")
StillWork(c) ==
  \A t \in c.had \ c.worn : Works(t) \/ (t = Tool(c) /\ c.at \in {"pinned", "stable", "hit"})

SyncStage(c) ==
  /\ c.pin = release
  /\ DealtWith(c) /\ WornKnown(c) /\ StillWork(c)
  /\ c.at = "hit" => /\ Tool(c) \notin Homes
                     /\ pinned[Tool(c)][c.pin] # Missing
                     /\ Tool(c) \in Verified => pinned[Tool(c)][c.pin] = c.pin
  /\ c.at = "stable" => pinned[Tool(c)][c.pin] = c.pin

\* The block is in the file, and where the markers are sound it would be found there.
BlockIsThere(f, r) ==
  /\ \E i \in 1..Len(f) : SubSeq(f, i, i + 2) = Block(r)
  /\ Sound(f) => Upsert(f, Block(r)) = f

IdeStage(c) ==
  /\ c.op # "ide" /\ c.at \in {"ignore", "mcp", "rules"} => BlockIsThere(agents, c.pin)
  /\ c.at \in {"mcp", "rules"} => Lines \subseteq ignore
  /\ c.at = "rules" => \A ide \in Ides : Servers \subseteq mcp[ide].servers

Stage(p) ==
  cmd[p].at # "idle" /\ cmd[p].alone =>
    /\ Active = {p}
    /\ cmd[p].op = "sync" => SyncStage(cmd[p])
    /\ cmd[p].op \in IdeOps => IdeStage(cmd[p])

\* A file that cannot be parsed has no servers.
NoServers == \A ide \in Ides : mcp[ide].file # "json" => mcp[ide].servers = {}

IInv == TypeOK /\ Routed /\ PinsAreOwn /\ NoServers /\ \A p \in Procs : Stage(p)

-----------------------------------------------------------------------------
(* Typing. *)

FileLines == {Text, Start, Finish} \cup {Body(r) : r \in Releases}

LEMMA IdleTyped ==
  /\ 1 \in Releases /\ Releases \subseteq Artifacts /\ Missing \in Artifacts
  /\ Bare \in Artifacts /\ Torn \in Artifacts
  /\ Idle \in Command /\ \A v \in {"none", "ok", "degraded", "error"} : Ended(v) \in Command
<1>1. 1 \in Releases /\ 1 \in 1..Len(Components)
  BY SomeComponents, MaxReleaseNat DEF Releases
<1>2. Idle \in Command
  BY <1>1 DEF Idle, Command, Places, Ops
<1>3. \A v \in {"none", "ok", "degraded", "error"} : Ended(v) \in Command
  BY <1>2 DEF Ended, Command
<1> QED BY <1>1, <1>2, <1>3 DEF Artifacts

LEMMA ToolTyped == \A c \in Command : Tool(c) \in Tools
  BY DEF Command, Tool, Tools

LEMMA NextComponentTyped == \A c \in Command : NextComponent(c) \in Command
<1> SUFFICES ASSUME NEW c \in Command PROVE NextComponent(c) \in Command
  OBVIOUS
<1>1. CASE c.i < Len(Components)
  <2>1. c.i + 1 \in 1..Len(Components)
    BY <1>1, SomeComponents DEF Command
  <2> QED BY <1>1, <2>1 DEF NextComponent, Command, Places
<1>2. CASE ~(c.i < Len(Components))
  BY <1>2, IdleTyped DEF NextComponent
<1> QED BY <1>1, <1>2

LEMMA FailedTyped ==
  \A c \in Command : /\ Failed(c) \in Command
                     /\ \A t \in Tools : [c EXCEPT !.worn = @ \cup {t}] \in Command
  BY DEF Failed, Command

LEMMA BeginTyped ==
  ASSUME ToolchainTypeOK, NEW p \in Procs, NEW c \in Command, Begin(p, c)
  PROVE  cmd' \in [Procs -> Command] /\ begun' \in 0..MaxCommands
<1>1. begun' \in 0..MaxCommands
  BY MaxCommandsNat DEF ToolchainTypeOK, Begin
<1>2. \A q \in Procs : cmd'[q] \in Command
  BY DEF ToolchainTypeOK, Begin, Command
<1> QED BY <1>1, <1>2 DEF Begin

LEMMA BlockTyped == \A r \in Releases : Block(r) \in Seq(FileLines) /\ Len(Block(r)) = 3
  BY DEF Block, FileLines

LEMMA FirstPlace ==
  ASSUME NEW S, NEW f \in Seq(S), NEW line, Contains(f, line)
  PROVE  /\ First(f, line) \in 1..Len(f) /\ f[First(f, line)] = line
         /\ \A j \in 1..(First(f, line) - 1) : f[j] # line
<1> DEFINE T == {i \in 1..Len(f) : f[i] = line}
<1>1. T \subseteq Nat /\ T # {}
  BY DEF Contains
<1>2. PICK i \in T : \A j \in T : ~(<<j, i>> \in OpToRel(<, Nat))
  BY <1>1, NatLessThanWellFounded, WFMin
<1>3. \A j \in 1..(i - 1) : f[j] # line
  <2>1. \A j \in T : ~(j < i)
    BY <1>1, <1>2 DEF OpToRel
  <2> QED BY <2>1
<1>4. \E k \in 1..Len(f) : f[k] = line /\ \A j \in 1..(k - 1) : f[j] # line
  BY <1>2, <1>3
<1> QED BY <1>4 DEF First

LEMMA UpsertTyped ==
  ASSUME NEW S, NEW f \in Seq(S), NEW block \in Seq(S)
  PROVE  Upsert(f, block) \in Seq(S)
<1>1. CASE HasBlock(f)
  <2>1. First(f, Start) \in 1..Len(f) /\ First(f, Finish) \in 1..Len(f)
    BY <1>1, FirstPlace DEF HasBlock
  <2>2. /\ SubSeq(f, 1, First(f, Start) - 1) \in Seq(S)
        /\ SubSeq(f, First(f, Finish) + 1, Len(f)) \in Seq(S)
    BY <2>1
  <2> QED BY <1>1, <2>2 DEF Upsert
<1>2. CASE ~HasBlock(f)
  BY <1>2 DEF Upsert
<1> QED BY <1>1, <1>2

LEMMA TypesInit == Init => TypeOK
<1> SUFFICES ASSUME Init PROVE TypeOK
  OBVIOUS
<1>1. ToolchainTypeOK
  BY IdleTyped, MaxCommandsNat DEF Init, ToolchainInit, ToolchainTypeOK
<1>2. agents \in Seq(FileLines)
  <2>1. <<>> \in Seq(FileLines) /\ <<Text>> \in Seq(FileLines)
    BY DEF FileLines
  <2> QED BY <2>1 DEF Init
<1> QED BY <1>1, <1>2, MaxEditsNat DEF Init, TypeOK, FileLines, Lines

LEMMA ToolchainTypes ==
  ASSUME ToolchainTypeOK, NEW p \in Procs, ToolchainStep(p)
  PROVE  ToolchainTypeOK'
<1> DEFINE c == cmd[p]
<1>1. c \in Command /\ Tool(c) \in Tools /\ c.pin \in Releases /\ cmd \in [Procs -> Command]
  BY ToolTyped DEF ToolchainTypeOK, Command
<1>2. ASSUME NEW place \in Places, Goto(p, place) PROVE cmd' \in [Procs -> Command]
  BY <1>1, <1>2 DEF Goto, Command
<1>3. ASSUME NEW v \in {"none", "ok", "degraded", "error"}, Answer(p, v)
      PROVE  cmd' \in [Procs -> Command]
  BY <1>1, <1>3, IdleTyped DEF Answer
<1>4. ASSUME NEW d \in Command, cmd' = [cmd EXCEPT ![p] = NextComponent(d)]
      PROVE  cmd' \in [Procs -> Command]
  BY <1>1, <1>4, NextComponentTyped
<1>5. ASSUME NEW t \in Tools, NEW r \in Releases, NEW a \in Artifacts
      PROVE  /\ [pinned EXCEPT ![t][r] = a] \in [Tools -> [Releases -> Artifacts]]
             /\ [stable EXCEPT ![t] = a] \in [Tools -> Artifacts]
  BY DEF ToolchainTypeOK
<1>6. \A t \in Tools : Partial(t) \subseteq Artifacts
  BY IdleTyped DEF Partial
<1> USE DEF ToolchainTypeOK, Places
<1>7. CASE BeginSync(p)
  <2>1. [Idle EXCEPT !.at = "fetch", !.op = "sync", !.pin = release,
                     !.had = {t \in Tools : Works(t)},
                     !.worn = {t \in Tools : pinned[t][release] = Torn}] \in Command
    BY IdleTyped, ZenonT(40) DEF Command, Ops
  <2> QED BY <1>7, <2>1, BeginTyped DEF BeginSync
<1>8. CASE BeginUninstall(p)
  <2>1. [Idle EXCEPT !.at = "wipe", !.op = "uninstall"] \in Command
    BY IdleTyped, ZenonT(40) DEF Command, Ops
  <2> QED BY <1>8, <2>1, BeginTyped DEF BeginUninstall
<1>9. CASE FetchHit(p)
  BY <1>1, <1>2, <1>4, <1>5, <1>9, IdleTyped DEF FetchHit
<1>10. CASE FetchMiss(p)
  BY <1>1, <1>2, <1>5, <1>10, IdleTyped DEF FetchMiss
<1>11. CASE Get(p)
  BY <1>1, <1>2, <1>5, <1>6, <1>11 DEF Get
<1>12. CASE GetFails(p)
  BY <1>1, <1>4, <1>12, FailedTyped DEF GetFails
<1>13. CASE CopyPinned(p)
  BY <1>1, <1>2, <1>5, <1>6, <1>13, IdleTyped DEF CopyPinned
<1>14. CASE CopyStable(p)
  <2>1. pinned[Tool(c)][c.pin] \in Artifacts
    BY <1>1
  <2>2. stable' = [stable EXCEPT ![Tool(c)] = pinned[Tool(c)][c.pin]] /\ UNCHANGED <<release, pinned, begun>>
    BY <1>14 DEF CopyStable
  <2>3. cmd' = [cmd EXCEPT ![p] = NextComponent(c)]
    BY <1>14 DEF CopyStable
  <2>4. stable' \in [Tools -> Artifacts]
    BY <1>1, <1>5, <2>1, <2>2
  <2>5. cmd' \in [Procs -> Command]
    BY <1>1, <1>4, <2>3
  <2> QED BY <2>2, <2>4, <2>5
<1>15. CASE CopyBreaks(p)
  BY <1>1, <1>3, <1>4, <1>15, FailedTyped DEF CopyBreaks
<1>16. CASE Wipe(p)
  BY <1>3, <1>16, IdleTyped DEF Wipe
<1>17. CASE Kill(p)
  BY <1>3, <1>17 DEF Kill
<1> HIDE DEF ToolchainTypeOK
<1> QED BY <1>7, <1>8, <1>9, <1>10, <1>11, <1>12, <1>13, <1>14, <1>15, <1>16, <1>17
        DEF ToolchainStep

LEMMA IdeTypes ==
  ASSUME TypeOK, NEW p \in Procs, IdeStep(p)
  PROVE  TypeOK'
<1> DEFINE c == cmd[p]
<1>1. /\ c \in Command /\ c.pin \in Releases /\ cmd \in [Procs -> Command]
      /\ ToolchainTypeOK /\ release \in Releases
  BY DEF TypeOK, ToolchainTypeOK, Command
<1>2. ASSUME NEW place \in Places, Goto(p, place) PROVE cmd' \in [Procs -> Command]
  BY <1>1, <1>2 DEF Goto, Command
<1>3. ASSUME NEW v \in {"none", "ok", "degraded", "error"}, Answer(p, v)
      PROVE  cmd' \in [Procs -> Command]
  BY <1>1, <1>3, IdleTyped DEF Answer
<1>4. ASSUME cmd' \in [Procs -> Command], begun' \in 0..MaxCommands,
             UNCHANGED <<release, pinned, stable>>
      PROVE  ToolchainTypeOK'
  BY <1>1, <1>4 DEF ToolchainTypeOK
<1>5. ASSUME NEW place \in Places, Goes(p, place)
      PROVE  ToolchainTypeOK' /\ UNCHANGED edits
  <2>1. begun \in 0..MaxCommands
    BY <1>1 DEF ToolchainTypeOK
  <2> QED BY <1>2, <1>4, <1>5, <2>1 DEF Goes
<1>6. ASSUME NEW force, NEW agentsToo, force \in BOOLEAN, agentsToo \in BOOLEAN,
             BeginConfigure(p, force, agentsToo)
      PROVE  TypeOK'
  <2>1. [Idle EXCEPT !.at = IF agentsToo THEN "agents" ELSE "ignore",
                     !.op = IF agentsToo THEN "configure" ELSE "ide",
                     !.pin = release, !.force = force] \in Command
    <3>1. \A at \in Places, op \in Ops, r \in Releases, b \in BOOLEAN :
            [Idle EXCEPT !.at = at, !.op = op, !.pin = r, !.force = b] \in Command
      BY IdleTyped DEF Command
    <3>2. /\ (IF agentsToo THEN "agents" ELSE "ignore") \in Places
          /\ (IF agentsToo THEN "configure" ELSE "ide") \in Ops
      BY DEF Places, Ops
    <3> QED BY <1>1, <1>6, <3>1, <3>2
  <2>2. ToolchainTypeOK'
    BY <1>1, <1>4, <1>6, <2>1, BeginTyped DEF BeginConfigure
  <2> QED BY <1>6, <2>2 DEF BeginConfigure, ideVars, TypeOK
<1>7. CASE BeginInit(p)
  <2>1. [Idle EXCEPT !.at = "agents", !.op = "init", !.pin = release, !.force = TRUE] \in Command
    BY <1>1, IdleTyped, ZenonT(40) DEF Command, Places, Ops
  <2>2. ToolchainTypeOK'
    BY <1>1, <1>4, <1>7, <2>1, BeginTyped DEF BeginInit
  <2> QED BY <1>7, <2>2 DEF BeginInit, ideVars, TypeOK
<1>8. CASE MergeAgents(p)
  <2>1. agents \in Seq(FileLines)
    BY DEF TypeOK, FileLines
  <2>2. agents' \in Seq(FileLines)
    BY <1>1, <1>8, <2>1, BlockTyped, UpsertTyped DEF MergeAgents
  <2>3. ToolchainTypeOK' /\ UNCHANGED <<edits, ignore, mcp, rules>>
    BY <1>5, <1>8 DEF MergeAgents, Places
  <2> QED BY <2>2, <2>3 DEF TypeOK, FileLines
<1>9. CASE MergeIgnore(p)
  <2>1. ToolchainTypeOK' /\ UNCHANGED <<edits, agents, mcp, rules>>
    BY <1>5, <1>9 DEF MergeIgnore, Places
  <2>2. ignore' \in SUBSET (Lines \cup {"users"})
    BY <1>9 DEF MergeIgnore, TypeOK
  <2> QED BY <2>1, <2>2 DEF TypeOK
<1>10. CASE MergeMcp(p)
  <2>1. ToolchainTypeOK' /\ UNCHANGED <<edits, agents, ignore, rules>>
    BY <1>5, <1>10 DEF MergeMcp, Places
  <2>2. mcp' \in [Ides -> [file : {"none", "garbled", "json"}, servers : SUBSET (Servers \cup {"users"})]]
    BY <1>10 DEF MergeMcp, TypeOK
  <2> QED BY <2>1, <2>2 DEF TypeOK
<1>11. CASE WriteRules(p)
  <2>1. ToolchainTypeOK'
    <3>1. begun \in 0..MaxCommands
      BY <1>1 DEF ToolchainTypeOK
    <3> QED BY <1>3, <1>4, <1>11, <3>1 DEF WriteRules
  <2>2. rules' \in [Ides -> {Missing, Foreign} \cup Releases]
    BY <1>1, <1>11 DEF WriteRules
  <2>3. UNCHANGED <<edits, agents, ignore, mcp>>
    BY <1>11 DEF WriteRules
  <2> QED BY <2>1, <2>2, <2>3 DEF TypeOK
<1>12. CASE WriteBreaks(p)
  <2>1. ToolchainTypeOK'
    <3>1. begun \in 0..MaxCommands
      BY <1>1 DEF ToolchainTypeOK
    <3> QED BY <1>3, <1>4, <1>12, <3>1 DEF WriteBreaks
  <2>2. agents' \in Seq(FileLines)
    BY <1>12 DEF WriteBreaks, TypeOK, FileLines
  <2>3. ignore' \in SUBSET (Lines \cup {"users"})
    BY <1>12 DEF WriteBreaks, TypeOK
  <2>4. /\ mcp' \in [Ides -> [file : {"none", "garbled", "json"}, servers : SUBSET (Servers \cup {"users"})]]
        /\ rules' \in [Ides -> {Missing, Foreign} \cup Releases]
    BY <1>12 DEF WriteBreaks, TypeOK
  <2>5. UNCHANGED edits
    BY <1>12 DEF WriteBreaks
  <2> QED BY <2>1, <2>2, <2>3, <2>4, <2>5 DEF TypeOK, FileLines
<1> QED BY <1>6, <1>7, <1>8, <1>9, <1>10, <1>11, <1>12 DEF IdeStep

LEMMA DisturbTyped == ASSUME ToolchainTypeOK, Disturb PROVE cmd' \in [Procs -> Command]
<1>1. \A c \in Command, b \in BOOLEAN : [c EXCEPT !.alone = b] \in Command
  BY DEF Command
<1>2. \A q \in Procs : cmd[q] \in Command /\ (q \notin Active) \in BOOLEAN
  BY DEF ToolchainTypeOK
<1>3. \A q \in Procs : [cmd[q] EXCEPT !.alone = q \notin Active] \in Command
  BY <1>1, <1>2
<1> QED BY <1>3, Zenon DEF Disturb

LEMMA UserTypes ==
  ASSUME TypeOK, UserStep
  PROVE  TypeOK'
<1>1. ToolchainTypeOK'
  BY DisturbTyped DEF TypeOK, UserStep, ToolchainTypeOK
<1>2. edits' \in 0..MaxEdits
  BY MaxEditsNat DEF TypeOK, UserStep
<1>3. agents \in Seq(FileLines)
  BY DEF TypeOK, FileLines
<1>4. CASE EditAgents
  <2>1. ASSUME NEW i \in 1..Len(agents) PROVE RemoveAt(agents, i) \in Seq(FileLines)
    <3>1. /\ SubSeq(agents, 1, i - 1) \in Seq(FileLines)
          /\ SubSeq(agents, i + 1, Len(agents)) \in Seq(FileLines)
      BY <1>3, <2>1
    <3> QED BY <3>1 DEF RemoveAt
  <2>2. <<Text>> \o agents \in Seq(FileLines) /\ Append(agents, Text) \in Seq(FileLines)
    <3>1. <<Text>> \in Seq(FileLines) /\ Text \in FileLines
      BY DEF FileLines
    <3> QED BY <1>3, <3>1
  <2>3. agents' \in Seq(FileLines)
    BY <1>4, <2>1, <2>2 DEF EditAgents
  <2> QED BY <1>1, <1>2, <1>4, <2>3 DEF EditAgents, TypeOK, FileLines
<1>5. CASE EditIgnore
  <2>1. ignore' \in SUBSET (Lines \cup {"users"})
    BY <1>5 DEF EditIgnore, TypeOK
  <2> QED BY <1>1, <1>2, <1>5, <2>1 DEF EditIgnore, TypeOK
<1>6. CASE EditMcp
  <2>1. mcp' \in [Ides -> [file : {"none", "garbled", "json"}, servers : SUBSET (Servers \cup {"users"})]]
    BY <1>6, SMTT(30) DEF EditMcp, TypeOK
  <2> QED BY <1>1, <1>2, <1>6, <2>1 DEF EditMcp, TypeOK
<1>7. CASE EditRule
  <2>1. rules' \in [Ides -> {Missing, Foreign} \cup Releases]
    BY <1>7 DEF EditRule, TypeOK
  <2> QED BY <1>1, <1>2, <1>7, <2>1 DEF EditRule, TypeOK
<1> QED BY <1>4, <1>5, <1>6, <1>7 DEF UserStep

LEMMA TypesStep == TypeOK /\ [Next]_vars => TypeOK'
<1> SUFFICES ASSUME TypeOK, [Next]_vars PROVE TypeOK'
  OBVIOUS
<1>1. ASSUME NEW p \in Procs, ToolchainStep(p), UNCHANGED ideVars PROVE TypeOK'
  BY <1>1, ToolchainTypes DEF TypeOK, ideVars
<1>2. ASSUME NEW p \in Procs, IdeStep(p) PROVE TypeOK'
  BY <1>2, IdeTypes
<1>3. CASE Upgrade /\ UNCHANGED ideVars
  <2>1. release' \in Releases
    BY <1>3, MaxReleaseNat DEF Upgrade, TypeOK, ToolchainTypeOK, Releases
  <2>2. cmd' \in [Procs -> Command]
    BY <1>3, DisturbTyped DEF Upgrade, TypeOK
  <2> QED BY <1>3, <2>1, <2>2 DEF Upgrade, TypeOK, ToolchainTypeOK, ideVars
<1>4. CASE UserStep
  BY <1>4, UserTypes
<1>5. CASE UNCHANGED vars
  BY <1>5 DEF vars, toolVars, ideVars, TypeOK, ToolchainTypeOK
<1> QED BY <1>1, <1>2, <1>3, <1>4, <1>5 DEF Next

-----------------------------------------------------------------------------
(* Commands are where their kind may be, and alone only while no other is active. *)

LEMMA NextComponentMoves ==
  ASSUME NEW c \in Command, c.op = "sync"
  PROVE  /\ RoutedCommand(NextComponent(c))
         /\ \/ NextComponent(c).at = "idle"
            \/ NextComponent(c).at = "fetch" /\ NextComponent(c).alone = c.alone
<1>1. CASE c.i < Len(Components)
  <2>1. NextComponent(c) = [c EXCEPT !.at = "fetch", !.i = c.i + 1]
    BY <1>1 DEF NextComponent
  <2>2. NextComponent(c).at = "fetch" /\ NextComponent(c).op = "sync" /\ NextComponent(c).alone = c.alone
    BY <2>1 DEF Command
  <2> QED BY <2>2 DEF RoutedCommand, SyncPlaces, IdePlaces, IdeOps
<1>2. CASE ~(c.i < Len(Components))
  BY <1>2 DEF NextComponent, Ended, Idle, RoutedCommand, SyncPlaces, IdePlaces, IdeOps
<1> QED BY <1>1, <1>2

\* A command begins, or the command that runs goes on or ends.
Starts(p) ==
  \E c \in Command :
    /\ Begin(p, c) /\ c.at # "idle" /\ RoutedCommand(c)
    /\ UNCHANGED <<release, pinned, stable, ideVars>>
GoesOn(p) ==
  /\ cmd[p].at # "idle" /\ \A q \in Procs \ {p} : cmd'[q] = cmd[q]
  /\ RoutedCommand(cmd'[p]) /\ (cmd'[p].at = "idle" \/ cmd'[p].alone = cmd[p].alone)
  /\ UNCHANGED release

LEMMA ToolchainKinds ==
  ASSUME ToolchainTypeOK, Routed, NEW p \in Procs, ToolchainStep(p), UNCHANGED ideVars
  PROVE  Starts(p) \/ GoesOn(p)
<1> DEFINE c == cmd[p]
<1>1. c \in Command /\ cmd \in [Procs -> Command] /\ RoutedCommand(c) /\ Tool(c) \in Tools
  BY ToolTyped DEF ToolchainTypeOK, Routed
<1>2. ASSUME NEW place \in SyncPlaces, c.at \in SyncPlaces, Goto(p, place), UNCHANGED release PROVE GoesOn(p)
  BY <1>1, <1>2 DEF Goto, Command, GoesOn, RoutedCommand, SyncPlaces, IdePlaces, IdeOps
<1>3. ASSUME NEW v, c.at # "idle", Answer(p, v), UNCHANGED release PROVE GoesOn(p)
  <2>1. cmd'[p].at = "idle" /\ cmd'[p].op = "none" /\ \A q \in Procs \ {p} : cmd'[q] = cmd[q]
    BY <1>1, <1>3 DEF Answer, Ended, Idle
  <2> QED BY <1>3, <2>1 DEF GoesOn, RoutedCommand, SyncPlaces, IdePlaces, IdeOps
<1>4. ASSUME NEW d \in Command, d.op = c.op, d.alone = c.alone, c.at \in SyncPlaces,
             cmd' = [cmd EXCEPT ![p] = NextComponent(d)], UNCHANGED release
      PROVE  GoesOn(p)
  <2>1. c.op = "sync"
    BY <1>1, <1>4 DEF RoutedCommand
  <2>2. cmd'[p] = NextComponent(d) /\ \A q \in Procs \ {p} : cmd'[q] = cmd[q]
    BY <1>1, <1>4
  <2> QED BY <1>4, <2>1, <2>2, NextComponentMoves DEF GoesOn, SyncPlaces
<1>5. CASE BeginSync(p)
  <2> DEFINE d == [Idle EXCEPT !.at = "fetch", !.op = "sync", !.pin = release,
                     !.had = {t \in Tools : Works(t)},
                     !.worn = {t \in Tools : pinned[t][release] = Torn}]
  <2>1. d \in Command
    BY IdleTyped, ZenonT(40) DEF Command, Ops, Places, ToolchainTypeOK
  <2>2. d.at = "fetch" /\ RoutedCommand(d)
    BY DEF RoutedCommand, SyncPlaces, IdePlaces, IdeOps, Idle
  <2> QED BY <1>5, <2>1, <2>2 DEF BeginSync, Starts
<1>6. CASE BeginUninstall(p)
  <2> DEFINE d == [Idle EXCEPT !.at = "wipe", !.op = "uninstall"]
  <2>1. d \in Command
    BY IdleTyped, ZenonT(40) DEF Command, Ops, Places
  <2>2. d.at = "wipe" /\ RoutedCommand(d)
    BY DEF RoutedCommand, SyncPlaces, IdePlaces, IdeOps, Idle
  <2> QED BY <1>6, <2>1, <2>2 DEF BeginUninstall, Starts
<1>7. CASE FetchHit(p) \/ FetchMiss(p)
  <2>1. c.at = "fetch" /\ UNCHANGED release
        /\ (Goto(p, "hit") \/ Goto(p, "get") \/ cmd' = [cmd EXCEPT ![p] = NextComponent(c)])
    BY <1>7 DEF FetchHit, FetchMiss
  <2> QED BY <1>1, <1>2, <1>4, <2>1 DEF SyncPlaces
<1>8. CASE Get(p) \/ CopyPinned(p)
  <2>1. c.at \in {"get", "pinned"} /\ UNCHANGED release /\ (Goto(p, "pinned") \/ Goto(p, "stable"))
    BY <1>8 DEF Get, CopyPinned
  <2> QED BY <1>2, <2>1 DEF SyncPlaces
<1>9. CASE GetFails(p)
  <2>1. Failed(c) \in Command /\ Failed(c).op = c.op /\ Failed(c).alone = c.alone
    BY <1>1, FailedTyped DEF Failed, Command
  <2> QED BY <1>4, <1>9, <2>1 DEF GetFails, SyncPlaces
<1>10. CASE CopyStable(p)
  <2>1. c.at \in {"stable", "hit"} /\ UNCHANGED release /\ cmd' = [cmd EXCEPT ![p] = NextComponent(c)]
    BY <1>10 DEF CopyStable
  <2> QED BY <1>1, <1>4, <2>1 DEF SyncPlaces
<1>11. CASE CopyBreaks(p)
  <2> DEFINE d == [c EXCEPT !.worn = @ \cup {Tool(c)}]
  <2>1. d \in Command /\ d.op = c.op /\ d.alone = c.alone
    BY <1>1, FailedTyped DEF Command
  <2>2. Failed(d) \in Command /\ Failed(d).op = c.op /\ Failed(d).alone = c.alone
    BY <2>1, FailedTyped DEF Failed, Command
  <2>3. c.at \in {"pinned", "stable", "hit"} /\ UNCHANGED release
        /\ (cmd' = [cmd EXCEPT ![p] = NextComponent(Failed(d))] \/ Answer(p, "none"))
    BY <1>11 DEF CopyBreaks
  <2> QED BY <1>3, <1>4, <2>2, <2>3 DEF SyncPlaces
<1>12. CASE Wipe(p) \/ Kill(p)
  <2>1. c.at # "idle" /\ UNCHANGED release /\ \E v : Answer(p, v)
    BY <1>12 DEF Wipe, Kill
  <2> QED BY <1>3, <2>1
<1> QED BY <1>5, <1>6, <1>7, <1>8, <1>9, <1>10, <1>11, <1>12 DEF ToolchainStep

LEMMA IdeKinds ==
  ASSUME ToolchainTypeOK, Routed, NEW p \in Procs, IdeStep(p)
  PROVE  /\ Starts(p) \/ GoesOn(p)
         /\ UNCHANGED <<release, pinned, stable>>
<1> DEFINE c == cmd[p]
<1>1. c \in Command /\ cmd \in [Procs -> Command] /\ RoutedCommand(c)
  BY DEF ToolchainTypeOK, Routed
<1>2. ASSUME NEW place \in IdePlaces, c.at \in IdePlaces, Goes(p, place) PROVE GoesOn(p)
  BY <1>1, <1>2 DEF Goes, Goto, Command, GoesOn, RoutedCommand, SyncPlaces, IdePlaces, IdeOps
<1>3. ASSUME NEW v, c.at # "idle", Answer(p, v), UNCHANGED release PROVE GoesOn(p)
  <2>1. cmd'[p].at = "idle" /\ cmd'[p].op = "none" /\ \A q \in Procs \ {p} : cmd'[q] = cmd[q]
    BY <1>1, <1>3 DEF Answer, Ended, Idle
  <2> QED BY <1>3, <2>1 DEF GoesOn, RoutedCommand, SyncPlaces, IdePlaces, IdeOps
<1>4. ASSUME NEW force, NEW agentsToo, force \in BOOLEAN, agentsToo \in BOOLEAN,
             BeginConfigure(p, force, agentsToo)
      PROVE  Starts(p)
  <2> DEFINE d == [Idle EXCEPT !.at = IF agentsToo THEN "agents" ELSE "ignore",
                     !.op = IF agentsToo THEN "configure" ELSE "ide",
                     !.pin = release, !.force = force]
  <2>1. d \in Command
    <3>1. \A at \in Places, op \in Ops, r \in Releases, b \in BOOLEAN :
            [Idle EXCEPT !.at = at, !.op = op, !.pin = r, !.force = b] \in Command
      BY IdleTyped DEF Command
    <3>2. /\ (IF agentsToo THEN "agents" ELSE "ignore") \in Places
          /\ (IF agentsToo THEN "configure" ELSE "ide") \in Ops
      BY DEF Places, Ops
    <3> QED BY <1>4, <3>1, <3>2 DEF ToolchainTypeOK
  <2>2. d.at # "idle" /\ RoutedCommand(d)
    BY DEF RoutedCommand, SyncPlaces, IdePlaces, IdeOps, Idle
  <2> QED BY <1>4, <2>1, <2>2 DEF BeginConfigure, Starts
<1>5. CASE BeginInit(p)
  <2> DEFINE d == [Idle EXCEPT !.at = "agents", !.op = "init", !.pin = release, !.force = TRUE]
  <2>1. d \in Command
    BY IdleTyped, ZenonT(40) DEF Command, Ops, Places, ToolchainTypeOK
  <2>2. d.at # "idle" /\ RoutedCommand(d)
    BY DEF RoutedCommand, SyncPlaces, IdePlaces, IdeOps, Idle
  <2> QED BY <1>5, <2>1, <2>2 DEF BeginInit, Starts
<1>6. ASSUME MergeAgents(p) \/ MergeIgnore(p) \/ MergeMcp(p)
      PROVE  GoesOn(p)
  <2>1. c.at \in IdePlaces /\ \E place \in IdePlaces : Goes(p, place)
    BY <1>6 DEF MergeAgents, MergeIgnore, MergeMcp, IdePlaces
  <2> QED BY <1>2, <2>1
<1>7. ASSUME WriteRules(p) \/ WriteBreaks(p)
      PROVE  GoesOn(p)
  <2>1. c.at # "idle" /\ UNCHANGED release /\ \E v : Answer(p, v)
    BY <1>7 DEF WriteRules, WriteBreaks
  <2> QED BY <1>3, <2>1
<1>8. UNCHANGED <<release, pinned, stable>>
  BY DEF IdeStep, BeginConfigure, BeginInit, MergeAgents, MergeIgnore, MergeMcp, Goes,
         WriteRules, WriteBreaks
<1> QED BY <1>4, <1>5, <1>6, <1>7, <1>8 DEF IdeStep

LEMMA RoutedStep == ToolchainTypeOK /\ Routed /\ [Next]_vars => Routed'
<1> SUFFICES ASSUME ToolchainTypeOK, Routed, [Next]_vars PROVE Routed'
  OBVIOUS
<1>1. cmd \in [Procs -> Command]
  BY DEF ToolchainTypeOK
<1>2. ASSUME NEW p \in Procs, Starts(p) PROVE Routed'
  <2>1. \A q \in Procs \ {p} : cmd'[q].at = cmd[q].at /\ cmd'[q].op = cmd[q].op
    BY <1>1, <1>2 DEF Starts, Begin, Command
  <2>2. RoutedCommand(cmd'[p])
    BY <1>1, <1>2 DEF Starts, Begin, Command, RoutedCommand
  <2> QED BY <2>1, <2>2 DEF Routed, RoutedCommand
<1>3. ASSUME NEW p \in Procs, GoesOn(p) PROVE Routed'
  BY <1>3 DEF GoesOn, Routed, RoutedCommand
<1>4. ASSUME Disturb PROVE Routed'
  BY <1>1, <1>4 DEF Disturb, Command, Routed, RoutedCommand
<1>5. CASE UNCHANGED vars
  BY <1>5 DEF vars, toolVars, Routed, RoutedCommand
<1> QED BY <1>2, <1>3, <1>4, <1>5, ToolchainKinds, IdeKinds DEF Next, Upgrade, UserStep

\* After a step, a command that is alone is the one that took it.
LEMMA AloneSteps ==
  ASSUME ToolchainTypeOK, \A q \in Procs : Stage(q), NEW p \in Procs, Starts(p) \/ GoesOn(p)
  PROVE  /\ \A q \in Procs \ {p} : Stage(q)'
         /\ cmd'[p].at # "idle" /\ cmd'[p].alone => Active' = {p}
         /\ cmd'[p].at # "idle" /\ cmd'[p].alone /\ GoesOn(p) => cmd[p].alone
<1>1. cmd \in [Procs -> Command]
  BY DEF ToolchainTypeOK
<1>2. CASE Starts(p)
  <2>1. PICK c \in Command : Begin(p, c) /\ c.at # "idle"
    BY <1>2 DEF Starts
  <2>2. \A q \in Procs \ {p} : cmd'[q].at = cmd[q].at /\ cmd'[q].alone = (q \notin Active)
    BY <1>1, <2>1 DEF Begin, Command
  <2>3. \A q \in Procs \ {p} : cmd'[q].at # "idle" => ~cmd'[q].alone
    BY <2>2 DEF Active
  <2>4. cmd'[p].alone = (Active = {}) /\ cmd'[p].at # "idle" /\ cmd[p].at = "idle"
    BY <2>1 DEF Begin, Command
  <2>5. cmd'[p].alone => Active' = {p}
    BY <2>2, <2>4, ZenonT(40) DEF Active
  <2> QED BY <2>3, <2>4, <2>5 DEF Stage, GoesOn
<1>3. CASE GoesOn(p)
  <2>1. p \in Active /\ \A q \in Procs \ {p} : cmd'[q] = cmd[q]
    BY <1>3 DEF GoesOn, Active
  <2>2. \A q \in Procs \ {p} : ~(cmd'[q].at # "idle" /\ cmd'[q].alone)
    BY <2>1 DEF Stage
  <2>3. cmd'[p].at # "idle" /\ cmd'[p].alone => cmd[p].alone
    BY <1>3 DEF GoesOn
  <2>4. cmd'[p].at # "idle" /\ cmd'[p].alone => Active' = {p}
    <3>1. SUFFICES ASSUME cmd'[p].at # "idle", cmd'[p].alone PROVE Active' = {p}
      OBVIOUS
    <3>2. Active = {p}
      BY <1>3, <2>3, <3>1 DEF Stage, GoesOn
    <3> QED BY <2>1, <3>1, <3>2 DEF Active
  <2> QED BY <2>2, <2>3, <2>4 DEF Stage
<1> QED BY <1>2, <1>3

\* Nobody who is active is alone once something else changed the files.
LEMMA DisturbStage ==
  ASSUME ToolchainTypeOK, Disturb
  PROVE  \A q \in Procs : Stage(q)'
<1>1. \A q \in Procs : cmd'[q].at = cmd[q].at /\ cmd'[q].alone = (q \notin Active)
  BY DEF ToolchainTypeOK, Disturb, Command
<1> QED BY <1>1 DEF Stage, Active

LEMMA PinsStep == ToolchainTypeOK /\ Routed /\ PinsAreOwn /\ [Next]_vars => PinsAreOwn'
<1> SUFFICES ASSUME ToolchainTypeOK, Routed, PinsAreOwn, [Next]_vars PROVE PinsAreOwn'
  OBVIOUS
<1>1. CASE UNCHANGED pinned
  BY <1>1 DEF PinsAreOwn
<1>2. ASSUME NEW t \in Tools, NEW r \in Releases, NEW a,
             a \in {Missing, Bare, Torn, r}, a = Bare => t \in Homes,
             pinned' = [pinned EXCEPT ![t][r] = a]
      PROVE  PinsAreOwn'
  BY <1>2 DEF PinsAreOwn, ToolchainTypeOK
<1>3. ASSUME NEW p \in Procs, ToolchainStep(p) PROVE PinsAreOwn'
  <2>1. Tool(cmd[p]) \in Tools /\ cmd[p].pin \in Releases /\ \A r \in Releases : r # Bare
    BY ToolTyped DEF ToolchainTypeOK, Command, Releases, Bare
  <2>2. CASE FetchMiss(p)
    BY <1>1, <1>2, <2>1, <2>2 DEF FetchMiss, Missing, Bare
  <2>3. CASE Get(p)
    <3>1. PICK part \in Partial(Tool(cmd[p])) : pinned' = [pinned EXCEPT ![Tool(cmd[p])][cmd[p].pin] = part]
      BY <2>3 DEF Get
    <3>2. part \in {Bare, Torn} /\ (part = Bare => Tool(cmd[p]) \in Homes)
      BY <3>1 DEF Partial, Bare, Torn
    <3> QED BY <1>2, <2>1, <3>1, <3>2
  <2>4. CASE CopyPinned(p)
    BY <1>2, <2>1, <2>4 DEF CopyPinned
  <2>5. CASE Wipe(p)
    <3>1. PICK ts \in SUBSET Tools :
            pinned' = [t \in Tools |-> IF t \in ts THEN [r \in Releases |-> Missing] ELSE pinned[t]]
      BY <2>5 DEF Wipe
    <3> QED BY <3>1 DEF PinsAreOwn, Missing, Bare
  <2>6. CASE UNCHANGED pinned
    BY <1>1, <2>6
  <2> QED BY <1>3, <2>2, <2>3, <2>4, <2>5, <2>6 DEF ToolchainStep, BeginSync, FetchHit, GetFails,
             CopyStable, CopyBreaks, BeginUninstall, Kill
<1> QED BY <1>1, <1>3, IdeKinds DEF Next, Upgrade, UserStep, vars, toolVars

-----------------------------------------------------------------------------
(* tools sync: what each step leaves for the next. *)

\* A step that touches one tool leaves the others as they were.
LEMMA OtherTools ==
  ASSUME NEW T, NEW d, UNCHANGED release,
         \A t \in Tools \ {T} : stable'[t] = stable[t] /\ pinned'[t] = pinned[t]
  PROVE  \A t \in Tools \ {T} : /\ Works(t) => Works(t)'
                                /\ InPlace(t, d) => InPlace(t, d)'
  BY DEF Works, Resolve, Recognised, InPlace

\* What the next component finds, when this one is dealt with.
LEMMA Advance ==
  ASSUME NEW p \in Procs, NEW d \in Command, d.pin = release',
         \A j \in 1..d.i : \/ InPlace(Components[j], d)'
                           \/ IF Components[j] \in Must THEN d.failed ELSE d.warned,
         \A t \in Tools : pinned'[t][d.pin] = Torn => t \in d.worn,
         \A t \in d.had \ d.worn : Works(t)',
         cmd'[p] = NextComponent(d), cmd'[p].at # "idle"
  PROVE  SyncStage(cmd[p])'
<1>1. d.i < Len(Components)
  BY DEF NextComponent, Ended, Idle
<1>2. cmd'[p] = [d EXCEPT !.at = "fetch", !.i = d.i + 1]
  BY <1>1 DEF NextComponent
<1>3. /\ cmd'[p].at = "fetch" /\ cmd'[p].i = d.i + 1 /\ cmd'[p].pin = d.pin /\ d.i \in Nat
      /\ cmd'[p].worn = d.worn /\ cmd'[p].had = d.had
      /\ cmd'[p].failed = d.failed /\ cmd'[p].warned = d.warned
  BY <1>2, SomeComponents DEF Command
<1>4. DealtWith(cmd[p])'
  <2>1. \A j \in 1..(cmd'[p].i - 1) : j \in 1..d.i
    BY <1>3
  <2> QED BY <1>3, <2>1 DEF DealtWith, InPlace
<1>5. WornKnown(cmd[p])' /\ StillWork(cmd[p])'
  BY <1>3 DEF WornKnown, StillWork
<1> QED BY <1>3, <1>4, <1>5 DEF SyncStage

LEMMA SyncBegins ==
  ASSUME ToolchainTypeOK, NEW p \in Procs, BeginSync(p)
  PROVE  SyncStage(cmd[p])'
<1> DEFINE d == [Idle EXCEPT !.at = "fetch", !.op = "sync", !.pin = release,
                     !.had = {t \in Tools : Works(t)},
                     !.worn = {t \in Tools : pinned[t][release] = Torn}]
<1>1. cmd'[p] = [d EXCEPT !.alone = Active = {}] /\ UNCHANGED <<release, pinned, stable>>
  BY DEF BeginSync, Begin
<1>2. /\ cmd'[p].at = "fetch" /\ cmd'[p].i = 1 /\ cmd'[p].pin = release
      /\ cmd'[p].had = {t \in Tools : Works(t)}
      /\ cmd'[p].worn = {t \in Tools : pinned[t][release] = Torn}
  BY <1>1 DEF Idle
<1>3. \A t \in Tools : Works(t) => Works(t)'
  BY <1>1 DEF Works, Resolve, Recognised
<1>4. DealtWith(cmd[p])'
  BY <1>2 DEF DealtWith
<1>5. WornKnown(cmd[p])'
  BY <1>1, <1>2 DEF WornKnown
<1>6. StillWork(cmd[p])'
  BY <1>2, <1>3 DEF StillWork
<1> QED BY <1>1, <1>2, <1>4, <1>5, <1>6 DEF SyncStage

LEMMA FailedHolds ==
  ASSUME NEW c \in Command
  PROVE  /\ Failed(c) \in Command /\ Failed(c).pin = c.pin /\ Failed(c).i = c.i
         /\ Failed(c).had = c.had /\ Failed(c).worn = c.worn
         /\ (c.failed => Failed(c).failed) /\ (c.warned => Failed(c).warned)
         /\ IF Tool(c) \in Must THEN Failed(c).failed ELSE Failed(c).warned
<1>1. CASE Tool(c) \in Must
  <2>1. Failed(c) = [c EXCEPT !.failed = TRUE]
    BY <1>1 DEF Failed
  <2>2. Failed(c).failed = TRUE /\ Failed(c).warned = c.warned
    BY <2>1 DEF Command
  <2>3. /\ Failed(c).pin = c.pin /\ Failed(c).i = c.i
        /\ Failed(c).had = c.had /\ Failed(c).worn = c.worn
    BY <2>1 DEF Command
  <2> QED BY <1>1, <2>2, <2>3, FailedTyped
<1>2. CASE Tool(c) \notin Must
  <2>1. Failed(c) = [c EXCEPT !.warned = TRUE]
    BY <1>2 DEF Failed
  <2>2. Failed(c).warned = TRUE /\ Failed(c).failed = c.failed
    BY <2>1 DEF Command
  <2>3. /\ Failed(c).pin = c.pin /\ Failed(c).i = c.i
        /\ Failed(c).had = c.had /\ Failed(c).worn = c.worn
    BY <2>1 DEF Command
  <2> QED BY <1>2, <2>2, <2>3, FailedTyped
<1> QED BY <1>1, <1>2

\* A step of the sync c that leaves it as e with its component dealt with.
Completes(c, e) ==
  /\ e.pin = c.pin /\ e.pin = release' /\ e.had = c.had
  /\ \A t \in e.worn \ c.worn : /\ t = Tool(c) /\ t \in Verified \cup Homes
                                /\ c.at \in {"pinned", "stable"}
  /\ \A j \in 1..e.i : \/ InPlace(Components[j], e)'
                       \/ IF Components[j] \in Must THEN e.failed ELSE e.warned
  /\ \A t \in Tools : pinned'[t][e.pin] = Torn => t \in e.worn
  /\ \A t \in e.had \ e.worn : Works(t)'

\* A sync goes on with its component, breaks off, or is done with the component.
LEMMA SyncMoves ==
  ASSUME ToolchainTypeOK, Routed, PinsAreOwn, NEW p \in Procs, ToolchainStep(p),
         cmd[p].op = "sync", SyncStage(cmd[p])
  PROVE  \/ cmd'[p].at # "idle" /\ SyncStage(cmd[p])'
         \/ cmd'[p].at = "idle" /\ cmd'[p].verdict = "none"
         \/ \E e \in Command : Completes(cmd[p], e) /\ cmd'[p] = NextComponent(e)
<1> PICK d : d = cmd[p]
  OBVIOUS
<1> PICK T : T = Tool(d)
  OBVIOUS
<1>1. /\ d \in Command /\ T \in Tools /\ d.pin \in Releases /\ cmd \in [Procs -> Command]
      /\ d.at \in SyncPlaces /\ release = d.pin /\ d.i \in 1..Len(Components)
      /\ Components[d.i] = T /\ d.pin \notin {Missing, Bare, Torn} /\ d.had \subseteq Tools
      /\ stable \in [Tools -> Artifacts] /\ pinned \in [Tools -> [Releases -> Artifacts]]
  BY ToolTyped DEF ToolchainTypeOK, Command, SyncStage, Routed, RoutedCommand, Tool, Releases,
                   Missing, Bare, Torn
<1>2. /\ DealtWith(d) /\ WornKnown(d) /\ StillWork(d) /\ Tool(d) = T
      /\ d.at = "hit" => T \notin Homes /\ pinned[T][d.pin] # Missing
                         /\ (T \in Verified => pinned[T][d.pin] = d.pin)
      /\ d.at = "stable" => pinned[T][d.pin] = d.pin
  BY DEF SyncStage
<1>3. /\ \A j \in 1..d.i : Components[j] \in Tools
      /\ \A j \in 1..d.i : j < d.i \/ j = d.i
  BY <1>1, SomeComponents DEF Command
<1>4. UNCHANGED release
  BY DEF ToolchainStep, BeginSync, FetchHit, FetchMiss, Get, GetFails, CopyPinned, CopyStable,
         CopyBreaks, BeginUninstall, Wipe, Kill
<1>5. ASSUME NEW at \in {"get", "pinned", "stable", "hit"}, cmd' = [cmd EXCEPT ![p].at = at],
             \A t \in Tools \ {T} : stable'[t] = stable[t] /\ pinned'[t] = pinned[t],
             pinned'[T][d.pin] = Torn => T \in d.worn \/ at = "pinned",
             at = "get" => (T \in d.had \ d.worn => Works(T)'),
             at = "hit" => T \notin Homes /\ pinned'[T][d.pin] # Missing
                         /\ (T \in Verified => pinned'[T][d.pin] = d.pin),
             at = "stable" => pinned'[T][d.pin] = d.pin
      PROVE  cmd'[p].at # "idle" /\ SyncStage(cmd[p])'
  <2>1. cmd'[p] = [d EXCEPT !.at = at]
    BY <1>1, <1>5
  <2>2. /\ cmd'[p].at = at /\ cmd'[p].i = d.i /\ cmd'[p].pin = d.pin
        /\ cmd'[p].worn = d.worn /\ cmd'[p].had = d.had
        /\ cmd'[p].failed = d.failed /\ cmd'[p].warned = d.warned
    BY <1>1, <2>1 DEF Command
  <2>3. Tool(cmd'[p]) = T
    BY <1>1, <2>2 DEF Tool
  <2>4. \A t \in Tools \ {T} : /\ Works(t) => Works(t)'
                               /\ InPlace(t, d) => InPlace(t, d)'
    BY <1>4, <1>5, OtherTools
  <2>5. DealtWith(cmd[p])'
    <3>1. SUFFICES ASSUME NEW j \in 1..(d.i - 1)
                   PROVE  \/ InPlace(Components[j], d)' \/ Components[j] = T
                          \/ IF Components[j] \in Must THEN d.failed ELSE d.warned
      BY <2>2, <2>3 DEF DealtWith, InPlace
    <3> QED BY <1>1, <1>2, <1>3, <2>4 DEF DealtWith
  <2>6. WornKnown(cmd[p])'
    <3>1. \A t \in Tools \ {T} : pinned'[t][d.pin] = Torn => t \in d.worn
      BY <1>2, <1>5 DEF WornKnown
    <3> QED BY <1>5, <2>2, <2>3, <3>1 DEF WornKnown
  <2>7. StillWork(cmd[p])'
    <3>1. \A t \in (d.had \ d.worn) \ {T} : Works(t)'
      BY <1>1, <1>2, <2>4 DEF StillWork
    <3> QED BY <1>5, <2>2, <2>3, <3>1 DEF StillWork
  <2> QED BY <1>1, <1>4, <1>5, <2>2, <2>3, <2>5, <2>6, <2>7 DEF SyncStage
<1>6. ASSUME NEW e \in Command, e.pin = d.pin, e.i = d.i, e.had = d.had, d.worn \subseteq e.worn,
             d.failed => e.failed, d.warned => e.warned,
             \A t \in e.worn \ d.worn :
               t = T /\ t \in Verified \cup Homes /\ d.at \in {"pinned", "stable"},
             \A t \in Tools \ {T} : stable'[t] = stable[t] /\ pinned'[t] = pinned[t],
             \/ InPlace(T, e)'
             \/ IF T \in Must THEN e.failed ELSE e.warned,
             pinned'[T][d.pin] = Torn => T \in e.worn, T \in e.had \ e.worn => Works(T)'
      PROVE  Completes(cmd[p], e)
  <2>1. \A t \in Tools \ {T} : /\ Works(t) => Works(t)'
                               /\ InPlace(t, d) => InPlace(t, e)'
    <3>1. \A t \in Tools \ {T} : Works(t) => Works(t)'
      BY <1>4, <1>6, OtherTools
    <3>2. \A t \in Tools \ {T} : InPlace(t, d) => InPlace(t, e)'
      BY <1>6 DEF InPlace, Recognised
    <3> QED BY <3>1, <3>2
  <2>2. \A j \in 1..e.i : \/ InPlace(Components[j], e)'
                          \/ IF Components[j] \in Must THEN e.failed ELSE e.warned
    <3>1. SUFFICES ASSUME NEW j \in 1..d.i
                   PROVE  \/ InPlace(Components[j], e)'
                          \/ IF Components[j] \in Must THEN e.failed ELSE e.warned
      BY <1>6
    <3>2. CASE Components[j] = T
      BY <1>6, <3>2
    <3>3. CASE Components[j] # T
      <4>1. j \in 1..(d.i - 1) /\ Components[j] \in Tools \ {T}
        BY <1>1, <1>3, <3>3
      <4>2. \/ InPlace(Components[j], d)
            \/ IF Components[j] \in Must THEN d.failed ELSE d.warned
        BY <1>2, <3>3, <4>1 DEF DealtWith
      <4> QED BY <1>6, <2>1, <4>1, <4>2
    <3> QED BY <3>2, <3>3
  <2>3. \A t \in Tools : pinned'[t][e.pin] = Torn => t \in e.worn
    BY <1>2, <1>6 DEF WornKnown
  <2>4. \A t \in e.had \ e.worn : Works(t)'
    BY <1>1, <1>2, <1>6, <2>1 DEF StillWork
  <2> QED BY <1>1, <1>2, <1>4, <1>6, <2>2, <2>3, <2>4 DEF Completes
<1>7. \A t \in Tools \ {T} : /\ \A r : [pinned EXCEPT ![T][d.pin] = r][t] = pinned[t]
                             /\ \A a : [stable EXCEPT ![T] = a][t] = stable[t]
  BY <1>1
<1>8. T \in d.had \ d.worn => Works(T) \/ d.at \in {"pinned", "stable", "hit"}
  BY <1>2 DEF StillWork
<1>9. T \in Verified => T \notin Homes
  BY KindsOfTools
<1>10. CASE FetchHit(p)
  <2>1. d.at = "fetch" /\ IsHit(d) /\ UNCHANGED pinned
    BY <1>10 DEF FetchHit
  <2>2. pinned[T][d.pin] = Torn => T \in d.worn
    BY <1>1, <1>2, <2>1 DEF WornKnown
  <2>3. CASE T \in Homes
    <3>1. cmd'[p] = NextComponent(d) /\ UNCHANGED stable
      BY <1>1, <1>2, <1>10, <2>3 DEF FetchHit
    <3>2. InPlace(T, d)'
      BY <1>2, <2>1, <2>3, <3>1 DEF InPlace, IsHit, Recognised
    <3>3. Works(T) => Works(T)'
      BY <1>4, <2>1, <3>1 DEF Works, Resolve, Recognised
    <3> QED BY <1>1, <1>6, <1>8, <2>1, <2>2, <3>1, <3>2, <3>3
  <2>4. CASE T \notin Homes
    <3>1. cmd' = [cmd EXCEPT ![p].at = "hit"] /\ stable' = [stable EXCEPT ![T] = Torn]
      BY <1>2, <1>10, <2>4 DEF FetchHit, Goto
    <3>2. pinned[T][d.pin] # Missing /\ (T \in Verified => pinned[T][d.pin] = d.pin)
      BY <1>1, <1>2, <2>1, <2>4 DEF IsHit
    <3> QED BY <1>5, <1>7, <2>1, <2>2, <2>4, <3>1, <3>2
  <2> QED BY <2>3, <2>4
<1>11. CASE FetchMiss(p)
  <2>1. /\ d.at = "fetch" /\ ~IsHit(d) /\ cmd' = [cmd EXCEPT ![p].at = "get"]
    BY <1>11 DEF FetchMiss, Goto
  <2>2. CASE T \in Verified /\ pinned[T][d.pin] # Missing
    <3>1. /\ pinned' = [pinned EXCEPT ![T][d.pin] = Missing]
          /\ stable' = [stable EXCEPT ![T] = Missing]
      BY <1>2, <1>11, <2>2 DEF FetchMiss
    <3>2. pinned[T][d.pin] = Torn
      BY <1>1, <1>2, <1>9, <2>1, <2>2 DEF IsHit, PinsAreOwn
    <3>3. T \in d.worn
      BY <1>1, <1>2, <2>1, <3>2 DEF WornKnown
    <3> QED BY <1>5, <1>7, <2>1, <3>1, <3>3
  <2>3. CASE ~(T \in Verified /\ pinned[T][d.pin] # Missing)
    <3>1. UNCHANGED <<pinned, stable>>
      BY <1>2, <1>11, <2>3 DEF FetchMiss
    <3>2. pinned[T][d.pin] = Torn => T \in d.worn
      BY <1>1, <1>2, <2>1 DEF WornKnown
    <3>3. Works(T) => Works(T)'
      BY <1>4, <3>1 DEF Works, Resolve, Recognised
    <3> QED BY <1>5, <1>8, <2>1, <3>1, <3>2, <3>3
  <2> QED BY <2>2, <2>3
<1>12. CASE Get(p)
  <2>1. PICK part \in Partial(T) : pinned' = [pinned EXCEPT ![T][d.pin] = part]
    BY <1>2, <1>12 DEF Get
  <2>2. cmd' = [cmd EXCEPT ![p].at = "pinned"] /\ UNCHANGED stable
    BY <1>12 DEF Get, Goto
  <2> QED BY <1>5, <1>7, <2>1, <2>2
<1>13. CASE GetFails(p)
  <2> PICK e : e = Failed(d)
    OBVIOUS
  <2>1. /\ d.at = "get" /\ cmd'[p] = NextComponent(e) /\ UNCHANGED <<pinned, stable>>
    BY <1>1, <1>13 DEF GetFails
  <2>2. /\ e \in Command /\ e.pin = d.pin /\ e.i = d.i /\ e.had = d.had /\ e.worn = d.worn
        /\ (d.failed => e.failed) /\ (d.warned => e.warned)
        /\ IF T \in Must THEN e.failed ELSE e.warned
    BY <1>1, <1>2, FailedHolds
  <2>3. pinned[T][d.pin] = Torn => T \in d.worn
    BY <1>1, <1>2, <2>1 DEF WornKnown
  <2>4. Works(T) => Works(T)'
    BY <1>4, <2>1 DEF Works, Resolve, Recognised
  <2> QED BY <1>6, <1>8, <2>1, <2>2, <2>3, <2>4
<1>14. CASE CopyPinned(p)
  <2>1. /\ pinned' = [pinned EXCEPT ![T][d.pin] = d.pin]
        /\ cmd' = [cmd EXCEPT ![p].at = "stable"]
        /\ \E part : stable' = [stable EXCEPT ![T] = part]
    BY <1>2, <1>14 DEF CopyPinned, Goto
  <2>2. pinned'[T][d.pin] = d.pin
    BY <1>1, <2>1
  <2> QED BY <1>1, <1>5, <1>7, <2>1, <2>2
<1>15. CASE CopyStable(p)
  <2>1. /\ d.at \in {"stable", "hit"} /\ UNCHANGED pinned /\ pinned[T][d.pin] # Missing
        /\ stable' = [stable EXCEPT ![T] = pinned[T][d.pin]]
    BY <1>2, <1>15 DEF CopyStable
  <2>2. cmd'[p] = NextComponent(d)
    BY <1>1, <1>15 DEF CopyStable
  <2>3. pinned[T][d.pin] = Torn => T \in d.worn
    BY <1>1, <1>2, <2>1 DEF WornKnown
  <2>4. stable'[T] = pinned[T][d.pin]
    BY <1>1, <2>1
  <2>5. pinned[T][d.pin] = d.pin \/ (pinned[T][d.pin] = Torn /\ d.at = "hit")
    BY <1>1, <1>2, <2>1 DEF PinsAreOwn
  <2>6. InPlace(T, d)'
    BY <1>1, <1>2, <2>3, <2>4, <2>5 DEF InPlace, Recognised
  <2>7. T \in d.had \ d.worn => Works(T)'
    BY <1>1, <1>4, <2>3, <2>4, <2>5 DEF Works, Resolve, Recognised
  <2> QED BY <1>1, <1>6, <1>7, <2>1, <2>2, <2>3, <2>6, <2>7
<1>16. CASE CopyBreaks(p)
  <2> PICK e : e = Failed([d EXCEPT !.worn = @ \cup {T}])
    OBVIOUS
  <2>1. /\ d.at \in {"pinned", "stable", "hit"} /\ UNCHANGED <<pinned, stable>>
        /\ IF d.at # "hit" /\ T \in Verified \cup Homes THEN cmd' = [cmd EXCEPT ![p] = NextComponent(e)]
           ELSE Answer(p, "none")
    BY <1>2, <1>16 DEF CopyBreaks
  <2>2. /\ e \in Command /\ e.pin = d.pin /\ e.i = d.i /\ e.had = d.had /\ e.worn = d.worn \cup {T}
        /\ (d.failed => e.failed) /\ (d.warned => e.warned)
        /\ IF T \in Must THEN e.failed ELSE e.warned
    <3> PICK b : b = [d EXCEPT !.worn = @ \cup {T}]
      OBVIOUS
    <3>1. b \in Command
      BY <1>1, FailedTyped
    <3>2. /\ b.pin = d.pin /\ b.i = d.i /\ b.had = d.had /\ b.worn = d.worn \cup {T}
          /\ b.failed = d.failed /\ b.warned = d.warned
      BY <1>1 DEF Command
    <3>3. Tool(b) = T
      BY <1>2, <3>2 DEF Tool
    <3> QED BY <3>1, <3>2, <3>3, FailedHolds
  <2>3. CASE d.at # "hit" /\ T \in Verified \cup Homes
    BY <1>1, <1>6, <2>1, <2>2, <2>3
  <2>4. CASE ~(d.at # "hit" /\ T \in Verified \cup Homes)
    BY <1>1, <2>1, <2>4 DEF Answer, Ended, Idle
  <2> QED BY <2>3, <2>4
<1>17. ~BeginSync(p) /\ ~BeginUninstall(p) /\ ~Wipe(p)
  BY <1>1 DEF BeginSync, BeginUninstall, Begin, Wipe, SyncPlaces
<1>18. Kill(p) => cmd'[p].at = "idle" /\ cmd'[p].verdict = "none"
  BY <1>1 DEF Kill, Answer, Ended, Idle
<1> QED BY <1>18, <1>10, <1>11, <1>12, <1>13, <1>14, <1>15, <1>16, <1>17 DEF ToolchainStep

LEMMA SyncStep ==
  ASSUME ToolchainTypeOK, Routed, PinsAreOwn, NEW p \in Procs, ToolchainStep(p),
         cmd[p].op = "sync", SyncStage(cmd[p]), cmd'[p].at # "idle"
  PROVE  SyncStage(cmd[p])'
<1>1. ASSUME NEW e \in Command, Completes(cmd[p], e), cmd'[p] = NextComponent(e)
      PROVE  SyncStage(cmd[p])'
  BY <1>1, Advance DEF Completes
<1> QED BY <1>1, SyncMoves

\* What a sync answers.
LEMMA SyncAnswers ==
  ASSUME ToolchainTypeOK, Routed, PinsAreOwn, NEW p \in Procs, ToolchainStep(p),
         cmd[p].op = "sync", SyncStage(cmd[p]), cmd'[p].at = "idle", cmd'[p].verdict # "none"
  PROVE  /\ cmd'[p].verdict = "ok" => \A t \in Tools : Installed(t, cmd[p])
         /\ cmd'[p].verdict = "degraded" => \A t \in Must : Installed(t, cmd[p])
         /\ \A t \in cmd[p].had \ cmd[p].worn :
              Works(t)' \/ (t = Tool(cmd[p]) /\ cmd[p].at \in {"pinned", "stable"})
<1> PICK d : d = cmd[p]
  OBVIOUS
<1>1. PICK e \in Command : Completes(d, e) /\ cmd'[p] = NextComponent(e)
  BY SyncMoves
<1>2. /\ e.i = Len(Components)
      /\ cmd'[p].verdict = IF e.failed THEN "error" ELSE IF e.warned THEN "degraded" ELSE "ok"
  <2>1. ~(e.i < Len(Components))
    BY <1>1 DEF NextComponent, Command
  <2>2. cmd'[p] = Ended(IF e.failed THEN "error" ELSE IF e.warned THEN "degraded" ELSE "ok")
    BY <1>1, <2>1 DEF NextComponent
  <2> QED BY <2>1, <2>2, SomeComponents DEF Ended, Idle, Command
<1>3. \A t \in Tools : \/ InPlace(t, e)' \/ IF t \in Must THEN e.failed ELSE e.warned
  BY <1>1, <1>2 DEF Completes, Tools
<1>4. \A t \in Tools : InPlace(t, e)' => Installed(t, d)
  BY <1>1 DEF Completes, InPlace, Installed, Recognised
<1>5. Must \subseteq Tools
  BY KindsOfTools
<1>6. cmd'[p].verdict = "ok" => \A t \in Tools : Installed(t, d)
  BY <1>2, <1>3, <1>4
<1>7. cmd'[p].verdict = "degraded" => \A t \in Must : Installed(t, d)
  BY <1>2, <1>3, <1>4, <1>5
<1>8. \A t \in d.had \ d.worn : Works(t)' \/ (t = Tool(d) /\ d.at \in {"pinned", "stable"})
  BY <1>1 DEF Completes
<1> QED BY <1>6, <1>7, <1>8

-----------------------------------------------------------------------------
(* The managed block of AGENTS.md. *)

LEMMA LinesDiffer ==
  /\ Text # Start /\ Text # Finish /\ Start # Finish
  /\ \A r : Body(r) # Text /\ Body(r) # Start /\ Body(r) # Finish
  BY DEF Text, Start, Finish, Body

LEMMA FirstIs ==
  ASSUME NEW S, NEW f \in Seq(S), NEW line, NEW i \in 1..Len(f), f[i] = line,
         \A j \in 1..(i - 1) : f[j] # line
  PROVE  Contains(f, line) /\ First(f, line) = i
<1>1. Contains(f, line)
  BY DEF Contains
<1>2. /\ First(f, line) \in 1..Len(f) /\ f[First(f, line)] = line
      /\ \A j \in 1..(First(f, line) - 1) : f[j] # line
  BY <1>1, FirstPlace
<1>3. ~(First(f, line) < i) /\ ~(i < First(f, line))
  BY <1>2
<1> QED BY <1>1, <1>2, <1>3

\* g is a and then b.
JoinOf(g, a, b) ==
  /\ Len(g) = Len(a) + Len(b)
  /\ \A i \in 1..Len(a) : g[i] = a[i]
  /\ \A i \in 1..Len(b) : g[Len(a) + i] = b[i]

LEMMA Joined ==
  ASSUME NEW S, NEW a \in Seq(S), NEW b \in Seq(S), NEW g, g = a \o b
  PROVE  g \in Seq(S) /\ JoinOf(g, a, b)
<1>1. Len(a) \in Nat /\ Len(b) \in Nat
  BY LenProperties
<1>2. /\ g \in Seq(S) /\ Len(g) = Len(a) + Len(b)
      /\ \A i \in 1..(Len(a) + Len(b)) : g[i] = IF i <= Len(a) THEN a[i] ELSE b[i - Len(a)]
  BY ConcatProperties
<1>3. ASSUME NEW i \in 1..Len(b) PROVE g[Len(a) + i] = b[i]
  <2>1. Len(a) + i \in 1..(Len(a) + Len(b)) /\ ~(Len(a) + i <= Len(a)) /\ Len(a) + i - Len(a) = i
    BY <1>1
  <2> QED BY <1>2, <2>1
<1>4. \A i \in 1..Len(a) : i \in 1..(Len(a) + Len(b)) /\ i <= Len(a)
  BY <1>1
<1> QED BY <1>2, <1>3, <1>4 DEF JoinOf

LEMMA Part ==
  ASSUME NEW S, NEW f \in Seq(S), NEW m \in Nat, NEW n \in Nat, 1 <= m, m <= n + 1, n <= Len(f),
         NEW g, g = SubSeq(f, m, n)
  PROVE  /\ g \in Seq(S) /\ Len(g) = n - m + 1
         /\ \A i \in 1..(n - m + 1) : g[i] = f[m + i - 1]
<1>1. Len(f) \in Nat /\ \A i \in 1..Len(f) : f[i] \in S
  BY LenProperties, ElementOfSeq
<1>2. \A i \in m..n : f[i] \in S
  BY <1>1
<1>3. m \in Int /\ n \in Int
  OBVIOUS
<1>4. /\ g \in Seq(S) /\ Len(g) = IF m <= n THEN n - m + 1 ELSE 0
      /\ \A i \in 1..(n - m + 1) : g[i] = f[m + i - 1]
  BY <1>2, <1>3, SubSeqProperties
<1> QED BY <1>4

\* The lines of a file in which the lines from s to e are replaced.
SpliceOf(g, f, block, s, e) ==
  /\ Len(g) = Len(f) - (e - s) + 2
  /\ \A i \in 1..(s - 1) : g[i] = f[i]
  /\ g[s] = block[1] /\ g[s + 1] = block[2] /\ g[s + 2] = block[3]
  /\ \A i \in (s + 3)..Len(g) : g[i] = f[i + (e - s) - 2]

LEMMA Spliced ==
  ASSUME NEW S, NEW f \in Seq(S), NEW block \in Seq(S), NEW s \in 1..Len(f), NEW e \in 1..Len(f),
         s < e, Len(block) = 3, NEW g,
         g = SubSeq(f, 1, s - 1) \o block \o SubSeq(f, e + 1, Len(f))
  PROVE  g \in Seq(S) /\ SpliceOf(g, f, block, s, e)
<1>0. Len(f) \in Nat /\ s \in Nat /\ e \in Nat /\ s - 1 \in Nat /\ e + 1 \in Nat
  BY LenProperties
<1>1. PICK a : a = SubSeq(f, 1, s - 1)
  OBVIOUS
<1>2. PICK b : b = SubSeq(f, e + 1, Len(f))
  OBVIOUS
<1>3. PICK h : h = a \o block
  OBVIOUS
<1>4. /\ a \in Seq(S) /\ Len(a) = s - 1 - 1 + 1
      /\ \A i \in 1..(s - 1 - 1 + 1) : a[i] = f[1 + i - 1]
  BY <1>0, <1>1, Part
<1>5. /\ b \in Seq(S) /\ Len(b) = Len(f) - (e + 1) + 1
      /\ \A i \in 1..(Len(f) - (e + 1) + 1) : b[i] = f[(e + 1) + i - 1]
  BY <1>0, <1>2, Part
<1>6. Len(a) = s - 1 /\ \A i \in 1..(s - 1) : a[i] = f[i]
  BY <1>0, <1>4
<1>7. h \in Seq(S) /\ JoinOf(h, a, block)
  BY <1>3, <1>4, Joined
<1>8. g \in Seq(S) /\ JoinOf(g, h, b)
  <2>1. g = h \o b
    BY <1>1, <1>2, <1>3
  <2> QED BY <1>5, <1>7, <2>1, Joined
<1>9. Len(h) = s + 2 /\ Len(b) = Len(f) - e
  BY <1>0, <1>5, <1>6, <1>7 DEF JoinOf
<1>10. Len(g) = s + 2 + (Len(f) - e)
  BY <1>8, <1>9 DEF JoinOf
<1>11. ASSUME NEW i \in 1..(s - 1) PROVE g[i] = f[i]
  <2>1. i \in 1..Len(a) /\ i \in 1..Len(h)
    BY <1>0, <1>6, <1>9
  <2> QED BY <1>6, <1>7, <1>8, <2>1 DEF JoinOf
<1>12. g[s] = block[1] /\ g[s + 1] = block[2] /\ g[s + 2] = block[3]
  <2>1. ASSUME NEW i \in 1..3 PROVE g[s - 1 + i] = block[i]
    <3>1. h[s - 1 + i] = block[i]
      BY <1>6, <1>7 DEF JoinOf
    <3>2. s - 1 + i \in 1..Len(h)
      BY <1>0, <1>9
    <3> QED BY <1>8, <3>1, <3>2 DEF JoinOf
  <2>2. s - 1 + 1 = s /\ s - 1 + 2 = s + 1 /\ s - 1 + 3 = s + 2
    BY <1>0
  <2>3. 1 \in 1..3 /\ 2 \in 1..3 /\ 3 \in 1..3
    OBVIOUS
  <2>4. g[s - 1 + 1] = block[1] /\ g[s - 1 + 2] = block[2] /\ g[s - 1 + 3] = block[3]
    BY <2>1, <2>3
  <2> QED BY <2>2, <2>4
<1>13. ASSUME NEW i \in (s + 3)..Len(g) PROVE g[i] = f[i + (e - s) - 2]
  <2>1. PICK k : k = i - (s + 2)
    OBVIOUS
  <2>2. PICK n : n = Len(f)
    OBVIOUS
  <2>3. n \in Nat /\ Len(g) = s + 2 + (n - e) /\ e \in 1..n
    BY <1>0, <1>10, <2>2
  <2>4. i \in (s + 3)..(s + 2 + (n - e))
    BY <2>3
  <2>5. k \in 1..(n - e) /\ s + 2 + k = i /\ (e + 1) + k - 1 = i + (e - s) - 2
    BY <1>0, <2>1, <2>3, <2>4
  <2>6. g[s + 2 + k] = b[k]
    BY <1>8, <1>9, <2>2, <2>5 DEF JoinOf
  <2>7. k \in 1..(n - (e + 1) + 1)
    BY <1>0, <2>3, <2>5
  <2>8. b[k] = f[(e + 1) + k - 1]
    BY <1>5, <2>2, <2>7
  <2> QED BY <2>5, <2>6, <2>8
<1>14. Len(g) = Len(f) - (e - s) + 2
  <2>1. PICK n \in Nat : n = Len(f)
    BY <1>0
  <2>2. s + 2 + (n - e) = n - (e - s) + 2
    BY <1>0
  <2> QED BY <1>10, <2>1, <2>2
<1> QED BY <1>8, <1>11, <1>12, <1>13, <1>14 DEF SpliceOf

LEMMA BlockLines ==
  \A r \in Releases : /\ Block(r) \in Seq(FileLines) /\ Len(Block(r)) = 3
                      /\ Block(r)[1] = Start /\ Block(r)[2] = Body(r) /\ Block(r)[3] = Finish
  BY BlockTyped DEF Block

\* g is f with the block of r in place of the one from s to e.
ReplaceOf(g, f, r, s, e) ==
  /\ g \in Seq(FileLines) /\ s \in 1..Len(f) /\ e \in 1..Len(f) /\ s < e
  /\ f[s] = Start /\ f[e] = Finish
  /\ Len(g) = Len(f) - (e - s) + 2
  /\ \A i \in 1..(s - 1) : g[i] = f[i]
  /\ g[s] = Start /\ g[s + 1] = Body(r) /\ g[s + 2] = Finish
  /\ \A i \in (s + 3)..Len(g) : g[i] = f[i + (e - s) - 2]
  /\ HasBlock(g) /\ First(g, Start) = s /\ First(g, Finish) = s + 2

\* The new block, of three lines, ends inside the new file.
LEMMA BlockFits ==
  \A n \in Nat : \A s \in 1..n, e \in 1..n :
     s < e => /\ s \in 1..(n - (e - s) + 2) /\ s + 2 \in 1..(n - (e - s) + 2)
              /\ \A j \in 1..(s - 1) : j \in 1..(e - 1)
  OBVIOUS

\* A block that is there is replaced by the new one.
LEMMA UpsertReplaces ==
  ASSUME NEW f \in Seq(FileLines), NEW r \in Releases, HasBlock(f), NEW g, g = Upsert(f, Block(r)),
         NEW s, s = First(f, Start), NEW e, e = First(f, Finish)
  PROVE  ReplaceOf(g, f, r, s, e)
<1>0. Len(f) \in Nat
  BY LenProperties
<1>1. /\ s \in 1..Len(f) /\ e \in 1..Len(f) /\ s < e
      /\ f[s] = Start /\ f[e] = Finish
      /\ \A j \in 1..(s - 1) : f[j] # Start
      /\ \A j \in 1..(e - 1) : f[j] # Finish
  BY FirstPlace DEF HasBlock
<1>2. g = SubSeq(f, 1, s - 1) \o Block(r) \o SubSeq(f, e + 1, Len(f))
  BY DEF Upsert
<1>3. /\ g \in Seq(FileLines) /\ Len(g) = Len(f) - (e - s) + 2
      /\ \A i \in 1..(s - 1) : g[i] = f[i]
      /\ g[s] = Start /\ g[s + 1] = Body(r) /\ g[s + 2] = Finish
      /\ \A i \in (s + 3)..Len(g) : g[i] = f[i + (e - s) - 2]
  <2>1. PICK block : block = Block(r)
    OBVIOUS
  <2>2. /\ block \in Seq(FileLines) /\ Len(block) = 3
        /\ block[1] = Start /\ block[2] = Body(r) /\ block[3] = Finish
    BY <2>1, BlockLines
  <2>3. g = SubSeq(f, 1, s - 1) \o block \o SubSeq(f, e + 1, Len(f))
    BY <1>2, <2>1
  <2>4. g \in Seq(FileLines) /\ SpliceOf(g, f, block, s, e)
    BY <1>1, <2>2, <2>3, Spliced
  <2> QED BY <2>2, <2>4 DEF SpliceOf
<1>4. s \in 1..Len(g) /\ s + 2 \in 1..Len(g)
  <2>1. s \in 1..(Len(f) - (e - s) + 2) /\ s + 2 \in 1..(Len(f) - (e - s) + 2)
    BY <1>0, <1>1, BlockFits, ZenonT(40)
  <2> QED BY <1>3, <2>1, ZenonT(40)
<1>5. First(g, Start) = s /\ Contains(g, Start)
  <2>1. \A j \in 1..(s - 1) : g[j] # Start
    BY <1>1, <1>3, ZenonT(40)
  <2> QED BY <1>3, <1>4, <2>1, FirstIs, ZenonT(40)
<1>6. First(g, Finish) = s + 2 /\ Contains(g, Finish)
  <2>1. \A j \in 1..(s - 1) : g[j] # Finish
    <3>1. \A j \in 1..(s - 1) : j \in 1..(e - 1)
      BY <1>0, <1>1, BlockFits, ZenonT(40)
    <3> QED BY <1>1, <1>3, <3>1, ZenonT(40)
  <2>2. \A j \in 1..(s + 2 - 1) : j \in 1..(s - 1) \/ j = s \/ j = s + 1
    BY <1>0, <1>1
  <2>3. \A j \in 1..(s + 2 - 1) : g[j] # Finish
    BY <1>3, <2>1, <2>2, LinesDiffer
  <2>4. PICK k : k = s + 2
    OBVIOUS
  <2>5. k \in 1..Len(g) /\ g[k] = Finish /\ \A j \in 1..(k - 1) : g[j] # Finish
    BY <1>3, <1>4, <2>3, <2>4
  <2>6. Contains(g, Finish) /\ First(g, Finish) = k
    BY <1>3, <2>5, FirstIs
  <2> QED BY <2>4, <2>6
<1> QED BY <1>0, <1>1, <1>3, <1>5, <1>6 DEF HasBlock, ReplaceOf

\* Else it is appended.
LEMMA UpsertAppends ==
  ASSUME NEW f \in Seq(FileLines), NEW r \in Releases, ~HasBlock(f), NEW g, g = Upsert(f, Block(r))
  PROVE  /\ g \in Seq(FileLines) /\ Len(g) = Len(f) + 3
         /\ \A i \in 1..Len(f) : g[i] = f[i]
         /\ g[Len(f) + 1] = Start /\ g[Len(f) + 2] = Body(r) /\ g[Len(f) + 3] = Finish
<1>0. Len(f) \in Nat
  BY LenProperties
<1>1. PICK block : block = Block(r)
  OBVIOUS
<1>2. g = f \o block
  BY <1>1 DEF Upsert
<1>3. /\ g \in Seq(FileLines) /\ Len(g) = Len(f) + Len(block)
      /\ \A i \in 1..Len(f) : g[i] = f[i]
      /\ \A i \in 1..Len(block) : g[Len(f) + i] = block[i]
  <2>1. block \in Seq(FileLines)
    BY <1>1, BlockLines
  <2>2. g \in Seq(FileLines) /\ JoinOf(g, f, block)
    BY <1>2, <2>1, Joined
  <2> QED BY <2>2 DEF JoinOf
<1>4. /\ Len(block) = 3 /\ block[1] = Start /\ block[2] = Body(r) /\ block[3] = Finish
  BY <1>1, BlockLines
<1> QED BY <1>0, <1>3, <1>4

-----------------------------------------------------------------------------
(* The block is there afterwards, and is found again. *)

LEMMA LinesAt ==
  ASSUME NEW g \in Seq(FileLines), NEW r \in Releases, NEW s \in 1..Len(g), s + 2 <= Len(g),
         g[s] = Start, g[s + 1] = Body(r), g[s + 2] = Finish
  PROVE  SubSeq(g, s, s + 2) = Block(r)
<1>0. Len(g) \in Nat /\ s \in Nat /\ s + 2 \in Nat
  BY LenProperties
<1>1. PICK part : part = SubSeq(g, s, s + 2)
  OBVIOUS
<1>2. /\ part \in Seq(FileLines) /\ Len(part) = s + 2 - s + 1
      /\ \A i \in 1..(s + 2 - s + 1) : part[i] = g[s + i - 1]
  BY <1>0, <1>1, Part
<1>3. s + 2 - s + 1 = 3 /\ s + 1 - 1 = s /\ s + 2 - 1 = s + 1 /\ s + 3 - 1 = s + 2
  BY <1>0
<1>4. part[1] = g[s] /\ part[2] = g[s + 1] /\ part[3] = g[s + 2]
  <2>1. 1 \in 1..3 /\ 2 \in 1..3 /\ 3 \in 1..3
    OBVIOUS
  <2>2. part[1] = g[s + 1 - 1] /\ part[2] = g[s + 2 - 1] /\ part[3] = g[s + 3 - 1]
    BY <1>2, <1>3, <2>1
  <2> QED BY <1>3, <2>2
<1>5. PICK block : block = Block(r)
  OBVIOUS
<1>6. /\ block \in Seq(FileLines) /\ Len(block) = 3
      /\ block[1] = Start /\ block[2] = Body(r) /\ block[3] = Finish
  BY <1>5, BlockLines
<1>7. \A i \in 1..Len(part) : part[i] = block[i]
  <2>1. \A i \in 1..Len(part) : i = 1 \/ i = 2 \/ i = 3
    BY <1>2, <1>3
  <2> QED BY <1>4, <1>6, <2>1
<1>8. Len(part) = Len(block)
  BY <1>2, <1>3, <1>6
<1>9. part = block
  BY <1>2, <1>6, <1>7, <1>8, SeqEqual
<1> QED BY <1>1, <1>5, <1>9

\* Nothing is left to do where the block of the release is the first one.
LEMMA FoundAgain ==
  ASSUME NEW g \in Seq(FileLines), NEW r \in Releases, HasBlock(g),
         NEW s, s = First(g, Start), First(g, Finish) = s + 2, g[s + 1] = Body(r)
  PROVE  SubSeq(g, s, s + 2) = Block(r) /\ s \in 1..Len(g) /\ Upsert(g, Block(r)) = g
<1> PICK h : h = Upsert(g, Block(r))
  OBVIOUS
<1> PICK e : e = First(g, Finish)
  OBVIOUS
<1>1. /\ h \in Seq(FileLines) /\ s \in 1..Len(g) /\ e \in 1..Len(g)
      /\ g[s] = Start /\ g[e] = Finish /\ Len(h) = Len(g) - (e - s) + 2
      /\ \A i \in 1..(s - 1) : h[i] = g[i]
      /\ h[s] = Start /\ h[s + 1] = Body(r) /\ h[s + 2] = Finish
      /\ \A i \in (s + 3)..Len(h) : h[i] = g[i + (e - s) - 2]
  <2>1. ReplaceOf(h, g, r, s, e)
    BY UpsertReplaces
  <2> QED BY <2>1 DEF ReplaceOf
<1>2. Len(g) \in Nat /\ s \in Nat /\ e = s + 2
  BY <1>1, LenProperties
<1>3. Len(h) = Len(g) /\ s + 2 <= Len(g)
  BY <1>1, <1>2
<1>4. ASSUME NEW i \in 1..Len(h) PROVE h[i] = g[i]
  <2>1. i \in 1..(s - 1) \/ i = s \/ i = s + 1 \/ i = s + 2 \/ i \in (s + 3)..Len(h)
    BY <1>2, <1>3
  <2>2. CASE i \in (s + 3)..Len(h)
    <3>1. i + (e - s) - 2 = i
      BY <1>2
    <3> QED BY <1>1, <2>2, <3>1
  <2> QED BY <1>1, <1>2, <2>1, <2>2
<1>5. h = g
  BY <1>1, <1>3, <1>4, SeqEqual
<1>6. SubSeq(g, s, s + 2) = Block(r)
  BY <1>1, <1>2, <1>3, LinesAt
<1> QED BY <1>1, <1>5, <1>6

\* However the file looked, the block is in it after it was merged.
LEMMA BlockMerged ==
  ASSUME NEW f \in Seq(FileLines), NEW r \in Releases, NEW g, g = Upsert(f, Block(r))
  PROVE  BlockIsThere(g, r)
<1>0. Len(f) \in Nat
  BY LenProperties
<1>1. CASE HasBlock(f)
  <2> PICK s : s = First(f, Start)
    OBVIOUS
  <2> PICK e : e = First(f, Finish)
    OBVIOUS
  <2>1. /\ g \in Seq(FileLines) /\ g[s + 1] = Body(r)
        /\ HasBlock(g) /\ First(g, Start) = s /\ First(g, Finish) = s + 2
    <3>1. ReplaceOf(g, f, r, s, e)
      BY <1>1, UpsertReplaces
    <3> QED BY <3>1 DEF ReplaceOf
  <2>2. SubSeq(g, s, s + 2) = Block(r) /\ s \in 1..Len(g) /\ Upsert(g, Block(r)) = g
    BY <2>1, FoundAgain
  <2> QED BY <2>2 DEF BlockIsThere
<1>2. CASE ~HasBlock(f)
  <2> PICK n \in Nat : n = Len(f)
    BY <1>0
  <2>1. /\ g \in Seq(FileLines) /\ Len(g) = n + 3
        /\ \A i \in 1..n : g[i] = f[i]
        /\ g[n + 1] = Start /\ g[n + 2] = Body(r) /\ g[n + 3] = Finish
    BY <1>2, UpsertAppends
  <2>2. SubSeq(g, n + 1, n + 3) = Block(r) /\ n + 1 \in 1..Len(g)
    <3>1. PICK s : s = n + 1
      OBVIOUS
    <3>2. s \in 1..Len(g) /\ s + 1 = n + 2 /\ s + 2 = n + 3 /\ s + 2 <= Len(g)
      BY <2>1, <3>1
    <3>3. SubSeq(g, s, s + 2) = Block(r)
      BY <2>1, <3>1, <3>2, LinesAt
    <3>4. SubSeq(g, n + 1, n + 3) = SubSeq(g, s, s + 2) /\ n + 1 \in 1..Len(g)
      BY <3>1, <3>2
    <3> QED BY <3>3, <3>4
  <2>3. ASSUME Sound(g), ~Contains(f, Start) PROVE Upsert(g, Block(r)) = g
    <3>1. \A j \in 1..n : g[j] # Start
      BY <2>1, <2>3 DEF Contains
    <3>2. First(g, Start) = n + 1 /\ HasBlock(g)
      <4>1. PICK s : s = n + 1
        OBVIOUS
      <4>2. s \in 1..Len(g) /\ g[s] = Start /\ \A j \in 1..(s - 1) : g[j] # Start
        BY <2>1, <3>1, <4>1
      <4>3. Contains(g, Start) /\ First(g, Start) = s
        BY <2>1, <4>2, FirstIs
      <4> QED BY <2>3, <4>1, <4>3 DEF Sound
    <3>3. First(g, Finish) = n + 3
      <4>1. PICK e : e = First(g, Finish)
        OBVIOUS
      <4>2. e \in 1..Len(g) /\ g[e] = Finish /\ n + 1 < e
        BY <2>1, <3>2, <4>1, FirstPlace DEF HasBlock
      <4>3. e = n + 2 \/ e = n + 3
        BY <2>1, <4>2
      <4> QED BY <2>1, <4>1, <4>2, <4>3, LinesDiffer
    <3>4. PICK s : s = n + 1
      OBVIOUS
    <3>5. s = First(g, Start) /\ First(g, Finish) = s + 2 /\ g[s + 1] = Body(r)
      BY <2>1, <3>2, <3>3, <3>4
    <3> QED BY <2>1, <3>2, <3>5, FoundAgain
  <2>4. ASSUME Sound(g), Contains(f, Start) PROVE FALSE
    <3> PICK s : s = First(f, Start)
      OBVIOUS
    <3>1. s \in 1..n /\ f[s] = Start /\ \A j \in 1..(s - 1) : f[j] # Start
      BY <2>4, FirstPlace
    <3>2. Contains(g, Start) /\ First(g, Start) = s
      <4>1. s \in 1..Len(g) /\ g[s] = Start /\ \A j \in 1..(s - 1) : g[j] # Start
        BY <2>1, <3>1
      <4> QED BY <2>1, <4>1, FirstIs, ZenonT(40)
    <3>3. ASSUME Contains(f, Finish) PROVE FALSE
      <4> PICK e : e = First(f, Finish)
        OBVIOUS
      <4>1. e \in 1..n /\ f[e] = Finish /\ \A j \in 1..(e - 1) : f[j] # Finish
        BY <3>3, FirstPlace
      <4>2. First(g, Finish) = e
        <5>1. e \in 1..Len(g) /\ g[e] = Finish /\ \A j \in 1..(e - 1) : g[j] # Finish
          BY <2>1, <4>1
        <5> QED BY <2>1, <5>1, FirstIs, ZenonT(40)
      <4>3. ~(s < e)
        BY <1>2, <2>4, <3>3 DEF HasBlock
      <4>4. s < e
        BY <2>4, <3>2, <4>2 DEF Sound, HasBlock
      <4> QED BY <4>3, <4>4
    <3>4. ASSUME ~Contains(f, Finish) PROVE FALSE
      <4> DEFINE starts == {i \in 1..Len(g) : g[i] = Start}
                 finishes == {i \in 1..Len(g) : g[i] = Finish}
      <4>1. finishes = {n + 3}
        <5>1. ASSUME NEW i \in 1..Len(g), g[i] = Finish PROVE i = n + 3
          <6>1. i \in 1..n \/ i = n + 1 \/ i = n + 2 \/ i = n + 3
            BY <2>1
          <6>2. i \notin 1..n
            BY <2>1, <3>4, <5>1 DEF Contains
          <6> QED BY <2>1, <5>1, <6>1, <6>2, LinesDiffer
        <5>2. n + 3 \in 1..Len(g) /\ g[n + 3] = Finish
          BY <2>1
        <5> QED BY <5>1, <5>2
      <4>2. Cardinality(starts) = 1
        <5>1. Cardinality(starts) = Cardinality(finishes)
          BY <2>4 DEF Sound
        <5> QED BY <4>1, <5>1, FS_Singleton
      <4>3. IsFiniteSet(starts)
        <5>1. Len(g) \in Int /\ 1 \in Int
          BY <2>1
        <5>2. IsFiniteSet(1..Len(g))
          BY <5>1, FS_Interval
        <5> QED BY <5>2, FS_Subset
      <4>4. PICK x : starts = {x}
        BY <4>2, <4>3, FS_Singleton
      <4>5. s \in starts /\ n + 1 \in starts /\ s # n + 1
        BY <2>1, <3>1
      <4> QED BY <4>4, <4>5
    <3> QED BY <3>3, <3>4
  <2> QED BY <2>1, <2>2, <2>3, <2>4 DEF BlockIsThere
<1> QED BY <1>1, <1>2

\* init writes the block alone.
LEMMA BlockAlone == \A r \in Releases : BlockIsThere(Block(r), r)
<1> SUFFICES ASSUME NEW r \in Releases PROVE BlockIsThere(Block(r), r)
  OBVIOUS
<1> PICK g : g = Block(r)
  OBVIOUS
<1>1. /\ g \in Seq(FileLines) /\ Len(g) = 3
      /\ g[1] = Start /\ g[2] = Body(r) /\ g[3] = Finish
  BY BlockLines
<1>2. Contains(g, Start) /\ First(g, Start) = 1
  <2>1. 1 \in 1..Len(g) /\ g[1] = Start /\ \A j \in 1..(1 - 1) : g[j] # Start
    BY <1>1
  <2> QED BY <1>1, <2>1, FirstIs
<1>3. Contains(g, Finish) /\ First(g, Finish) = 3
  <2>1. 3 \in 1..Len(g) /\ g[3] = Finish /\ \A j \in 1..(3 - 1) : j = 1 \/ j = 2
    BY <1>1
  <2>2. \A j \in 1..(3 - 1) : g[j] # Finish
    BY <1>1, <2>1, LinesDiffer
  <2> QED BY <1>1, <2>1, <2>2, FirstIs
<1>4. PICK s : s = 1
  OBVIOUS
<1>5. HasBlock(g) /\ s = First(g, Start) /\ First(g, Finish) = s + 2 /\ g[s + 1] = Body(r)
  BY <1>1, <1>2, <1>3, <1>4 DEF HasBlock
<1>6. SubSeq(g, s, s + 2) = Block(r) /\ s \in 1..Len(g) /\ Upsert(g, Block(r)) = g
  BY <1>1, <1>5, FoundAgain
<1> QED BY <1>6 DEF BlockIsThere

-----------------------------------------------------------------------------
(* The user's lines. *)

\* Where a line behind the block that ended at e is, when the block ends at s + 2.
LEMMA Shifted ==
  ASSUME NEW n \in Nat, NEW s \in Nat, NEW e \in Nat, NEW m, 1 <= s, s < e, e <= n,
         m = n - (e - s) + 2, NEW i \in Int, NEW k \in Int,
         k = i - (e - s) + 2 \/ i = k + (e - s) - 2,
         i > e \/ k > s + 2, i <= n \/ k <= m
  PROVE  /\ k = i - (e - s) + 2 /\ i = k + (e - s) - 2
         /\ i \in 1..n /\ i > e /\ ~(i < s)
         /\ k \in 1..m /\ k \in (s + 3)..m /\ k > s + 2
  OBVIOUS

\* A is where f has the user's lines but from line s to line e.
OutsideOf(A, f, n, s, e) ==
  /\ A \in SUBSET (1..n)
  /\ \A i \in 1..n : i \in A <=> f[i] = Text /\ (i < s \/ i > e)

\* g is f but for the block, which ended at e and ends at s + 2.
SameAround(g, f, m, s, e) ==
  /\ \A i \in 1..(s - 1) : g[i] = f[i]
  /\ \A i \in (s + 3)..m : g[i] = f[i + (e - s) - 2]

\* As many lines are outside of both.
LEMMA OutsideCount ==
  ASSUME NEW n \in Nat, NEW m \in Nat, NEW s \in Nat, NEW e \in Nat, 1 <= s, s < e, e <= n,
         m = n - (e - s) + 2, NEW f, NEW g, SameAround(g, f, m, s, e),
         NEW A, OutsideOf(A, f, n, s, e), NEW B, OutsideOf(B, g, m, s, s + 2)
  PROVE  Cardinality(B) = Cardinality(A)
<1> DEFINE down(i) == IF i < s THEN i ELSE i - (e - s) + 2
           F == [i \in A |-> down(i)]
<1>0. /\ A \in SUBSET (1..n) /\ \A i \in 1..n : i \in A <=> f[i] = Text /\ (i < s \/ i > e)
      /\ B \in SUBSET (1..m) /\ \A i \in 1..m : i \in B <=> g[i] = Text /\ (i < s \/ i > s + 2)
      /\ \A i \in 1..(s - 1) : g[i] = f[i]
      /\ \A i \in (s + 3)..m : g[i] = f[i + (e - s) - 2]
  BY DEF OutsideOf, SameAround
<1>1. ASSUME NEW i \in 1..n, f[i] = Text, i < s \/ i > e PROVE down(i) \in B
  <2>1. CASE i < s
    <3>1. i \in 1..(s - 1) /\ i \in 1..m
      BY <2>1
    <3> QED BY <1>0, <1>1, <2>1, <3>1
  <2>2. CASE i > e
    <3>1. PICK k \in Int : k = i - (e - s) + 2
      OBVIOUS
    <3>2. k \in 1..m /\ k \in (s + 3)..m /\ k > s + 2 /\ i = k + (e - s) - 2 /\ ~(i < s)
      BY <2>2, <3>1, Shifted
    <3>3. g[k] = Text
      BY <1>0, <1>1, <3>2
    <3> QED BY <1>0, <3>1, <3>2, <3>3
  <2> QED BY <1>1, <2>1, <2>2
<1>2. ASSUME NEW i \in 1..n, NEW j \in 1..n, i < s \/ i > e, j < s \/ j > e, down(i) = down(j)
      PROVE  i = j
  BY <1>2
<1>3. ASSUME NEW k \in 1..m, g[k] = Text, k < s \/ k > s + 2
      PROVE  \E i \in A : down(i) = k
  <2>1. CASE k < s
    <3>1. k \in 1..(s - 1) /\ k \in 1..n /\ down(k) = k
      BY <2>1
    <3> QED BY <1>0, <1>3, <2>1, <3>1
  <2>2. CASE k > s + 2
    <3>1. PICK i \in Int : i = k + (e - s) - 2
      OBVIOUS
    <3>2. i \in 1..n /\ k \in (s + 3)..m /\ i > e /\ k = i - (e - s) + 2 /\ ~(i < s)
      BY <2>2, <3>1, Shifted
    <3>3. f[i] = Text
      BY <1>0, <1>3, <3>1, <3>2
    <3>4. i \in A /\ down(i) = k
      BY <1>0, <3>2, <3>3
    <3> QED BY <3>4
  <2> QED BY <1>3, <2>1, <2>2
<1>4. F \in [A -> B]
  BY <1>0, <1>1
<1>5. \A i, j \in A : F[i] = F[j] => i = j
  <2>1. SUFFICES ASSUME NEW i \in A, NEW j \in A, F[i] = F[j] PROVE i = j
    OBVIOUS
  <2>2. down(i) = down(j)
    BY <2>1
  <2>3. i \in 1..n /\ j \in 1..n /\ (i < s \/ i > e) /\ (j < s \/ j > e)
    BY <1>0
  <2> QED BY <1>2, <2>2, <2>3
<1>6. \A k \in B : \E i \in A : F[i] = k
  <2>1. SUFFICES ASSUME NEW k \in B PROVE \E i \in A : F[i] = k
    OBVIOUS
  <2>2. PICK i \in A : down(i) = k
    BY <1>0, <1>3
  <2>3. F[i] = k
    BY <2>2
  <2> QED BY <2>3
<1>7. IsFiniteSet(A)
  <2>1. 1 \in Int /\ n \in Int
    OBVIOUS
  <2>2. IsFiniteSet(1..n)
    BY <2>1, FS_Interval
  <2> QED BY <1>0, <2>2, FS_Subset
<1>8. ExistsBijection(A, B)
  <2> HIDE DEF F
  <2>1. F \in Bijection(A, B)
    BY <1>4, <1>5, <1>6, Fun_IsBij
  <2> QED BY <2>1, Fun_ExistsBij
<1> QED BY <1>7, <1>8, FS_Bijection

LEMMA OutsideKept ==
  ASSUME NEW f \in Seq(FileLines), NEW r \in Releases, ~Opened(f), NEW g, g = Upsert(f, Block(r))
  PROVE  Cardinality(Outside(g)) = Cardinality(Outside(f))
<1> PICK n \in Nat : n = Len(f)
  BY LenProperties
<1>1. CASE HasBlock(f)
  <2>1. PICK s, e : s = First(f, Start) /\ e = First(f, Finish)
    OBVIOUS
  <2>2. ReplaceOf(g, f, r, s, e)
    BY <1>1, <2>1, UpsertReplaces
  <2>3. PICK m : m = Len(g)
    OBVIOUS
  <2>4. /\ s \in 1..n /\ e \in 1..n /\ s < e /\ m = n - (e - s) + 2
        /\ \A i \in 1..(s - 1) : g[i] = f[i]
        /\ \A i \in (s + 3)..m : g[i] = f[i + (e - s) - 2]
        /\ HasBlock(g) /\ First(g, Start) = s /\ First(g, Finish) = s + 2
    BY <2>2, <2>3 DEF ReplaceOf
  <2>5. s \in Nat /\ e \in Nat /\ 1 <= s /\ s < e /\ e <= n /\ m \in Nat
    BY <2>4
  <2>6. PICK A : A = Outside(f)
    OBVIOUS
  <2>7. OutsideOf(A, f, n, s, e)
    BY <1>1, <2>1, <2>6 DEF Outside, OutsideOf
  <2>8. PICK B : B = Outside(g)
    OBVIOUS
  <2>9. OutsideOf(B, g, m, s, s + 2) /\ SameAround(g, f, m, s, e)
    BY <2>3, <2>4, <2>8 DEF Outside, OutsideOf, SameAround
  <2>10. Cardinality(B) = Cardinality(A)
    BY <2>4, <2>5, <2>7, <2>9, OutsideCount
  <2> QED BY <2>6, <2>8, <2>10
<1>2. CASE ~HasBlock(f)
  <2>1. /\ g \in Seq(FileLines) /\ Len(g) = n + 3
        /\ \A i \in 1..n : g[i] = f[i]
        /\ g[n + 1] = Start /\ g[n + 2] = Body(r) /\ g[n + 3] = Finish
    BY <1>2, UpsertAppends
  <2>2. First(g, Start) = n + 1
    <3>1. PICK s : s = n + 1
      OBVIOUS
    <3>2. \A j \in 1..n : f[j] # Start
      BY <1>2 DEF Opened, Contains
    <3>3. s \in 1..Len(g) /\ g[s] = Start /\ \A j \in 1..(s - 1) : g[j] # Start
      BY <2>1, <3>1, <3>2
    <3>4. First(g, Start) = s
      BY <2>1, <3>3, FirstIs
    <3> QED BY <3>1, <3>4
  <2>3. ASSUME NEW i \in 1..Len(g), g[i] = Text PROVE i \in 1..n
    <3>1. i \in 1..n \/ i = n + 1 \/ i = n + 2 \/ i = n + 3
      BY <2>1
    <3> QED BY <2>1, <2>3, <3>1, LinesDiffer
  <2>4. \A i \in 1..n : i \in 1..Len(g) /\ i < n + 1
    BY <2>1
  <2>5. Outside(f) = {i \in 1..n : f[i] = Text}
    BY <1>2 DEF Outside
  <2>6. ASSUME NEW i \in 1..n PROVE i \in Outside(g) <=> f[i] = Text
    BY <2>1, <2>2, <2>4 DEF Outside
  <2>7. \A i \in Outside(g) : i \in 1..n
    BY <2>3 DEF Outside
  <2>8. Outside(g) = Outside(f)
    BY <2>5, <2>6, <2>7
  <2> QED BY <2>8
<1> QED BY <1>1, <1>2

-----------------------------------------------------------------------------
(* ide configure and init: what each step leaves for the next. *)

\* Who changes the place of a command is the command.
LEMMA WhoMoves ==
  ASSUME ToolchainTypeOK, Routed, [Next]_vars, NEW p \in Procs, cmd'[p].at # cmd[p].at
  PROVE  (ToolchainStep(p) /\ UNCHANGED ideVars) \/ IdeStep(p)
<1>1. cmd \in [Procs -> Command]
  BY DEF ToolchainTypeOK
<1>2. ASSUME NEW q \in Procs, q # p, Starts(q) \/ GoesOn(q) PROVE FALSE
  BY <1>1, <1>2 DEF Starts, GoesOn, Begin, Command
<1>3. ~Disturb
  BY <1>1 DEF Disturb, Command
<1>4. ~UNCHANGED vars
  BY DEF vars, toolVars
<1>5. PICK q \in Procs : (ToolchainStep(q) /\ UNCHANGED ideVars) \/ IdeStep(q)
  BY <1>3, <1>4 DEF Next, Upgrade, UserStep
<1>6. Starts(q) \/ GoesOn(q)
  BY <1>5, ToolchainKinds, IdeKinds
<1> QED BY <1>2, <1>5, <1>6

\* Where steps of each kind begin and end.
LEMMA ToolchainPlaces ==
  ASSUME ToolchainTypeOK, NEW p \in Procs, ToolchainStep(p)
  PROVE  /\ cmd'[p].at \in SyncPlaces \cup {"idle", "wipe"}
         /\ cmd[p].at \in SyncPlaces \cup {"idle", "wipe"} \/ Kill(p)
         /\ cmd[p].at = "wipe" => cmd'[p].at = "idle"
         /\ Kill(p) => cmd'[p].at = "idle" /\ cmd'[p].verdict = "none"
<1>1. cmd \in [Procs -> Command] /\ cmd[p] \in Command
  BY DEF ToolchainTypeOK
<1>2. \A place : Goto(p, place) => cmd'[p].at = place
  BY <1>1 DEF Goto, Command
<1>3. \A c : NextComponent(c).at \in {"fetch", "idle"} \/ c \notin Command
  BY DEF NextComponent, Ended, Idle, Command
<1>4. \A v : Answer(p, v) => cmd'[p].at = "idle" /\ cmd'[p].verdict = v
  BY <1>1 DEF Answer, Ended, Idle
<1>5. CASE BeginSync(p) \/ BeginUninstall(p)
  <2>1. cmd[p].at = "idle" /\ cmd'[p].at \in {"fetch", "wipe"}
    BY <1>1, <1>5 DEF BeginSync, BeginUninstall, Begin, Idle
  <2> QED BY <2>1, <1>4 DEF Kill, SyncPlaces
<1>6. CASE FetchHit(p)
  <2>1. cmd[p].at = "fetch" /\ cmd'[p].at \in {"fetch", "idle", "hit"}
    BY <1>1, <1>2, <1>3, <1>6 DEF FetchHit
  <2> QED BY <2>1, <1>4 DEF Kill, SyncPlaces
<1>7. CASE FetchMiss(p) \/ Get(p)
  <2>1. cmd[p].at \in {"fetch", "get"} /\ cmd'[p].at \in {"get", "pinned"}
    BY <1>1, <1>2, <1>7 DEF FetchMiss, Get
  <2> QED BY <2>1, <1>4 DEF Kill, SyncPlaces
<1>8. CASE GetFails(p)
  <2>1. cmd[p].at = "get" /\ cmd'[p].at \in {"fetch", "idle"}
    <3>1. Failed(cmd[p]) \in Command
      BY <1>1, FailedTyped
    <3> QED BY <1>1, <1>3, <1>8, <3>1 DEF GetFails
  <2> QED BY <2>1, <1>4 DEF Kill, SyncPlaces
<1>9. CASE CopyPinned(p)
  <2>1. cmd[p].at = "pinned" /\ cmd'[p].at = "stable"
    BY <1>1, <1>2, <1>9 DEF CopyPinned
  <2> QED BY <2>1, <1>4 DEF Kill, SyncPlaces
<1>10. CASE CopyStable(p)
  <2>1. cmd[p].at \in {"stable", "hit"} /\ cmd'[p].at \in {"fetch", "idle"}
    BY <1>1, <1>3, <1>10 DEF CopyStable
  <2> QED BY <2>1, <1>4 DEF Kill, SyncPlaces
<1>11. CASE CopyBreaks(p)
  <2>1. cmd[p].at \in {"pinned", "stable", "hit"} /\ cmd'[p].at \in {"fetch", "idle"}
    <3>1. PICK d : d = [cmd[p] EXCEPT !.worn = @ \cup {Tool(cmd[p])}]
      OBVIOUS
    <3>2. Tool(cmd[p]) \in Tools
      BY <1>1, ToolTyped
    <3>3. d \in Command
      BY <1>1, <3>1, <3>2 DEF Command
    <3>4. Failed(d) \in Command
      BY <3>3, FailedTyped
    <3> QED BY <1>1, <1>3, <1>4, <1>11, <3>1, <3>4 DEF CopyBreaks
  <2> QED BY <2>1, <1>4 DEF Kill, SyncPlaces
<1>12. CASE Wipe(p)
  <2>1. cmd[p].at = "wipe" /\ cmd'[p].at = "idle"
    BY <1>4, <1>12 DEF Wipe
  <2> QED BY <2>1, <1>4 DEF Kill, SyncPlaces
<1>13. CASE Kill(p)
  BY <1>4, <1>13 DEF Kill, SyncPlaces
<1> QED BY <1>5, <1>6, <1>7, <1>8, <1>9, <1>10, <1>11, <1>12, <1>13 DEF ToolchainStep

LEMMA IdeStepPlaces ==
  ASSUME ToolchainTypeOK, NEW p \in Procs, IdeStep(p)
  PROVE  /\ cmd[p].at \in IdePlaces \cup {"idle"} /\ cmd'[p].at \in IdePlaces \cup {"idle"}
         /\ cmd[p].at = "idle" => /\ cmd'[p].at \in {"agents", "ignore"}
                                  /\ cmd'[p].at = "ignore" => cmd'[p].op = "ide"
<1>1. cmd \in [Procs -> Command] /\ cmd[p] \in Command
  BY DEF ToolchainTypeOK
<1>2. \A place : Goes(p, place) => cmd'[p].at = place
  BY <1>1 DEF Goes, Goto, Command
<1>3. \A v : Answer(p, v) => cmd'[p].at = "idle" /\ cmd'[p].verdict = v
  BY <1>1 DEF Answer, Ended, Idle
<1>4. ASSUME NEW force \in BOOLEAN, NEW agentsToo \in BOOLEAN, BeginConfigure(p, force, agentsToo)
      PROVE  /\ cmd[p].at = "idle" /\ cmd'[p].at \in {"agents", "ignore"}
             /\ cmd'[p].at = "ignore" => cmd'[p].op = "ide"
  BY <1>1, <1>4 DEF BeginConfigure, Begin, Idle
<1>5. CASE BeginInit(p)
  <2>1. cmd[p].at = "idle" /\ cmd'[p].at = "agents"
    BY <1>1, <1>5 DEF BeginInit, Begin, Idle
  <2> QED BY <2>1 DEF IdePlaces
<1>6. CASE MergeAgents(p) \/ MergeIgnore(p) \/ MergeMcp(p)
  BY <1>2, <1>6 DEF MergeAgents, MergeIgnore, MergeMcp, IdePlaces
<1>7. CASE WriteRules(p) \/ WriteBreaks(p)
  BY <1>3, <1>7 DEF WriteRules, WriteBreaks, IdePlaces
<1> QED BY <1>4, <1>5, <1>6, <1>7 DEF IdeStep, IdePlaces

LEMMA IdeStageStep ==
  ASSUME TypeOK, NEW p \in Procs, IdeStep(p), cmd[p].at = "idle" \/ IdeStage(cmd[p]),
         cmd'[p].at # "idle"
  PROVE  IdeStage(cmd[p])'
<1>1. /\ cmd \in [Procs -> Command] /\ cmd[p] \in Command /\ cmd[p].pin \in Releases
      /\ agents \in Seq(FileLines)
  BY DEF TypeOK, ToolchainTypeOK, Command, FileLines
<1>2. ASSUME NEW place, Goes(p, place)
      PROVE  cmd'[p].at = place /\ cmd'[p].op = cmd[p].op /\ cmd'[p].pin = cmd[p].pin
  BY <1>1, <1>2 DEF Goes, Goto, Command
<1>3. CASE cmd[p].at = "idle"
  BY <1>3, IdeStepPlaces DEF TypeOK, IdeStage
<1>4. CASE MergeAgents(p)
  <2>1. cmd[p].at = "agents" /\ cmd'[p].at = "ignore" /\ cmd'[p].pin = cmd[p].pin
    BY <1>2, <1>4 DEF MergeAgents
  <2>2. agents' = Block(cmd[p].pin) \/ agents' = Upsert(agents, Block(cmd[p].pin))
    BY <1>4 DEF MergeAgents
  <2>3. BlockIsThere(agents', cmd[p].pin)
    BY <1>1, <2>2, BlockAlone, BlockMerged
  <2> QED BY <2>1, <2>3 DEF IdeStage
<1>5. CASE MergeIgnore(p) /\ IdeStage(cmd[p])
  <2>1. /\ cmd[p].at = "ignore" /\ cmd'[p].at = "mcp"
        /\ cmd'[p].op = cmd[p].op /\ cmd'[p].pin = cmd[p].pin /\ agents' = agents
    BY <1>2, <1>5 DEF MergeIgnore
  <2>2. Lines \subseteq ignore'
    BY <1>5 DEF MergeIgnore
  <2> QED BY <1>5, <2>1, <2>2 DEF IdeStage
<1>6. CASE MergeMcp(p) /\ IdeStage(cmd[p])
  <2>1. /\ cmd[p].at = "mcp" /\ cmd'[p].at = "rules"
        /\ cmd'[p].op = cmd[p].op /\ cmd'[p].pin = cmd[p].pin /\ UNCHANGED <<agents, ignore>>
    BY <1>2, <1>6 DEF MergeMcp
  <2>2. \A ide \in Ides : Servers \subseteq mcp'[ide].servers
    BY <1>6 DEF MergeMcp
  <2> QED BY <1>6, <2>1, <2>2 DEF IdeStage
<1>7. CASE WriteRules(p) \/ WriteBreaks(p)
  BY <1>1, <1>7 DEF WriteRules, WriteBreaks, Answer, Ended, Idle
<1>8. CASE BeginInit(p) \/ \E force, agentsToo \in BOOLEAN : BeginConfigure(p, force, agentsToo)
  BY <1>3, <1>8 DEF BeginInit, BeginConfigure, Begin
<1> QED BY <1>3, <1>4, <1>5, <1>6, <1>7, <1>8 DEF IdeStep, MergeIgnore, MergeMcp

-----------------------------------------------------------------------------
(* The invariant. *)

LEMMA IInvInit == Init => IInv
<1> SUFFICES ASSUME Init PROVE IInv
  OBVIOUS
<1>1. \A p \in Procs : cmd[p] = Idle
  BY DEF Init, ToolchainInit
<1>2. Routed /\ \A p \in Procs : Stage(p)
  BY <1>1 DEF Routed, RoutedCommand, Stage, Idle, SyncPlaces, IdePlaces, IdeOps
<1>3. PinsAreOwn
  BY DEF Init, ToolchainInit, PinsAreOwn, Missing, Bare, Releases
<1>4. NoServers
  BY DEF Init, NoServers
<1> QED BY <1>2, <1>3, <1>4, TypesInit DEF IInv

LEMMA NoServersStep == TypeOK /\ NoServers /\ [Next]_vars => NoServers'
<1> SUFFICES ASSUME TypeOK, NoServers, [Next]_vars PROVE NoServers'
  OBVIOUS
<1>1. CASE UNCHANGED mcp
  BY <1>1 DEF NoServers
<1>2. ASSUME NEW ide \in Ides, NEW servers, mcp' = [mcp EXCEPT ![ide] = [file |-> "json", servers |-> servers]]
      PROVE  NoServers'
  BY <1>2 DEF NoServers, TypeOK
<1>3. ASSUME NEW ide \in Ides, mcp' = [mcp EXCEPT ![ide] = [file |-> "garbled", servers |-> {}]]
      PROVE  NoServers'
  BY <1>3 DEF NoServers, TypeOK
<1>4. CASE EditMcp
  <2>1. PICK ide \in Ides, server \in Servers :
          mcp' \in {[mcp EXCEPT ![ide] = [file |-> "json", servers |-> (@.servers \cup {"users"}) \ {server}]],
                    [mcp EXCEPT ![ide] = [file |-> "garbled", servers |-> {}]]}
    BY <1>4 DEF EditMcp
  <2> QED BY <1>2, <1>3, <2>1
<1>5. ASSUME NEW p \in Procs, IdeStep(p) PROVE NoServers'
  <2>1. CASE MergeMcp(p)
    BY <2>1 DEF MergeMcp, NoServers
  <2>2. CASE WriteBreaks(p)
    <3>1. PICK ide \in Ides : mcp' = IF cmd[p].at = "mcp" THEN [mcp EXCEPT ![ide] = [file |-> "garbled", servers |-> {}]]
                                     ELSE mcp
      BY <2>2 DEF WriteBreaks
    <3> QED BY <1>1, <1>3, <3>1
  <2>3. CASE UNCHANGED mcp
    BY <1>1, <2>3
  <2> QED BY <1>5, <2>1, <2>2, <2>3 DEF IdeStep, BeginConfigure, BeginInit, MergeAgents, MergeIgnore,
             WriteRules, ideVars
<1> QED BY <1>1, <1>4, <1>5 DEF Next, Upgrade, UserStep, EditAgents, EditIgnore, EditRule, ideVars, vars

LEMMA StageStep == IInv /\ [Next]_vars => \A p \in Procs : Stage(p)'
<1> SUFFICES ASSUME IInv, [Next]_vars PROVE \A p \in Procs : Stage(p)'
  OBVIOUS
<1>1. TypeOK /\ ToolchainTypeOK /\ Routed /\ PinsAreOwn /\ \A p \in Procs : Stage(p)
  BY DEF IInv, TypeOK
<1>2. Routed'
  BY <1>1, RoutedStep
<1>3. ASSUME NEW p \in Procs, ToolchainStep(p), UNCHANGED ideVars PROVE \A q \in Procs : Stage(q)'
  <2>1. Starts(p) \/ GoesOn(p)
    BY <1>1, <1>3, ToolchainKinds
  <2>2. /\ \A q \in Procs \ {p} : Stage(q)'
        /\ cmd'[p].at # "idle" /\ cmd'[p].alone => Active' = {p}
        /\ cmd'[p].at # "idle" /\ cmd'[p].alone /\ GoesOn(p) => cmd[p].alone
    BY <1>1, <2>1, AloneSteps
  <2>3. cmd'[p].op \notin IdeOps \/ cmd'[p].at = "idle"
    <3>1. RoutedCommand(cmd'[p]) /\ cmd'[p].at \in SyncPlaces \cup {"idle", "wipe"}
      BY <1>1, <1>2, <1>3, ToolchainPlaces DEF Routed
    <3> QED BY <3>1 DEF RoutedCommand, SyncPlaces, IdePlaces
  <2>4. ASSUME cmd'[p].at # "idle", cmd'[p].alone, cmd'[p].op = "sync" PROVE SyncStage(cmd[p])'
    <3>1. CASE Starts(p)
      <4>1. cmd[p].at = "idle"
        BY <3>1 DEF Starts, Begin
      <4>2. BeginSync(p) \/ BeginUninstall(p)
        BY <1>3, <4>1 DEF ToolchainStep, FetchHit, FetchMiss, Get, GetFails, CopyPinned,
                          CopyStable, CopyBreaks, Wipe, Kill
      <4>3. ~BeginUninstall(p)
        <5>1. BeginUninstall(p) => cmd'[p] = [[Idle EXCEPT !.at = "wipe", !.op = "uninstall"]
                                                 EXCEPT !.alone = Active = {}]
          BY DEF BeginUninstall, Begin
        <5>2. BeginUninstall(p) => cmd'[p].op = "uninstall"
          BY <5>1 DEF Idle
        <5> QED BY <2>4, <5>2
      <4> QED BY <1>1, <4>2, <4>3, SyncBegins
    <3>2. CASE GoesOn(p)
      <4>1. cmd[p].at # "idle" /\ cmd[p].alone
        BY <2>2, <2>4, <3>2 DEF GoesOn
      <4>2. cmd[p].at \in SyncPlaces
        BY <1>1, <1>3, <2>4, <4>1, ToolchainPlaces
      <4>3. cmd[p].op = "sync"
        BY <1>1, <4>2 DEF Routed, RoutedCommand
      <4>4. SyncStage(cmd[p])
        BY <1>1, <4>1, <4>3 DEF Stage
      <4> QED BY <1>1, <1>3, <2>4, <4>3, <4>4, SyncStep
    <3> QED BY <2>1, <3>1, <3>2
  <2>5. Stage(p)'
    BY <2>2, <2>3, <2>4 DEF Stage
  <2> QED BY <2>2, <2>5
<1>4. ASSUME NEW p \in Procs, IdeStep(p) PROVE \A q \in Procs : Stage(q)'
  <2>1. Starts(p) \/ GoesOn(p)
    BY <1>1, <1>4, IdeKinds
  <2>2. /\ \A q \in Procs \ {p} : Stage(q)'
        /\ cmd'[p].at # "idle" /\ cmd'[p].alone => Active' = {p}
        /\ cmd'[p].at # "idle" /\ cmd'[p].alone /\ GoesOn(p) => cmd[p].alone
    BY <1>1, <2>1, AloneSteps
  <2>3. cmd'[p].op # "sync" \/ cmd'[p].at = "idle"
    <3>1. RoutedCommand(cmd'[p]) /\ cmd'[p].at \in IdePlaces \cup {"idle"}
      BY <1>1, <1>2, <1>4, IdeStepPlaces DEF Routed
    <3> QED BY <3>1 DEF RoutedCommand, SyncPlaces, IdePlaces
  <2>4. ASSUME cmd'[p].at # "idle", cmd'[p].alone PROVE IdeStage(cmd[p])'
    <3>1. CASE Starts(p)
      <4>1. cmd[p].at = "idle"
        BY <3>1 DEF Starts, Begin
      <4> QED BY <1>1, <1>4, <2>4, <4>1, IdeStageStep
    <3>2. CASE GoesOn(p)
      <4>1. cmd[p].at # "idle" /\ cmd[p].alone
        BY <2>2, <2>4, <3>2 DEF GoesOn
      <4>2. cmd[p].at \in IdePlaces
        BY <1>1, <1>4, <4>1, IdeStepPlaces
      <4>3. cmd[p].op \in IdeOps
        BY <1>1, <4>2 DEF Routed, RoutedCommand
      <4>4. IdeStage(cmd[p])
        BY <1>1, <4>1, <4>3 DEF Stage
      <4> QED BY <1>1, <1>4, <2>4, <4>4, IdeStageStep
    <3> QED BY <2>1, <3>1, <3>2
  <2>5. Stage(p)'
    BY <2>2, <2>3, <2>4 DEF Stage
  <2> QED BY <2>2, <2>5
<1>5. CASE Upgrade \/ UserStep
  BY <1>1, <1>5, DisturbStage DEF Upgrade, UserStep
<1>6. CASE UNCHANGED vars
  <2>1. UNCHANGED <<release, pinned, stable, cmd, agents, ignore, mcp>>
    BY <1>6 DEF vars, toolVars, ideVars
  <2>2. ASSUME NEW p \in Procs PROVE Stage(p)'
    <3>1. Stage(p)
      BY <1>1
    <3>2. SyncStage(cmd[p]) => SyncStage(cmd[p])'
      BY <2>1 DEF SyncStage, DealtWith, InPlace, Recognised, WornKnown, StillWork, Works, Resolve
    <3>3. IdeStage(cmd[p]) => IdeStage(cmd[p])'
      BY <2>1 DEF IdeStage
    <3>4. Active' = Active
      BY <2>1 DEF Active
    <3> QED BY <2>1, <3>1, <3>2, <3>3, <3>4 DEF Stage
  <2> QED BY <2>2
<1> QED BY <1>3, <1>4, <1>5, <1>6 DEF Next

LEMMA IInvStep == IInv /\ [Next]_vars => IInv'
<1> SUFFICES ASSUME IInv, [Next]_vars PROVE IInv'
  OBVIOUS
<1>1. TypeOK' /\ Routed' /\ PinsAreOwn' /\ NoServers'
  BY TypesStep, RoutedStep, PinsStep, NoServersStep DEF IInv, TypeOK
<1>2. \A p \in Procs : Stage(p)'
  BY StageStep
<1> QED BY <1>1, <1>2 DEF IInv

THEOREM Inductive == Spec => []IInv
<1> QED BY IInvInit, IInvStep, PTL DEF Spec

-----------------------------------------------------------------------------
(* What is promised. *)

\* A sync that answers takes the step itself.
LEMMA SyncMoved ==
  ASSUME ToolchainTypeOK, Routed, NEW p \in Procs, Stage(p), [Next]_vars, Answers(p, "sync")
  PROVE  /\ ToolchainStep(p) /\ cmd[p].op = "sync" /\ SyncStage(cmd[p])
         /\ cmd'[p].at = "idle" /\ cmd'[p].verdict # "none"
<1>1. cmd[p].op = "sync" /\ cmd[p].at # "idle" /\ cmd[p].alone
      /\ cmd'[p].at = "idle" /\ cmd'[p].verdict # "none"
  BY DEF Answers
<1>2. SyncStage(cmd[p])
  BY <1>1 DEF Stage
<1>3. cmd[p].at \in SyncPlaces
  BY <1>1 DEF Routed, RoutedCommand
<1>4. ~IdeStep(p)
  BY <1>1, <1>3, IdeStepPlaces DEF SyncPlaces, IdePlaces
<1> QED BY <1>1, <1>2, <1>4, WhoMoves

\* The variables of Toolchain and IdeConfig hold what is declared for them
\* (core/toolchain/sync.py:158).
THEOREM ToolTypes == Spec => []TypeOK
<1> QED BY Inductive, PTL DEF IInv

\* For any tools, releases and processes: a sync that nobody disturbed and that
\* answers ok has installed every tool, and one that answers degraded those it cannot
\* do without, whatever broken-off commands left in the cache
\* (core/toolchain/sync.py:158, core/toolchain/fetchers/bslls.py:42).
THEOREM SyncInstalls == Spec => SyncOkInstalls
<1>1. IInv /\ [Next]_vars => [\A p \in Procs : Answers(p, "sync") =>
         CASE cmd'[p].verdict = "ok" -> \A t \in Tools : Installed(t, cmd[p])
           [] cmd'[p].verdict = "degraded" -> \A t \in Must : Installed(t, cmd[p])
           [] OTHER -> TRUE]_toolVars
  <2>1. SUFFICES ASSUME IInv, [Next]_vars, NEW p \in Procs, Answers(p, "sync")
                 PROVE  /\ cmd'[p].verdict = "ok" => \A t \in Tools : Installed(t, cmd[p])
                        /\ cmd'[p].verdict = "degraded" => \A t \in Must : Installed(t, cmd[p])
    OBVIOUS
  <2>2. ToolchainTypeOK /\ Routed /\ PinsAreOwn /\ Stage(p)
    BY <2>1 DEF IInv, TypeOK
  <2>3. ToolchainStep(p) /\ cmd[p].op = "sync" /\ SyncStage(cmd[p])
        /\ cmd'[p].at = "idle" /\ cmd'[p].verdict # "none"
    BY <2>1, <2>2, SyncMoved
  <2> QED BY <2>2, <2>3, SyncAnswers
<1> QED BY <1>1, Inductive, PTL DEF Spec, SyncOkInstalls

\* ... and it has kept the tools working that worked when it began, unless a copy was
\* broken off (core/toolchain/fetchers/xmlgen.py:41, apache.py:372).
THEOREM SyncKeeps == Spec => SyncKeepsTools
<1>1. IInv /\ [Next]_vars => [\A p \in Procs : Answers(p, "sync") =>
         \A t \in cmd[p].had \ cmd[p].worn :
           Works(t)' \/ (t = Tool(cmd[p]) /\ cmd[p].at \in {"pinned", "stable"})]_toolVars
  <2>1. SUFFICES ASSUME IInv, [Next]_vars, NEW p \in Procs, Answers(p, "sync")
                 PROVE  \A t \in cmd[p].had \ cmd[p].worn :
                          Works(t)' \/ (t = Tool(cmd[p]) /\ cmd[p].at \in {"pinned", "stable"})
    OBVIOUS
  <2>2. ToolchainTypeOK /\ Routed /\ PinsAreOwn /\ Stage(p)
    BY <2>1 DEF IInv, TypeOK
  <2>3. ToolchainStep(p) /\ cmd[p].op = "sync" /\ SyncStage(cmd[p])
        /\ cmd'[p].at = "idle" /\ cmd'[p].verdict # "none"
    BY <2>1, <2>2, SyncMoved
  <2> QED BY <2>2, <2>3, SyncAnswers
<1> QED BY <1>1, Inductive, PTL DEF Spec, SyncKeepsTools

\* A configure that gets through its write keeps what the user wrote, in a file of any
\* length and with markers in any order (core/project/ide.py:204, core/project/ide.py:484).
THEOREM ContentKept == Spec => UserContentKept
<1> DEFINE Kept(p) ==
      /\ cmd[p].at \in {"agents", "ignore", "mcp", "rules"} /\ cmd'[p].at # cmd[p].at
      /\ cmd'[p].at = "idle" => cmd'[p].verdict = "ok"
      => /\ \A ide \in Ides : rules[ide] = Foreign => rules'[ide] = Foreign
         /\ ~cmd[p].force =>
              /\ ~Opened(agents) => Cardinality(Outside(agents')) = Cardinality(Outside(agents))
              /\ ignore \subseteq ignore'
              /\ \A ide \in Ides : mcp[ide].servers \subseteq mcp'[ide].servers
<1>1. ASSUME IInv, [Next]_vars, NEW p \in Procs PROVE Kept(p)
  <2>1. SUFFICES ASSUME cmd[p].at \in IdePlaces, cmd'[p].at # cmd[p].at,
                        cmd'[p].at = "idle" => cmd'[p].verdict = "ok"
                 PROVE  /\ \A ide \in Ides : rules[ide] = Foreign => rules'[ide] = Foreign
                        /\ ~cmd[p].force =>
                             /\ ~Opened(agents) => Cardinality(Outside(agents')) = Cardinality(Outside(agents))
                             /\ ignore \subseteq ignore'
                             /\ \A ide \in Ides : mcp[ide].servers \subseteq mcp'[ide].servers
    BY DEF IdePlaces
  <2>2. /\ ToolchainTypeOK /\ Routed /\ cmd[p].pin \in Releases /\ agents \in Seq(FileLines)
        /\ cmd \in [Procs -> Command]
    BY <1>1 DEF IInv, TypeOK, ToolchainTypeOK, Command, FileLines
  <2>3. IdeStep(p)
    BY <1>1, <2>1, <2>2, WhoMoves, ToolchainPlaces DEF IdePlaces, SyncPlaces
  <2>4. CASE MergeAgents(p)
    <3>1. UNCHANGED <<ignore, mcp, rules>>
      BY <2>4 DEF MergeAgents
    <3>2. ~cmd[p].force => agents' = Upsert(agents, Block(cmd[p].pin))
      BY <2>4 DEF MergeAgents
    <3>3. ~cmd[p].force /\ ~Opened(agents) => Cardinality(Outside(agents')) = Cardinality(Outside(agents))
      BY <2>2, <3>2, OutsideKept
    <3> QED BY <3>1, <3>3
  <2>5. CASE MergeIgnore(p)
    BY <2>5 DEF MergeIgnore
  <2>6. CASE MergeMcp(p)
    <3>1. UNCHANGED <<agents, ignore, rules>>
      BY <2>6 DEF MergeMcp
    <3>2. ASSUME ~cmd[p].force, NEW ide \in Ides PROVE mcp[ide].servers \subseteq mcp'[ide].servers
      <4>1. mcp'[ide].servers = IF mcp[ide].file # "json" THEN Servers ELSE mcp[ide].servers \cup Servers
        BY <2>6, <3>2 DEF MergeMcp
      <4>2. mcp[ide].file # "json" => mcp[ide].servers = {}
        BY <1>1, <3>2 DEF IInv, NoServers
      <4> QED BY <4>1, <4>2
    <3> QED BY <3>1, <3>2
  <2>7. CASE WriteRules(p)
    BY <2>7 DEF WriteRules
  <2>8. ~WriteBreaks(p)
    BY <2>1, <2>2 DEF WriteBreaks, Answer, Ended, Idle
  <2>9. ~BeginInit(p) /\ \A force, agentsToo \in BOOLEAN : ~BeginConfigure(p, force, agentsToo)
    BY <2>1 DEF BeginInit, BeginConfigure, Begin, IdePlaces
  <2> QED BY <2>3, <2>4, <2>5, <2>6, <2>7, <2>8, <2>9 DEF IdeStep
<1>2. IInv /\ [Next]_vars => [\A p \in Procs : Kept(p)]_vars
  BY <1>1
<1> QED BY <1>2, Inductive, PTL DEF Spec, UserContentKept

\* A configure or init that nobody disturbed and that answers ok has everything of its
\* release in place, and another one would find nothing to do, whatever the user did to
\* AGENTS.md and its markers before (core/project/ide.py:527).
THEOREM ConfigureDone == Spec => ConfigureOkDone
<1> DEFINE Done(p, op) ==
      LET r == cmd[p].pin
      IN /\ Lines \subseteq ignore'
         /\ \A ide \in Ides : Servers \subseteq mcp'[ide].servers /\ rules'[ide] \in {r, Foreign}
         /\ op # "ide" =>
              /\ \E i \in 1..Len(agents') : SubSeq(agents', i, i + 2) = Block(r)
              /\ Sound(agents') => Upsert(agents', Block(r)) = agents'
<1>1. ASSUME IInv, [Next]_vars, NEW p \in Procs, NEW op \in IdeOps,
             Answers(p, op), cmd'[p].verdict = "ok"
      PROVE  Done(p, op)
  <2>1. /\ ToolchainTypeOK /\ Routed /\ Stage(p) /\ rules \in [Ides -> {Missing, Foreign} \cup Releases]
        /\ cmd \in [Procs -> Command]
    BY <1>1 DEF IInv, TypeOK, ToolchainTypeOK
  <2>2. cmd[p].op = op /\ cmd[p].at # "idle" /\ cmd[p].alone /\ cmd'[p].at = "idle"
    BY <1>1 DEF Answers
  <2>3. IdeStage(cmd[p]) /\ cmd[p].at \in IdePlaces
    BY <1>1, <2>1, <2>2 DEF Stage, Routed, RoutedCommand
  <2>4. IdeStep(p)
    BY <1>1, <2>1, <2>2, <2>3, WhoMoves, ToolchainPlaces DEF IdePlaces, SyncPlaces
  <2>5. WriteRules(p)
    <3>1. ~WriteBreaks(p)
      BY <1>1, <2>1 DEF WriteBreaks, Answer, Ended, Idle
    <3>2. ~BeginInit(p) /\ \A force, agentsToo \in BOOLEAN : ~BeginConfigure(p, force, agentsToo)
      BY <2>2 DEF BeginInit, BeginConfigure, Begin
    <3>3. ~MergeAgents(p) /\ ~MergeIgnore(p) /\ ~MergeMcp(p)
      BY <2>1, <2>2 DEF MergeAgents, MergeIgnore, MergeMcp, Goes, Goto, Command
    <3> QED BY <2>4, <3>1, <3>2, <3>3 DEF IdeStep
  <2>6. /\ cmd[p].at = "rules" /\ UNCHANGED <<agents, ignore, mcp>>
        /\ \A ide \in Ides : rules'[ide] \in {cmd[p].pin, Foreign}
    BY <2>5 DEF WriteRules
  <2>7. /\ Lines \subseteq ignore' /\ \A ide \in Ides : Servers \subseteq mcp'[ide].servers
        /\ op # "ide" => BlockIsThere(agents', cmd[p].pin)
    BY <2>2, <2>3, <2>6 DEF IdeStage
  <2> QED BY <2>6, <2>7 DEF BlockIsThere
<1>2. IInv /\ [Next]_vars => [\A p \in Procs, op \in IdeOps : Answers(p, op) /\ cmd'[p].verdict = "ok"
                                => Done(p, op)]_vars
  BY <1>1
<1> QED BY <1>2, Inductive, PTL DEF Spec, ConfigureOkDone

=============================================================================
