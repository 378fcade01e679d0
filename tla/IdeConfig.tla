----------------------------- MODULE IdeConfig -----------------------------
(***************************************************************************)
(* The files a project shares between its user and 1c-dev: AGENTS.md with a    *)
(* managed block, .gitignore, the MCP configuration and the rules of each IDE. *)
(* ide configure merges its parts into them, init overwrites them; the user    *)
(* edits them. The release whose templates are written is Toolchain's.         *)
(***************************************************************************)
EXTENDS Toolchain, FiniteSets, SequencesExt

CONSTANTS
  Ides,        \* Cursor, Kilocode
  MaxLines,    \* bound: lines of AGENTS.md, a body counting as one
  MaxEdits     \* bound: edits by the user

ASSUME MaxEditsNat == MaxEdits \in Nat /\ MaxLines \in Nat

VARIABLES
  agents,   \* AGENTS.md; a file that does not exist is like an empty one
  ignore,   \* .gitignore
  mcp,      \* .cursor/mcp.json, .kilo/mcp.json
  rules,    \* a rule file per IDE: missing, of a release, or not 1c-dev's
  edits

ideVars == <<agents, ignore, mcp, rules, edits>>

Text == <<"text", 0>>
Start == <<"begin", 0>>
Finish == <<"end", 0>>
Body(r) == <<"body", r>>
Block(r) == <<Start, Body(r), Finish>>

Foreign == -1
Servers == {"1c-dev", "bsl-language-server"}
Lines == {"runtime", "build"}

TypeOK ==
  /\ ToolchainTypeOK
  /\ agents \in Seq({Text, Start, Finish} \cup {Body(r) : r \in Releases})
  /\ ignore \in SUBSET (Lines \cup {"users"})
  /\ mcp \in [Ides -> [file : {"none", "garbled", "json"}, servers : SUBSET (Servers \cup {"users"})]]
  /\ rules \in [Ides -> {Missing, Foreign} \cup Releases]
  /\ edits \in 0..MaxEdits

\* A project without any of it, but perhaps an AGENTS.md of the user's.
Init ==
  /\ ToolchainInit
  /\ agents \in {<<>>, <<Text>>}
  /\ ignore = {}
  /\ mcp = [ide \in Ides |-> [file |-> "none", servers |-> {}]]
  /\ rules = [ide \in Ides |-> Missing]
  /\ edits = 0

(***************************************************************************)
(* The managed block of AGENTS.md lies from the first begin marker to the    *)
(* first end marker; where there is no such stretch a new block is appended. *)
(***************************************************************************)
First(f, line) == CHOOSE i \in 1..Len(f) : f[i] = line /\ \A j \in 1..(i - 1) : f[j] # line
HasBlock(f) == Contains(f, Start) /\ Contains(f, Finish) /\ First(f, Start) < First(f, Finish)

\* Mutant: the file is cut after the block.
Upsert_Cuts(f, block) ==
  IF HasBlock(f) THEN SubSeq(f, 1, First(f, Start) - 1) \o block ELSE f \o block

Upsert(f, block) ==
  IF HasBlock(f)
  THEN SubSeq(f, 1, First(f, Start) - 1) \o block \o SubSeq(f, First(f, Finish) + 1, Len(f))
  ELSE f \o block

\* The user's lines that are not inside the block.
Outside(f) ==
  {i \in 1..Len(f) : /\ f[i] = Text
                     /\ HasBlock(f) => i < First(f, Start) \/ i > First(f, Finish)}

\* The user removed the end marker of a block.
Opened(f) == Contains(f, Start) /\ ~HasBlock(f)
Sound(f) ==
  /\ Cardinality({i \in 1..Len(f) : f[i] = Start}) = Cardinality({i \in 1..Len(f) : f[i] = Finish})
  /\ Contains(f, Start) => HasBlock(f)

(***************************************************************************)
(* ide configure, with --agents none ("ide") or not, and init with the same  *)
(* parts and --force.                                                      *)
(***************************************************************************)
IdeOps == {"configure", "ide", "init"}

BeginConfigure(p, force, agentsToo) ==
  /\ Begin(p, [Idle EXCEPT !.at = IF agentsToo THEN "agents" ELSE "ignore",
                           !.op = IF agentsToo THEN "configure" ELSE "ide",
                           !.pin = release, !.force = force])
  /\ UNCHANGED <<release, pinned, stable, ideVars>>

\* init finds no manifest, or is forced.
BeginInit(p) ==
  /\ Begin(p, [Idle EXCEPT !.at = "agents", !.op = "init", !.pin = release, !.force = TRUE])
  /\ UNCHANGED <<release, pinned, stable, ideVars>>

Goes(p, place) == Goto(p, place) /\ UNCHANGED <<release, pinned, stable, begun, edits>>

MergeAgents(p) ==
  /\ cmd[p].at = "agents"
  /\ agents' = IF cmd[p].force THEN Block(cmd[p].pin) ELSE Upsert(agents, Block(cmd[p].pin))
  /\ Goes(p, "ignore")
  /\ UNCHANGED <<ignore, mcp, rules>>

MergeIgnore(p) ==
  /\ cmd[p].at = "ignore"
  /\ ignore' = IF cmd[p].force THEN Lines ELSE ignore \cup Lines
  /\ Goes(p, "mcp")
  /\ UNCHANGED <<agents, mcp, rules>>

\* Servers that are missing are added; what cannot be parsed is replaced.
MergeMcp(p) ==
  /\ cmd[p].at = "mcp"
  /\ mcp' = [ide \in Ides |->
               [file |-> "json",
                servers |-> IF cmd[p].force \/ mcp[ide].file # "json" THEN Servers
                            ELSE mcp[ide].servers \cup Servers]]
  /\ Goes(p, "rules")
  /\ UNCHANGED <<agents, ignore, rules>>

\* Mutant: rules are only created.
WriteRules_Once(p) ==
  /\ cmd[p].at = "rules"
  /\ rules' = [ide \in Ides |-> IF rules[ide] # Missing THEN rules[ide] ELSE cmd[p].pin]
  /\ Answer(p, "ok")
  /\ UNCHANGED <<release, pinned, stable, begun, edits, agents, ignore, mcp>>

\* A rule file with the managed marker, or none, is written.
WriteRules(p) ==
  /\ cmd[p].at = "rules"
  /\ rules' = [ide \in Ides |-> IF rules[ide] = Foreign THEN Foreign ELSE cmd[p].pin]
  /\ Answer(p, "ok")
  /\ UNCHANGED <<release, pinned, stable, begun, edits, agents, ignore, mcp>>

\* A write fails, or the command is killed in it, and the file is cut off. The other
\* files keep what was written before.
WriteBreaks(p) ==
  LET at == cmd[p].at
  IN /\ at \in {"agents", "ignore", "mcp", "rules"}
     /\ Answer(p, "error")
     /\ agents' = IF at = "agents" THEN <<>> ELSE agents
     /\ ignore' = IF at = "ignore" THEN {} ELSE ignore
     /\ \E ide \in Ides :
          /\ mcp' = IF at = "mcp" THEN [mcp EXCEPT ![ide] = [file |-> "garbled", servers |-> {}]]
                    ELSE mcp
          /\ rules' = IF at = "rules" /\ rules[ide] # Foreign THEN [rules EXCEPT ![ide] = Foreign]
                      ELSE rules
     /\ UNCHANGED <<release, pinned, stable, begun, edits>>

(***************************************************************************)
(* The user.                                                               *)
(***************************************************************************)
EditAgents ==
  /\ \/ \E f \in {<<Text>> \o agents, Append(agents, Text)} :
          Len(f) <= MaxLines /\ agents' = f
     \/ \E i \in 1..Len(agents) :
          agents[i] \in {Start, Finish} /\ agents' = RemoveAt(agents, i)
  /\ UNCHANGED <<ignore, mcp, rules>>

EditIgnore == \E line \in Lines :
  /\ ignore' = (ignore \cup {"users"}) \ {line}
  /\ UNCHANGED <<agents, mcp, rules>>

\* Another server is added, one of 1c-dev's removed, or the JSON broken.
EditMcp == \E ide \in Ides :
  /\ \E server \in Servers :
       mcp' \in {[mcp EXCEPT ![ide] = [file |-> "json", servers |-> (@.servers \cup {"users"}) \ {server}]],
                 [mcp EXCEPT ![ide] = [file |-> "garbled", servers |-> {}]]}
  /\ UNCHANGED <<agents, ignore, rules>>

EditRule == \E ide \in Ides :
  /\ rules' \in {[rules EXCEPT ![ide] = Foreign], [rules EXCEPT ![ide] = Missing]}
  /\ UNCHANGED <<agents, ignore, mcp>>

UserStep ==
  /\ edits < MaxEdits
  /\ edits' = edits + 1
  /\ EditAgents \/ EditIgnore \/ EditMcp \/ EditRule
  /\ Disturb
  /\ UNCHANGED <<release, pinned, stable, begun>>

IdeStep(p) ==
  \/ \E force, agentsToo \in BOOLEAN : BeginConfigure(p, force, agentsToo)
  \/ BeginInit(p)
  \/ MergeAgents(p) \/ MergeIgnore(p) \/ MergeMcp(p) \/ WriteRules(p) \/ WriteBreaks(p)

Next ==
  \/ \E p \in Procs : ToolchainStep(p) /\ UNCHANGED ideVars
  \/ \E p \in Procs : IdeStep(p)
  \/ Upgrade /\ UNCHANGED ideVars
  \/ UserStep

vars == <<toolVars, ideVars>>
Spec == Init /\ [][Next]_vars

(***************************************************************************)
(* Properties                                                              *)
(***************************************************************************)
\* A step of a configure that gets through its write, in whatever company, keeps
\* what the user wrote: without --force the lines outside the block, but after a
\* begin marker that has lost its end, the lines of .gitignore and the servers in a
\* parsable MCP file; and in any case rules that are not 1c-dev's
\* (core/project/ide.py:204, core/project/ide.py:484).
UserContentKept ==
  [][\A p \in Procs :
       /\ cmd[p].at \in {"agents", "ignore", "mcp", "rules"} /\ cmd'[p].at # cmd[p].at
       /\ cmd'[p].at = "idle" => cmd'[p].verdict = "ok"
       => /\ \A ide \in Ides : rules[ide] = Foreign => rules'[ide] = Foreign
          /\ ~cmd[p].force =>
               /\ ~Opened(agents) => Cardinality(Outside(agents')) = Cardinality(Outside(agents))
               /\ ignore \subseteq ignore'
               /\ \A ide \in Ides : mcp[ide].servers \subseteq mcp'[ide].servers]_vars

\* A configure or init nobody disturbed that answers ok has everything of its release
\* in place, after upgrades, edits and broken-off runs; where the markers of AGENTS.md
\* are sound another one would find nothing to do
\* (core/project/ide.py:527).
ConfigureOkDone ==
  [][\A p \in Procs, op \in IdeOps : Answers(p, op) /\ cmd'[p].verdict = "ok" =>
       LET r == cmd[p].pin
       IN /\ Lines \subseteq ignore'
          /\ \A ide \in Ides : Servers \subseteq mcp'[ide].servers /\ rules'[ide] \in {r, Foreign}
          /\ op # "ide" =>
               /\ \E i \in 1..Len(agents') : SubSeq(agents', i, i + 2) = Block(r)
               /\ Sound(agents') => Upsert(agents', Block(r)) = agents']_vars
=============================================================================
