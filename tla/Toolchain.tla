----------------------------- MODULE Toolchain -----------------------------
(***************************************************************************)
(* The user cache of tools and the commands that own it: tools sync (also as *)
(* doctor --fix) and tools clean / uninstall. Each tool has a file or          *)
(* directory under the name of its pin and a copy of it under a stable name,   *)
(* which the other commands run. Nothing is written atomically and nothing is  *)
(* locked: a sync may be killed in the middle of a copy. No ONEC_* variable    *)
(* that would replace a tool is set.                                         *)
(***************************************************************************)
EXTENDS Integers, Sequences

CONSTANTS
  Procs,        \* processes that run a command each, one after another
  Components,   \* the tools in the order of toolchain/manifest.yaml
  Verified,     \* downloaded tools with a sha256 (BSL LS, YAxUnit)
  Homes,        \* tools that are directories (Apache); the rest is built
  Must,         \* tools without which sync fails (xml-gen, md-reader)
  MaxRelease,   \* bound: releases of 1c-dev; each pins its own version of a tool
  MaxCommands   \* bound: commands begun in a behaviour

Tools == {Components[i] : i \in 1..Len(Components)}
Releases == 1..MaxRelease

ASSUME KindsOfTools == Verified \cup Homes \cup Must \subseteq Tools /\ Verified \cap Homes = {}
ASSUME SomeComponents == Components \in Seq(Tools) /\ Len(Components) > 0
ASSUME MaxReleaseNat == MaxRelease \in Nat \ {0}
ASSUME MaxCommandsNat == MaxCommands \in Nat

VARIABLES
  release,   \* the release of 1c-dev that is installed
  pinned,    \* the cache's pinned artifacts
  stable,    \* the cache's stable artifacts
  cmd, begun

toolVars == <<release, pinned, stable, cmd, begun>>

\* An artifact is missing, the start of a directory without httpd or modules, part
\* of a file or of a directory that has both, or whole, of some release's pin.
Missing == 0
Bare == -1
Torn == -2
Artifacts == {Missing, Bare, Torn} \cup Releases

Ops == {"none", "sync", "uninstall", "configure", "ide", "init"}
Places == {"idle", "fetch", "get", "pinned", "stable", "hit", "wipe",
           "agents", "ignore", "mcp", "rules"}

\* had: tools that worked when the command began; worn: tools whose copy was broken
\* off, in this command or before.
Command == [at : Places, op : Ops, i : 1..Len(Components), pin : Releases,
            warned : BOOLEAN, failed : BOOLEAN, had : SUBSET Tools, worn : SUBSET Tools,
            force : BOOLEAN, alone : BOOLEAN,
            verdict : {"none", "ok", "degraded", "error"}]
Idle == [at |-> "idle", op |-> "none", i |-> 1, pin |-> 1, warned |-> FALSE, failed |-> FALSE,
         had |-> {}, worn |-> {}, force |-> FALSE, alone |-> TRUE, verdict |-> "none"]

ToolchainTypeOK ==
  /\ release \in Releases
  /\ pinned \in [Tools -> [Releases -> Artifacts]]
  /\ stable \in [Tools -> Artifacts]
  /\ cmd \in [Procs -> Command]
  /\ begun \in 0..MaxCommands

\* Before the first sync, or after it.
ToolchainInit ==
  /\ release = 1
  /\ \E synced \in BOOLEAN :
       /\ pinned = [t \in Tools |-> [r \in Releases |-> IF synced /\ r = 1 THEN 1 ELSE Missing]]
       /\ stable = [t \in Tools |-> IF synced THEN 1 ELSE Missing]
  /\ cmd = [p \in Procs |-> Idle]
  /\ begun = 0

\* What the resolvers take: a file that is there, a directory with httpd and modules.
Recognised(t, artifact) == artifact \notin (IF t \in Homes THEN {Missing, Bare} ELSE {Missing})

\* The stable artifact, or else the pinned one of the release that asks.
Resolve(t) == IF Recognised(t, stable[t]) THEN stable[t] ELSE pinned[t][release]
Works(t) == Resolve(t) \in Releases

Ended(verdict) == [Idle EXCEPT !.verdict = verdict]
Answer(p, verdict) == cmd' = [cmd EXCEPT ![p] = Ended(verdict)]
Goto(p, place) == cmd' = [cmd EXCEPT ![p].at = place]
Active == {q \in Procs : cmd[q].at # "idle"}

\* Commands that overlap know that they are not alone.
Begin(p, c) ==
  /\ cmd[p].at = "idle"
  /\ begun < MaxCommands
  /\ begun' = begun + 1
  /\ cmd' = [q \in Procs |-> IF q = p THEN [c EXCEPT !.alone = Active = {}]
                             ELSE [cmd[q] EXCEPT !.alone = q \notin Active]]

\* Something other than a command changes what the commands work on.
Disturb == cmd' = [q \in Procs |-> [cmd[q] EXCEPT !.alone = q \notin Active]]

Upgrade ==
  /\ release < MaxRelease
  /\ release' = release + 1
  /\ Disturb
  /\ UNCHANGED <<pinned, stable, begun>>

(***************************************************************************)
(* tools sync                                                              *)
(***************************************************************************)
BeginSync(p) ==
  /\ Begin(p, [Idle EXCEPT !.at = "fetch", !.op = "sync", !.pin = release,
                           !.had = {t \in Tools : Works(t)},
                           !.worn = {t \in Tools : pinned[t][release] = Torn}])
  /\ UNCHANGED <<release, pinned, stable>>

Tool(c) == Components[c.i]

\* The command goes on to the next component, or answers: a must tool that failed
\* is an error, another one degrades the result.
NextComponent(c) ==
  IF c.i < Len(Components) THEN [c EXCEPT !.at = "fetch", !.i = @ + 1]
  ELSE Ended(IF c.failed THEN "error" ELSE IF c.warned THEN "degraded" ELSE "ok")

Failed(c) == IF Tool(c) \in Must THEN [c EXCEPT !.failed = TRUE] ELSE [c EXCEPT !.warned = TRUE]

\* Mutant: the digest of a pinned file is not compared.
IsHit_AnyFile(c) ==
  LET t == Tool(c)
  IN IF t \in Homes THEN Recognised(t, stable[t]) ELSE pinned[t][c.pin] # Missing

\* A built tool's pinned file is taken as it is, a downloaded one's digest is
\* compared, and a home is looked for under its stable name, of whatever pin.
IsHit(c) ==
  LET t == Tool(c)
  IN IF t \in Homes THEN Recognised(t, stable[t])
     ELSE IF t \in Verified THEN pinned[t][c.pin] = c.pin
     ELSE pinned[t][c.pin] # Missing

\* The stable file is opened for writing and so emptied.
FetchHit(p) ==
  LET c == cmd[p]
  IN /\ c.at = "fetch" /\ IsHit(c)
     /\ IF Tool(c) \in Homes
        THEN cmd' = [cmd EXCEPT ![p] = NextComponent(c)] /\ UNCHANGED stable
        ELSE Goto(p, "hit") /\ stable' = [stable EXCEPT ![Tool(c)] = Torn]
     /\ UNCHANGED <<release, pinned, begun>>

\* Mutant: the old artifact makes room before the new one is there.
FetchMiss_Cleans(p) ==
  LET c == cmd[p]
      t == Tool(c)
  IN /\ c.at = "fetch" /\ ~IsHit(c)
     /\ pinned' = [pinned EXCEPT ![t][c.pin] = Missing]
     /\ stable' = [stable EXCEPT ![t] = Missing]
     /\ Goto(p, "get")
     /\ UNCHANGED <<release, begun>>

\* A downloaded tool whose pinned file has another digest loses both files.
FetchMiss(p) ==
  LET c == cmd[p]
      t == Tool(c)
      mismatch == t \in Verified /\ pinned[t][c.pin] # Missing
  IN /\ c.at = "fetch" /\ ~IsHit(c)
     /\ pinned' = IF mismatch THEN [pinned EXCEPT ![t][c.pin] = Missing] ELSE pinned
     /\ stable' = IF mismatch THEN [stable EXCEPT ![t] = Missing] ELSE stable
     /\ Goto(p, "get")
     /\ UNCHANGED <<release, begun>>

\* What a copy looks like while it is written.
Partial(t) == IF t \in Homes THEN {Bare, Torn} ELSE {Torn}

\* The tool is built, or downloaded with the right digest, in a temporary directory,
\* and the copy to the pinned name begins.
Get(p) ==
  LET c == cmd[p]
  IN /\ c.at = "get"
     /\ \E part \in Partial(Tool(c)) : pinned' = [pinned EXCEPT ![Tool(c)][c.pin] = part]
     /\ Goto(p, "pinned")
     /\ UNCHANGED <<release, stable, begun>>

\* No Java, no git, no network, a failed build, or another digest.
GetFails(p) ==
  /\ cmd[p].at = "get"
  /\ cmd' = [cmd EXCEPT ![p] = NextComponent(Failed(cmd[p]))]
  /\ UNCHANGED <<release, pinned, stable, begun>>

\* The pinned artifact is complete and the copy to the stable name begins.
CopyPinned(p) ==
  LET c == cmd[p]
  IN /\ c.at = "pinned"
     /\ pinned' = [pinned EXCEPT ![Tool(c)][c.pin] = c.pin]
     /\ \E part \in Partial(Tool(c)) : stable' = [stable EXCEPT ![Tool(c)] = part]
     /\ Goto(p, "stable")
     /\ UNCHANGED <<release, begun>>

CopyStable(p) ==
  LET c == cmd[p]
  IN /\ c.at \in {"stable", "hit"}
     /\ pinned[Tool(c)][c.pin] # Missing
     /\ stable' = [stable EXCEPT ![Tool(c)] = pinned[Tool(c)][c.pin]]
     /\ cmd' = [cmd EXCEPT ![p] = NextComponent(c)]
     /\ UNCHANGED <<release, pinned, begun>>

\* The disk is full, or clean took the file. The downloads and Apache turn this into
\* a warning; elsewhere, and on a cache hit, it ends the command.
CopyBreaks(p) ==
  LET c == cmd[p]
      t == Tool(c)
  IN /\ c.at \in {"pinned", "stable", "hit"}
     /\ IF c.at # "hit" /\ t \in Verified \cup Homes
        THEN cmd' = [cmd EXCEPT ![p] = NextComponent(Failed([c EXCEPT !.worn = @ \cup {t}]))]
        ELSE Answer(p, "none")
     /\ UNCHANGED <<release, pinned, stable, begun>>

(***************************************************************************)
(* tools clean and uninstall: rmtree of the cache.                         *)
(***************************************************************************)
BeginUninstall(p) ==
  /\ Begin(p, [Idle EXCEPT !.at = "wipe", !.op = "uninstall"])
  /\ UNCHANGED <<release, pinned, stable>>

\* rmtree gets through, or stops at an entry it cannot remove.
Wipe(p) ==
  LET gone(ts) == /\ pinned' = [t \in Tools |-> IF t \in ts THEN [r \in Releases |-> Missing]
                                                ELSE pinned[t]]
                  /\ stable' = [t \in Tools |-> IF t \in ts THEN Missing ELSE stable[t]]
  IN /\ cmd[p].at = "wipe"
     /\ \/ gone(Tools) /\ Answer(p, "ok")
        \/ \E ts \in SUBSET Tools : gone(ts) /\ Answer(p, "error")
     /\ UNCHANGED <<release, begun>>

\* A command is killed.
Kill(p) ==
  /\ cmd[p].at # "idle"
  /\ Answer(p, "none")
  /\ UNCHANGED <<release, pinned, stable, begun>>

ToolchainStep(p) ==
  \/ BeginSync(p) \/ FetchHit(p) \/ FetchMiss(p) \/ Get(p) \/ GetFails(p)
  \/ CopyPinned(p) \/ CopyStable(p) \/ CopyBreaks(p)
  \/ BeginUninstall(p) \/ Wipe(p) \/ Kill(p)

(***************************************************************************)
(* Properties                                                              *)
(***************************************************************************)
Answers(p, op) ==
  /\ cmd[p].op = op /\ cmd[p].at # "idle" /\ cmd[p].alone
  /\ cmd'[p].at = "idle" /\ cmd'[p].verdict # "none"

Installed(t, c) ==
  IF t \in Homes THEN Recognised(t, stable'[t])
  ELSE stable'[t] = c.pin \/ (t \notin Verified /\ t \in c.worn)

\* A sync nobody disturbed that answers ok has every tool in place, and one that
\* answers degraded those it cannot do without, whatever killed syncs left behind: of
\* the manifest's pin and whole, but for built tools, whose broken pinned file no
\* digest gives away, and Apache, which is kept as it is
\* (core/toolchain/sync.py:158, core/toolchain/fetchers/bslls.py:42).
SyncOkInstalls ==
  [][\A p \in Procs : Answers(p, "sync") =>
       CASE cmd'[p].verdict = "ok" -> \A t \in Tools : Installed(t, cmd[p])
         [] cmd'[p].verdict = "degraded" -> \A t \in Must : Installed(t, cmd[p])
         [] OTHER -> TRUE]_toolVars

\* A sync nobody disturbed that fails in part, without a network say, leaves the
\* tools that worked working: only a copy broken off, in this sync or an earlier one,
\* may cost one (core/toolchain/fetchers/xmlgen.py:41, apache.py:372).
SyncKeepsTools ==
  [][\A p \in Procs : Answers(p, "sync") =>
       \A t \in cmd[p].had \ cmd[p].worn :
         Works(t)' \/ (t = Tool(cmd[p]) /\ cmd[p].at \in {"pinned", "stable"})]_toolVars
=============================================================================
