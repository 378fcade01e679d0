---------------------------- MODULE Publication ----------------------------
(***************************************************************************)
(* publish up, down and status: an infobase published over HTTP by Apache   *)
(* (webinst) or by the standalone server (ibsrv). Each backend has one      *)
(* profile in the manifest and, under .1c-dev/publish/<profile>, one        *)
(* configuration, one pid file that the server writes once it runs, and no  *)
(* lock: processes of the CLI and of the MCP server run the commands over   *)
(* the same files.                                                         *)
(***************************************************************************)
EXTENDS Naturals

CONSTANTS
  Procs,        \* processes that run a command each, one after another
  Runtimes,     \* ids of runtimes
  Home,         \* the manifest's default runtime
  Ports,        \* ports a profile may name
  DefaultPort,  \* the port of a new profile, for each backend
  Longer,       \* pairs <<r, s>>: the path of r is a proper prefix of the path of s
  Pids,         \* process ids of servers
  None,         \* no runtime, port or pid
  MaxCommands,  \* bound: commands begun in a behaviour
  MaxEdits      \* bound: changes of the manifest and of the infobases

Backends == {"webinst", "ibsrv"}

ASSUME HomeIsRuntime == Home \in Runtimes
ASSUME NoneIsNothing == None \notin Runtimes \cup Ports \cup Pids
ASSUME DefaultPortIsPort == DefaultPort \in [Backends -> Ports]
ASSUME LongerRelates == Longer \subseteq Runtimes \X Runtimes
ASSUME BoundsAreNat == MaxCommands \in Nat /\ MaxEdits \in Nat

VARIABLES
  profile,  \* the manifest's profile of each backend; rt None: there is none
  ibs,      \* runtimes whose infobase exists
  conf,     \* the server's configuration: port, infobase, publication block
  live,     \* the server processes that are alive
  pidFile,  \* httpd.pid and data/lock.pid
  cmd,      \* the command of each process
  muddled,  \* history: backends whose commands overlapped
  lost,     \* history: backends whose server outlived a failed stop or a deadline
  begun, edits

vars == <<profile, ibs, conf, live, pidFile, cmd, muddled, lost, begun, edits>>

Want == [rt : Runtimes \cup {None}, port : Ports]

\* httpd.conf with its marked block and default.vrd, or the yaml of ibsrv, whose
\* publication needs no block.
Conf == [rt : Runtimes \cup {None}, port : Ports \cup {None}, block : BOOLEAN]

\* A server keeps the port and the block it read when it was started. ibsrv keeps
\* the infobase too; Apache asks the descriptor.
\* up: it has written its pid file; want: the profile it was started for.
Server == [pid : Pids, b : Backends, started : Conf, up : BOOLEAN, want : Want]

Places == {"idle", "clear", "conf", "block", "start", "poll", "stop", "remove"}
Ops == {"up", "down", "status"}
Command == [at : Places, op : Ops, b : Backends, want : Want, seen : Pids \cup {None},
            verdict : {"none", "ok", "failed"}]

NoWant == [rt |-> None, port |-> DefaultPort["ibsrv"]]
Idle == [at |-> "idle", op |-> "status", b |-> "ibsrv", want |-> NoWant, seen |-> None,
         verdict |-> "none"]

TypeOK ==
  /\ profile \in [Backends -> Want]
  /\ ibs \subseteq Runtimes
  /\ conf \in [Backends -> Conf]
  /\ live \subseteq Server
  /\ pidFile \in [Backends -> Pids \cup {None}]
  /\ cmd \in [Procs -> Command]
  /\ muddled \subseteq Backends /\ lost \subseteq Backends
  /\ begun \in 0..MaxCommands /\ edits \in 0..MaxEdits

Init ==
  /\ profile = [b \in Backends |-> [rt |-> None, port |-> DefaultPort[b]]]
  /\ ibs = {Home}
  /\ conf = [b \in Backends |-> [rt |-> None, port |-> None, block |-> b = "ibsrv"]]
  /\ live = {}
  /\ pidFile = [b \in Backends |-> None]
  /\ cmd = [p \in Procs |-> Idle]
  /\ muddled = {} /\ lost = {}
  /\ begun = 0 /\ edits = 0

ServersOf(b) == {s \in live : s.b = b}
Alive(b) == \E s \in live : s.pid = pidFile[b]
Active(b) == {p \in Procs : cmd[p].at # "idle" /\ cmd[p].b = b}
Busy(b) == Active(b) # {} \/ \E s \in ServersOf(b) : ~s.up
PortTaken(port) == \E s \in live : s.started.port = port

\* What a server publishes: the infobase and the port. A request to an Apache that
\* has read no block ends in its DocumentRoot.
Publishes(s, descriptor) ==
  [rt |-> IF s.b = "ibsrv" THEN s.started.rt
          ELSE IF s.started.block THEN descriptor ELSE None,
   port |-> s.started.port]

\* default.vrd names the infobase, or one whose path goes on after its path.
VrdMatches(rt) ==
  /\ conf["webinst"].rt # None
  /\ rt = conf["webinst"].rt \/ <<rt, conf["webinst"].rt>> \in Longer

\* Mutant: the yaml is only written once.
NeedsInit_Once(want) == conf["ibsrv"].rt = None

\* The yaml is missing, names another infobase or another port.
NeedsInit(want) == conf["ibsrv"].rt # want.rt \/ conf["ibsrv"].port # want.port

(***************************************************************************)
(* The start of a command.                                                 *)
(***************************************************************************)
Goto(p, place) == cmd' = [cmd EXCEPT ![p].at = place]
End(p, verdict) == cmd' = [cmd EXCEPT ![p] = [@ EXCEPT !.at = "idle", !.verdict = verdict]]

\* The context every command resolves first: the profile and its runtime.
Begin(p, op, b, want, place, verdict) ==
  /\ cmd[p].at = "idle"
  /\ begun < MaxCommands
  /\ begun' = begun + 1
  /\ cmd' = [cmd EXCEPT ![p] = [at |-> place, op |-> op, b |-> b, want |-> want,
                                seen |-> IF Alive(b) THEN pidFile[b] ELSE None,
                                verdict |-> verdict]]
  /\ muddled' = IF Busy(b) THEN muddled \cup {b} ELSE muddled
  /\ UNCHANGED <<ibs, conf, live, pidFile, lost, edits>>

\* up ensures the profile, on the default runtime, and writes the manifest before
\* anything else; the other commands need one.
Ensured(b) == IF profile[b].rt = None THEN [rt |-> Home, port |-> DefaultPort[b]] ELSE profile[b]

\* Mutant: a live pid is only looked at under Apache.
BeginUp_Again(p, b) ==
  LET want == Ensured(b)
  IN /\ profile' = [profile EXCEPT ![b] = want]
     /\ want.rt \in ibs
     /\ Begin(p, "up", b, want, "conf", "none")

BeginUp(p, b) ==
  LET want == Ensured(b)
  IN /\ profile' = [profile EXCEPT ![b] = want]
     /\ \/ /\ want.rt \notin ibs
           /\ Begin(p, "up", b, want, "idle", "failed")
        \/ /\ want.rt \in ibs /\ Alive(b)
           /\ b = "webinst" => VrdMatches(want.rt)
           /\ Begin(p, "up", b, want, "idle", "ok")
        \/ /\ want.rt \in ibs /\ Alive(b)
           /\ b = "webinst" /\ ~VrdMatches(want.rt)
           /\ Begin(p, "up", b, want, "conf", "none")
        \/ /\ want.rt \in ibs /\ ~Alive(b)
           /\ Begin(p, "up", b, want, IF pidFile[b] = None THEN "conf" ELSE "clear", "none")

\* Mutant: a pid that is not alive ends down before it has removed anything.
BeginDown_Returns(p, b) ==
  /\ profile[b].rt # None
  /\ IF Alive(b) THEN Begin(p, "down", b, profile[b], "stop", "none")
                 ELSE Begin(p, "down", b, profile[b], "idle", "ok")
  /\ UNCHANGED profile

BeginDown(p, b) ==
  /\ profile[b].rt # None
  /\ Begin(p, "down", b, profile[b], IF Alive(b) THEN "stop" ELSE "clear", "none")
  /\ UNCHANGED profile

\* status (and url) clears the pid file of a server that died.
BeginStatus(p, b) ==
  /\ profile[b].rt # None
  /\ IF pidFile[b] # None /\ ~Alive(b)
     THEN Begin(p, "status", b, profile[b], "clear", "none")
     ELSE Begin(p, "status", b, profile[b], "idle", "ok")
  /\ UNCHANGED profile

\* The pid file is unlinked, whatever it holds by now.
Clear(p) ==
  LET c == cmd[p]
  IN /\ c.at = "clear"
     /\ pidFile' = [pidFile EXCEPT ![c.b] = None]
     /\ CASE c.op = "up" -> Goto(p, "conf")
          [] c.op = "down" /\ c.b = "webinst" -> Goto(p, "remove")
          [] OTHER -> End(p, "ok")
     /\ UNCHANGED <<profile, ibs, conf, live, muddled, lost, begun, edits>>

(***************************************************************************)
(* up.                                                                     *)
(***************************************************************************)
\* Apache, its wsap24 module, ibcmd or ibsrv is missing, or config init fails.
UpFails(p) ==
  /\ cmd[p].at = "conf"
  /\ End(p, "failed")
  /\ UNCHANGED <<profile, ibs, conf, live, pidFile, muddled, lost, begun, edits>>

\* httpd.conf is written anew, without the publication's block.
ScaffoldConf(p) ==
  /\ cmd[p].at = "conf" /\ cmd[p].b = "webinst"
  /\ conf' = [conf EXCEPT !["webinst"].port = cmd[p].want.port, !["webinst"].block = FALSE]
  /\ Goto(p, "block")
  /\ UNCHANGED <<profile, ibs, live, pidFile, muddled, lost, begun, edits>>

\* default.vrd and the block. A server that is alive is left as it is.
Materialize(p) ==
  /\ cmd[p].at = "block"
  /\ conf' = [conf EXCEPT !["webinst"].rt = cmd[p].want.rt, !["webinst"].block = TRUE]
  /\ IF cmd[p].seen # None THEN End(p, "ok") ELSE Goto(p, "start")
  /\ UNCHANGED <<profile, ibs, live, pidFile, muddled, lost, begun, edits>>

\* ibcmd server config init, unless the yaml fits the profile.
ConfigInit(p) ==
  LET want == cmd[p].want
  IN /\ cmd[p].at = "conf" /\ cmd[p].b = "ibsrv"
     /\ conf' = IF NeedsInit(want)
                THEN [conf EXCEPT !["ibsrv"].rt = want.rt, !["ibsrv"].port = want.port]
                ELSE conf
     /\ Goto(p, "start")
     /\ UNCHANGED <<profile, ibs, live, pidFile, muddled, lost, begun, edits>>

\* The pid file goes, the server is started with the configuration as it is now.
Launch(p, pid) ==
  LET c == cmd[p]
  IN /\ \A s \in live : s.pid # pid
     /\ \A b \in Backends : pidFile[b] # pid
     /\ live' = live \cup {[pid |-> pid, b |-> c.b, started |-> conf[c.b], up |-> FALSE,
                            want |-> c.want]}
     /\ pidFile' = [pidFile EXCEPT ![c.b] = None]
     /\ Goto(p, "poll")
     /\ UNCHANGED <<profile, ibs, conf, muddled, lost, begun, edits>>

StartHttpd(p) ==
  /\ cmd[p].at = "start" /\ cmd[p].b = "webinst"
  /\ ~PortTaken(conf["webinst"].port)
  /\ \E pid \in Pids : Launch(p, pid)

\* ibsrv may run beside another on the same data directory and exit with 0.
StartDaemon(p) ==
  /\ cmd[p].at = "start" /\ cmd[p].b = "ibsrv"
  /\ \E pid \in Pids : Launch(p, pid)

\* httpd cannot bind its port, or either program exits with an error.
StartFails(p) ==
  /\ cmd[p].at = "start"
  /\ pidFile' = [pidFile EXCEPT ![cmd[p].b] = None]
  /\ End(p, "failed")
  /\ UNCHANGED <<profile, ibs, conf, live, muddled, lost, begun, edits>>

\* The poll for a pid file that names a live process.
PollFinds(p) ==
  /\ cmd[p].at = "poll" /\ Alive(cmd[p].b)
  /\ End(p, "ok")
  /\ UNCHANGED <<profile, ibs, conf, live, pidFile, muddled, lost, begun, edits>>

\* The deadline passes; a server that writes its pid file later goes on.
PollTimesOut(p) ==
  /\ cmd[p].at = "poll" /\ ~Alive(cmd[p].b)
  /\ End(p, "failed")
  /\ lost' = IF \E s \in ServersOf(cmd[p].b) : ~s.up THEN lost \cup {cmd[p].b} ELSE lost
  /\ UNCHANGED <<profile, ibs, conf, live, pidFile, muddled, begun, edits>>

(***************************************************************************)
(* down.                                                                   *)
(***************************************************************************)
\* terminate ends the process the pid file named; the file goes.
Stop(p) ==
  LET c == cmd[p]
  IN /\ c.at = "stop"
     /\ live' = {s \in live : s.pid # c.seen}
     /\ pidFile' = [pidFile EXCEPT ![c.b] = None]
     /\ IF c.b = "webinst" THEN Goto(p, "remove") ELSE End(p, "ok")
     /\ UNCHANGED <<profile, ibs, conf, muddled, lost, begun, edits>>

\* The process does not end in time: the answer is a failure, the file is gone.
StopFails(p) ==
  LET c == cmd[p]
  IN /\ c.at = "stop"
     /\ \E s \in live : s.pid = c.seen
     /\ pidFile' = [pidFile EXCEPT ![c.b] = None]
     /\ End(p, "failed")
     /\ lost' = lost \cup {c.b}
     /\ UNCHANGED <<profile, ibs, conf, live, muddled, begun, edits>>

\* The block and the descriptor go.
RemovePublication(p) ==
  /\ cmd[p].at = "remove"
  /\ conf' = [conf EXCEPT !["webinst"].rt = None, !["webinst"].block = FALSE]
  /\ End(p, "ok")
  /\ UNCHANGED <<profile, ibs, live, pidFile, muddled, lost, begun, edits>>

\* The command is killed.
Crash(p) ==
  /\ cmd[p].at # "idle"
  /\ End(p, "none")
  /\ UNCHANGED <<profile, ibs, conf, live, pidFile, muddled, lost, begun, edits>>

(***************************************************************************)
(* The servers, the manifest and the infobases.                            *)
(***************************************************************************)
\* A started server writes its pid file, over what is there.
WritesPid(s) ==
  /\ ~s.up
  /\ live' = (live \ {s}) \cup {[s EXCEPT !.up = TRUE]}
  /\ pidFile' = [pidFile EXCEPT ![s.b] = s.pid]
  /\ UNCHANGED <<profile, ibs, conf, cmd, muddled, lost, begun, edits>>

Dies(s) ==
  /\ live' = live \ {s}
  /\ UNCHANGED <<profile, ibs, conf, pidFile, cmd, muddled, lost, begun, edits>>

\* configuration remove gives a profile another runtime, the user another port;
\* neither asks whether the profile is published.
Retarget(b, want) ==
  /\ profile[b].rt # None /\ want.rt # None
  /\ want # profile[b]
  /\ edits < MaxEdits /\ edits' = edits + 1
  /\ profile' = [profile EXCEPT ![b] = want]
  /\ UNCHANGED <<ibs, conf, live, pidFile, cmd, muddled, lost, begun>>

\* build makes the infobase of a runtime, project clean removes it.
Build(r) ==
  /\ r \notin ibs
  /\ edits < MaxEdits /\ edits' = edits + 1
  /\ ibs' = ibs \cup {r}
  /\ UNCHANGED <<profile, conf, live, pidFile, cmd, muddled, lost, begun>>
Clean(r) ==
  /\ r \in ibs
  /\ edits < MaxEdits /\ edits' = edits + 1
  /\ ibs' = ibs \ {r}
  /\ UNCHANGED <<profile, conf, live, pidFile, cmd, muddled, lost, begun>>

Start(p) == \E b \in Backends : BeginUp(p, b) \/ BeginDown(p, b) \/ BeginStatus(p, b)
Step(p) ==
  \/ Clear(p) \/ UpFails(p) \/ ScaffoldConf(p) \/ Materialize(p) \/ ConfigInit(p)
  \/ StartHttpd(p) \/ StartDaemon(p) \/ StartFails(p) \/ PollFinds(p) \/ PollTimesOut(p)
  \/ Stop(p) \/ StopFails(p) \/ RemovePublication(p) \/ Crash(p)
Environment ==
  \/ \E s \in live : WritesPid(s) \/ Dies(s)
  \/ \E b \in Backends, want \in Want : Retarget(b, want)
  \/ \E r \in Runtimes : Build(r) \/ Clean(r)

Next == (\E p \in Procs : Start(p) \/ Step(p)) \/ Environment

Spec == Init /\ [][Next]_vars

(***************************************************************************)
(* Properties.                                                             *)
(***************************************************************************)

\* No server is out of reach: while the commands of a backend did not overlap,
\* every server of it that runs is the one its pid file names, whoever was killed
\* and whichever server died. The exceptions are named by the histories: a stop
\* that failed and a deadline that passed clear the file under a live server
\* (publish/run.py:424, 766).
NoOrphans ==
  /\ TypeOK
  /\ \A b \in Backends \ (muddled \cup lost) : \A s \in ServersOf(b) :
       s.up => s.pid = pidFile[b]

\* The command of p on b answers ok in this step.
AnswersOk(p, op, b) ==
  /\ cmd'[p].verdict = "ok" /\ cmd'[p].op = op /\ cmd'[p].b = b
  /\ cmd[p].at # "idle" \/ begun' # begun
  /\ cmd'[p] # cmd[p]

\* What up does not look at: a live server that was started for another port or,
\* under ibsrv, another infobase, and a descriptor that names an infobase whose
\* path goes on after the profile's.
Unseen(s, want) ==
  \/ s.want.port # want.port
  \/ s.b = "ibsrv" /\ s.want.rt # want.rt
  \/ s.b = "webinst" /\ <<want.rt, conf["webinst"].rt>> \in Longer

\* An up that answers ok leaves a live server, named by the pid file, that
\* publishes the profile's infobase on the profile's port, whichever command ran
\* or was killed before it and whatever it left in the configuration
\* (publish/run.py:528). Excepted are what up does not look at, and a server that
\* dies while up refreshes the files of Apache under it.
OkUpPublishes ==
  [][\A p \in Procs, b \in Backends :
       AnswersOk(p, "up", b) /\ b \notin muddled' \cup lost' =>
         LET named == {s \in live' : s.b = b /\ s.pid = pidFile'[b]}
         IN /\ named # {} \/ cmd[p].at = "block"
            /\ \A s \in named : \/ Unseen(s, cmd'[p].want)
                                \/ Publishes(s, conf'["webinst"].rt) = cmd'[p].want]_vars

\* A down that answers ok leaves no server of its backend and, under Apache, no
\* descriptor (publish/run.py:369, 469).
OkDownUnpublishes ==
  [][\A p \in Procs, b \in Backends :
       AnswersOk(p, "down", b) /\ b \notin muddled' \cup lost' =>
         /\ \A s \in live' : s.b # b
         /\ b = "webinst" => conf'["webinst"].rt = None]_vars
=============================================================================
