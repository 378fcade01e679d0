-------------------------- MODULE PublicationProofs --------------------------
(***************************************************************************)
(* No server of a publication is out of reach, and a down that answers ok    *)
(* leaves none, for any number of processes, runtimes, ports and pids.       *)
(***************************************************************************)
EXTENDS Publication, TLAPS

(***************************************************************************)
(* The invariant. Where a command stands says what it is; a backend whose     *)
(* commands did not overlap, and whose servers all ended when they were to,   *)
(* is tidy: it has one command and one server at most, and the server that    *)
(* runs is in the pid file.                                                *)
(***************************************************************************)
PlaceOK(c) ==
  /\ c.at # "idle" => c.verdict = "none"
  /\ c.at = "stop" => c.op = "down"
  /\ c.at = "remove" => c.op = "down" /\ c.b = "webinst"
  /\ c.at \in {"conf", "block", "start", "poll"} => c.op = "up"
  /\ c.at = "block" => c.b = "webinst"
  /\ c.at \in {"clear", "start"} => c.seen = None
  /\ c.at = "conf" => c.b = "webinst" \/ c.seen = None

\* What a command relies on: nothing runs where it clears, starts or removes, and
\* what down is about to stop is all that runs.
Ready(c, servers) ==
  /\ c.at \in {"clear", "remove"} => servers = {}
  /\ c.at \in {"conf", "block", "start"} /\ c.seen = None => servers = {}
  /\ c.at = "stop" => \A s \in servers : s.pid = c.seen

Single(b) ==
  /\ \A s, t \in ServersOf(b) : s = t
  /\ \A s \in ServersOf(b) : s.up => s.pid = pidFile[b]

Tidy(b) ==
  /\ \A p, q \in Active(b) : p = q
  /\ Single(b)
  /\ \A p \in Active(b) : Ready(cmd[p], ServersOf(b))

PInv ==
  /\ TypeOK
  /\ \A p \in Procs : PlaceOK(cmd[p])
  /\ \A b \in Backends \ (muddled \cup lost) : Tidy(b)

\* With fewer servers a command is as ready as before.
LEMMA ReadyFewer ==
  ASSUME NEW c, NEW servers, NEW fewer \in SUBSET servers, Ready(c, servers)
  PROVE  Ready(c, fewer)
  BY DEF Ready

(***************************************************************************)
(* Steps.                                                                  *)
(***************************************************************************)
\* A step of a begun command disturbs its own backend only.
LEMMA OneStep ==
  ASSUME PInv, NEW p \in Procs, cmd[p].at # "idle", NEW e \in Backends, e = cmd[p].b,
         NEW d \in Command, d.b = e, cmd' = [cmd EXCEPT ![p] = d], PlaceOK(d),
         muddled' = muddled, lost \subseteq lost', lost' \subseteq Backends,
         \A b \in Backends : b # e => pidFile'[b] = pidFile[b] /\ ServersOf(b)' \subseteq ServersOf(b),
         e \notin muddled \cup lost' =>
           Single(e)' /\ (d.at # "idle" => Ready(d, ServersOf(e)')),
         conf' \in [Backends -> Conf], live' \subseteq Server,
         pidFile' \in [Backends -> Pids \cup {None}],
         UNCHANGED <<profile, ibs, begun, edits>>
  PROVE  PInv'
<1>1. cmd \in [Procs -> Command]
  BY DEF PInv, TypeOK
<1>2. \A q \in Procs : cmd'[q] = IF q = p THEN d ELSE cmd[q]
  BY <1>1
<1>3. TypeOK'
  BY <1>1 DEF PInv, TypeOK
<1>4. \A q \in Procs : PlaceOK(cmd'[q])
  BY <1>2 DEF PInv
<1>5. ASSUME NEW b \in Backends, b \notin muddled' \cup lost'
      PROVE  Tidy(b)'
  <2>1. Tidy(b)
    BY <1>5 DEF PInv
  <2>2. Active(b)' \subseteq Active(b)
    BY <1>2 DEF Active
  <2>3. Single(b)'
    <3>1. CASE b = e
      BY <1>5, <3>1
    <3>2. CASE b # e
      BY <2>1, <3>2 DEF Tidy, Single
    <3> QED BY <3>1, <3>2
  <2>4. ASSUME NEW q \in Active(b)'
        PROVE  Ready(cmd'[q], ServersOf(b)')
    <3>1. CASE q = p
      <4>1. e = b /\ cmd'[q] = d /\ d.at # "idle"
        BY <1>2, <2>4, <3>1 DEF Active
      <4> QED BY <1>5, <4>1
    <3>2. CASE q # p
      <4>1. q \in Active(b) /\ cmd'[q] = cmd[q]
        BY <1>2, <2>2, <2>4, <3>2 DEF Active
      <4>2. b # e
        BY <2>1, <3>2, <4>1 DEF Tidy, Active
      <4> QED BY <2>1, <4>1, <4>2, ReadyFewer DEF Tidy
    <3> QED BY <3>1, <3>2
  <2> QED BY <2>1, <2>2, <2>3, <2>4 DEF Tidy
<1> QED BY <1>3, <1>4, <1>5 DEF PInv, PlaceOK

\* A command at another place.
LEMMA Moved ==
  ASSUME NEW c \in Command, NEW a \in Places
  PROVE  LET d == [c EXCEPT !.at = a]
         IN d \in Command /\ d.at = a /\ d.op = c.op /\ d.b = c.b /\ d.seen = c.seen
            /\ d.verdict = c.verdict
  BY DEF Command

\* A command ends. What it leaves has to be tidy.
LEMMA EndStep ==
  ASSUME PInv, NEW p \in Procs, cmd[p].at # "idle", NEW e \in Backends, e = cmd[p].b, NEW v \in {"none", "ok", "failed"}, End(p, v),
         muddled' = muddled, lost \subseteq lost', lost' \subseteq Backends,
         \A b \in Backends : b # e =>
           pidFile'[b] = pidFile[b] /\ ServersOf(b)' \subseteq ServersOf(b),
         e \notin muddled \cup lost' => Single(e)',
         conf' \in [Backends -> Conf], live' \subseteq Server,
         pidFile' \in [Backends -> Pids \cup {None}],
         UNCHANGED <<profile, ibs, begun, edits>>
  PROVE  PInv'
<1> DEFINE d == [cmd[p] EXCEPT !.at = "idle", !.verdict = v]
<1>1. cmd[p] \in Command
  BY DEF PInv, TypeOK
<1>2. d \in Command /\ d.at = "idle" /\ d.b = cmd[p].b
  BY <1>1 DEF Command, Places
<1>3. cmd' = [cmd EXCEPT ![p] = d]
  BY DEF End
<1> HIDE DEF d
<1>4. PlaceOK(d)
  BY <1>2 DEF PlaceOK
<1> QED BY <1>2, <1>3, <1>4, OneStep

\* A command goes on to another place.
LEMMA GotoStep ==
  ASSUME PInv, NEW p \in Procs, cmd[p].at # "idle", NEW e \in Backends, e = cmd[p].b, NEW a \in Places, Goto(p, a),
         a \in {"start", "poll", "conf", "block"} => cmd[p].op = "up",
         a = "block" => cmd[p].b = "webinst",
         a = "start" => cmd[p].seen = None,
         a = "conf" => cmd[p].b = "webinst" \/ cmd[p].seen = None,
         a = "remove" => cmd[p].op = "down" /\ cmd[p].b = "webinst",
         a \notin {"idle", "stop", "clear"},
         muddled' = muddled, lost' = lost,
         \A b \in Backends : b # e =>
           pidFile'[b] = pidFile[b] /\ ServersOf(b)' \subseteq ServersOf(b),
         e \notin muddled \cup lost =>
           /\ Single(e)'
           /\ a \in {"remove"} \/ (a \in {"conf", "block", "start"} /\ cmd[p].seen = None) =>
                ServersOf(e)' = {},
         conf' \in [Backends -> Conf], live' \subseteq Server,
         pidFile' \in [Backends -> Pids \cup {None}],
         UNCHANGED <<profile, ibs, begun, edits>>
  PROVE  PInv'
<1> DEFINE d == [cmd[p] EXCEPT !.at = a]
<1>1. cmd[p] \in Command
  BY DEF PInv, TypeOK
<1>2. d \in Command /\ d.at = a /\ d.op = cmd[p].op /\ d.b = cmd[p].b /\ d.seen = cmd[p].seen
      /\ d.verdict = cmd[p].verdict /\ PlaceOK(cmd[p])
  BY <1>1, Moved DEF PInv
<1>3. cmd' = [cmd EXCEPT ![p] = d]
  BY DEF Goto
<1> HIDE DEF d
<1>4. PlaceOK(d)
  BY <1>2 DEF PlaceOK
<1>5. e \notin muddled \cup lost' => Single(e)' /\ Ready(d, ServersOf(e)')
  BY <1>2 DEF Ready
<1>6. lost \subseteq lost' /\ lost' \subseteq Backends
  BY DEF PInv, TypeOK
<1> QED BY <1>2, <1>3, <1>4, <1>5, <1>6, OneStep

\* What every begun command has of its backend.
LEMMA Begun ==
  ASSUME PInv, NEW p \in Procs, cmd[p].at # "idle", NEW e, e = cmd[p].b
  PROVE  /\ cmd[p] \in Command /\ e \in Backends /\ PlaceOK(cmd[p])
         /\ e \notin muddled \cup lost =>
              Single(e) /\ Ready(cmd[p], ServersOf(e))
         /\ conf \in [Backends -> Conf] /\ live \subseteq Server
         /\ pidFile \in [Backends -> Pids \cup {None}] /\ lost \subseteq Backends
<1>1. cmd[p] \in Command /\ e \in Backends
  BY DEF PInv, TypeOK, Command
<1> QED BY <1>1 DEF PInv, TypeOK, Tidy, Active

\* The pid file goes where nothing runs that it names.
LEMMA ClearStep ==
  ASSUME PInv, NEW p \in Procs, Clear(p)
  PROVE  PInv'
<1> DEFINE c == cmd[p]
<1> PICK e : e = c.b
  OBVIOUS
<1>1. /\ c.at = "clear" /\ UNCHANGED <<profile, ibs, conf, live, muddled, lost, begun, edits>>
      /\ pidFile' = [pidFile EXCEPT ![e] = None]
  BY DEF Clear
<1>2. /\ c \in Command /\ e \in Backends /\ PlaceOK(c)
      /\ e \notin muddled \cup lost => Single(e) /\ Ready(c, ServersOf(e))
      /\ conf \in [Backends -> Conf] /\ live \subseteq Server
      /\ pidFile \in [Backends -> Pids \cup {None}] /\ lost \subseteq Backends
  BY <1>1, Begun
<1> HIDE DEF c
<1>3. pidFile' \in [Backends -> Pids \cup {None}] /\ \A b \in Backends : b # e => pidFile'[b] = pidFile[b]
  BY <1>1, <1>2
<1>4. \A b \in Backends : ServersOf(b)' = ServersOf(b)
  BY <1>1 DEF ServersOf
<1>5. e \notin muddled \cup lost => Single(e)' /\ ServersOf(e)' = {}
  BY <1>1, <1>2, <1>4 DEF Single, Ready
<1>6. CASE c.op = "up"
  <2>1. Goto(p, "conf")
    BY <1>6 DEF Clear, c
  <2> QED BY <1>1, <1>2, <1>3, <1>4, <1>5, <1>6, <2>1, GotoStep DEF Places, PlaceOK, c
<1>7. CASE c.op = "down" /\ e = "webinst"
  <2>1. Goto(p, "remove")
    BY <1>7 DEF Clear, c
  <2> QED BY <1>1, <1>2, <1>3, <1>4, <1>5, <1>7, <2>1, GotoStep, ZenonT(40) DEF Places, PlaceOK, c
<1>8. CASE End(p, "ok")
  BY <1>1, <1>2, <1>3, <1>4, <1>5, <1>8, EndStep DEF c
<1> QED BY <1>6, <1>7, <1>8 DEF Clear, c

\* up prepares the configuration; no server is touched.
LEMMA ConfSteps ==
  ASSUME PInv, NEW p \in Procs, ScaffoldConf(p) \/ Materialize(p) \/ ConfigInit(p)
  PROVE  PInv'
<1> DEFINE c == cmd[p]
<1> PICK e : e = c.b
  OBVIOUS
<1>1. /\ c.at \in {"conf", "block"}
      /\ UNCHANGED <<profile, ibs, live, pidFile, muddled, lost, begun, edits>>
  BY DEF ScaffoldConf, Materialize, ConfigInit
<1>2. /\ c \in Command /\ e \in Backends /\ PlaceOK(c)
      /\ e \notin muddled \cup lost => Single(e) /\ Ready(c, ServersOf(e))
      /\ conf \in [Backends -> Conf] /\ live \subseteq Server
      /\ pidFile \in [Backends -> Pids \cup {None}] /\ lost \subseteq Backends
  BY <1>1, Begun
<1>3. \A b \in Backends : ServersOf(b)' = ServersOf(b) /\ pidFile'[b] = pidFile[b]
  BY <1>1 DEF ServersOf
<1>4. e \notin muddled \cup lost =>
        Single(e)' /\ (c.seen = None => ServersOf(e)' = {})
  BY <1>1, <1>2, <1>3 DEF Single, Ready
<1>5. conf' \in [Backends -> Conf] /\ c.want.rt \in Runtimes \cup {None} /\ c.want.port \in Ports
  <2>1. c.want.rt \in Runtimes \cup {None} /\ c.want.port \in Ports
    BY <1>2 DEF Command, Want
  <2>2. CASE ScaffoldConf(p)
    BY <1>2, <2>1, <2>2 DEF ScaffoldConf, Conf
  <2>3. CASE Materialize(p)
    BY <1>2, <2>1, <2>3 DEF Materialize, Conf
  <2>4. CASE ConfigInit(p)
    BY <1>2, <2>1, <2>4 DEF ConfigInit, Conf
  <2> QED BY <2>1, <2>2, <2>3, <2>4
<1>6. PICK a \in {"block", "start", "idle"} :
        /\ a = "idle" => End(p, "ok")
        /\ a # "idle" => Goto(p, a)
        /\ a = "block" => e = "webinst"
        /\ a = "start" => c.seen = None
        /\ c.op = "up"
  <2>1. CASE ScaffoldConf(p)
    BY <1>2, <2>1 DEF ScaffoldConf, PlaceOK
  <2>2. CASE Materialize(p)
    BY <1>2, <2>2 DEF Materialize, PlaceOK
  <2>3. CASE ConfigInit(p)
    BY <1>2, <2>3 DEF ConfigInit, PlaceOK
  <2> QED BY <2>1, <2>2, <2>3
<1> HIDE DEF c
<1>7. CASE a = "idle"
  BY <1>1, <1>2, <1>3, <1>4, <1>5, <1>6, <1>7, EndStep DEF c
<1>8. CASE a # "idle"
  BY <1>1, <1>2, <1>3, <1>4, <1>5, <1>6, <1>8, GotoStep DEF Places, c
<1> QED BY <1>7, <1>8

\* A server starts where none runs.
LEMMA LaunchStep ==
  ASSUME PInv, NEW p \in Procs, StartHttpd(p) \/ StartDaemon(p)
  PROVE  PInv'
<1> DEFINE c == cmd[p]
<1> PICK e : e = c.b
  OBVIOUS
<1>1. PICK pid \in Pids : Launch(p, pid)
  BY DEF StartHttpd, StartDaemon
<1>2. c.at = "start"
  BY DEF StartHttpd, StartDaemon
<1> DEFINE s == [pid |-> pid, b |-> e, started |-> conf[e], up |-> FALSE, want |-> c.want]
<1>3. /\ c \in Command /\ e \in Backends /\ PlaceOK(c)
      /\ e \notin muddled \cup lost => Single(e) /\ Ready(c, ServersOf(e))
      /\ conf \in [Backends -> Conf] /\ live \subseteq Server
      /\ pidFile \in [Backends -> Pids \cup {None}] /\ lost \subseteq Backends
  BY <1>2, Begun
<1>4. /\ live' = live \cup {s} /\ pidFile' = [pidFile EXCEPT ![e] = None] /\ Goto(p, "poll")
      /\ UNCHANGED <<profile, ibs, conf, muddled, lost, begun, edits>>
  BY <1>1 DEF Launch
<1>5. s \in Server /\ s.b = e /\ s.up = FALSE
  BY <1>3 DEF Server, Command
<1> HIDE DEF c, s
<1>6. /\ pidFile' \in [Backends -> Pids \cup {None}] /\ live' \subseteq Server
      /\ \A b \in Backends : b # e => pidFile'[b] = pidFile[b] /\ ServersOf(b)' = ServersOf(b)
  BY <1>3, <1>4, <1>5 DEF ServersOf
<1>7. e \notin muddled \cup lost => Single(e)'
  <2> SUFFICES ASSUME e \notin muddled \cup lost PROVE Single(e)'
    OBVIOUS
  <2>1. ServersOf(e) = {}
    BY <1>2, <1>3 DEF Ready, PlaceOK
  <2>2. ServersOf(e)' = {s}
    BY <1>4, <1>5, <2>1 DEF ServersOf
  <2> QED BY <1>5, <2>2 DEF Single
<1> QED BY <1>2, <1>3, <1>4, <1>6, <1>7, GotoStep DEF Places, PlaceOK, c

\* The steps that end up without a new server, and the kill.
LEMMA EndSteps ==
  ASSUME PInv, NEW p \in Procs,
         UpFails(p) \/ StartFails(p) \/ PollFinds(p) \/ PollTimesOut(p) \/ Crash(p)
         \/ RemovePublication(p)
  PROVE  PInv'
<1> DEFINE c == cmd[p]
<1> PICK e : e = c.b
  OBVIOUS
<1>1. /\ c.at # "idle" /\ UNCHANGED <<profile, ibs, live, muddled, begun, edits>>
      /\ lost \subseteq lost'
  BY DEF UpFails, StartFails, PollFinds, PollTimesOut, Crash, RemovePublication
<1>2. /\ c \in Command /\ e \in Backends /\ PlaceOK(c)
      /\ e \notin muddled \cup lost => Single(e) /\ Ready(c, ServersOf(e))
      /\ conf \in [Backends -> Conf] /\ live \subseteq Server
      /\ pidFile \in [Backends -> Pids \cup {None}] /\ lost \subseteq Backends
  BY <1>1, Begun
<1>3. \A b \in Backends : ServersOf(b)' = ServersOf(b)
  BY <1>1 DEF ServersOf
<1>4. lost' \subseteq Backends
  BY <1>2 DEF UpFails, StartFails, PollFinds, PollTimesOut, Crash, RemovePublication
<1>5. conf' \in [Backends -> Conf]
  BY <1>2 DEF UpFails, StartFails, PollFinds, PollTimesOut, Crash, RemovePublication, Conf
<1>6. PICK v \in {"none", "ok", "failed"} : End(p, v)
  BY DEF UpFails, StartFails, PollFinds, PollTimesOut, Crash, RemovePublication
<1>7. pidFile' = pidFile \/ (c.at = "start" /\ pidFile' = [pidFile EXCEPT ![e] = None])
  BY DEF UpFails, StartFails, PollFinds, PollTimesOut, Crash, RemovePublication
<1> HIDE DEF c
<1>8. /\ pidFile' \in [Backends -> Pids \cup {None}]
      /\ \A b \in Backends : b # e => pidFile'[b] = pidFile[b]
  BY <1>2, <1>7
<1>9. e \notin muddled \cup lost' => Single(e)'
  BY <1>1, <1>2, <1>3, <1>7 DEF Single, Ready, PlaceOK
<1> QED BY <1>1, <1>2, <1>3, <1>4, <1>5, <1>6, <1>8, <1>9, EndStep DEF c

\* down stops what the pid file named, and nothing else of its backend runs.
LEMMA StopStep ==
  ASSUME PInv, NEW p \in Procs, Stop(p) \/ StopFails(p)
  PROVE  PInv'
<1> DEFINE c == cmd[p]
<1> PICK e : e = c.b
  OBVIOUS
<1>1. c.at = "stop" /\ UNCHANGED <<profile, ibs, conf, muddled, begun, edits>>
      /\ pidFile' = [pidFile EXCEPT ![e] = None]
  BY DEF Stop, StopFails
<1>2. /\ c \in Command /\ e \in Backends /\ PlaceOK(c)
      /\ e \notin muddled \cup lost => Single(e) /\ Ready(c, ServersOf(e))
      /\ conf \in [Backends -> Conf] /\ live \subseteq Server
      /\ pidFile \in [Backends -> Pids \cup {None}] /\ lost \subseteq Backends
  BY <1>1, Begun
<1>3. CASE Stop(p)
  <2>1. lost' = lost /\ live' = {s \in live : s.pid # c.seen}
    BY <1>3 DEF Stop
  <2>2. IF e = "webinst" THEN Goto(p, "remove") ELSE End(p, "ok")
    BY <1>3 DEF Stop
  <2> HIDE DEF c
  <2>3. /\ pidFile' \in [Backends -> Pids \cup {None}] /\ live' \subseteq Server
        /\ \A b \in Backends : /\ b # e => pidFile'[b] = pidFile[b]
                              /\ ServersOf(b)' \subseteq ServersOf(b)
    BY <1>1, <1>2, <2>1 DEF ServersOf
  <2>4. e \notin muddled \cup lost => ServersOf(e)' = {} /\ Single(e)'
    BY <1>1, <1>2, <2>1 DEF ServersOf, Single, Ready
  <2>5. CASE Goto(p, "remove") /\ e = "webinst"
    BY <1>1, <1>2, <2>1, <2>3, <2>4, <2>5, GotoStep DEF Places, PlaceOK, c
  <2>6. CASE End(p, "ok")
    BY <1>1, <1>2, <2>1, <2>3, <2>4, <2>6, EndStep DEF c
  <2> QED BY <2>2, <2>5, <2>6
<1>4. CASE StopFails(p)
  <2>1. End(p, "failed") /\ lost' = lost \cup {e} /\ live' = live
    BY <1>4 DEF StopFails
  <2> HIDE DEF c
  <2>2. /\ pidFile' \in [Backends -> Pids \cup {None}] /\ lost' \subseteq Backends
        /\ \A b \in Backends : b # e => pidFile'[b] = pidFile[b]
        /\ \A b \in Backends : ServersOf(b)' = ServersOf(b)
    BY <1>1, <1>2, <2>1 DEF ServersOf
  <2> QED BY <1>1, <1>2, <2>1, <2>2, EndStep DEF c
<1> QED BY <1>3, <1>4

(***************************************************************************)
(* The start of a command, and the environment.                            *)
(***************************************************************************)
\* A command that begins at a backend in order finds its one server or none.
LEMMA BeginStep ==
  ASSUME PInv, NEW p \in Procs, NEW op \in Ops, NEW b \in Backends, NEW want \in Want,
         NEW place \in Places, NEW v \in {"none", "ok", "failed"},
         Begin(p, op, b, want, place, v), profile' \in [Backends -> Want], pidFile' = pidFile,
         place \in {"idle", "clear", "conf", "stop"}, place # "idle" => v = "none",
         place = "clear" => ~Alive(b),
         place = "conf" => op = "up" /\ (~Alive(b) \/ b = "webinst"),
         place = "stop" => op = "down" /\ Alive(b)
  PROVE  PInv'
<1> DEFINE seen == IF Alive(b) THEN pidFile[b] ELSE None
           d == [at |-> place, op |-> op, b |-> b, want |-> want, seen |-> seen, verdict |-> v]
<1>1. /\ cmd' = [cmd EXCEPT ![p] = d] /\ cmd[p].at = "idle"
      /\ muddled' = IF Busy(b) THEN muddled \cup {b} ELSE muddled
      /\ UNCHANGED <<ibs, conf, live, lost, edits>>
      /\ begun' = begun + 1 /\ begun < MaxCommands
  BY DEF Begin
<1>2. TypeOK
  BY DEF PInv
<1>3. d \in Command
  <2>1. seen \in Pids \cup {None}
    BY <1>2 DEF TypeOK
  <2> QED BY <2>1 DEF Command
<1>4. d.at = place /\ d.op = op /\ d.b = b /\ d.seen = seen /\ d.verdict = v
  OBVIOUS
<1> HIDE DEF d
<1>5. \A q \in Procs : cmd'[q] = IF q = p THEN d ELSE cmd[q]
  BY <1>1, <1>2 DEF TypeOK
<1>6. TypeOK'
  BY <1>1, <1>2, <1>3, BoundsAreNat DEF TypeOK
<1>7. \A q \in Procs : PlaceOK(cmd'[q])
  <2>1. PlaceOK(d)
    BY <1>4 DEF PlaceOK
  <2> QED BY <1>5, <2>1 DEF PInv
<1>8. ASSUME NEW e \in Backends, e \notin muddled' \cup lost'
      PROVE  Tidy(e)'
  <2>1. Tidy(e) /\ ServersOf(e)' = ServersOf(e) /\ Single(e)'
    BY <1>1, <1>8 DEF PInv, Tidy, Single, ServersOf
  <2>2. CASE e # b
    <3>1. Active(e)' = Active(e)
      BY <1>1, <1>4, <1>5, <2>2 DEF Active
    <3>2. \A q \in Active(e) : cmd'[q] = cmd[q]
      BY <1>1, <1>5 DEF Active
    <3> QED BY <2>1, <3>1, <3>2 DEF Tidy
  <2>3. CASE e = b
    <3>1. ~Busy(b)
      BY <1>1, <1>8, <2>3
    <3>2. Active(b)' \subseteq {p}
      BY <1>5, <3>1 DEF Active, Busy
    <3>3. \A s \in ServersOf(b) : s.pid = pidFile[b] /\ s \in live
      BY <2>1, <2>3, <3>1 DEF Busy, Tidy, Single, ServersOf
    <3>4. Ready(d, ServersOf(b))
      <4>1. Alive(b) => seen # None
        BY <1>2, NoneIsNothing DEF Alive, TypeOK, Server
      <4>2. seen = None \/ place \in {"clear", "remove"} => ServersOf(b) = {}
        BY <3>3, <4>1 DEF Alive
      <4>3. place = "stop" => seen = pidFile[b]
        OBVIOUS
      <4> QED BY <1>4, <3>3, <4>2, <4>3 DEF Ready
    <3>5. \A q \in Active(b)' : Ready(cmd'[q], ServersOf(b)')
      BY <1>5, <2>1, <2>3, <3>2, <3>4
    <3> QED BY <2>1, <2>3, <3>2, <3>5 DEF Tidy
  <2> QED BY <2>2, <2>3
<1> QED BY <1>6, <1>7, <1>8 DEF PInv, PlaceOK

\* What up begins with.
LEMMA BeginUpStep ==
  ASSUME PInv, NEW p \in Procs, NEW b \in Backends, BeginUp(p, b)
  PROVE  PInv'
<1>1. Ensured(b) \in Want /\ profile \in [Backends -> Want]
  BY HomeIsRuntime, DefaultPortIsPort DEF Ensured, Want, PInv, TypeOK
<1>2. profile' \in [Backends -> Want]
  BY <1>1 DEF BeginUp
<1>3. PICK place \in {"idle", "conf", "clear"}, v \in {"none", "ok", "failed"} :
        /\ Begin(p, "up", b, Ensured(b), place, v)
        /\ place # "idle" => v = "none"
        /\ place = "clear" => ~Alive(b)
        /\ place = "conf" => ~Alive(b) \/ b = "webinst"
  BY DEF BeginUp
<1>4. pidFile' = pidFile
  BY DEF BeginUp, Begin
<1> QED BY <1>1, <1>2, <1>3, <1>4, BeginStep DEF Ops, Places

\* What down and status begin with.
LEMMA BeginOthers ==
  ASSUME PInv, NEW p \in Procs, NEW b \in Backends, BeginDown(p, b) \/ BeginStatus(p, b)
  PROVE  PInv'
<1>1. profile[b] \in Want /\ profile' \in [Backends -> Want] /\ pidFile' = pidFile
  BY DEF PInv, TypeOK, BeginDown, BeginStatus, Begin
<1>2. PICK op \in {"down", "status"}, place \in {"idle", "clear", "stop"}, v \in {"none", "ok", "failed"} :
        /\ Begin(p, op, b, profile[b], place, v)
        /\ place # "idle" => v = "none"
        /\ place = "clear" => ~Alive(b)
        /\ place = "stop" => op = "down" /\ Alive(b)
  BY DEF BeginDown, BeginStatus
<1> QED BY <1>1, <1>2, BeginStep DEF Ops, Places

\* A server writes its pid file, or dies.
LEMMA ServerStep ==
  ASSUME PInv, NEW s \in live, WritesPid(s) \/ Dies(s)
  PROVE  PInv'
<1>1. /\ s \in Server /\ s.b \in Backends /\ s.pid \in Pids /\ live \subseteq Server
      /\ pidFile \in [Backends -> Pids \cup {None}]
  BY DEF PInv, TypeOK, Server
<1>2. UNCHANGED <<profile, ibs, conf, cmd, muddled, lost, begun, edits>>
  BY DEF WritesPid, Dies
<1>3. \A b \in Backends : Active(b)' = Active(b)
  BY <1>2 DEF Active
<1>4. CASE WritesPid(s)
  <2> DEFINE r == [s EXCEPT !.up = TRUE]
  <2>1. r \in Server /\ r.b = s.b /\ r.pid = s.pid
    BY <1>1 DEF Server
  <2>2. live' = (live \ {s}) \cup {r} /\ pidFile' = [pidFile EXCEPT ![s.b] = s.pid]
    BY <1>4 DEF WritesPid
  <2> HIDE DEF r
  <2>3. TypeOK'
    BY <1>1, <1>2, <2>1, <2>2 DEF PInv, TypeOK
  <2>4. ASSUME NEW b \in Backends, b \notin muddled \cup lost
        PROVE  Tidy(b)'
    <3>1. Tidy(b)
      BY <2>4 DEF PInv
    <3>2. CASE b # s.b
      <4>1. ServersOf(b)' = ServersOf(b) /\ pidFile'[b] = pidFile[b]
        BY <1>1, <2>1, <2>2, <3>2 DEF ServersOf
      <4> QED BY <1>2, <1>3, <3>1, <4>1 DEF Tidy, Single
    <3>3. CASE b = s.b
      <4>1. ServersOf(b) = {s}
        BY <3>1, <3>3 DEF Tidy, Single, ServersOf
      <4>2. ServersOf(b)' = {r} /\ pidFile'[b] = r.pid
        BY <1>1, <2>1, <2>2, <3>3, <4>1 DEF ServersOf
      <4>3. Single(b)'
        BY <4>2 DEF Single
      <4>4. \A p \in Active(b) : Ready(cmd[p], {r})
        BY <2>1, <3>1, <4>1 DEF Tidy, Ready
      <4> QED BY <1>2, <1>3, <3>1, <4>2, <4>3, <4>4 DEF Tidy
    <3> QED BY <3>2, <3>3
  <2> QED BY <1>2, <2>3, <2>4 DEF PInv
<1>5. CASE Dies(s)
  <2>1. live' = live \ {s} /\ pidFile' = pidFile
    BY <1>5 DEF Dies
  <2>2. TypeOK'
    BY <1>1, <1>2, <2>1 DEF PInv, TypeOK
  <2>3. ASSUME NEW b \in Backends, b \notin muddled \cup lost
        PROVE  Tidy(b)'
    <3>1. Tidy(b) /\ ServersOf(b)' \subseteq ServersOf(b)
      BY <2>1, <2>3 DEF PInv, ServersOf
    <3>2. Single(b)'
      BY <2>1, <3>1 DEF Tidy, Single
    <3> QED BY <1>2, <1>3, <3>1, <3>2, ReadyFewer DEF Tidy
  <2> QED BY <1>2, <2>2, <2>3 DEF PInv
<1> QED BY <1>4, <1>5

\* The rest of the environment touches neither commands nor servers.
LEMMA EditStep ==
  ASSUME PInv,
         \/ \E b \in Backends, want \in Want : Retarget(b, want)
         \/ \E r \in Runtimes : Build(r) \/ Clean(r)
         \/ UNCHANGED vars
  PROVE  PInv'
<1>1. UNCHANGED <<conf, live, pidFile, cmd, muddled, lost, begun>>
  BY DEF Retarget, Build, Clean, vars
<1>2. TypeOK'
  BY <1>1, BoundsAreNat DEF PInv, TypeOK, Retarget, Build, Clean, vars
<1>3. \A b \in Backends : Tidy(b)' <=> Tidy(b)
  BY <1>1 DEF Tidy, Single, ServersOf, Active
<1> QED BY <1>1, <1>2, <1>3 DEF PInv

(***************************************************************************)
(* The theorems.                                                           *)
(***************************************************************************)
\* The invariant holds before any command.
LEMMA PInvInit == Init => PInv
<1> SUFFICES ASSUME Init PROVE PInv
  OBVIOUS
<1>1. Idle \in Command /\ Idle.at = "idle"
  BY DefaultPortIsPort DEF Idle, NoWant, Command, Places, Ops, Want, Backends
<1>2. cmd \in [Procs -> Command] /\ \A p \in Procs : cmd[p].at = "idle"
  BY <1>1 DEF Init
<1>3. profile \in [Backends -> Want] /\ conf \in [Backends -> Conf]
  BY DefaultPortIsPort DEF Init, Want, Conf
<1>4. TypeOK
  BY <1>2, <1>3, HomeIsRuntime, BoundsAreNat DEF Init, TypeOK
<1>5. \A b \in Backends : Tidy(b)
  BY <1>2 DEF Init, Tidy, Single, ServersOf, Active
<1> QED BY <1>2, <1>4, <1>5 DEF PInv, PlaceOK

\* Every step keeps the invariant.
LEMMA PInvStep == PInv /\ [Next]_vars => PInv'
<1> SUFFICES ASSUME PInv, [Next]_vars PROVE PInv'
  OBVIOUS
<1>1. ASSUME NEW p \in Procs, Step(p)
      PROVE  PInv'
  BY <1>1, ClearStep, ConfSteps, LaunchStep, EndSteps, StopStep DEF Step
<1>2. ASSUME NEW p \in Procs, Start(p)
      PROVE  PInv'
  BY <1>2, BeginUpStep, BeginOthers DEF Start
<1> QED BY <1>1, <1>2, ServerStep, EditStep DEF Next, Environment

\* The invariant holds in every reachable state.
LEMMA Invariant == Spec => []PInv
  BY PInvInit, PInvStep, PTL DEF Spec

\* No server is out of reach: it is the one its pid file names, unless commands of its
\* backend overlapped, a stop failed or a deadline passed.
THEOREM ServersInReach == Spec => []NoOrphans
<1>1. PInv => NoOrphans
  BY DEF PInv, Tidy, Single, NoOrphans
<1> QED BY <1>1, Invariant, PTL

\* A down that answers ok leaves no server of its backend and, under Apache, no
\* descriptor.
THEOREM DownOkUnpublishes == Spec => OkDownUnpublishes
<1>1. ASSUME PInv, [Next]_vars, NEW p \in Procs, NEW b \in Backends,
             AnswersOk(p, "down", b), b \notin muddled' \cup lost'
      PROVE  /\ \A s \in live' : s.b # b
             /\ b = "webinst" => conf'["webinst"].rt = None
  <2>1. TypeOK /\ cmd \in [Procs -> Command] /\ cmd'[p] # cmd[p]
    BY <1>1 DEF PInv, TypeOK, AnswersOk
  <2>2. ASSUME NEW q \in Procs, Start(q)
        PROVE  FALSE
    <3>1. ASSUME NEW op, NEW e, NEW want, NEW place, NEW v, Begin(q, op, e, want, place, v),
                 op # "down" \/ v = "none"
          PROVE  FALSE
      <4> DEFINE d == [at |-> place, op |-> op, b |-> e, want |-> want,
                       seen |-> IF Alive(e) THEN pidFile[e] ELSE None, verdict |-> v]
      <4>1. cmd' = [cmd EXCEPT ![q] = d] /\ d.op = op /\ d.verdict = v
        BY <3>1 DEF Begin
      <4> HIDE DEF d
      <4>2. cmd'[p] = d
        BY <2>1, <4>1
      <4> QED BY <1>1, <3>1, <4>1, <4>2 DEF AnswersOk
    <3> QED BY <2>2, <3>1 DEF Start, BeginUp, BeginDown, BeginStatus
  <2>3. Step(p)
    <3>1. PICK q \in Procs : Step(q)
      BY <1>1, <2>1, <2>2 DEF Next, Environment, WritesPid, Dies, Retarget, Build, Clean, vars
    <3>2. CASE q # p
      <4>1. \A a, v : Goto(q, a) \/ End(q, v) => cmd'[p] = cmd[p]
        BY <3>2, <2>1 DEF Goto, End
      <4> QED BY <2>1, <3>1, <4>1 DEF Step, Clear, UpFails, ScaffoldConf, Materialize, ConfigInit,
              StartHttpd, StartDaemon, Launch, StartFails, PollFinds, PollTimesOut, Stop, StopFails,
              RemovePublication, Crash
    <3> QED BY <3>1, <3>2
  <2>4. cmd[p].at # "idle"
    BY <2>3 DEF Step, Clear, UpFails, ScaffoldConf, Materialize, ConfigInit, StartHttpd, StartDaemon,
                StartFails, PollFinds, PollTimesOut, Stop, StopFails, RemovePublication, Crash
  <2>5. (\E a : Goto(p, a)) \/ (\E v : End(p, v))
    BY <2>3 DEF Step, Clear, UpFails, ScaffoldConf, Materialize, ConfigInit, StartHttpd, StartDaemon,
                Launch, StartFails, PollFinds, PollTimesOut, Stop, StopFails, RemovePublication, Crash
  <2>6. cmd[p].b = b /\ cmd[p].op = "down"
    BY <1>1, <2>1, <2>5 DEF AnswersOk, Goto, End, Command
  <2>7. /\ PlaceOK(cmd[p]) /\ b \notin muddled \cup lost
        /\ Ready(cmd[p], ServersOf(b)) /\ Single(b)
    <3>1. muddled \cup lost \subseteq muddled' \cup lost'
      BY <2>3 DEF Step, Clear, UpFails, ScaffoldConf, Materialize, ConfigInit, StartHttpd, StartDaemon,
                  Launch, StartFails, PollFinds, PollTimesOut, Stop, StopFails, RemovePublication, Crash
    <3> QED BY <1>1, <2>4, <2>6, <3>1, Begun
  <2>8. \A v : End(p, v) => cmd'[p].verdict = v
    BY <2>1 DEF End, Command
  <2>9. cmd'[p].verdict = "ok" /\ \A a : ~Goto(p, a)
    <3>1. cmd'[p].verdict = "ok" /\ cmd[p].verdict = "none"
      BY <1>1, <2>4, <2>7 DEF AnswersOk, PlaceOK
    <3> QED BY <2>1, <3>1 DEF Goto, Command
  <2>10. CASE Clear(p)
    <3>1. b # "webinst"
      BY <2>6, <2>9, <2>10 DEF Clear
    <3>2. ServersOf(b) = {} /\ live' = live
      BY <2>7, <2>10 DEF Clear, Ready
    <3> QED BY <3>1, <3>2 DEF ServersOf
  <2>11. CASE Stop(p)
    <3>1. \A s \in live' : s.b # b
      BY <2>7, <2>11 DEF Stop, Ready, ServersOf
    <3> QED BY <2>6, <2>9, <2>11, <3>1 DEF Stop
  <2>12. CASE RemovePublication(p)
    <3>1. ServersOf(b) = {} /\ live' = live
      BY <2>7, <2>12 DEF RemovePublication, Ready
    <3>2. conf'["webinst"].rt = None
      BY <2>1, <2>12 DEF RemovePublication, TypeOK, Conf, Backends
    <3> QED BY <3>1, <3>2 DEF ServersOf
  <2>13. ~Crash(p) /\ ~StopFails(p)
    BY <2>8, <2>9 DEF Crash, StopFails
  <2> QED BY <2>3, <2>6, <2>7, <2>10, <2>11, <2>12, <2>13
          DEF Step, PlaceOK, UpFails, ScaffoldConf, Materialize, ConfigInit, StartHttpd, StartDaemon,
              StartFails, PollFinds, PollTimesOut
<1>2. PInv /\ [Next]_vars =>
        \A p \in Procs, b \in Backends :
          AnswersOk(p, "down", b) /\ b \notin muddled' \cup lost' =>
            /\ \A s \in live' : s.b # b
            /\ b = "webinst" => conf'["webinst"].rt = None
  BY <1>1
<1> QED BY <1>2, Invariant, PTL DEF Spec, OkDownUnpublishes

(***************************************************************************)
(* What an up that answers ok leaves: a second invariant on top of the first. *)
(* A pid belongs to one server, a pid file to its backend; a server was        *)
(* started with what the profile it was started for says; and an up that       *)
(* starts a server, or waits for it, has written that profile.               *)
(***************************************************************************)
PidsOwn ==
  /\ \A s, t \in live : s.pid = t.pid => s = t
  /\ \A b \in Backends : \A s \in live : s.pid = pidFile[b] => s.b = b

Fits(s) ==
  /\ s.started.port = s.want.port
  /\ s.b = "ibsrv" => s.started.rt = s.want.rt
  /\ s.b = "webinst" => s.started.block

Prepared(c, written, servers) ==
  /\ c.at = "block" => written.port = c.want.port
  /\ c.at \in {"start", "poll"} =>
       /\ written.rt = c.want.rt /\ written.port = c.want.port
       /\ c.b = "webinst" => written.block
  /\ c.at = "poll" => \A s \in servers : s.want = c.want

Fit(b) ==
  /\ \A s \in ServersOf(b) : Fits(s)
  /\ \A p \in Active(b) : Prepared(cmd[p], conf[b], ServersOf(b))

UInv ==
  /\ PInv
  /\ PidsOwn
  /\ \A b \in Backends \ (muddled \cup lost) : Fit(b)

\* With fewer servers a command is as prepared as before.
LEMMA PreparedFewer ==
  ASSUME NEW c, NEW written, NEW servers, NEW fewer \in SUBSET servers,
         Prepared(c, written, servers)
  PROVE  Prepared(c, written, fewer)
  BY DEF Prepared

\* A step of a begun command leaves the other backend's servers and configuration.
LEMMA FitStep ==
  ASSUME UInv, NEW p \in Procs, cmd[p].at # "idle", NEW e \in Backends, e = cmd[p].b,
         NEW d, d.b = e, cmd' = [cmd EXCEPT ![p] = d],
         muddled' = muddled, lost \subseteq lost',
         \A b \in Backends : b # e => conf'[b] = conf[b] /\ ServersOf(b)' \subseteq ServersOf(b),
         e \notin muddled \cup lost' =>
           /\ \A s \in ServersOf(e)' : Fits(s)
           /\ d.at # "idle" => Prepared(d, conf'[e], ServersOf(e)')
  PROVE  \A b \in Backends \ (muddled' \cup lost') : Fit(b)'
<1> SUFFICES ASSUME NEW b \in Backends, b \notin muddled' \cup lost'
             PROVE  Fit(b)'
  OBVIOUS
<1>1. \A q \in Procs : cmd'[q] = IF q = p THEN d ELSE cmd[q]
  BY DEF UInv, PInv, TypeOK
<1>2. Tidy(b) /\ Fit(b)
  BY DEF UInv, PInv
<1>3. CASE b = e
  <2>1. \A q \in Active(b)' : q = p /\ cmd'[q] = d /\ d.at # "idle"
    BY <1>1, <1>2, <1>3 DEF Active, Tidy
  <2> QED BY <1>3, <2>1 DEF Fit
<1>4. CASE b # e
  <2>1. \A q \in Active(b)' : q \in Active(b) /\ cmd'[q] = cmd[q]
    BY <1>1, <1>4 DEF Active
  <2> QED BY <1>2, <1>4, <2>1, PreparedFewer DEF Fit
<1> QED BY <1>3, <1>4

\* What a begun command has of its backend here.
LEMMA BegunFit ==
  ASSUME UInv, NEW p \in Procs, cmd[p].at # "idle", NEW e, e = cmd[p].b
  PROVE  /\ cmd[p] \in Command /\ e \in Backends /\ PlaceOK(cmd[p]) /\ cmd \in [Procs -> Command]
         /\ conf \in [Backends -> Conf]
         /\ e \notin muddled \cup lost =>
              /\ Ready(cmd[p], ServersOf(e)) /\ Prepared(cmd[p], conf[e], ServersOf(e))
              /\ \A s \in ServersOf(e) : Fits(s)
<1>1. cmd[p] \in Command /\ e \in Backends
  BY DEF UInv, PInv, TypeOK, Command
<1> QED BY <1>1 DEF UInv, PInv, TypeOK, Tidy, Active, Fit

\* A step that starts no server, and prepares what its command's next place asks for.
LEMMA OrdinaryStep ==
  ASSUME UInv, NEW p \in Procs, cmd[p].at # "idle", NEW a \in Places, NEW v,
         Goto(p, a) \/ (a = "idle" /\ End(p, v)), a # "poll",
         muddled' = muddled, lost \subseteq lost', live' \subseteq live,
         \A b \in Backends : b # cmd[p].b => conf'[b] = conf[b],
         cmd[p].b \notin muddled \cup lost =>
           /\ a = "block" => conf'["webinst"].port = cmd[p].want.port /\ cmd[p].b = "webinst"
           /\ a = "start" => /\ conf'[cmd[p].b].rt = cmd[p].want.rt
                             /\ conf'[cmd[p].b].port = cmd[p].want.port
                             /\ cmd[p].b = "webinst" => conf'[cmd[p].b].block
  PROVE  \A b \in Backends \ (muddled' \cup lost') : Fit(b)'
<1> PICK e : e = cmd[p].b
  OBVIOUS
<1>1. /\ cmd[p] \in Command /\ e \in Backends /\ PlaceOK(cmd[p]) /\ cmd \in [Procs -> Command]
      /\ e \notin muddled \cup lost => \A s \in ServersOf(e) : Fits(s)
  BY BegunFit
<1>2. PICK d : /\ cmd' = [cmd EXCEPT ![p] = d]
               /\ d.b = e /\ d.at = a /\ d.want = cmd[p].want
  <2>1. CASE Goto(p, a)
    <3> DEFINE d == [cmd[p] EXCEPT !.at = a]
    <3>1. d.b = e /\ d.at = a /\ d.want = cmd[p].want
      BY <1>1 DEF Command
    <3>2. cmd' = [cmd EXCEPT ![p] = d]
      BY <2>1 DEF Goto
    <3> HIDE DEF d
    <3> QED BY <3>1, <3>2
  <2>2. CASE a = "idle" /\ End(p, v)
    <3> DEFINE d == [cmd[p] EXCEPT !.at = "idle", !.verdict = v]
    <3>1. d.b = e /\ d.at = a /\ d.want = cmd[p].want
      BY <1>1, <2>2 DEF Command
    <3>2. cmd' = [cmd EXCEPT ![p] = d]
      BY <2>2 DEF End
    <3> HIDE DEF d
    <3> QED BY <3>1, <3>2
  <2> QED BY <2>1, <2>2
<1>3. \A b \in Backends : ServersOf(b)' \subseteq ServersOf(b)
  BY DEF ServersOf
<1>4. e \notin muddled \cup lost' =>
        /\ \A s \in ServersOf(e)' : Fits(s)
        /\ d.at # "idle" => Prepared(d, conf'[e], ServersOf(e)')
  <2> SUFFICES ASSUME e \notin muddled \cup lost
               PROVE  /\ \A s \in ServersOf(e)' : Fits(s)
                      /\ Prepared(d, conf'[e], ServersOf(e)')
    OBVIOUS
  <2>1. \A s \in ServersOf(e)' : Fits(s)
    BY <1>1, <1>3
  <2>2. /\ d.at = "block" => conf'[e].port = d.want.port
        /\ d.at = "start" => /\ conf'[e].rt = d.want.rt /\ conf'[e].port = d.want.port
                             /\ d.b = "webinst" => conf'[e].block
        /\ d.at # "poll"
    BY <1>2
  <2>3. ASSUME NEW servers
        PROVE  Prepared(d, conf'[e], servers)
    <3> DEFINE w == conf'[e]
    <3>1. /\ d.at = "block" => w.port = d.want.port
          /\ d.at = "start" => w.rt = d.want.rt /\ w.port = d.want.port
          /\ d.at = "start" /\ d.b = "webinst" => w.block
          /\ d.at # "poll"
      BY <2>2
    <3> HIDE DEF w
    <3>2. Prepared(d, w, servers)
      BY <3>1 DEF Prepared
    <3> QED BY <3>2 DEF w
  <2> QED BY <2>1, <2>3
<1> QED BY <1>1, <1>2, <1>3, <1>4, FitStep

\* The steps of a command keep a backend fit.
LEMMA StepFit ==
  ASSUME UInv, NEW p \in Procs, Step(p)
  PROVE  \A b \in Backends \ (muddled' \cup lost') : Fit(b)'
<1> DEFINE c == cmd[p]
<1> PICK e : e = c.b
  OBVIOUS
<1>1. c.at # "idle" /\ muddled' = muddled /\ lost \subseteq lost'
  BY DEF Step, Clear, UpFails, ScaffoldConf, Materialize, ConfigInit, StartHttpd, StartDaemon,
         Launch, StartFails, PollFinds, PollTimesOut, Stop, StopFails, RemovePublication, Crash
<1>2. /\ c \in Command /\ e \in Backends /\ PlaceOK(c) /\ cmd \in [Procs -> Command]
      /\ conf \in [Backends -> Conf]
      /\ e \notin muddled \cup lost =>
           /\ Ready(c, ServersOf(e)) /\ Prepared(c, conf[e], ServersOf(e))
           /\ \A s \in ServersOf(e) : Fits(s)
  BY <1>1, BegunFit
<1>3. ASSUME conf' = conf, live' \subseteq live,
             \E a \in {"conf", "remove"} : Goto(p, a) \/ \E v : End(p, v)
      PROVE  \A b \in Backends \ (muddled' \cup lost') : Fit(b)'
  BY <1>1, <1>3, OrdinaryStep DEF Places
<1>4. CASE Clear(p) \/ UpFails(p) \/ StartFails(p) \/ PollFinds(p) \/ PollTimesOut(p) \/ Stop(p)
           \/ StopFails(p) \/ Crash(p)
  BY <1>3, <1>4 DEF Clear, UpFails, StartFails, PollFinds, PollTimesOut, Stop, StopFails, Crash
<1>5. CASE ScaffoldConf(p)
  <2>1. /\ live' = live /\ Goto(p, "block") /\ c.b = "webinst"
        /\ conf' = [conf EXCEPT !["webinst"].port = c.want.port, !["webinst"].block = FALSE]
    BY <1>5 DEF ScaffoldConf
  <2>2. /\ conf'["webinst"].port = c.want.port
        /\ \A b \in Backends : b # "webinst" => conf'[b] = conf[b]
    BY <1>2, <2>1 DEF Conf, Backends
  <2> QED BY <1>1, <2>1, <2>2, OrdinaryStep DEF Places
<1>6. CASE Materialize(p)
  <2>1. /\ live' = live
        /\ Goto(p, "start") \/ (End(p, "ok") /\ c.at = "block")
        /\ conf' = [conf EXCEPT !["webinst"].rt = c.want.rt, !["webinst"].block = TRUE]
    BY <1>6 DEF Materialize
  <2>2. /\ conf'["webinst"].rt = c.want.rt /\ conf'["webinst"].block = TRUE
        /\ conf'["webinst"].port = conf["webinst"].port
        /\ \A b \in Backends : b # "webinst" => conf'[b] = conf[b]
    BY <1>2, <2>1 DEF Conf, Backends
  <2>3. c.b = "webinst" /\ c.at = "block" /\ live' = live
    BY <1>2, <1>6 DEF PlaceOK, Materialize
  <2>4. c.b \notin muddled \cup lost => conf["webinst"].port = c.want.port
    BY <1>2, <2>3 DEF Prepared
  <2> QED BY <1>1, <2>1, <2>2, <2>3, <2>4, OrdinaryStep DEF Places
<1>7. CASE ConfigInit(p)
  <2>1. live' = live /\ Goto(p, "start") /\ c.b = "ibsrv"
    BY <1>7 DEF ConfigInit
  <2>2. /\ conf'["ibsrv"].rt = c.want.rt /\ conf'["ibsrv"].port = c.want.port
        /\ \A b \in Backends : b # "ibsrv" => conf'[b] = conf[b]
    BY <1>2, <1>7 DEF ConfigInit, NeedsInit, Conf, Backends
  <2> QED BY <1>1, <2>1, <2>2, OrdinaryStep DEF Places
<1>8. CASE RemovePublication(p)
  <2>1. live' = live /\ End(p, "ok") /\ c.b = "webinst"
    BY <1>2, <1>8 DEF RemovePublication, PlaceOK
  <2>2. \A b \in Backends : b # "webinst" => conf'[b] = conf[b]
    BY <1>2, <1>8 DEF RemovePublication, Conf, Backends
  <2> QED BY <1>1, <2>1, <2>2, OrdinaryStep DEF Places
<1>9. CASE StartHttpd(p) \/ StartDaemon(p)
  <2>1. PICK pid \in Pids : Launch(p, pid)
    BY <1>9 DEF StartHttpd, StartDaemon
  <2>2. c.at = "start"
    BY <1>9 DEF StartHttpd, StartDaemon
  <2> DEFINE s == [pid |-> pid, b |-> c.b, started |-> conf[c.b], up |-> FALSE, want |-> c.want]
             d == [c EXCEPT !.at = "poll"]
  <2>3. live' = live \cup {s} /\ cmd' = [cmd EXCEPT ![p] = d] /\ conf' = conf
    BY <2>1 DEF Launch, Goto
  <2>4. s.b = e /\ s.started = conf[e] /\ s.want = c.want
    OBVIOUS
  <2>5. d.b = e /\ d.at = "poll" /\ d.want = c.want
    BY <1>2 DEF Command
  <2> HIDE DEF c, d, s
  <2>6. /\ ServersOf(e)' = ServersOf(e) \cup {s}
        /\ \A b \in Backends : b # e => ServersOf(b)' = ServersOf(b)
    BY <2>3, <2>4 DEF ServersOf
  <2>7. e \notin muddled \cup lost =>
          /\ \A t \in ServersOf(e)' : Fits(t) /\ t = s
          /\ Prepared(d, conf'[e], ServersOf(e)')
    <3> SUFFICES ASSUME e \notin muddled \cup lost
                 PROVE  /\ \A t \in ServersOf(e)' : Fits(t) /\ t = s
                        /\ Prepared(d, conf'[e], ServersOf(e)')
      OBVIOUS
    <3>1. ServersOf(e) = {}
      BY <1>2, <2>2 DEF Ready, PlaceOK
    <3>2. /\ conf[e].rt = c.want.rt /\ conf[e].port = c.want.port
          /\ e = "webinst" => conf[e].block
      BY <1>2, <2>2 DEF Prepared, c
    <3>3. Fits(s)
      BY <2>4, <3>2 DEF Fits
    <3>4. ServersOf(e)' = {s}
      BY <2>6, <3>1
    <3> QED BY <2>3, <2>4, <2>5, <3>2, <3>3, <3>4 DEF Prepared
  <2> QED BY <1>1, <1>2, <2>3, <2>5, <2>6, <2>7, FitStep DEF c
<1> QED BY <1>4, <1>5, <1>6, <1>7, <1>8, <1>9 DEF Step

\* Pids stay with their servers.
LEMMA PidsStep ==
  ASSUME UInv, [Next]_vars
  PROVE  PidsOwn'
<1>1. live \subseteq Server /\ pidFile \in [Backends -> Pids \cup {None}]
  BY DEF UInv, PInv, TypeOK
<1>2. ASSUME live' \subseteq live, \A b \in Backends : pidFile'[b] \in {pidFile[b], None}
      PROVE  PidsOwn'
  BY <1>1, <1>2, NoneIsNothing DEF UInv, PidsOwn, Server
<1>3. ASSUME NEW p \in Procs, NEW pid \in Pids, Launch(p, pid)
      PROVE  PidsOwn'
  <2> DEFINE s == [pid |-> pid, b |-> cmd[p].b, started |-> conf[cmd[p].b], up |-> FALSE,
                   want |-> cmd[p].want]
  <2>1. /\ live' = live \cup {s} /\ pidFile' = [pidFile EXCEPT ![cmd[p].b] = None] /\ s.pid = pid
        /\ \A t \in live : t.pid # pid
        /\ \A b \in Backends : pidFile[b] # pid
    BY <1>3 DEF Launch
  <2> HIDE DEF s
  <2>2. \A b \in Backends : pidFile'[b] \in {pidFile[b], None}
    BY <1>1, <2>1
  <2>3. \A t \in live' : t.pid # None
    BY <1>1, <2>1, NoneIsNothing DEF Server
  <2> QED BY <2>1, <2>2, <2>3 DEF UInv, PidsOwn
<1>4. ASSUME NEW s \in live, WritesPid(s)
      PROVE  PidsOwn'
  <2> DEFINE r == [s EXCEPT !.up = TRUE]
  <2>1. r.pid = s.pid /\ r.b = s.b /\ s.b \in Backends
    BY <1>1 DEF Server
  <2>2. live' = (live \ {s}) \cup {r} /\ pidFile' = [pidFile EXCEPT ![s.b] = s.pid]
    BY <1>4 DEF WritesPid
  <2> HIDE DEF r
  <2>3. \A b \in Backends : pidFile'[b] = IF b = s.b THEN s.pid ELSE pidFile[b]
    BY <1>1, <2>2
  <2> QED BY <2>1, <2>2, <2>3 DEF UInv, PidsOwn
<1>5. ASSUME NEW p \in Procs, Step(p)
      PROVE  PidsOwn'
  <2>1. CASE StartHttpd(p) \/ StartDaemon(p)
    BY <1>3, <2>1 DEF StartHttpd, StartDaemon
  <2>2. CASE ~(StartHttpd(p) \/ StartDaemon(p))
    <3>1. live' \subseteq live
      BY <1>5, <2>2 DEF Step, Clear, UpFails, ScaffoldConf, Materialize, ConfigInit, StartFails,
                        PollFinds, PollTimesOut, Stop, StopFails, RemovePublication, Crash
    <3>2. pidFile' = pidFile \/ pidFile' = [pidFile EXCEPT ![cmd[p].b] = None]
      BY <1>5, <2>2 DEF Step, Clear, UpFails, ScaffoldConf, Materialize, ConfigInit, StartFails,
                        PollFinds, PollTimesOut, Stop, StopFails, RemovePublication, Crash
    <3>3. \A b \in Backends : pidFile'[b] \in {pidFile[b], None}
      BY <1>1, <3>2
    <3> QED BY <1>2, <3>1, <3>3
  <2> QED BY <2>1, <2>2
<1>6. ASSUME NEW p \in Procs, Start(p)
      PROVE  PidsOwn'
  <2>1. live' = live /\ pidFile' = pidFile
    BY <1>6 DEF Start, BeginUp, BeginDown, BeginStatus, Begin
  <2> QED BY <1>2, <2>1
<1>7. CASE UNCHANGED <<live, pidFile>>
  BY <1>2, <1>7
<1>8. ASSUME NEW s \in live, Dies(s)
      PROVE  PidsOwn'
  BY <1>2, <1>8 DEF Dies
<1> QED BY <1>4, <1>5, <1>6, <1>7, <1>8 DEF Next, Environment, Retarget, Build, Clean, vars

\* A command begins, or the environment moves.
LEMMA OtherFit ==
  ASSUME UInv, [Next]_vars, \A p \in Procs : ~Step(p)
  PROVE  \A b \in Backends \ (muddled' \cup lost') : Fit(b)'
<1>1. conf' = conf /\ lost' = lost /\ muddled \subseteq muddled'
  BY DEF Next, Start, BeginUp, BeginDown, BeginStatus, Begin, Environment, WritesPid, Dies,
         Retarget, Build, Clean, vars
<1>2. \A p \in Procs : cmd'[p] = cmd[p] \/ cmd'[p].at \in {"idle", "conf", "clear", "stop"}
  <2>1. ASSUME NEW p \in Procs, NEW q \in Procs, NEW op, NEW e, NEW want, NEW v,
               NEW place \in {"idle", "conf", "clear", "stop"}, Begin(q, op, e, want, place, v)
        PROVE  cmd'[p] = cmd[p] \/ cmd'[p].at \in {"idle", "conf", "clear", "stop"}
    BY <2>1 DEF Begin, UInv, PInv, TypeOK
  <2>2. ASSUME NEW q \in Procs, Start(q), NEW p \in Procs
        PROVE  cmd'[p] = cmd[p] \/ cmd'[p].at \in {"idle", "conf", "clear", "stop"}
    BY <2>1, <2>2 DEF Start, BeginUp, BeginDown, BeginStatus
  <2> QED BY <2>2 DEF Next, Environment, WritesPid, Dies, Retarget, Build, Clean, vars
<1>3. ASSUME NEW b \in Backends, b \notin muddled' \cup lost'
      PROVE  /\ \A s \in ServersOf(b)' : Fits(s)
             /\ \A c : Prepared(c, conf[b], ServersOf(b)) => Prepared(c, conf[b], ServersOf(b)')
  <2>1. \A s \in ServersOf(b) : Fits(s)
    BY <1>1, <1>3 DEF UInv, Fit
  <2>2. \A s \in ServersOf(b)' : \E t \in ServersOf(b) :
          s.b = t.b /\ s.want = t.want /\ s.started = t.started
    <3>1. ASSUME NEW t \in live, WritesPid(t)
          PROVE  \A s \in live' : \E u \in live : s.b = u.b /\ s.want = u.want /\ s.started = u.started
      <4>1. t \in Server
        BY DEF UInv, PInv, TypeOK
      <4> QED BY <3>1, <4>1 DEF WritesPid, Server
    <3>2. live' \subseteq live \/ \E t \in live : WritesPid(t)
      BY DEF Next, Start, BeginUp, BeginDown, BeginStatus, Begin, Environment, Dies,
             Retarget, Build, Clean, vars
    <3>3. \A s \in live' : \E u \in live : s.b = u.b /\ s.want = u.want /\ s.started = u.started
      BY <3>1, <3>2
    <3> QED BY <3>3 DEF ServersOf
  <2>3. \A s \in ServersOf(b)' : Fits(s)
    BY <2>1, <2>2 DEF Fits
  <2>4. ASSUME NEW c, Prepared(c, conf[b], ServersOf(b))
        PROVE  Prepared(c, conf[b], ServersOf(b)')
    BY <2>2, <2>4 DEF Prepared
  <2> QED BY <2>3, <2>4
<1>4. ASSUME NEW b \in Backends, b \notin muddled' \cup lost', NEW p \in Active(b)'
      PROVE  Prepared(cmd'[p], conf[b], ServersOf(b)')
  <2>1. CASE cmd'[p] = cmd[p]
    <3>1. p \in Active(b) /\ b \notin muddled \cup lost
      BY <1>1, <1>4, <2>1 DEF Active
    <3>2. Prepared(cmd[p], conf[b], ServersOf(b))
      BY <1>4, <3>1 DEF UInv, Fit
    <3> QED BY <1>3, <1>4, <2>1, <3>2
  <2>2. CASE cmd'[p].at \in {"idle", "conf", "clear", "stop"}
    BY <2>2 DEF Prepared
  <2> QED BY <1>2, <1>4, <2>1, <2>2 DEF Active
<1> QED BY <1>1, <1>3, <1>4 DEF Fit

\* The second invariant holds in every reachable state.
LEMMA Invariant2 == Spec => []UInv
<1>1. Init => UInv
  <2>1. Init => PidsOwn /\ \A b \in Backends : \A s \in ServersOf(b) : Fits(s)
    BY DEF Init, PidsOwn, ServersOf
  <2>2. Init => \A b \in Backends : Active(b) = {}
    BY DEF Init, Idle, Active
  <2> QED BY <2>1, <2>2, PInvInit DEF UInv, Fit
<1>2. UInv /\ [Next]_vars => UInv'
  <2> SUFFICES ASSUME UInv, [Next]_vars PROVE UInv'
    OBVIOUS
  <2>1. PInv'
    BY PInvStep DEF UInv
  <2>2. \A b \in Backends \ (muddled' \cup lost') : Fit(b)'
    BY StepFit, OtherFit
  <2> QED BY <2>1, <2>2, PidsStep DEF UInv
<1> QED BY <1>1, <1>2, PTL DEF Spec

\* An up that answers ok leaves a live server, the one in the pid file, that publishes the
\* infobase of the profile on its port, unless the server was there before and up did not
\* look at what it was started for.
THEOREM UpOkPublishes == Spec => OkUpPublishes
<1>1. ASSUME UInv, [Next]_vars, NEW p \in Procs, NEW b \in Backends,
             AnswersOk(p, "up", b), b \notin muddled' \cup lost'
      PROVE  LET named == {s \in live' : s.b = b /\ s.pid = pidFile'[b]}
             IN /\ named # {} \/ cmd[p].at = "block"
                /\ \A s \in named : \/ Unseen(s, cmd'[p].want)
                                    \/ Publishes(s, conf'["webinst"].rt) = cmd'[p].want
  <2> DEFINE named == {s \in live' : s.b = b /\ s.pid = pidFile'[b]}
  <2>1. /\ TypeOK /\ cmd \in [Procs -> Command] /\ cmd'[p] # cmd[p]
        /\ cmd'[p].verdict = "ok" /\ cmd'[p].op = "up" /\ cmd'[p].b = b
    BY <1>1 DEF UInv, PInv, TypeOK, AnswersOk
  <2>2. \A w \in Want : w = [rt |-> w.rt, port |-> w.port]
    BY DEF Want
  <2>3. ASSUME NEW q \in Procs, Start(q)
        PROVE  /\ named # {}
               /\ \A s \in named : \/ Unseen(s, cmd'[p].want)
                                   \/ Publishes(s, conf'["webinst"].rt) = cmd'[p].want
    <3>1. ASSUME NEW op, NEW e, NEW want, NEW place, NEW v, Begin(q, op, e, want, place, v)
          PROVE  op = "up" /\ v = "ok" /\ e = b /\ cmd'[p].want = want
      <4> DEFINE d == [at |-> place, op |-> op, b |-> e, want |-> want,
                       seen |-> IF Alive(e) THEN pidFile[e] ELSE None, verdict |-> v]
      <4>1. cmd' = [cmd EXCEPT ![q] = d] /\ d.op = op /\ d.verdict = v /\ d.b = e /\ d.want = want
        BY <3>1 DEF Begin
      <4> HIDE DEF d
      <4> QED BY <2>1, <3>1, <4>1
    <3>2. /\ Alive(b) /\ (b = "webinst" => VrdMatches(Ensured(b).rt))
          /\ cmd'[p].want = Ensured(b) /\ UNCHANGED <<live, pidFile, conf>>
      <4>1. BeginUp(q, b)
        BY <2>3, <3>1 DEF Start, BeginUp, BeginDown, BeginStatus
      <4>2. /\ Alive(b) /\ (b = "webinst" => VrdMatches(Ensured(b).rt))
            /\ Begin(q, "up", b, Ensured(b), "idle", "ok")
        BY <3>1, <4>1 DEF BeginUp
      <4> QED BY <3>1, <4>2 DEF Begin
    <3>3. b \notin muddled \cup lost
      BY <1>1, <2>3 DEF Start, BeginUp, BeginDown, BeginStatus, Begin
    <3>4. named # {}
      BY <1>1, <3>2 DEF Alive, UInv, PidsOwn
    <3>5. ASSUME NEW s \in named, ~Unseen(s, cmd'[p].want)
          PROVE  Publishes(s, conf'["webinst"].rt) = cmd'[p].want
      <4>1. Fits(s) /\ s.b = b /\ s \in live
        BY <1>1, <3>2, <3>3 DEF UInv, Fit, ServersOf
      <4>2. s.started.port = cmd'[p].want.port
        BY <3>5, <4>1 DEF Unseen, Fits
      <4>3. b = "ibsrv" => s.started.rt = cmd'[p].want.rt
        BY <3>5, <4>1 DEF Unseen, Fits
      <4>4. b = "webinst" => s.started.block /\ conf'["webinst"].rt = cmd'[p].want.rt
        <5>1. b = "webinst" => <<cmd'[p].want.rt, conf["webinst"].rt>> \notin Longer
          BY <3>5, <4>1 DEF Unseen
        <5> QED BY <3>2, <4>1, <5>1 DEF Fits, VrdMatches
      <4>5. cmd'[p].want \in Want
        BY <3>2, HomeIsRuntime, DefaultPortIsPort, <2>1 DEF Ensured, Want, TypeOK
      <4> QED BY <2>2, <4>1, <4>2, <4>3, <4>4, <4>5 DEF Publishes, Backends
    <3> QED BY <3>4, <3>5
  <2>4. ASSUME NEW q \in Procs, Step(q)
        PROVE  /\ named # {} \/ cmd[p].at = "block"
               /\ \A s \in named : \/ Unseen(s, cmd'[p].want)
                                   \/ Publishes(s, conf'["webinst"].rt) = cmd'[p].want
    <3>1. q = p
      <4>1. \A a, v : q # p /\ (Goto(q, a) \/ End(q, v)) => cmd'[p] = cmd[p]
        BY <2>1 DEF Goto, End
      <4> QED BY <2>1, <2>4, <4>1 DEF Step, Clear, UpFails, ScaffoldConf, Materialize, ConfigInit,
              StartHttpd, StartDaemon, Launch, StartFails, PollFinds, PollTimesOut, Stop, StopFails,
              RemovePublication, Crash
    <3>2. cmd[p].at # "idle" /\ muddled' = muddled /\ lost \subseteq lost'
      BY <2>4, <3>1 DEF Step, Clear, UpFails, ScaffoldConf, Materialize, ConfigInit, StartHttpd,
              StartDaemon, Launch, StartFails, PollFinds, PollTimesOut, Stop, StopFails,
              RemovePublication, Crash
    <3>3. (\E a : Goto(p, a)) \/ (\E v : End(p, v))
      BY <2>4, <3>1 DEF Step, Clear, UpFails, ScaffoldConf, Materialize, ConfigInit, StartHttpd,
              StartDaemon, Launch, StartFails, PollFinds, PollTimesOut, Stop, StopFails,
              RemovePublication, Crash
    <3>4. cmd[p].b = b /\ cmd[p].op = "up" /\ cmd'[p].want = cmd[p].want
      BY <2>1, <3>3 DEF Goto, End, Command
    <3>5. /\ cmd[p] \in Command /\ PlaceOK(cmd[p]) /\ conf \in [Backends -> Conf]
          /\ Ready(cmd[p], ServersOf(b)) /\ Prepared(cmd[p], conf[b], ServersOf(b))
          /\ \A s \in ServersOf(b) : Fits(s)
      BY <1>1, <3>2, <3>4, BegunFit
    <3>6. /\ \A a : ~Goto(p, a)
          /\ \A v : End(p, v) => v = "ok"
      <4>1. cmd[p].verdict = "none"
        BY <3>2, <3>5 DEF PlaceOK
      <4> QED BY <2>1, <4>1 DEF Goto, End, Command
    <3>7. cmd[p].want \in Want
      BY <3>5 DEF Command
    <3>8. CASE Materialize(p)
      <4>1. cmd[p].at = "block" /\ b = "webinst" /\ live' = live
        BY <3>4, <3>5, <3>8 DEF Materialize, PlaceOK
      <4>2. conf'["webinst"].rt = cmd[p].want.rt
        BY <3>5, <3>8 DEF Materialize, Conf, Backends
      <4>3. ASSUME NEW s \in named, ~Unseen(s, cmd'[p].want)
            PROVE  Publishes(s, conf'["webinst"].rt) = cmd'[p].want
        <5>1. Fits(s) /\ s.b = "webinst"
          BY <3>5, <4>1 DEF ServersOf
        <5>2. s.started.port = cmd[p].want.port /\ s.started.block
          BY <3>4, <4>3, <5>1 DEF Unseen, Fits
        <5> QED BY <2>2, <3>4, <3>7, <4>2, <5>1, <5>2 DEF Publishes
      <4> QED BY <4>1, <4>3
    <3>9. CASE PollFinds(p)
      <4>1. cmd[p].at = "poll" /\ Alive(b) /\ UNCHANGED <<live, pidFile, conf>>
        BY <3>4, <3>9 DEF PollFinds
      <4>2. named # {}
        BY <1>1, <4>1 DEF Alive, UInv, PidsOwn
      <4>3. ASSUME NEW s \in named
            PROVE  Publishes(s, conf'["webinst"].rt) = cmd'[p].want
        <5>1. Fits(s) /\ s.b = b /\ s.want = cmd[p].want
          BY <3>5, <4>1 DEF ServersOf, Prepared
        <5>2. conf[b].rt = cmd[p].want.rt
          BY <3>5, <4>1 DEF Prepared
        <5> QED BY <2>2, <3>4, <3>7, <4>1, <5>1, <5>2 DEF Publishes, Fits, Backends
      <4> QED BY <4>2, <4>3
    <3> QED BY <2>4, <3>1, <3>4, <3>5, <3>6, <3>8, <3>9
            DEF Step, PlaceOK, Clear, UpFails, ScaffoldConf, ConfigInit, StartHttpd, StartDaemon, Launch,
                StartFails, PollTimesOut, Stop, StopFails, RemovePublication, Crash
  <2>5. (\E q \in Procs : Start(q)) \/ (\E q \in Procs : Step(q))
    BY <1>1, <2>1 DEF Next, Environment, WritesPid, Dies, Retarget, Build, Clean, vars
  <2> HIDE DEF named
  <2>6. /\ named # {} \/ cmd[p].at = "block"
        /\ \A s \in named : \/ Unseen(s, cmd'[p].want)
                            \/ Publishes(s, conf'["webinst"].rt) = cmd'[p].want
    BY <2>3, <2>4, <2>5
  <2> QED BY <2>6 DEF named
<1>2. UInv /\ [Next]_vars =>
        \A p \in Procs, b \in Backends :
          AnswersOk(p, "up", b) /\ b \notin muddled' \cup lost' =>
            LET named == {s \in live' : s.b = b /\ s.pid = pidFile'[b]}
            IN /\ named # {} \/ cmd[p].at = "block"
               /\ \A s \in named : \/ Unseen(s, cmd'[p].want)
                                   \/ Publishes(s, conf'["webinst"].rt) = cmd'[p].want
  BY <1>1
<1> QED BY <1>2, Invariant2, PTL DEF Spec, OkUpPublishes
=============================================================================
