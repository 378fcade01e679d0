----------------------------- MODULE ModuleIndex -----------------------------
(***************************************************************************)
(* The index of module uuids that debug breakpoint and the stack use        *)
(* (adapters/debug_http/index.py, resolve.py): a scan of the XML sources of *)
(* the configuration and its extensions, kept in                            *)
(* .1c-dev/debug/modules-cache.json and taken from there by every debug     *)
(* command as long as the newest modification time of each source root is   *)
(* the one the scan saw.  Meanwhile the sources are edited, dumped, switched *)
(* by git and restored by other programs, and several commands run at once. *)
(*                                                                         *)
(* A uuid is a number, the generation of its object; 0 is an object XML that *)
(* is missing or cannot be parsed.  A time is a number; 0 is a missing file. *)
(* An extension is named by its source root, the configuration by Main.     *)
(* Names are unique in a root, as in any dump of the Designer.              *)
(***************************************************************************)
EXTENDS Naturals, FiniteSets

CONSTANTS
  Debuggers,    \* the processes that run debug commands
  Main,         \* the source root of the configuration
  Extensions,   \* the source roots of extensions
  Slots,        \* the modules a root may hold, by dump-relative path
  Kind,         \* of each slot: common, application, owned or form
  Owner,        \* of each slot: the object with the Ext and Forms directories, itself but for a form
  NoRoot,       \* no --extension, or a path that names no root
  MaxTime,      \* bound: how often the sources change
  MaxCommands   \* bound: how many debug commands are run

Roots == {Main} \cup Extensions

ASSUME MainIsNoExtension == Main \notin Extensions /\ NoRoot \notin Roots
ASSUME KindsKnown == Kind \in [Slots -> {"common", "application", "owned", "form"}]
ASSUME OwnersKnown == /\ Owner \in [Slots -> Slots]
                      /\ \A s \in Slots : Kind[s] # "form" => Owner[s] = s
                      /\ \A s \in Slots : Kind[s] = "form" => Kind[Owner[s]] = "owned"
ASSUME BoundsAreNat == MaxTime \in Nat /\ MaxCommands \in Nat

VARIABLES
  declared,     \* the roots the manifest's configuration entry names
  tree,         \* per root and slot: the uuid, and the times of its XML and its .bsl
  clock,        \* how often the sources changed
  commands,     \* how many debug commands were started
  cache,        \* modules-cache.json: what is in the file
  at,           \* per process: where it is
  roots,        \* per process: the roots it read from the manifest
  todo,         \* per process: the roots still to scan
  current,      \* per process: the root scanned and not yet fingerprinted
  stamp,        \* per process: the fingerprints taken
  index,        \* per process: the entries it has
  missed,       \* history, per process: what changed behind its index
  cacheMissed   \* history: what changed behind the cache without a newer time

sources == <<declared, tree, clock>>
process == <<at, roots, todo, current, stamp, index>>
indexVars == <<sources, commands, cache, process, missed, cacheMissed>>

Files == [id : Nat, xml : Nat, bsl : Nat]
Absent == [id |-> 0, xml |-> 0, bsl |-> 0]

Everywhere(value) == [r \in Roots |-> value]
NoCache == [state |-> "none", roots |-> {}, stamp |-> Everywhere(0), modules |-> {}]
Torn == [NoCache EXCEPT !.state = "torn"]

\* debug breakpoint set --module and --file (a path that names a root, absolute or
\* from the project, or one below a root), with or without --extension.
ByName == [by : {"name"}, slot : Slots, ext : Roots]
ByFile == [by : {"file"}, slot : Slots, ext : Extensions \cup {NoRoot},
           path : Roots \cup {NoRoot}, absolute : BOOLEAN]
Queries == ByName \cup ByFile

-----------------------------------------------------------------------------
(* The scan of one root. *)

\* _parse_md_object_xml, _parse_any_md_object_xml: no uuid, no entry.
Parsed(r, s) == tree[r][s].id # 0

Entry(r, s, withFile) == [root |-> r, slot |-> s, id |-> tree[r][s].id, file |-> withFile]

\* A common module needs its XML only; without a .bsl the XML is its sourceFile.
scan_common_modules(r) ==
  {Entry(r, s, tree[r][s].bsl # 0) : s \in {x \in Slots : Kind[x] = "common" /\ Parsed(r, x)}}

\* The application modules have the uuid of Configuration.xml.
scan_application_modules(r) ==
  {Entry(r, s, TRUE) : s \in {x \in Slots : /\ Kind[x] = "application"
                                             /\ Parsed(r, x) /\ tree[r][x].bsl # 0}}

\* An object whose Ext directory is missing is left with its forms unseen.
scan_form_modules(r) ==
  {Entry(r, s, TRUE) : s \in {x \in Slots : /\ Kind[x] = "form"
                                             /\ Parsed(r, Owner[x]) /\ tree[r][Owner[x]].bsl # 0
                                             /\ Parsed(r, x) /\ tree[r][x].bsl # 0}}

\* Object, manager and record set modules.
scan_owned_modules(r) ==
  {Entry(r, s, TRUE) : s \in {x \in Slots : /\ Kind[x] = "owned"
                                             /\ Parsed(r, x) /\ tree[r][x].bsl # 0}}
    \cup scan_form_modules(r)

scan_source_root(r) ==
  scan_common_modules(r) \cup scan_application_modules(r) \cup scan_owned_modules(r)

\* Mutant for CacheIsTrue: the code files are not looked at.
Times_XmlOnly(r) == {0} \cup {tree[r][s].xml : s \in {x \in Slots : Kind[x] # "form"}}

\* The times of the files the fingerprint looks at: not those of forms.
Times(r) == {0} \cup {tree[r][s].xml : s \in {x \in Slots : Kind[x] # "form"}}
                \cup {tree[r][s].bsl : s \in {x \in Slots : Kind[x] # "form"}}

\* The newest of them.
root_fingerprint(r) == CHOOSE t \in Times(r) : \A u \in Times(r) : u <= t

-----------------------------------------------------------------------------
(* The sources change under the index: editors, dumps, git, import. *)

\* The entries that the files of a slot decide about.
Dependents(s) == {x \in Slots : x = s \/ Owner[x] = s}

\* Every process that has scanned the root is behind now; so is the cache,
\* unless the change shows in the fingerprint.
Change(r, s, files, shows) ==
  /\ clock < MaxTime
  /\ clock' = clock + 1
  /\ tree' = [tree EXCEPT ![r][s] = files]
  /\ missed' = [p \in Debuggers |->
                  IF r \in roots[p] \ todo[p]
                  THEN missed[p] \cup ({r} \X Dependents(s)) ELSE missed[p]]
  /\ cacheMissed' = IF shows THEN cacheMissed ELSE cacheMissed \cup ({r} \X Dependents(s))
  /\ UNCHANGED <<declared, commands, cache, process>>

\* A file is written now: the object with another uuid, a broken XML, the code.
EditXml(r, s) ==
  \E id \in {0, clock + 2} :
    Change(r, s, [tree[r][s] EXCEPT !.id = id, !.xml = clock + 2], Kind[s] # "form")

EditCode(r, s) ==
  Change(r, s, [tree[r][s] EXCEPT !.bsl = clock + 2], Kind[s] # "form")

\* Both files are put back from elsewhere with the times they had there.
Restore(r, s) ==
  \E time \in 1..(clock + 1) :
    Change(r, s, [id |-> clock + 2, xml |-> time, bsl |-> time], FALSE)

\* The code alone, or the object with it, is removed.
Remove(r, s) ==
  /\ tree[r][s] # Absent
  /\ \/ Change(r, s, [tree[r][s] EXCEPT !.bsl = 0], FALSE)
     \/ Change(r, s, Absent, FALSE)

\* extension add and the removal of an extension rewrite the manifest.
Declare(r) ==
  /\ declared' = IF r \in declared THEN declared \ {r} ELSE declared \cup {r}
  /\ UNCHANGED <<tree, clock, commands, cache, process, missed, cacheMissed>>

-----------------------------------------------------------------------------
(* A debug command gets its index. *)

GoOn(p, place) == at' = [at EXCEPT ![p] = place]

\* source_roots_from_configuration: what the manifest names now.
source_roots == declared

\* The resolver of every command, and of run_reload_metadata, which needs a root.
make_resolver(p) ==
  /\ at[p] = "idle" /\ commands < MaxCommands
  /\ commands' = commands + 1
  /\ GoOn(p, "load") \/ (source_roots # {} /\ GoOn(p, "scan"))
  /\ roots' = [roots EXCEPT ![p] = source_roots]
  /\ todo' = [todo EXCEPT ![p] = source_roots]
  /\ UNCHANGED <<sources, cache, current, stamp, index, missed, cacheMissed>>

\* load_modules_cache: nothing comes of a missing or torn file.
Readable == cache.state = "whole"

\* Mutant for AnswerIsCurrent: the times are not compared.
try_load_cache_AnyTime(p) == Readable /\ cache.roots = roots[p]

\* _try_load_cache: the same roots, and nothing newer in any of them.
try_load_cache(p) ==
  /\ Readable
  /\ cache.roots = roots[p]
  /\ \A r \in roots[p] : cache.stamp[r] = root_fingerprint(r)

\* load_or_build_index.
LoadOrBuild(p) ==
  /\ at[p] = "load"
  /\ IF try_load_cache(p)
     THEN /\ index' = [index EXCEPT ![p] = cache.modules]
          /\ todo' = [todo EXCEPT ![p] = {}]
          /\ missed' = [missed EXCEPT ![p] = cacheMissed]
          /\ GoOn(p, "ready")
     ELSE /\ GoOn(p, "scan")
          /\ UNCHANGED <<index, todo, missed>>
  /\ UNCHANGED <<sources, commands, cache, roots, current, stamp, cacheMissed>>

\* build_modules_index: one root after the other is scanned ...
ScanRoot(p) ==
  /\ at[p] = "scan"
  /\ \E r \in todo[p] :
       /\ index' = [index EXCEPT ![p] = @ \cup scan_source_root(r)]
       /\ todo' = [todo EXCEPT ![p] = @ \ {r}]
       /\ current' = [current EXCEPT ![p] = r]
  /\ GoOn(p, "stamp")
  /\ UNCHANGED <<sources, commands, cache, roots, stamp, missed, cacheMissed>>

\* ... and then its newest time is looked up.
StampRoot(p) ==
  /\ at[p] = "stamp"
  /\ stamp' = [stamp EXCEPT ![p][current[p]] = root_fingerprint(current[p])]
  /\ current' = [current EXCEPT ![p] = Main]
  /\ GoOn(p, "scan")
  /\ UNCHANGED <<sources, commands, cache, roots, todo, index, missed, cacheMissed>>

\* save_modules_cache writes in place: the file is empty first ...
Truncate(p) ==
  /\ at[p] = "scan" /\ todo[p] = {}
  /\ cache' = Torn
  /\ GoOn(p, "write")
  /\ UNCHANGED <<sources, commands, roots, todo, current, stamp, index, missed, cacheMissed>>

\* ... then holds the new index, or what is left of two writers' texts.
Save(p) ==
  /\ at[p] = "write"
  /\ \/ /\ cache' = [state |-> "whole", roots |-> roots[p], stamp |-> stamp[p],
                     modules |-> index[p]]
        /\ cacheMissed' = missed[p]
     \/ /\ Readable
        /\ cache' = Torn
        /\ UNCHANGED cacheMissed
  /\ stamp' = [stamp EXCEPT ![p] = Everywhere(0)]
  /\ GoOn(p, "ready")
  /\ UNCHANGED <<sources, commands, roots, todo, current, index, missed>>

-----------------------------------------------------------------------------
(* The index is asked. *)

\* ModulesIndex.find: one extension, or the configuration alone.
find(modules, s, ext) == {e \in modules : e.root = ext /\ e.slot = s}

\* ModulesIndex.find_by_source_file.
find_by_source_file(modules, s, r) == {e \in modules : e.root = r /\ e.slot = s /\ e.file}

Module(e) == [root |-> e.root, id |-> e.id]

\* XmlObjectIdResolver.resolve: a module of an extension only by its name.
resolve(p, q) == {Module(e) : e \in find(index[p], q.slot, q.ext)}

\* The roots a path may mean: the one the file is in, as far as --extension lets
\* it; without such a file any root.
Candidates(p, q) ==
  LET allowed == {r \in roots[p] : q.ext \in {r, NoRoot}}
  IN IF q.path # NoRoot /\ tree[q.path][q.slot].bsl # 0
     THEN IF q.path \in allowed THEN {q.path}
          ELSE IF q.absolute THEN {}
          ELSE IF q.path \in roots[p] THEN {q.ext}
          ELSE allowed
     ELSE allowed

\* The configuration comes before its extensions.
MainFirst(S) == IF Main \in S THEN {Main} ELSE S

\* _resolve_path_via_layout: what the index does not have is read from the
\* object's XML, in the first root that has one.
resolve_path_via_layout(p, q) ==
  {[root |-> r, id |-> tree[r][q.slot].id] :
     r \in MainFirst({x \in Candidates(p, q) \cap roots[p] : Parsed(x, q.slot)})}

\* Mutant for AnswerIsOfItsRoot: the first hit is taken, whichever root it is in.
resolve_from_file_AnyRoot(p, q) ==
  {Module(e) : e \in UNION {find_by_source_file(index[p], q.slot, r) : r \in Candidates(p, q)}}

\* resolve_from_file: several extensions and no configuration is an error.
resolve_from_file(p, q) ==
  LET hits == UNION {find_by_source_file(index[p], q.slot, r) : r \in Candidates(p, q)}
      mine == {e \in hits : e.root \in MainFirst({x.root : x \in hits})}
  IN IF hits = {} THEN resolve_path_via_layout(p, q)
     ELSE IF Cardinality({e.root : e \in mine}) > 1 THEN {}
     ELSE {Module(e) : e \in mine}

\* set_breakpoints_by_module and set_breakpoints_by_file: the modules a request may
\* end in; none is the error 1CD004.
Answers(p, q) == IF q.by = "name" THEN resolve(p, q) ELSE resolve_from_file(p, q)

\* The command ends, or is killed anywhere; a torn cache stays.
End(p) ==
  /\ at[p] # "idle"
  /\ GoOn(p, "idle")
  /\ roots' = [roots EXCEPT ![p] = {}]
  /\ todo' = [todo EXCEPT ![p] = {}]
  /\ current' = [current EXCEPT ![p] = Main]
  /\ stamp' = [stamp EXCEPT ![p] = Everywhere(0)]
  /\ index' = [index EXCEPT ![p] = {}]
  /\ missed' = [missed EXCEPT ![p] = {}]
  /\ UNCHANGED <<sources, commands, cache, cacheMissed>>

-----------------------------------------------------------------------------
\* Any sources, all of the same age, and no cache.
IndexInit ==
  /\ declared = {Main}
  /\ tree = [r \in Roots |-> [s \in Slots |-> [id |-> 1, xml |-> 1, bsl |-> 1]]]
  /\ clock = 0 /\ commands = 0
  /\ cache = NoCache /\ cacheMissed = {}
  /\ at = [p \in Debuggers |-> "idle"]
  /\ roots = [p \in Debuggers |-> {}]
  /\ todo = [p \in Debuggers |-> {}]
  /\ current = [p \in Debuggers |-> Main]
  /\ stamp = [p \in Debuggers |-> Everywhere(0)]
  /\ index = [p \in Debuggers |-> {}]
  /\ missed = [p \in Debuggers |-> {}]

World == \/ \E r \in Extensions : Declare(r)
         \/ \E r \in Roots, s \in Slots : EditXml(r, s) \/ EditCode(r, s) \/ Restore(r, s) \/ Remove(r, s)

Debugger(p) == \/ make_resolver(p) \/ LoadOrBuild(p) \/ ScanRoot(p) \/ StampRoot(p) \/ Truncate(p)
               \/ Save(p) \/ End(p)

IndexNext == World \/ \E p \in Debuggers : Debugger(p)

IndexSpec == IndexInit /\ [][IndexNext]_indexVars

-----------------------------------------------------------------------------
\* The entries of one slot, in an index and in the sources.
Indexed(modules, r, s) == {e \in modules : e.root = r /\ e.slot = s}
Present(r, s) == Indexed(scan_source_root(r), r, s)

\* ADR-031: the cache is dropped when a source file is newer.  A cache a command
\* would take tells the truth about every module, but those that changed without
\* a newer time (removed, put back with an old time, in a form) or while the
\* command that wrote it was at work.
CacheIsTrue ==
  \A p \in Debuggers : at[p] = "load" /\ try_load_cache(p) =>
    \A r \in roots[p], s \in Slots :
      Indexed(cache.modules, r, s) = Present(r, s) \/ <<r, s>> \in cacheMissed

\* A request is answered with the uuid that the object has in the sources, unless
\* the index missed a change.
AnswerIsCurrent ==
  \A p \in Debuggers : at[p] = "ready" =>
    \A q \in Queries : \A m \in Answers(p, q) :
      m.id = tree[m.root][q.slot].id \/ <<m.root, q.slot>> \in missed[p]

\* ADR-031: a path into the sources of an extension means the extension, although
\* the configuration has the same path; a name means the configuration unless an
\* extension is named, and so does a path below a root if the configuration has it.
AnswerIsOfItsRoot ==
  \A p \in Debuggers : at[p] = "ready" =>
    \A q \in Queries : \A m \in Answers(p, q) :
      /\ q.ext # NoRoot => m.root = q.ext
      /\ q.by = "file" /\ q.ext = NoRoot =>
           IF q.path \in roots[p] /\ tree[q.path][q.slot].bsl # 0
           THEN m.root = q.path
           ELSE \/ m.root = Main \/ Main \notin roots[p]
                \/ find_by_source_file(Present(Main, q.slot), q.slot, Main) = {}
                \/ <<Main, q.slot>> \in missed[p]
=============================================================================
