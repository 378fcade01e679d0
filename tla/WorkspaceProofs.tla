--------------------------- MODULE WorkspaceProofs ---------------------------
(***************************************************************************)
(* What Workspace promises for any number of processes, configurations and  *)
(* extensions: every manifest that is written passes validation, and a      *)
(* write that no other one overlapped keeps the entries it was not told of. *)
(***************************************************************************)
EXTENDS Workspace, WellFoundedInduction, TLAPS

(***************************************************************************)
(* Places in a list.                                                       *)
(***************************************************************************)
\* A set of numbers has a least one.
LEMMA LeastNumber ==
  ASSUME NEW S, S \subseteq Nat, S # {}
  PROVE  \E x \in S : \A y \in S : x <= y
<1>1. IsWellFoundedOn(OpToRel(<, Nat), Nat)
  BY NatLessThanWellFounded
<1>2. \A x, y \in Nat : <<x, y>> \in OpToRel(<, Nat) <=> x < y
  BY DEF OpToRel
<1>3. PICK R : IsWellFoundedOn(R, Nat) /\ \A x, y \in Nat : <<x, y>> \in R <=> x < y
  BY <1>1, <1>2, Zenon
<1>4. IsWellFoundedOn(R, Nat)
  BY <1>3
<1>5. PICK x \in S : \A y \in S : ~ (<<y, x>> \in R)
  BY <1>4, WFMin, Zenon
<1>6. \A y \in S : ~ (y < x)
  BY <1>3, <1>5
<1> QED BY <1>6

\* The first entry of a list that is not empty is one of its entries.
LEMMA FirstIsFirst ==
  ASSUME NEW list, list # {}, \A x \in list : x.pos \in Nat
  PROVE  First(list) \in list /\ \A y \in list : First(list).pos <= y.pos
<1> DEFINE places == {x.pos : x \in list}
<1>1. places \subseteq Nat /\ places # {}
  OBVIOUS
<1>2. PICK n \in places : \A k \in places : n <= k
  BY <1>1, LeastNumber
<1>3. \E x \in list : \A y \in list : x.pos <= y.pos
  BY <1>2
<1> QED BY <1>3 DEF First

Bounded(list) == \E n \in Nat : \A x \in list : x.pos <= n

\* The next place of a bounded list is behind all of its entries.
LEMMA NextPosIsNext ==
  ASSUME NEW list, \A x \in list : x.pos \in Nat, Bounded(list)
  PROVE  /\ NextPos(list) \in Nat /\ \A x \in list : x.pos < NextPos(list)
         /\ list # {} => \E x \in list : NextPos(list) = 1 + x.pos
<1>1. CASE list = {}
  BY <1>1 DEF NextPos
<1>2. CASE list # {}
  <2> DEFINE bounds == {n \in Nat : \A x \in list : x.pos <= n}
  <2>1. bounds \subseteq Nat /\ bounds # {}
    BY DEF Bounded
  <2>2. PICK n \in bounds : \A k \in bounds : n <= k
    BY <2>1, LeastNumber
  <2>3. \E x \in list : x.pos = n
    <3> SUFFICES ASSUME \A x \in list : x.pos # n
                 PROVE  FALSE
      OBVIOUS
    <3>1. n \in Nat /\ \A x \in list : x.pos < n
      BY <2>2
    <3>2. n - 1 \in bounds
      BY <1>2, <3>1
    <3> QED BY <2>2, <3>1, <3>2
  <2>4. \E x \in list : \A y \in list : y.pos <= x.pos
    BY <2>2, <2>3
  <2>5. PICK z \in list : z = (CHOOSE x \in list : \A y \in list : y.pos <= x.pos)
                          /\ \A y \in list : y.pos <= z.pos
    BY <2>4
  <2>6. NextPos(list) = 1 + z.pos
    BY <1>2, <2>5 DEF NextPos
  <2> QED BY <2>5, <2>6
<1> QED BY <1>1, <1>2

\* One more entry leaves a list bounded.
LEMMA AppendBounded ==
  ASSUME NEW list, \A x \in list : x.pos \in Nat, Bounded(list), NEW y, y.pos \in Nat
  PROVE  Bounded(list \cup {y})
<1>1. PICK n \in Nat : \A x \in list : x.pos <= n
  BY DEF Bounded
<1>2. \A x \in list \cup {y} : x.pos <= n + y.pos
  BY <1>1
<1> QED BY <1>2 DEF Bounded

(***************************************************************************)
(* Marks. The commands move the default marks of a list; Remarked says that *)
(* nothing else of it changes.                                             *)
(***************************************************************************)
Distinct(list) == \A x, y \in list : x.id = y.id => x = y

Remarked(old, new) ==
  /\ \A x \in new : x.default \in BOOLEAN
                    /\ \E y \in old : x = [y EXCEPT !.default = x.default]
  /\ \A y \in old : \E x \in new : x = [y EXCEPT !.default = x.default]
  /\ Distinct(new)

\* A remarked list of configurations has the same entries but for their marks.
LEMMA RemarkedConfs ==
  ASSUME NEW old \in SUBSET Conf, NEW new, Remarked(old, new)
  PROVE  /\ new \in SUBSET Conf /\ IdsOf(new) = IdsOf(old) /\ Distinct(new)
         /\ Bounded(old) => Bounded(new)
         /\ \A c \in old : \E d \in new : d.id = c.id /\ d.kind = c.kind /\ d.pos = c.pos
                                          /\ d.exts = c.exts
<1>1. \A x \in new : x \in Conf /\ \E y \in old : x.id = y.id /\ x.pos = y.pos
  BY DEF Remarked, Conf
<1>2. \A c \in old : \E d \in new : d.id = c.id /\ d.kind = c.kind /\ d.pos = c.pos
                                    /\ d.exts = c.exts
  BY DEF Remarked, Conf
<1>3. IdsOf(new) = IdsOf(old)
  BY <1>1, <1>2 DEF IdsOf
<1>4. Bounded(old) => Bounded(new)
  BY <1>1 DEF Bounded
<1> QED BY <1>1, <1>2, <1>3, <1>4 DEF Remarked

\* A remarked list of runtimes has the same entries but for their marks.
LEMMA RemarkedRuntimes ==
  ASSUME NEW old \in SUBSET Runtime, NEW new, Remarked(old, new)
  PROVE  /\ new \in SUBSET Runtime /\ IdsOf(new) = IdsOf(old) /\ Distinct(new)
         /\ Bounded(old) => Bounded(new)
         /\ \A r \in old : \E s \in new : s.id = r.id /\ s.conf = r.conf /\ s.pos = r.pos
         /\ \A s \in new : \E r \in old : s.id = r.id /\ s.conf = r.conf /\ s.pos = r.pos
<1>1. \A x \in new : x \in Runtime
                     /\ \E y \in old : x.id = y.id /\ x.conf = y.conf /\ x.pos = y.pos
  BY DEF Remarked, Runtime
<1>2. \A c \in old : \E d \in new : d.id = c.id /\ d.conf = c.conf /\ d.pos = c.pos
  BY DEF Remarked, Runtime
<1>3. IdsOf(new) = IdsOf(old)
  BY <1>1, <1>2 DEF IdsOf
<1>4. Bounded(old) => Bounded(new)
  BY <1>1 DEF Bounded
<1> QED BY <1>1, <1>2, <1>3, <1>4 DEF Remarked

\* A list is a remarked one of itself.
LEMMA RemarkedSelf ==
  ASSUME NEW T \in {Conf, Runtime}, NEW list \in SUBSET T, Distinct(list)
  PROVE  Remarked(list, list)
<1>1. \A x \in list : x.default \in BOOLEAN /\ x = [x EXCEPT !.default = x.default]
  BY DEF Conf, Runtime
<1> QED BY <1>1 DEF Remarked

\* Unmarked only takes the marks off.
LEMMA UnmarkedRemarks ==
  ASSUME NEW T \in {Conf, Runtime}, NEW list \in SUBSET T, Distinct(list)
  PROVE  Remarked(list, Unmarked(list)) /\ Defaults(Unmarked(list)) = {}
<1>1. \A x \in list : LET u == [x EXCEPT !.default = FALSE]
                      IN u.default = FALSE /\ u.id = x.id
                         /\ u = [x EXCEPT !.default = u.default]
  BY DEF Conf, Runtime
<1>2. ASSUME NEW x \in Unmarked(list), NEW y \in Unmarked(list), x.id = y.id
      PROVE  x = y
  <2>1. PICK a \in list : x = [a EXCEPT !.default = FALSE]
    BY DEF Unmarked
  <2>2. PICK b \in list : y = [b EXCEPT !.default = FALSE]
    BY DEF Unmarked
  <2>3. a = b
    BY <1>1, <1>2, <2>1, <2>2 DEF Distinct
  <2> QED BY <2>1, <2>2, <2>3
<1>3. Distinct(Unmarked(list))
  BY <1>2 DEF Distinct
<1> QED BY <1>1, <1>3 DEF Remarked, Unmarked, Defaults

\* Mark only sets the mark of one entry.
LEMMA MarkRemarks ==
  ASSUME NEW T \in {Conf, Runtime}, NEW list \in SUBSET T, Distinct(list), NEW y \in list
  PROVE  /\ Remarked(list, Mark(list, y))
         /\ Defaults(list) = {} => /\ Defaults(Mark(list, y)) # {}
                                   /\ \A a, b \in Defaults(Mark(list, y)) : a = b
                                   /\ \A a \in Defaults(Mark(list, y)) : a.id = y.id
<1> DEFINE m == [y EXCEPT !.default = TRUE]
<1>1. m.default = TRUE /\ m.id = y.id /\ m = [y EXCEPT !.default = m.default]
  BY DEF Conf, Runtime
<1>2. \A x \in list : x.default \in BOOLEAN /\ x = [x EXCEPT !.default = x.default]
  BY DEF Conf, Runtime
<1> HIDE DEF m
<1>3. Mark(list, y) = (list \ {y}) \cup {m}
  BY DEF Mark, m
<1>4. Distinct(Mark(list, y))
  BY <1>1, <1>3 DEF Distinct
<1>5. Defaults(Mark(list, y)) = (Defaults(list) \ {y}) \cup {m}
  BY <1>1, <1>3 DEF Defaults
<1> QED BY <1>1, <1>2, <1>3, <1>4, <1>5 DEF Remarked, m

\* A list in which exactly the chosen entries are marked.
Only(list, chosen) == {[x EXCEPT !.default = (x \in chosen)] : x \in list}

\* Marking a set of at most one entry, and no other, leaves at most one marked.
LEMMA OnlyRemarks ==
  ASSUME NEW T \in {Conf, Runtime}, NEW list \in SUBSET T, Distinct(list),
         NEW chosen, \A x, y \in chosen : x = y
  PROVE  /\ Remarked(list, Only(list, chosen))
         /\ \A x, y \in Defaults(Only(list, chosen)) : x = y
         /\ list \cap chosen # {} => Defaults(Only(list, chosen)) # {}
         /\ \A x \in Defaults(Only(list, chosen)) : \E y \in list \cap chosen : x.id = y.id
<1> DEFINE with(x) == [x EXCEPT !.default = (x \in chosen)]
<1>1. \A x \in list : /\ with(x).default = (x \in chosen) /\ with(x).default \in BOOLEAN
                      /\ with(x).id = x.id /\ with(x) = [x EXCEPT !.default = with(x).default]
  BY DEF Conf, Runtime
<1>2. Only(list, chosen) = {with(x) : x \in list}
  BY DEF Only
<1> HIDE DEF with
<1>3. ASSUME NEW x \in Only(list, chosen), NEW y \in Only(list, chosen),
             x.id = y.id \/ (x.default /\ y.default)
      PROVE  x = y
  <2>1. PICK a \in list : x = with(a)
    BY <1>2
  <2>2. PICK b \in list : y = with(b)
    BY <1>2
  <2>3. a = b
    BY <1>1, <1>3, <2>1, <2>2 DEF Distinct
  <2> QED BY <2>1, <2>2, <2>3
<1>4. Distinct(Only(list, chosen)) /\ \A x, y \in Defaults(Only(list, chosen)) : x = y
  BY <1>3 DEF Distinct, Defaults
<1>5. ASSUME NEW x \in list, x \in chosen
      PROVE  with(x) \in Defaults(Only(list, chosen))
  BY <1>1, <1>2, <1>5 DEF Defaults
<1>6. Remarked(list, Only(list, chosen))
  BY <1>1, <1>2, <1>4 DEF Remarked
<1>7. \A x \in Defaults(Only(list, chosen)) : \E y \in list \cap chosen : x.id = y.id
  BY <1>1, <1>2 DEF Defaults
<1> QED BY <1>4, <1>5, <1>6, <1>7

(***************************************************************************)
(* What every manifest that a command writes is like.                      *)
(***************************************************************************)
\* Beside the checks of validation: the id of a runtime is its configuration's.
Good(m) ==
  /\ m \in Manifests
  /\ Valid(m)
  /\ \A r \in m.rts : r.id = r.conf
  /\ Bounded(m.confs) /\ Bounded(m.rts)

\* Nothing of m but what is dropped is missing from n.
Keeps(m, n, dropped) ==
  /\ \A c \in m.confs : c.id \notin dropped =>
       \E d \in n.confs : d.id = c.id /\ d.kind = c.kind /\ d.pos = c.pos /\ c.exts \subseteq d.exts
  /\ \A r \in m.rts : r.conf \notin dropped =>
       \E s \in n.rts : s.id = r.id /\ s.conf = r.conf
  /\ \A b \in Profiles(m.pub) : n.rts # {} => b \in Profiles(n.pub)

\* The parts of a good manifest, as the lemmas below use them.
LEMMA GoodParts ==
  ASSUME NEW m, Good(m)
  PROVE  /\ m.confs \in SUBSET Conf /\ Distinct(m.confs) /\ \A c \in m.confs : c.pos \in Nat
         /\ m.rts \in SUBSET Runtime /\ Distinct(m.rts) /\ \A r \in m.rts : r.pos \in Nat
         /\ m.pub \in Publish
BY DEF Good, Valid, ValidConfs, ValidRuntimes, Manifests, Conf, Runtime, Distinct

\* The manifest of a project without configurations.
LEMMA EmptyGood == Good(EmptyManifest) /\ \A n : Keeps(EmptyManifest, n, {})
<1>1. NoPublish \in Publish /\ Profiles(NoPublish) = {}
  BY DEF NoPublish, Publish, Profiles
<1>2. Bounded({})
  BY DEF Bounded
<1> QED BY <1>1, <1>2 DEF Good, EmptyManifest, Manifests, Valid, ValidConfs, ValidRuntimes,
             ValidPublish, Defaults, IdsOf, Keeps, NoPublish

\* The manifests of the templates.
LEMMA TemplateGood ==
  ASSUME NEW kind \in {"configuration", "extension"}
  PROVE  Good(TemplateManifest(kind))
<1> DEFINE m == TemplateManifest(kind)
           c == [id |-> Main, kind |-> kind, pos |-> 1, default |-> TRUE, exts |-> {}]
           r == [id |-> Main, conf |-> Main, pos |-> 1, default |-> TRUE]
<1>1. c \in Conf /\ r \in Runtime
  BY MainIsId DEF Conf, Runtime
<1>2. m.confs = {c} /\ m.rts = {r}
  BY DEF TemplateManifest
<1>3. m.pub \in Publish /\ Main # None
  BY MainIsId, NoneIsNoId DEF TemplateManifest, Publish, NoPublish, Backends
<1>4. ValidPublish(m)
  BY <1>2, <1>3, MainIsId DEF ValidPublish, Profiles, Backends, NoPublish, IdsOf, TemplateManifest
<1>5. m \in Manifests
  BY <1>1, <1>2, <1>3 DEF TemplateManifest, Manifests
<1>6. ValidConfs(m) /\ ValidRuntimes(m)
  <2>1. c.id = Main /\ r.conf = Main /\ r.default
    OBVIOUS
  <2> HIDE DEF c, r, m
  <2> QED BY <1>2, <2>1 DEF ValidConfs, ValidRuntimes, Defaults, IdsOf
<1>7. Bounded(m.confs) /\ Bounded(m.rts)
  BY <1>2 DEF Bounded
<1> QED BY <1>2, <1>4, <1>5, <1>6, <1>7 DEF Good, Valid

\* Only the last of the two lists may be remarked.
LEMMA RemarkedGood ==
  ASSUME NEW m, Good(m), NEW confs, NEW rts, NEW n,
         n = [m EXCEPT !.confs = confs, !.rts = rts], Remarked(m.confs, confs), Remarked(m.rts, rts),
         \A c, d \in Defaults(confs) : c = d,
         \A r, s \in Defaults(rts) : r = s, rts # {} => Defaults(rts) # {}
  PROVE  Good(n) /\ Keeps(m, n, {})
<1>0. m.confs \in SUBSET Conf /\ m.rts \in SUBSET Runtime
  BY GoodParts
<1>1. n.confs = confs /\ n.rts = rts /\ n.pub = m.pub
  BY DEF Good, Manifests
<1>2. /\ confs \in SUBSET Conf /\ IdsOf(confs) = IdsOf(m.confs) /\ Distinct(confs)
      /\ Bounded(m.confs) => Bounded(confs)
      /\ \A c \in m.confs : \E d \in confs : d.id = c.id /\ d.kind = c.kind /\ d.pos = c.pos
                                             /\ d.exts = c.exts
  BY <1>0, RemarkedConfs
<1>3. /\ rts \in SUBSET Runtime /\ IdsOf(rts) = IdsOf(m.rts) /\ Distinct(rts)
      /\ Bounded(m.rts) => Bounded(rts)
      /\ \A r \in m.rts : \E s \in rts : s.id = r.id /\ s.conf = r.conf /\ s.pos = r.pos
      /\ \A s \in rts : \E r \in m.rts : s.id = r.id /\ s.conf = r.conf /\ s.pos = r.pos
  BY <1>0, RemarkedRuntimes
<1>4. n \in Manifests
  BY <1>2, <1>3 DEF Good, Manifests
<1>5. ValidConfs(n)
  BY <1>1, <1>2 DEF ValidConfs, Distinct
<1>6. ValidRuntimes(n)
  BY <1>1, <1>2, <1>3 DEF ValidRuntimes, Distinct, Good, Valid
<1>7. ValidPublish(n)
  BY <1>1, <1>3 DEF ValidPublish, Good, Valid
<1>8. \A r \in n.rts : r.id = r.conf
  BY <1>1, <1>3 DEF Good
<1>9. Keeps(m, n, {})
  BY <1>1, <1>2, <1>3 DEF Keeps
<1> QED BY <1>1, <1>2, <1>3, <1>4, <1>5, <1>6, <1>7, <1>8, <1>9 DEF Good, Valid

(***************************************************************************)
(* What each command makes of a good manifest is good.                     *)
(***************************************************************************)
\* configuration set-default keeps the manifest valid and every entry in it.
LEMMA SetDefaultGood ==
  ASSUME NEW m, Good(m), NEW id
  PROVE  Good(SetDefault(m, id)) /\ Keeps(m, SetDefault(m, id), {})
<1> DEFINE linked == {r \in m.rts : r.conf = id}
           chosen == {c \in m.confs : c.id = id}
           confs == Only(m.confs, chosen)
           rts == IF linked = {} THEN m.rts ELSE Only(m.rts, {First(linked)})
<1>0. /\ m.confs \in SUBSET Conf /\ Distinct(m.confs)
      /\ m.rts \in SUBSET Runtime /\ Distinct(m.rts) /\ \A r \in m.rts : r.pos \in Nat
  BY GoodParts
<1>1. {[c EXCEPT !.default = (c.id = id)] : c \in m.confs} = Only(m.confs, chosen)
  <2>1. \A c \in m.confs : (c.id = id) = (c \in chosen)
    OBVIOUS
  <2>2. \A c \in m.confs : [c EXCEPT !.default = (c.id = id)] = [c EXCEPT !.default = (c \in chosen)]
    BY <2>1
  <2> QED BY <2>2 DEF Only
<1>2. {[r EXCEPT !.default = (r = First(linked))] : r \in m.rts} = Only(m.rts, {First(linked)})
  <2>1. \A r \in m.rts : (r = First(linked)) = (r \in {First(linked)})
    OBVIOUS
  <2>2. \A r \in m.rts : [r EXCEPT !.default = (r = First(linked))]
                           = [r EXCEPT !.default = (r \in {First(linked)})]
    BY <2>1
  <2> QED BY <2>2 DEF Only
<1>3. SetDefault(m, id) = [m EXCEPT !.confs = confs, !.rts = rts]
  BY <1>1, <1>2, Zenon DEF SetDefault
<1>4. \A c, d \in chosen : c = d
  BY <1>0 DEF Distinct
<1>5. Remarked(m.confs, confs) /\ \A c, d \in Defaults(confs) : c = d
  BY <1>0, <1>4, OnlyRemarks
<1>6. linked # {} => First(linked) \in m.rts
  <2>1. \A r \in linked : r.pos \in Nat
    BY <1>0
  <2>2. linked # {} => First(linked) \in linked
    BY <2>1, FirstIsFirst
  <2> QED BY <2>2
<1>7. Remarked(m.rts, m.rts)
  BY <1>0, RemarkedSelf
<1>8. CASE linked = {}
  <2>1. Remarked(m.rts, rts) /\ (\A r, s \in Defaults(rts) : r = s)
        /\ (rts # {} => Defaults(rts) # {})
    BY <1>7, <1>8 DEF Good, Valid, ValidRuntimes
  <2> HIDE DEF rts, confs
  <2> QED BY <1>3, <1>5, <2>1, RemarkedGood
<1>9. CASE linked # {}
  <2>1. Remarked(m.rts, rts) /\ (\A r, s \in Defaults(rts) : r = s)
        /\ (rts # {} => Defaults(rts) # {})
    <3>1. rts = Only(m.rts, {First(linked)})
      BY <1>9
    <3>2. \A c, d \in {First(linked)} : c = d
      OBVIOUS
    <3>3. m.rts \cap {First(linked)} # {}
      BY <1>6, <1>9
    <3> HIDE DEF rts, linked
    <3> QED BY <1>0, <3>1, <3>2, <3>3, OnlyRemarks, ZenonT(40)
  <2> HIDE DEF rts, confs
  <2> QED BY <1>3, <1>5, <2>1, RemarkedGood
<1> QED BY <1>8, <1>9

\* So does the entry of an extension.
LEMMA WithExtensionGood ==
  ASSUME NEW m, Good(m), NEW id, NEW e \in Exts
  PROVE  Good(WithExtension(m, id, e)) /\ Keeps(m, WithExtension(m, id, e), {})
<1> DEFINE with(c) == IF c.id = id THEN [c EXCEPT !.exts = @ \cup {e}] ELSE c
           confs == {with(c) : c \in m.confs}
           n == [m EXCEPT !.confs = confs]
<1>1. m.confs \in SUBSET Conf /\ Distinct(m.confs)
  BY GoodParts
<1>2. \A c \in m.confs : /\ with(c) \in Conf /\ with(c).id = c.id /\ with(c).kind = c.kind
                         /\ with(c).pos = c.pos /\ with(c).default = c.default
                         /\ c.exts \subseteq with(c).exts
  BY <1>1 DEF Conf
<1>3. n.confs = confs /\ n.rts = m.rts /\ n.pub = m.pub /\ WithExtension(m, id, e) = n
  BY DEF Good, Manifests, WithExtension
<1> HIDE DEF with
<1>4. n \in Manifests
  BY <1>2 DEF Good, Manifests
<1> HIDE DEF n
<1>5. IdsOf(confs) = IdsOf(m.confs)
  BY <1>2 DEF IdsOf
<1>6. ValidConfs(n)
  <2> SUFFICES ASSUME NEW x \in confs, NEW y \in confs, x.id = y.id \/ (x.default /\ y.default)
               PROVE  x = y
    BY <1>3 DEF ValidConfs, Defaults
  <2>1. PICK a \in m.confs : x = with(a)
    OBVIOUS
  <2>2. PICK b \in m.confs : y = with(b)
    OBVIOUS
  <2>3. a = b
    BY <1>2, <2>1, <2>2 DEF Good, Valid, ValidConfs, Defaults
  <2> QED BY <2>1, <2>2, <2>3
<1>7. ValidRuntimes(n) /\ ValidPublish(n)
  BY <1>3, <1>5 DEF ValidRuntimes, ValidPublish, Good, Valid
<1>8. Bounded(n.confs)
  BY <1>2, <1>3 DEF Bounded, Good
<1>9. Keeps(m, n, {})
  BY <1>2, <1>3 DEF Keeps
<1> QED BY <1>3, <1>4, <1>6, <1>7, <1>8, <1>9 DEF Good, Valid

\* So does a new configuration, with its runtime or without.
LEMMA RegisterGood ==
  ASSUME NEW m, Good(m), NEW id \in Ids, id \notin IdsOf(m.confs),
         NEW setDefault, NEW withRuntime \in BOOLEAN
  PROVE  /\ Good(Register(m, id, setDefault, withRuntime))
         /\ Keeps(m, Register(m, id, setDefault, withRuntime), {})
<1> DEFINE mark == setDefault = "yes" \/ (setDefault = "unset" /\ m.confs = {})
           rmark == m.rts = {} \/ mark
           conf == [id |-> id, kind |-> "configuration", pos |-> NextPos(m.confs),
                    default |-> mark, exts |-> {}]
           rt == [id |-> id, conf |-> id, pos |-> NextPos(m.rts), default |-> rmark]
           confs == IF mark THEN Unmarked(m.confs) ELSE m.confs
           rts == IF rmark THEN Unmarked(m.rts) ELSE m.rts
           pub == IF withRuntime /\ m.rts = {} /\ m.pub = NoPublish
                  THEN [default |-> "webinst",
                        profile |-> [NoPublish.profile EXCEPT !["webinst"] = id]]
                  ELSE m.pub
           n == Register(m, id, setDefault, withRuntime)
<1>0. /\ m.confs \in SUBSET Conf /\ Distinct(m.confs) /\ \A c \in m.confs : c.pos \in Nat
      /\ m.rts \in SUBSET Runtime /\ Distinct(m.rts) /\ \A r \in m.rts : r.pos \in Nat
      /\ m.pub \in Publish
  BY GoodParts
<1>1. n.confs = confs \cup {conf} /\ n.rts = (IF withRuntime THEN rts \cup {rt} ELSE m.rts)
      /\ n.pub = pub /\ n = [confs |-> n.confs, rts |-> n.rts, pub |-> n.pub]
  BY DEF Register
<1>2. /\ conf \in Conf /\ conf.id = id /\ conf.default = mark
      /\ \A c \in m.confs : c.pos < conf.pos
  BY <1>0, NextPosIsNext DEF Conf, Good
<1>3. /\ rt \in Runtime /\ rt.id = id /\ rt.conf = id /\ rt.default = rmark
      /\ \A r \in m.rts : r.pos < rt.pos
  BY <1>0, NextPosIsNext DEF Runtime, Good
<1> HIDE DEF conf, rt, n
<1>4. Remarked(m.confs, confs) /\ (mark => Defaults(confs) = {})
  <2>1. Remarked(m.confs, m.confs)
    BY <1>0, RemarkedSelf
  <2>2. Remarked(m.confs, Unmarked(m.confs)) /\ Defaults(Unmarked(m.confs)) = {}
    BY <1>0, UnmarkedRemarks
  <2> QED BY <2>1, <2>2
<1>5. Remarked(m.rts, rts) /\ (rmark => Defaults(rts) = {})
  <2>1. Remarked(m.rts, m.rts)
    BY <1>0, RemarkedSelf
  <2>2. Remarked(m.rts, Unmarked(m.rts)) /\ Defaults(Unmarked(m.rts)) = {}
    BY <1>0, UnmarkedRemarks
  <2> QED BY <2>1, <2>2
<1>6. Bounded(m.confs) /\ Bounded(m.rts)
  BY DEF Good
<1>7. mark \/ confs = m.confs
  OBVIOUS
<1>8. rmark \/ rts = m.rts
  OBVIOUS
<1>9. pub \in Publish /\ Profiles(m.pub) \subseteq Profiles(pub)
       /\ (pub = m.pub \/ (withRuntime /\ Profiles(pub) = {"webinst"} /\ pub.default = "webinst"
                          /\ pub.profile["webinst"] = id))
  BY <1>0, NoneIsNoId, Zenon DEF Publish, NoPublish, Backends, Profiles
<1> HIDE DEF confs, rts, pub
<1>10. /\ confs \in SUBSET Conf /\ IdsOf(confs) = IdsOf(m.confs) /\ Distinct(confs)
       /\ \A c \in m.confs : \E d \in confs : d.id = c.id /\ d.kind = c.kind /\ d.pos = c.pos
                                              /\ d.exts = c.exts
       /\ Bounded(confs)
  BY <1>0, <1>4, <1>6, RemarkedConfs
<1>11. /\ rts \in SUBSET Runtime /\ IdsOf(rts) = IdsOf(m.rts) /\ Distinct(rts)
       /\ \A r \in m.rts : \E s \in rts : s.id = r.id /\ s.conf = r.conf /\ s.pos = r.pos
       /\ \A s \in rts : \E r \in m.rts : s.id = r.id /\ s.conf = r.conf /\ s.pos = r.pos
       /\ Bounded(rts)
  BY <1>0, <1>5, <1>6, RemarkedRuntimes
<1>12. n.confs \in SUBSET Conf /\ IdsOf(n.confs) = IdsOf(m.confs) \cup {id}
  BY <1>1, <1>2, <1>10 DEF IdsOf
<1>13. n.rts \in SUBSET Runtime /\ IdsOf(m.rts) \subseteq IdsOf(n.rts)
       /\ (withRuntime => id \in IdsOf(n.rts))
  BY <1>0, <1>1, <1>3, <1>11 DEF IdsOf
<1>14. \A c \in confs : c.id # id
  BY <1>10 DEF IdsOf
<1>15. \A r \in rts \cup m.rts : r.id # id
  <2>1. \A r \in m.rts : r.id \in IdsOf(m.confs)
    BY DEF Good, Valid, ValidRuntimes
  <2> QED BY <1>11, <2>1 DEF IdsOf
<1>16. ValidConfs(n)
  <2>1. \A c, d \in Defaults(n.confs) : c = d
    BY <1>1, <1>2, <1>4, <1>7 DEF Defaults, Good, Valid, ValidConfs
  <2> QED BY <1>1, <1>2, <1>10, <1>14, <2>1 DEF ValidConfs, Distinct
<1>17. ValidRuntimes(n)
  <2>1. \A r, s \in Defaults(n.rts) : r = s
    BY <1>1, <1>3, <1>5, <1>8 DEF Defaults, Good, Valid, ValidRuntimes
  <2>2. n.rts # {} => Defaults(n.rts) # {}
    <3>1. CASE withRuntime /\ rmark
      BY <1>1, <1>3, <3>1 DEF Defaults
    <3>2. CASE ~(withRuntime /\ rmark)
      <4>1. m.rts \subseteq n.rts /\ (n.rts # {} => m.rts # {})
        BY <1>1, <1>8, <3>2
      <4> QED BY <4>1 DEF Defaults, Good, Valid, ValidRuntimes
    <3> QED BY <3>1, <3>2
  <2>3. \A r \in n.rts : r.conf \in IdsOf(n.confs)
    <3>1. \A r \in m.rts : r.conf \in IdsOf(m.confs)
      BY DEF Good, Valid, ValidRuntimes
    <3>2. ASSUME NEW s \in rts
          PROVE  s.conf \in IdsOf(m.confs)
      <4>1. PICK r \in m.rts : s.conf = r.conf
        BY <1>11
      <4> QED BY <3>1, <4>1
    <3> QED BY <1>1, <1>3, <1>12, <3>1, <3>2
  <2>4. \A r, s \in n.rts : r.id = s.id => r = s
    BY <1>0, <1>1, <1>3, <1>11, <1>15 DEF Distinct
  <2> QED BY <2>1, <2>2, <2>3, <2>4 DEF ValidRuntimes
<1>18. ValidPublish(n)
  BY <1>1, <1>9, <1>13 DEF ValidPublish, Good, Valid
<1>19. \A r \in n.rts : r.id = r.conf
  <2>1. ASSUME NEW s \in rts
        PROVE  s.id = s.conf
    <3>1. PICK r \in m.rts : s.id = r.id /\ s.conf = r.conf
      BY <1>11
    <3> QED BY <3>1 DEF Good
  <2>2. \A r \in m.rts : r.id = r.conf
    BY DEF Good
  <2> QED BY <1>1, <1>3, <2>1, <2>2
<1>20. Bounded(n.confs) /\ Bounded(n.rts)
  <2>1. Bounded(n.confs)
    <3>1. \A c \in confs : c.pos \in Nat
      BY <1>10 DEF Conf
    <3>2. conf.pos \in Nat
      BY <1>2 DEF Conf
    <3> QED BY <1>1, <1>10, <3>1, <3>2, AppendBounded
  <2>2. Bounded(rts \cup {rt})
    <3>1. \A r \in rts : r.pos \in Nat
      BY <1>11 DEF Runtime
    <3>2. rt.pos \in Nat
      BY <1>3 DEF Runtime
    <3> QED BY <1>11, <3>1, <3>2, AppendBounded
  <2> QED BY <1>1, <2>1, <2>2 DEF Good
<1>21. Keeps(m, n, {})
  BY <1>1, <1>10, <1>11, <1>9 DEF Keeps
<1>22. n \in Manifests
  BY <1>1, <1>9, <1>12, <1>13, Zenon DEF Manifests
<1> QED BY <1>16, <1>17, <1>18, <1>19, <1>20, <1>21, <1>22 DEF Good, Valid, n

\* So does a publication profile of the default runtime.
LEMMA WithProfileGood ==
  ASSUME NEW m, Good(m), NEW backend \in Backends, DefaultRuntime(m) # NoTarget
  PROVE  Good(WithProfile(m, backend)) /\ Keeps(m, WithProfile(m, backend), {})
<1> DEFINE rt == Resolve(m, None, TRUE).rt
           pub == [default |-> IF m.pub.default = None THEN backend ELSE m.pub.default,
                   profile |-> [m.pub.profile EXCEPT ![backend] = rt]]
           n == [m EXCEPT !.pub = pub]
<1>0. /\ m.rts \in SUBSET Runtime /\ \A r \in m.rts : r.pos \in Nat
      /\ m.pub \in Publish /\ ValidRuntimes(m) /\ ValidPublish(m)
  BY GoodParts DEF Good, Valid
<1>1. m.rts # {} /\ Defaults(m.rts) # {} /\ \A r, s \in Defaults(m.rts) : r = s
  BY <1>0 DEF DefaultRuntime, ValidRuntimes, Defaults
<1>2. m.confs # {}
  BY <1>0, <1>1 DEF ValidRuntimes, IdsOf
<1>3. DefaultRuntime(m) = Target(m, First(Defaults(m.rts)))
  BY <1>1 DEF DefaultRuntime
<1>4. First(Defaults(m.rts)) \in m.rts
  <2>1. \A r \in Defaults(m.rts) : r.pos \in Nat /\ r \in m.rts
    BY <1>0 DEF Defaults
  <2> QED BY <1>1, <2>1, FirstIsFirst
<1>5. rt \in IdsOf(m.rts) /\ rt \in Ids
  <2>1. rt = First(Defaults(m.rts)).id
    BY <1>2, <1>3 DEF Resolve, Target
  <2> QED BY <1>0, <1>4, <2>1 DEF IdsOf, Runtime
<1> HIDE DEF rt
<1>6. pub \in Publish /\ pub.profile[backend] = rt
      /\ (pub.default = backend \/ (pub.default = m.pub.default /\ m.pub.default # None))
      /\ \A b \in Backends \ {backend} : pub.profile[b] = m.pub.profile[b]
  BY <1>0, <1>5 DEF Publish
<1>7. Profiles(pub) = Profiles(m.pub) \cup {backend}
  BY <1>5, <1>6, NoneIsNoId DEF Profiles
<1>8. n.confs = m.confs /\ n.rts = m.rts /\ n.pub = pub /\ n \in Manifests
  BY <1>6 DEF Good, Manifests
<1>9. WithProfile(m, backend) = n
  BY DEF WithProfile, rt, Good, Manifests, Publish
<1> HIDE DEF n, pub
<1>10. ValidPublish(n)
  <2>1. \A b \in Profiles(pub) : pub.profile[b] \in IdsOf(m.rts)
    BY <1>0, <1>5, <1>6, <1>7 DEF ValidPublish, Profiles
  <2>2. pub.default \in Profiles(pub)
    BY <1>0, <1>6, <1>7 DEF ValidPublish
  <2> QED BY <1>8, <2>1, <2>2 DEF ValidPublish
<1>11. ValidConfs(n) /\ ValidRuntimes(n)
  BY <1>8 DEF Good, Valid, ValidConfs, ValidRuntimes
<1>12. Keeps(m, n, {})
  BY <1>7, <1>8 DEF Keeps
<1> QED BY <1>8, <1>9, <1>10, <1>11, <1>12 DEF Good, Valid

\* A removal keeps the manifest valid and every other entry in it.
LEMMA WithoutGood ==
  ASSUME NEW m, Good(m), NEW id, NEW heir,
         \/ heir \in IdsOf({r \in m.rts : r.conf # id})
         \/ heir = None /\ {r \in m.rts : r.conf # id} = {}
  PROVE  Good(Without(m, id, heir)) /\ Keeps(m, Without(m, id, heir), {id})
<1> DEFINE confs == {c \in m.confs : c.id # id}
           rts == {r \in m.rts : r.conf # id}
           gone == IdsOf(m.rts \ rts)
           wasDefault == \E c \in m.confs : c.id = id /\ c.default
           profile == [b \in Backends |-> IF m.pub.profile[b] \in gone
                                          THEN IF rts = {} THEN None ELSE heir
                                          ELSE m.pub.profile[b]]
           kept == {b \in Backends : profile[b] # None}
           pub == IF kept = {} THEN NoPublish
                  ELSE [default |-> IF m.pub.default = None \/ m.pub.default \in kept
                                    THEN m.pub.default
                                    ELSE CHOOSE b \in Backends : b \in kept,
                        profile |-> profile]
           n == Without(m, id, heir)
<1>0. /\ m.confs \in SUBSET Conf /\ Distinct(m.confs) /\ \A c \in m.confs : c.pos \in Nat
      /\ m.rts \in SUBSET Runtime /\ Distinct(m.rts) /\ \A r \in m.rts : r.pos \in Nat
      /\ m.pub \in Publish
      /\ Bounded(m.confs) /\ Bounded(m.rts)
      /\ ValidConfs(m) /\ ValidRuntimes(m) /\ ValidPublish(m)
  BY GoodParts DEF Good, Valid
<1>1. /\ n.confs = IF wasDefault /\ confs # {} THEN Mark(confs, First(confs)) ELSE confs
      /\ n.rts = IF rts # {} /\ Defaults(rts) = {} THEN Mark(rts, First(rts)) ELSE rts
      /\ n.pub = pub /\ n = [confs |-> n.confs, rts |-> n.rts, pub |-> n.pub]
  BY Zenon DEF Without
<1>2. /\ confs \in SUBSET Conf /\ Distinct(confs) /\ Bounded(confs)
      /\ rts \in SUBSET Runtime /\ Distinct(rts) /\ Bounded(rts)
  BY <1>0 DEF Distinct, Bounded
<1>3. (confs # {} => First(confs) \in confs) /\ (rts # {} => First(rts) \in rts)
  <2>1. (\A c \in confs : c.pos \in Nat) /\ \A r \in rts : r.pos \in Nat
    BY <1>0
  <2> HIDE DEF confs, rts
  <2> QED BY <2>1, FirstIsFirst
<1>4. Remarked(confs, n.confs) /\ \A c, d \in Defaults(n.confs) : c = d
  <2>1. CASE wasDefault /\ confs # {}
    <3>1. /\ Remarked(confs, Mark(confs, First(confs)))
          /\ Defaults(confs) = {} => /\ Defaults(Mark(confs, First(confs))) # {}
                                     /\ \A a, b \in Defaults(Mark(confs, First(confs))) : a = b
                                     /\ \A a \in Defaults(Mark(confs, First(confs))) :
                                          a.id = First(confs).id
      BY <1>2, <1>3, <2>1, MarkRemarks
    <3>2. Defaults(confs) = {}
      BY <1>0, <2>1 DEF Defaults, ValidConfs
    <3>3. n.confs = Mark(confs, First(confs))
      BY <1>1, <2>1
    <3> HIDE DEF confs, n
    <3> QED BY <3>1, <3>2, <3>3
  <2>2. CASE ~(wasDefault /\ confs # {})
    <3>1. Remarked(confs, confs)
      BY <1>2, RemarkedSelf
    <3>2. \A c, d \in Defaults(confs) : c = d
      BY <1>0 DEF Defaults, ValidConfs
    <3> HIDE DEF confs
    <3> QED BY <1>1, <2>2, <3>1, <3>2
  <2> QED BY <2>1, <2>2
<1>5. /\ Remarked(rts, n.rts) /\ \A r, s \in Defaults(n.rts) : r = s
      /\ n.rts # {} => Defaults(n.rts) # {}
  <2>1. CASE rts # {} /\ Defaults(rts) = {}
    <3>1. /\ Remarked(rts, Mark(rts, First(rts)))
          /\ Defaults(rts) = {} => /\ Defaults(Mark(rts, First(rts))) # {}
                                   /\ \A a, b \in Defaults(Mark(rts, First(rts))) : a = b
                                   /\ \A a \in Defaults(Mark(rts, First(rts))) : a.id = First(rts).id
      BY <1>2, <1>3, <2>1, MarkRemarks
    <3>2. n.rts = Mark(rts, First(rts))
      BY <1>1, <2>1
    <3> HIDE DEF rts, n
    <3> QED BY <2>1, <3>1, <3>2
  <2>2. CASE ~(rts # {} /\ Defaults(rts) = {})
    <3>1. Remarked(rts, rts)
      BY <1>2, RemarkedSelf
    <3>2. \A c, d \in Defaults(rts) : c = d
      BY <1>0 DEF Defaults, ValidRuntimes
    <3> HIDE DEF rts
    <3> QED BY <1>1, <2>2, <3>1, <3>2
  <2> QED BY <2>1, <2>2
<1>6. /\ n.confs \in SUBSET Conf /\ IdsOf(n.confs) = IdsOf(confs) /\ Distinct(n.confs)
      /\ \A c \in confs : \E d \in n.confs : d.id = c.id /\ d.kind = c.kind /\ d.pos = c.pos
                                            /\ d.exts = c.exts
      /\ Bounded(n.confs)
  BY <1>2, <1>4, RemarkedConfs
<1>7. /\ n.rts \in SUBSET Runtime /\ IdsOf(n.rts) = IdsOf(rts) /\ Distinct(n.rts)
      /\ \A r \in rts : \E s \in n.rts : s.id = r.id /\ s.conf = r.conf /\ s.pos = r.pos
      /\ \A s \in n.rts : \E r \in rts : s.id = r.id /\ s.conf = r.conf /\ s.pos = r.pos
      /\ Bounded(n.rts)
  BY <1>2, <1>5, RemarkedRuntimes
<1>8. \A b \in Profiles(m.pub) : m.pub.profile[b] \in gone \cup IdsOf(rts)
  BY <1>0 DEF ValidPublish, IdsOf
<1>9. (rts # {} => heir \in Ids /\ heir \in IdsOf(rts)) /\ (rts = {} => heir = None)
  BY <1>2 DEF IdsOf, Runtime
<1>10. rts = {} => \A b \in Backends : m.pub.profile[b] \in gone \cup {None}
  BY <1>8 DEF Profiles, IdsOf
<1>11. /\ profile \in [Backends -> Ids \cup {None}]
       /\ \A b \in kept : profile[b] \in IdsOf(rts)
       /\ rts # {} => Profiles(m.pub) \subseteq kept
  <2> HIDE DEF gone, rts
  <2>1. m.pub.profile \in [Backends -> Ids \cup {None}]
    BY <1>0 DEF Publish
  <2>2. profile \in [Backends -> Ids \cup {None}]
    BY <1>9, <2>1
  <2>3. \A b \in kept : profile[b] \in IdsOf(rts)
    BY <1>8, <1>9, <1>10 DEF Profiles
  <2>4. rts # {} => Profiles(m.pub) \subseteq kept
    BY <1>9, NoneIsNoId DEF Profiles
  <2> QED BY <2>2, <2>3, <2>4
<1>12. kept = {b \in Backends : profile[b] # None}
  OBVIOUS
<1>13. /\ pub \in Publish /\ Profiles(pub) = kept
       /\ \A b \in kept : pub.profile[b] = profile[b]
       /\ pub.default # None => pub.default \in kept
  <2>1. m.pub.default \in Backends \cup {None}
    BY <1>0 DEF Publish
  <2> HIDE DEF profile, kept, gone, rts
  <2>2. CASE kept = {}
    BY <2>2 DEF NoPublish, Publish, Profiles
  <2>3. CASE kept # {}
    <3>1. (CHOOSE b \in Backends : b \in kept) \in kept
      BY <1>12, <2>3
    <3>2. pub.profile = profile /\ pub.default \in kept \cup {None}
          /\ pub = [default |-> pub.default, profile |-> profile]
      BY <2>1, <2>3, <3>1
    <3> HIDE DEF pub
    <3>3. pub \in Publish
      BY <1>11, <1>12, <3>2 DEF Publish
    <3> QED BY <1>12, <3>2, <3>3 DEF Profiles
  <2> QED BY <2>2, <2>3
<1>14. n \in Manifests
  <2> HIDE DEF pub, n
  <2> QED BY <1>1, <1>6, <1>7, <1>13, Zenon DEF Manifests
<1> HIDE DEF n, pub, profile, kept, gone
<1>15. ValidConfs(n)
  BY <1>4, <1>6 DEF ValidConfs, Distinct
<1>16. \A r \in rts : r.id = r.conf /\ r.conf \in IdsOf(confs)
  BY <1>0 DEF Good, ValidRuntimes, IdsOf
<1> HIDE DEF rts, confs
<1>17. \A s \in n.rts : s.id = s.conf /\ s.conf \in IdsOf(n.confs)
  <2> TAKE s \in n.rts
  <2>1. PICK r \in rts : s.id = r.id /\ s.conf = r.conf
    BY <1>7
  <2> QED BY <1>6, <1>16, <2>1
<1>18. ValidRuntimes(n)
  BY <1>5, <1>7, <1>17 DEF ValidRuntimes, Distinct
<1>19. ValidPublish(n)
  BY <1>1, <1>7, <1>11, <1>13 DEF ValidPublish
<1>20. Keeps(m, n, {id})
  <2>1. ASSUME NEW c \in m.confs, c.id # id
        PROVE  \E d \in n.confs : d.id = c.id /\ d.kind = c.kind /\ d.pos = c.pos
                                  /\ c.exts \subseteq d.exts
    <3>1. c \in confs
      BY <2>1 DEF confs
    <3> QED BY <1>6, <3>1
  <2>2. ASSUME NEW r \in m.rts, r.conf # id
        PROVE  \E s \in n.rts : s.id = r.id /\ s.conf = r.conf
    <3>1. r \in rts
      BY <2>2 DEF rts
    <3> QED BY <1>7, <3>1
  <2>3. n.rts # {} => rts # {}
    BY <1>7
  <2>4. \A b \in Profiles(m.pub) : n.rts # {} => b \in Profiles(n.pub)
    BY <1>1, <1>11, <1>13, <2>3
  <2> QED BY <2>1, <2>2, <2>4 DEF Keeps
<1> QED BY <1>6, <1>7, <1>14, <1>15, <1>17, <1>18, <1>19, <1>20 DEF Good, Valid, n

(***************************************************************************)
(* The commands. A command that is at work on a manifest nobody has written  *)
(* since it was loaded has in its copy all that it was not told to drop.    *)
(***************************************************************************)
Working == {"disk", "runtime", "truncate", "fill"}
Dropped(c) == IF c.op = "remove" THEN {c.id} ELSE {}

JobOK(c, m) ==
  /\ c \in Command
  /\ Good(c.data)
  /\ c.at # "idle" => (c.op = "add" => c.id \in Ids) /\ (c.op = "extension" => c.ext \in Exts)
  /\ c.at \in Working /\ ~c.stale /\ c.op # "init" => Keeps(m, c.data, Dropped(c))

Disks == srcs \subseteq Ids /\ extSrcs \subseteq Exts /\ rtDirs \subseteq Ids

WInv ==
  /\ fileState \in {"absent", "torn", "full"}
  /\ Disks
  /\ begun \in 0..MaxCommands
  /\ Good(man)
  /\ fileState = "absent" => man = EmptyManifest
  /\ proc \in [Procs -> Command]
  /\ \A p \in Procs : JobOK(proc[p], man)

\* An idle process asks for nothing.
LEMMA IdleOK == \A m : JobOK(Idle, m)
<1>1. Good(EmptyManifest) /\ EmptyManifest \in Manifests
  BY EmptyGood DEF Good
<1>2. Idle \in Command
  BY <1>1 DEF Idle, Command, Places, Ops
<1> QED BY <1>1, <1>2 DEF JobOK, Idle, Working

\* The invariant holds before any command.
LEMMA WInvInit == Init => WInv
<1> SUFFICES ASSUME Init PROVE WInv
  OBVIOUS
<1>1. Good(EmptyManifest) /\ Idle \in Command
  BY EmptyGood, IdleOK DEF JobOK
<1>2. proc \in [Procs -> Command] /\ \A p \in Procs : proc[p] = Idle
  BY <1>1 DEF Init
<1> QED BY <1>1, <1>2, IdleOK, MaxCommandsNat DEF Init, WInv, Disks

\* The ids that Resolve gives are the manifest's.
LEMMA ResolveType ==
  ASSUME NEW m, Good(m), NEW c \in Ids \cup {None}, NEW need
  PROVE  Resolve(m, c, need).conf \in Ids \cup {None}
<1>0. /\ m.confs \in SUBSET Conf /\ \A x \in m.confs : x.pos \in Nat /\ x.id \in Ids
      /\ m.rts \in SUBSET Runtime /\ \A r \in m.rts : r.pos \in Nat /\ r.conf \in Ids
  BY GoodParts DEF Conf, Runtime
<1>1. ASSUME NEW S \in SUBSET m.confs, S # {}
      PROVE  First(S).id \in Ids
  <2>1. First(S) \in S
    BY <1>0, <1>1, FirstIsFirst
  <2> QED BY <1>0, <2>1
<1>2. ASSUME NEW S \in SUBSET m.rts, S # {}
      PROVE  Target(m, First(S)).conf \in Ids
  <2>1. First(S) \in S
    BY <1>0, <1>2, FirstIsFirst
  <2> QED BY <1>0, <2>1 DEF Target
<1>3. DefaultConf(m) \in Ids \cup {None}
  <2>1. Defaults(m.confs) \in SUBSET m.confs
    BY DEF Defaults
  <2> QED BY <1>1, <2>1 DEF DefaultConf
<1>4. NoTarget.conf = None
  BY DEF NoTarget
<1>5. DefaultRuntime(m).conf \in Ids \cup {None}
  <2>1. Defaults(m.rts) \in SUBSET m.rts
    BY DEF Defaults
  <2> QED BY <1>2, <1>4, <2>1 DEF DefaultRuntime
<1>6. RuntimeOfConf(m, c).conf \in Ids \cup {None}
  <2> DEFINE related == {r \in m.rts : r.conf = c}
             pick == IF \A r, s \in related : r = s THEN related ELSE Defaults(related)
  <2>1. pick \in SUBSET m.rts
    BY DEF Defaults
  <2>2. RuntimeOfConf(m, c) = IF pick # {} /\ (\A r, s \in pick : r = s)
                              THEN Target(m, First(pick)) ELSE NoTarget
    BY DEF RuntimeOfConf
  <2> HIDE DEF pick
  <2> QED BY <1>2, <1>4, <2>1, <2>2
<1> QED BY <1>3, <1>4, <1>5, <1>6 DEF Resolve

\* A step that leaves the manifest alone and gives one process a job that is in order.
LEMMA JobStep ==
  ASSUME WInv, NEW p \in Procs, NEW c, JobOK(c, man), UNCHANGED man,
         proc' = [proc EXCEPT ![p] = c],
         fileState' \in {"torn", "full"} \/ UNCHANGED fileState, Disks', begun' \in 0..MaxCommands
  PROVE  WInv'
<1>1. c \in Command
  BY DEF JobOK
<1>2. proc' \in [Procs -> Command]
  BY <1>1 DEF WInv
<1>3. \A q \in Procs : proc'[q] = IF q = p THEN c ELSE proc[q]
  BY DEF WInv
<1>4. \A q \in Procs : JobOK(proc'[q], man)
  BY <1>3 DEF WInv
<1>5. \A q \in Procs : JobOK(proc[q], man)'
  BY <1>4 DEF JobOK, Command, Good, Keeps
<1>6. Good(man)' /\ (fileState' = "absent" => man' = EmptyManifest)
  BY DEF WInv
<1>7. fileState' \in {"absent", "torn", "full"}
  BY DEF WInv
<1> QED BY <1>2, <1>5, <1>6, <1>7 DEF WInv

\* A command that begins with a good copy of the manifest keeps the invariant.
LEMMA BeginStep ==
  ASSUME WInv, NEW p \in Procs, NEW op \in Ops, NEW id \in Ids \cup {None},
         NEW ext \in Exts \cup {None}, NEW data, NEW place \in {"disk", "runtime", "truncate"},
         Good(data), op = "add" => id \in Ids, op = "extension" => ext \in Exts,
         op # "init" => Keeps(man, data, IF op = "remove" THEN {id} ELSE {}),
         Begin(p, op, id, ext, data, place)
  PROVE  WInv'
<1> DEFINE c == [Idle EXCEPT !.at = place, !.op = op, !.id = id, !.ext = ext, !.data = data]
<1>1. Idle \in Command /\ data \in Manifests /\ place \in Places
  BY IdleOK DEF JobOK, Good, Places
<1>2. c \in Command
  BY <1>1 DEF Command
<1>3. c.op = op /\ c.id = id /\ c.data = data /\ c.ext = ext
  BY <1>1 DEF Command
<1> HIDE DEF c
<1>4. JobOK(c, man)
  BY <1>2, <1>3 DEF JobOK, Dropped
<1>5. proc' = [proc EXCEPT ![p] = c]
  BY DEF Begin, c
<1>6. Disks' /\ UNCHANGED <<man, fileState>>
  BY DEF Begin, disk, WInv, Disks
<1>7. begun' \in 0..MaxCommands
  BY MaxCommandsNat DEF Begin, WInv
<1> QED BY <1>4, <1>5, <1>6, <1>7, JobStep

\* Every command begins with a copy that is good and keeps what it should.
LEMMA StartStep ==
  ASSUME WInv, NEW p \in Procs, Start(p)
  PROVE  WInv'
<1> USE DEF Ops
<1>0. Good(man) /\ (fileState = "absent" => man = EmptyManifest)
  BY DEF WInv
<1>1. ASSUME NEW kind \in {"configuration", "extension"}, NEW force \in BOOLEAN,
             BeginInit(p, kind, force)
      PROVE  WInv'
  <2> DEFINE id == IF kind = "extension" THEN Main ELSE None
             data == IF kind = "extension" THEN TemplateManifest(kind) ELSE EmptyManifest
  <2>1. Good(data) /\ id \in Ids \cup {None}
    BY TemplateGood, EmptyGood, MainIsId
  <2>2. Begin(p, "init", id, None, data, "truncate")
    BY <1>1 DEF BeginInit
  <2> HIDE DEF id, data
  <2> QED BY <2>1, <2>2, BeginStep
<1>2. CASE BeginConfigure(p)
  <2>1. Good(TemplateManifest("configuration"))
    BY TemplateGood
  <2>2. Keeps(man, TemplateManifest("configuration"), {})
    BY <1>0, <1>2, EmptyGood DEF BeginConfigure
  <2>3. Begin(p, "configure", None, None, TemplateManifest("configuration"), "truncate")
    BY <1>2 DEF BeginConfigure
  <2> QED BY <2>1, <2>2, <2>3, BeginStep
<1>3. ASSUME NEW id \in Ids, NEW d \in Flags, NEW r \in {TRUE, ~RuntimeOptional},
             NEW force \in BOOLEAN, BeginAdd(p, id, d, r, force)
      PROVE  WInv'
  <2>0. r \in BOOLEAN
    BY RuntimeOptionalBool
  <2>1. Good(Register(man, id, d, r)) /\ Keeps(man, Register(man, id, d, r), {})
    BY <1>0, <1>3, <2>0, RegisterGood DEF BeginAdd
  <2>2. Begin(p, "add", id, None, Register(man, id, d, r), "disk")
    BY <1>3 DEF BeginAdd
  <2> QED BY <2>1, <2>2, BeginStep
<1>4. ASSUME NEW id \in Ids, BeginSetDefault(p, id)
      PROVE  WInv'
  <2>1. Good(SetDefault(man, id)) /\ Keeps(man, SetDefault(man, id), {})
    BY <1>0, SetDefaultGood
  <2>2. Begin(p, "setDefault", id, None, SetDefault(man, id), "truncate")
    BY <1>4 DEF BeginSetDefault
  <2> QED BY <2>1, <2>2, BeginStep
<1>5. ASSUME NEW id \in Ids, NEW wipe \in BOOLEAN, BeginRemove(p, id, wipe)
      PROVE  WInv'
  <2> DEFINE place == IF wipe THEN "disk" ELSE "truncate"
  <2>1. PICK heir \in Ids \cup {None} :
          /\ \/ heir \in IdsOf({r \in man.rts : r.conf # id})
             \/ heir = None /\ {r \in man.rts : r.conf # id} = {}
          /\ Begin(p, "remove", id, None, Without(man, id, heir), place)
    BY <1>5 DEF BeginRemove
  <2>2. Good(Without(man, id, heir)) /\ Keeps(man, Without(man, id, heir), {id})
    BY <1>0, <2>1, WithoutGood
  <2>3. place \in {"disk", "runtime", "truncate"}
    OBVIOUS
  <2> HIDE DEF place
  <2> QED BY <2>1, <2>2, <2>3, BeginStep
<1>6. ASSUME NEW conf \in Ids \cup {None}, NEW e \in Exts, NEW force \in BOOLEAN,
             BeginExtension(p, conf, e, force)
      PROVE  WInv'
  <2> DEFINE c == Resolve(man, conf, FALSE).conf
  <2>1. c \in Ids \cup {None}
    BY <1>0, ResolveType
  <2>2. Begin(p, "extension", c, e, WithExtension(man, c, e), "disk")
    BY <1>6 DEF BeginExtension
  <2> HIDE DEF c
  <2>3. Good(WithExtension(man, c, e)) /\ Keeps(man, WithExtension(man, c, e), {})
    BY <1>0, WithExtensionGood
  <2> QED BY <2>1, <2>2, <2>3, BeginStep
<1>7. ASSUME NEW conf \in Ids \cup {None}, BeginClean(p, conf)
      PROVE  WInv'
  <2> DEFINE c == Resolve(man, conf, conf # None).conf
             place == IF conf = None THEN "runtime" ELSE "disk"
  <2>1. c \in Ids \cup {None} /\ place \in {"disk", "runtime", "truncate"}
    BY <1>0, ResolveType
  <2>2. Begin(p, "clean", c, None, man, place)
    BY <1>7 DEF BeginClean
  <2>3. Keeps(man, man, {})
    BY DEF Keeps
  <2> HIDE DEF c, place
  <2> QED BY <1>0, <2>1, <2>2, <2>3, BeginStep
<1>8. ASSUME NEW b \in Backends, BeginPublish(p, b)
      PROVE  WInv'
  <2>1. Good(WithProfile(man, b)) /\ Keeps(man, WithProfile(man, b), {})
    BY <1>0, <1>8, WithProfileGood DEF BeginPublish
  <2>2. Begin(p, "publish", None, None, WithProfile(man, b), "truncate")
    BY <1>8 DEF BeginPublish
  <2> QED BY <2>1, <2>2, BeginStep
<1> QED BY <1>1, <1>2, <1>3, <1>4, <1>5, <1>6, <1>7, <1>8 DEF Start

\* A command goes on to another place of its work, or ends.
LEMMA GotoOK ==
  ASSUME WInv, NEW p \in Procs, proc[p].at \in Working, NEW place \in Working \cup {"check"}
  PROVE  JobOK([proc[p] EXCEPT !.at = place], man)
<1> DEFINE c == [proc[p] EXCEPT !.at = place]
<1>1. JobOK(proc[p], man) /\ proc[p] \in Command
  BY DEF WInv
<1>2. /\ c \in Command /\ c.op = proc[p].op /\ c.id = proc[p].id /\ c.ext = proc[p].ext
      /\ c.data = proc[p].data /\ c.stale = proc[p].stale
  BY <1>1 DEF Command, Working, Places
<1> HIDE DEF c
<1>3. proc[p].at # "idle"
  BY DEF Working
<1>4. JobOK(c, man)
  BY <1>1, <1>2, <1>3 DEF JobOK, Dropped
<1> QED BY <1>4 DEF c

\* The write: the copy becomes the manifest, and every other command at work is stale.
LEMMA FillStep ==
  ASSUME WInv, NEW p \in Procs, Fill(p)
  PROVE  WInv'
<1> DEFINE c == [proc[p] EXCEPT !.at = "check"]
<1>1. JobOK(proc[p], man) /\ proc[p] \in Command /\ proc[p].at \in Working
  BY DEF WInv, Fill, Working
<1>2. c \in Command /\ c.at = "check" /\ JobOK(c, man)
  <2>1. c \in Command /\ c.at = "check"
    BY <1>1 DEF Command, Places
  <2>2. JobOK(c, man)
    BY <1>1, GotoOK
  <2> QED BY <2>1, <2>2
<1>3. JobOK(c, man')
  BY <1>2 DEF JobOK, Working
<1>4. proc' = MarkStale(p, [proc EXCEPT ![p] = c])
  BY DEF Fill
<1> HIDE DEF c
<1>5. \A q \in Procs : proc'[q] = IF q = p THEN c
                                   ELSE IF proc[q].at # "idle" THEN [proc[q] EXCEPT !.stale = TRUE]
                                   ELSE proc[q]
  BY <1>4 DEF MarkStale, WInv
<1>6. ASSUME NEW q \in Procs
      PROVE  proc'[q] \in Command /\ JobOK(proc'[q], man')
  <2>1. JobOK(proc[q], man) /\ proc[q] \in Command
    BY DEF WInv
  <2>2. CASE q = p
    BY <1>2, <1>3, <1>5, <2>2
  <2>3. CASE q # p /\ proc[q].at = "idle"
    BY <1>5, <2>1, <2>3 DEF JobOK, Working
  <2>4. CASE q # p /\ proc[q].at # "idle"
    <3> DEFINE d == [proc[q] EXCEPT !.stale = TRUE]
    <3>1. /\ d \in Command /\ d.stale /\ d.op = proc[q].op /\ d.id = proc[q].id
          /\ d.ext = proc[q].ext /\ d.data = proc[q].data /\ d.at = proc[q].at
      BY <2>1 DEF Command
    <3>2. proc'[q] = d
      BY <1>5, <2>4
    <3> HIDE DEF d
    <3> QED BY <2>1, <3>1, <3>2 DEF JobOK
  <2> QED BY <2>2, <2>3, <2>4
<1>7. proc' \in [Procs -> Command]
  <2>1. DOMAIN proc' = Procs /\ proc' = [q \in Procs |-> proc'[q]]
    BY <1>4 DEF MarkStale
  <2> QED BY <1>6, <2>1
<1>8. Good(man')
  BY <1>1 DEF Fill, JobOK
<1>9. Disks'
  BY <1>1, MainIsId DEF Fill, Disks, WInv, Command
<1>10. begun' \in 0..MaxCommands /\ fileState' = "full"
  BY DEF Fill, WInv
<1> QED BY <1>6, <1>7, <1>8, <1>9, <1>10 DEF WInv, Disks, Good, JobOK, Keeps, Dropped

\* Every other step of a command leaves the manifest and the other commands alone.
LEMMA StepStep ==
  ASSUME WInv, NEW p \in Procs, Step(p)
  PROVE  WInv'
<1>0. /\ JobOK(proc[p], man) /\ proc[p] \in Command /\ Disks /\ begun \in 0..MaxCommands
      /\ JobOK(Idle, man)
  BY IdleOK DEF WInv
<1>1. ASSUME NEW place \in Working \cup {"check"}, proc[p].at \in Working, Goto(p, place),
             Disks', UNCHANGED <<man, begun>>,
             fileState' \in {"torn", "full"} \/ UNCHANGED fileState
      PROVE  WInv'
  <2>1. JobOK([proc[p] EXCEPT !.at = place], man)
    BY <1>1, GotoOK
  <2>2. proc' = [proc EXCEPT ![p] = [proc[p] EXCEPT !.at = place]]
    BY <1>1 DEF Goto
  <2>3. UNCHANGED man /\ begun' \in 0..MaxCommands
    BY <1>0, <1>1
  <2> QED BY <1>1, <2>1, <2>2, <2>3, JobStep
<1>2. ASSUME End(p), Disks', UNCHANGED <<man, begun, fileState>>
      PROVE  WInv'
  <2>1. proc' = [proc EXCEPT ![p] = Idle] /\ UNCHANGED <<man, fileState>>
        /\ begun' \in 0..MaxCommands
    BY <1>0, <1>2 DEF End
  <2> QED BY <1>0, <1>2, <2>1, JobStep
<1>3. CASE Scaffold(p)
  <2>1. proc[p].id \in Ids
    BY <1>0, <1>3 DEF Scaffold, JobOK
  <2>2. Disks'
    BY <1>0, <1>3, <2>1 DEF Scaffold, Disks
  <2> QED BY <1>1, <1>3, <2>2 DEF Scaffold, Working
<1>4. CASE ScaffoldFails(p)
  <2>1. (proc[p].op = "add" => proc[p].id \in Ids) /\ (proc[p].op = "extension" => proc[p].ext \in Exts)
    BY <1>0, <1>4 DEF ScaffoldFails, JobOK
  <2>2. Disks'
    BY <1>0, <1>4, <2>1 DEF ScaffoldFails, Disks, disk
  <2> QED BY <1>2, <1>4, <2>2 DEF ScaffoldFails
<1>5. CASE ScaffoldExtension(p)
  <2>1. proc[p].ext \in Exts
    BY <1>0, <1>5 DEF ScaffoldExtension, JobOK
  <2>2. Disks'
    BY <1>0, <1>5, <2>1 DEF ScaffoldExtension, Disks
  <2> QED BY <1>1, <1>5, <2>2 DEF ScaffoldExtension, Working
<1>6. CASE ImportCfeFails(p)
  <2>1. Disks'
    BY <1>0, <1>6 DEF ImportCfeFails, Disks
  <2> QED BY <1>2, <1>6, <2>1 DEF ImportCfeFails
<1>7. CASE Wipe(p)
  <2>1. Disks'
    BY <1>0, <1>7 DEF Wipe, Disks
  <2> QED BY <1>1, <1>7, <2>1 DEF Wipe, Working
<1>8. CASE CleanSources(p)
  <2>1. Disks'
    BY <1>0, <1>8 DEF CleanSources, Disks
  <2> QED BY <1>2, <1>8, <2>1 DEF CleanSources
<1>9. CASE CleanFails(p)
  <2>1. Disks'
    BY <1>0, <1>9 DEF CleanFails, Disks
  <2> QED BY <1>2, <1>9, <2>1 DEF CleanFails
<1>10. CASE Truncate(p)
  <2>1. Disks'
    BY <1>0, <1>10 DEF Truncate, Disks, disk
  <2> QED BY <1>1, <1>10, <2>1 DEF Truncate, Working
<1>11. CASE WriteFails(p)
  <2>1. Disks'
    BY <1>0, <1>11 DEF WriteFails, Disks, disk
  <2> QED BY <1>2, <1>11, <2>1 DEF WriteFails
<1>12. CASE Fill(p)
  BY <1>12, FillStep
<1>13. CASE Validate(p)
  <2> DEFINE c == [Idle EXCEPT !.verdict = IF fileState = "full" /\ Valid(man) /\ Covered(man)
                                           THEN "ok" ELSE "error"]
  <2>1. /\ c \in Command /\ c.at = "idle" /\ c.data = EmptyManifest
    BY <1>0 DEF JobOK, Command, Idle
  <2>2. proc' = [proc EXCEPT ![p] = c] /\ Disks' /\ begun' \in 0..MaxCommands
        /\ UNCHANGED <<man, fileState>>
    BY <1>0, <1>13 DEF Validate, Disks, disk
  <2> HIDE DEF c
  <2>3. JobOK(c, man)
    BY <2>1, EmptyGood DEF JobOK, Working
  <2> QED BY <2>2, <2>3, JobStep
<1>14. CASE Crash(p)
  <2>1. Disks'
    BY <1>0, <1>14 DEF Crash, Disks, disk
  <2> QED BY <1>2, <1>14, <2>1 DEF Crash
<1> QED BY <1>3, <1>4, <1>5, <1>6, <1>7, <1>8, <1>9, <1>10, <1>11, <1>12, <1>13, <1>14 DEF Step

\* Every step keeps the invariant.
LEMMA WInvStep == WInv /\ [Next]_vars => WInv'
<1> SUFFICES ASSUME WInv, [Next]_vars
             PROVE  WInv'
  OBVIOUS
<1>1. CASE Next
  BY <1>1, StartStep, StepStep DEF Next
<1>2. CASE UNCHANGED vars
  BY <1>2 DEF vars, WInv, Disks, Good, JobOK, Keeps, Dropped
<1> QED BY <1>1, <1>2

(***************************************************************************)
(* The theorems.                                                           *)
(***************************************************************************)
\* The invariant holds in every reachable state.
LEMMA Invariant == Spec => []WInv
<1> QED BY WInvInit, WInvStep, PTL DEF Spec

\* Whatever the commands, their order, their overlaps and their crashes, for any
\* number of processes, configurations and extensions: the manifest, and every copy
\* that is about to be written, passes the checks of validate.py.
THEOREM ManifestsStayValid == Spec => []ManifestsValid
<1>1. WInv => ManifestsValid
  BY DEF WInv, JobOK, Good, ManifestsValid, TypeOK, Disks
<1> QED BY <1>1, Invariant, PTL

\* Only Fill takes a command from the truncated file to the check.
LEMMA OnlyFill ==
  ASSUME WInv, Next, NEW p \in Procs, proc[p].at = "fill", proc'[p].at = "check"
  PROVE  Fill(p)
<1>1. PICK q \in Procs : Start(q) \/ Step(q)
  BY DEF Next
<1>2. DOMAIN proc = Procs
  BY DEF WInv
<1>3. ASSUME NEW c, proc' = [proc EXCEPT ![q] = c], c.at # "check" \/ proc[q].at # "fill"
      PROVE  FALSE
  BY <1>2, <1>3
<1>4. CASE Start(q)
  <2>1. proc[q].at = "idle" /\ \E c : proc' = [proc EXCEPT ![q] = c]
    BY <1>4, Zenon DEF Start, BeginInit, BeginConfigure, BeginAdd, BeginSetDefault, BeginRemove,
                BeginExtension, BeginClean, BeginPublish, Begin
  <2> QED BY <1>3, <2>1
<1>5. CASE Step(q)
  <2>1. CASE Fill(q)
    <3>1. q = p
      BY <1>2, <2>1 DEF Fill, MarkStale
    <3> QED BY <2>1, <3>1
  <2>2. CASE proc[q].at # "fill" /\ \E c : proc' = [proc EXCEPT ![q] = c]
    BY <1>3, <2>2
  <2>3. CASE End(q)
    BY <1>3, <2>3 DEF End, Idle
  <2> QED BY <1>5, <2>1, <2>2, <2>3
          DEF Step, Scaffold, ScaffoldFails, ScaffoldExtension, ImportCfeFails, Wipe, CleanSources,
              CleanFails, Truncate, WriteFails, Validate, Crash, Goto
<1> QED BY <1>1, <1>4, <1>5

\* A write that no other one overlapped drops no configuration, extension, runtime
\* or profile that its command was not told to drop.
THEOREM EntriesStay == Spec => EntriesKept
<1>1. WInv /\ [Next]_vars =>
        [\A p \in Procs : Undisturbed(p) /\ proc[p].op # "init" => Keeps(man, man', Dropped(proc[p]))]_vars
  <2> SUFFICES ASSUME WInv, Next, NEW p \in Procs, Undisturbed(p), proc[p].op # "init"
               PROVE  Keeps(man, man', Dropped(proc[p]))
    OBVIOUS
  <2>1. Keeps(man, proc[p].data, Dropped(proc[p]))
    BY DEF WInv, JobOK, Working, Undisturbed
  <2>2. Fill(p)
    BY OnlyFill DEF Undisturbed
  <2> QED BY <2>1, <2>2 DEF Fill
<1>2. WInv /\ [Next]_vars =>
        [\A p \in Procs : Undisturbed(p) /\ proc[p].op # "init" =>
           LET dropped == IF proc[p].op = "remove" THEN {proc[p].id} ELSE {}
           IN /\ \A c \in man.confs : c.id \notin dropped =>
                   \E d \in man'.confs : /\ d.id = c.id /\ d.kind = c.kind /\ d.pos = c.pos
                                         /\ c.exts \subseteq d.exts
              /\ \A r \in man.rts : r.conf \notin dropped =>
                   \E s \in man'.rts : s.id = r.id /\ s.conf = r.conf
              /\ \A b \in Profiles(man.pub) : man'.rts # {} => b \in Profiles(man'.pub)]_vars
  BY <1>1 DEF Keeps, Dropped
<1> QED BY <1>2, Invariant, PTL DEF Spec, EntriesKept

(***************************************************************************)
(* The default configuration and the default runtime. Where every           *)
(* configuration gets its runtime the two lists go side by side, so that    *)
(* the first remaining entries belong together too.                        *)
(***************************************************************************)
Beside(confs, rts) ==
  /\ \A c \in confs : \E r \in rts : r.id = c.id /\ r.pos = c.pos
  /\ \A r \in rts : \E c \in confs : c.id = r.id /\ c.pos = r.pos
  /\ \A c, d \in confs : c.pos = d.pos => c.id = d.id

Paired(m) ==
  /\ Beside(m.confs, m.rts)
  /\ \A c \in Defaults(m.confs), r \in Defaults(m.rts) : c.id = r.id

\* Moving marks leaves two lists side by side.
LEMMA RemarkedBeside ==
  ASSUME NEW C \in SUBSET Conf, NEW R \in SUBSET Runtime, Beside(C, R),
         NEW confs, NEW rts, Remarked(C, confs), Remarked(R, rts)
  PROVE  Beside(confs, rts)
<1>1. /\ \A c \in C : \E d \in confs : d.id = c.id /\ d.pos = c.pos
      /\ \A d \in confs : \E c \in C : d.id = c.id /\ d.pos = c.pos
  BY DEF Remarked, Conf
<1>2. /\ \A c \in R : \E d \in rts : d.id = c.id /\ d.pos = c.pos
      /\ \A d \in rts : \E c \in R : d.id = c.id /\ d.pos = c.pos
  BY DEF Remarked, Runtime
<1>3. ASSUME NEW c \in confs
      PROVE  \E r \in rts : r.id = c.id /\ r.pos = c.pos
  <2>1. PICK c0 \in C : c.id = c0.id /\ c.pos = c0.pos
    BY <1>1
  <2>2. PICK r0 \in R : r0.id = c0.id /\ r0.pos = c0.pos
    BY DEF Beside
  <2> QED BY <1>2, <2>1, <2>2
<1>4. ASSUME NEW r \in rts
      PROVE  \E c \in confs : c.id = r.id /\ c.pos = r.pos
  <2>1. PICK r0 \in R : r.id = r0.id /\ r.pos = r0.pos
    BY <1>2
  <2>2. PICK c0 \in C : c0.id = r0.id /\ c0.pos = r0.pos
    BY DEF Beside
  <2> QED BY <1>1, <2>1, <2>2
<1>5. ASSUME NEW c \in confs, NEW d \in confs, c.pos = d.pos
      PROVE  c.id = d.id
  <2>1. PICK c0 \in C : c.id = c0.id /\ c.pos = c0.pos
    BY <1>1
  <2>2. PICK d0 \in C : d.id = d0.id /\ d.pos = d0.pos
    BY <1>1
  <2>3. c0.pos = d0.pos
    BY <1>5, <2>1, <2>2
  <2>4. c0.id = d0.id
    BY <2>3 DEF Beside
  <2> QED BY <2>1, <2>2, <2>4
<1> QED BY <1>3, <1>4, <1>5 DEF Beside

\* The manifests of init pair each configuration with its runtime.
LEMMA TemplatesPaired ==
  Paired(EmptyManifest) /\ \A kind : Paired(TemplateManifest(kind))
<1>1. Paired(EmptyManifest)
  BY DEF Paired, Beside, EmptyManifest, Defaults
<1>2. ASSUME NEW kind
      PROVE  Paired(TemplateManifest(kind))
  <2> DEFINE c == [id |-> Main, kind |-> kind, pos |-> 1, default |-> TRUE, exts |-> {}]
             r == [id |-> Main, conf |-> Main, pos |-> 1, default |-> TRUE]
  <2>1. TemplateManifest(kind).confs = {c} /\ TemplateManifest(kind).rts = {r}
    BY DEF TemplateManifest
  <2>2. c.id = Main /\ r.id = Main /\ c.pos = 1 /\ r.pos = 1
    OBVIOUS
  <2> HIDE DEF c, r
  <2> QED BY <2>1, <2>2 DEF Paired, Beside, Defaults
<1> QED BY <1>1, <1>2

\* set-default marks a configuration and its runtime together.
LEMMA SetDefaultPaired ==
  ASSUME NEW m, Good(m), Paired(m), NEW id \in IdsOf(m.confs)
  PROVE  Paired(SetDefault(m, id))
<1> DEFINE linked == {r \in m.rts : r.conf = id}
           chosen == {c \in m.confs : c.id = id}
           confs == Only(m.confs, chosen)
           rts == Only(m.rts, {First(linked)})
           n == SetDefault(m, id)
<1>0. /\ m.confs \in SUBSET Conf /\ Distinct(m.confs)
      /\ m.rts \in SUBSET Runtime /\ Distinct(m.rts) /\ \A r \in m.rts : r.pos \in Nat
  BY GoodParts
<1>1. linked # {}
  BY DEF IdsOf, Paired, Beside, Good
<1>2. First(linked) \in linked
  <2>1. \A r \in linked : r.pos \in Nat
    BY <1>0
  <2> HIDE DEF linked
  <2> QED BY <1>1, <2>1, FirstIsFirst
<1>3. {[c EXCEPT !.default = (c.id = id)] : c \in m.confs} = confs
  <2>1. \A c \in m.confs : (c.id = id) = (c \in chosen)
    OBVIOUS
  <2>2. \A c \in m.confs : [c EXCEPT !.default = (c.id = id)] = [c EXCEPT !.default = (c \in chosen)]
    BY <2>1
  <2> QED BY <2>2 DEF Only
<1>4. {[r EXCEPT !.default = (r = First(linked))] : r \in m.rts} = rts
  <2>1. \A r \in m.rts : (r = First(linked)) = (r \in {First(linked)})
    OBVIOUS
  <2>2. \A r \in m.rts : [r EXCEPT !.default = (r = First(linked))]
                           = [r EXCEPT !.default = (r \in {First(linked)})]
    BY <2>1
  <2> QED BY <2>2 DEF Only
<1>5. n = [m EXCEPT !.confs = confs, !.rts = rts]
  BY <1>1, <1>3, <1>4, Zenon DEF SetDefault
<1> HIDE DEF n
<1>6. n.confs = confs /\ n.rts = rts
  BY <1>5 DEF Good, Manifests
<1>7. \A c, d \in chosen : c = d
  BY <1>0 DEF Distinct
<1>8. Remarked(m.confs, confs) /\ \A c \in Defaults(confs) : \E y \in m.confs \cap chosen : c.id = y.id
  BY <1>0, <1>7, OnlyRemarks
<1>9. Remarked(m.rts, rts) /\ \A r \in Defaults(rts) : \E y \in m.rts \cap {First(linked)} : r.id = y.id
  BY <1>0, OnlyRemarks
<1>10. Beside(confs, rts)
  BY <1>0, <1>8, <1>9, RemarkedBeside DEF Paired
<1>11. \A c \in Defaults(confs) : c.id = id
  BY <1>8
<1>12. \A r \in Defaults(rts) : r.id = id
  BY <1>2, <1>9 DEF Good
<1> HIDE DEF confs, rts
<1> QED BY <1>6, <1>10, <1>11, <1>12 DEF Paired, n

\* An extension's entry leaves the pairs alone.
LEMMA WithExtensionPaired ==
  ASSUME NEW m, Good(m), Paired(m), NEW id, NEW e \in Exts
  PROVE  Paired(WithExtension(m, id, e))
<1> DEFINE with(c) == IF c.id = id THEN [c EXCEPT !.exts = @ \cup {e}] ELSE c
           confs == {with(c) : c \in m.confs}
           n == WithExtension(m, id, e)
<1>1. m.confs \in SUBSET Conf
  BY GoodParts
<1>2. \A c \in m.confs : with(c).id = c.id /\ with(c).pos = c.pos /\ with(c).default = c.default
  BY <1>1 DEF Conf
<1>3. n.confs = confs /\ n.rts = m.rts
  BY DEF Good, Manifests, WithExtension
<1> HIDE DEF with, n
<1>4. \A d \in confs : \E c \in m.confs : d.id = c.id /\ d.pos = c.pos /\ d.default = c.default
  BY <1>2
<1>5. \A c \in m.confs : \E d \in confs : d.id = c.id /\ d.pos = c.pos
  BY <1>2
<1> HIDE DEF confs
<1>6. Beside(confs, m.rts)
  <2>1. \A c \in confs : \E r \in m.rts : r.id = c.id /\ r.pos = c.pos
    BY <1>4 DEF Paired, Beside
  <2>2. \A r \in m.rts : \E c \in confs : c.id = r.id /\ c.pos = r.pos
    BY <1>5 DEF Paired, Beside
  <2>3. \A c, d \in confs : c.pos = d.pos => c.id = d.id
    BY <1>4 DEF Paired, Beside
  <2> QED BY <2>1, <2>2, <2>3 DEF Beside
<1>7. ASSUME NEW d \in Defaults(confs), NEW r \in Defaults(m.rts)
      PROVE  d.id = r.id
  <2>1. PICK c \in m.confs : d.id = c.id /\ d.default = c.default
    BY <1>4 DEF Defaults
  <2>2. c \in Defaults(m.confs)
    BY <2>1 DEF Defaults
  <2> QED BY <2>1, <2>2 DEF Paired
<1> QED BY <1>3, <1>6, <1>7 DEF Paired, n

\* Lists side by side have the same next place.
LEMMA SamePlace ==
  ASSUME NEW m, Good(m), Beside(m.confs, m.rts)
  PROVE  NextPos(m.confs) = NextPos(m.rts)
<1>0. (\A c \in m.confs : c.pos \in Nat) /\ \A r \in m.rts : r.pos \in Nat
  BY GoodParts
<1>1. /\ NextPos(m.confs) \in Nat /\ \A x \in m.confs : x.pos < NextPos(m.confs)
      /\ m.confs # {} => \E x \in m.confs : NextPos(m.confs) = 1 + x.pos
  BY <1>0, NextPosIsNext DEF Good
<1>2. /\ NextPos(m.rts) \in Nat /\ \A x \in m.rts : x.pos < NextPos(m.rts)
      /\ m.rts # {} => \E x \in m.rts : NextPos(m.rts) = 1 + x.pos
  BY <1>0, NextPosIsNext DEF Good
<1>3. CASE m.confs = {}
  <2>1. m.rts = {}
    BY <1>3 DEF Beside
  <2> QED BY <1>3, <2>1 DEF NextPos
<1>4. CASE m.confs # {}
  <2>1. PICK c \in m.confs : NextPos(m.confs) = 1 + c.pos
    BY <1>1, <1>4
  <2>2. PICK r \in m.rts : r.pos = c.pos
    BY DEF Beside
  <2>3. PICK s \in m.rts : NextPos(m.rts) = 1 + s.pos
    BY <1>2, <2>2
  <2>4. PICK d \in m.confs : d.pos = s.pos
    BY DEF Beside
  <2>5. c.pos < NextPos(m.rts) /\ s.pos < NextPos(m.confs)
    BY <1>1, <1>2, <2>2, <2>4
  <2> QED BY <1>0, <1>1, <1>2, <2>1, <2>3, <2>5
<1> QED BY <1>3, <1>4

\* A new configuration and its runtime are marked together.
LEMMA RegisterPaired ==
  ASSUME NEW m, Good(m), Paired(m), NEW id \in Ids, NEW setDefault
  PROVE  Paired(Register(m, id, setDefault, TRUE))
<1> DEFINE mark == setDefault = "yes" \/ (setDefault = "unset" /\ m.confs = {})
           rmark == m.rts = {} \/ mark
           conf == [id |-> id, kind |-> "configuration", pos |-> NextPos(m.confs),
                    default |-> mark, exts |-> {}]
           rt == [id |-> id, conf |-> id, pos |-> NextPos(m.rts), default |-> rmark]
           confs == IF mark THEN Unmarked(m.confs) ELSE m.confs
           rts == IF rmark THEN Unmarked(m.rts) ELSE m.rts
           n == Register(m, id, setDefault, TRUE)
<1>0. /\ m.confs \in SUBSET Conf /\ Distinct(m.confs) /\ \A c \in m.confs : c.pos \in Nat
      /\ m.rts \in SUBSET Runtime /\ Distinct(m.rts)
      /\ Bounded(m.confs)
  BY GoodParts DEF Good
<1>1. n.confs = confs \cup {conf} /\ n.rts = rts \cup {rt}
  BY DEF Register
<1>2. /\ conf.id = id /\ conf.default = mark /\ conf.pos = NextPos(m.confs)
      /\ rt.id = id /\ rt.default = rmark /\ rt.pos = NextPos(m.confs)
  BY SamePlace DEF Paired
<1>3. Remarked(m.confs, confs) /\ (mark => Defaults(confs) = {})
  <2>1. Remarked(m.confs, m.confs)
    BY <1>0, RemarkedSelf
  <2>2. Remarked(m.confs, Unmarked(m.confs)) /\ Defaults(Unmarked(m.confs)) = {}
    BY <1>0, UnmarkedRemarks
  <2> QED BY <2>1, <2>2
<1>4. Remarked(m.rts, rts) /\ (rmark => Defaults(rts) = {})
  <2>1. Remarked(m.rts, m.rts)
    BY <1>0, RemarkedSelf
  <2>2. Remarked(m.rts, Unmarked(m.rts)) /\ Defaults(Unmarked(m.rts)) = {}
    BY <1>0, UnmarkedRemarks
  <2> QED BY <2>1, <2>2
<1>5. (mark \/ confs = m.confs) /\ (rmark \/ rts = m.rts) /\ (mark => rmark)
      /\ (rmark /\ ~mark => m.rts = {})
  OBVIOUS
<1>6. m.rts = {} => m.confs = {}
  BY DEF Paired, Beside
<1> HIDE DEF conf, rt, confs, rts, n, mark, rmark
<1>7. Beside(confs, rts)
  BY <1>0, <1>3, <1>4, RemarkedBeside DEF Paired
<1>8. \A c \in confs : c.pos < conf.pos
  <2>1. \A c \in m.confs : c.pos < conf.pos
    BY <1>0, <1>2, NextPosIsNext
  <2>2. \A d \in confs : \E c \in m.confs : d.pos = c.pos
    BY <1>0, <1>3 DEF Remarked, Conf
  <2> QED BY <2>1, <2>2
<1>9. Beside(n.confs, n.rts)
  <2>1. \A c \in n.confs : \E r \in n.rts : r.id = c.id /\ r.pos = c.pos
    BY <1>1, <1>2, <1>7 DEF Beside
  <2>2. \A r \in n.rts : \E c \in n.confs : c.id = r.id /\ c.pos = r.pos
    BY <1>1, <1>2, <1>7 DEF Beside
  <2>3. conf.pos \in Nat /\ \A c \in confs : c.pos \in Nat
    <3>1. conf.pos \in Nat
      BY <1>0, <1>2, NextPosIsNext
    <3>2. \A d \in confs : \E c \in m.confs : d.pos = c.pos
      BY <1>0, <1>3 DEF Remarked, Conf
    <3> QED BY <1>0, <3>1, <3>2
  <2>4. \A c, d \in n.confs : c.pos = d.pos => c.id = d.id
    BY <1>1, <1>7, <1>8, <2>3 DEF Beside
  <2> QED BY <2>1, <2>2, <2>4 DEF Beside
<1>10. ASSUME NEW c \in Defaults(n.confs), NEW r \in Defaults(n.rts)
       PROVE  c.id = r.id
  <2>1. CASE mark
    BY <1>1, <1>2, <1>3, <1>4, <1>5, <2>1 DEF Defaults
  <2>2. CASE ~mark /\ rmark
    BY <1>1, <1>2, <1>5, <1>6, <2>2 DEF Defaults
  <2>3. CASE ~mark /\ ~rmark
    <3>1. c \in Defaults(m.confs) /\ r \in Defaults(m.rts)
      BY <1>1, <1>2, <1>5, <2>3 DEF Defaults
    <3> QED BY <3>1 DEF Paired
  <2> QED BY <1>5, <2>1, <2>2, <2>3
<1> QED BY <1>9, <1>10 DEF Paired, n

\* A removal hands the mark to a configuration and its runtime together.
LEMMA WithoutPaired ==
  ASSUME NEW m, Good(m), Paired(m), NEW id, NEW heir
  PROVE  Paired(Without(m, id, heir))
<1> DEFINE confs == {c \in m.confs : c.id # id}
           rts == {r \in m.rts : r.conf # id}
           wasDefault == \E c \in m.confs : c.id = id /\ c.default
           n == Without(m, id, heir)
<1>0. /\ m.confs \in SUBSET Conf /\ Distinct(m.confs) /\ \A c \in m.confs : c.pos \in Nat
      /\ m.rts \in SUBSET Runtime /\ Distinct(m.rts) /\ \A r \in m.rts : r.pos \in Nat
      /\ ValidConfs(m) /\ ValidRuntimes(m) /\ \A r \in m.rts : r.id = r.conf
  BY GoodParts DEF Good, Valid
<1>1. /\ n.confs = IF wasDefault /\ confs # {} THEN Mark(confs, First(confs)) ELSE confs
      /\ n.rts = IF rts # {} /\ Defaults(rts) = {} THEN Mark(rts, First(rts)) ELSE rts
  BY Zenon DEF Without
<1>2. /\ confs \in SUBSET Conf /\ Distinct(confs)
      /\ rts \in SUBSET Runtime /\ Distinct(rts)
  BY <1>0 DEF Distinct
<1>3. Beside(confs, rts)
  BY <1>0 DEF Paired, Beside
<1>4. Defaults(confs) = Defaults(m.confs) \cap confs /\ Defaults(rts) = Defaults(m.rts) \cap rts
  BY DEF Defaults
<1>5. wasDefault => Defaults(confs) = {} /\ Defaults(rts) = {}
  <2> SUFFICES ASSUME wasDefault
               PROVE  Defaults(confs) = {} /\ Defaults(rts) = {}
    OBVIOUS
  <2>1. PICK c \in Defaults(m.confs) : c.id = id
    BY DEF Defaults
  <2>2. \A d \in Defaults(m.confs) : d.id = id
    BY <1>0, <2>1 DEF ValidConfs
  <2>3. \A r \in Defaults(m.rts) : r.id = id /\ r \in m.rts
    BY <2>1 DEF Paired, Defaults
  <2> QED BY <1>0, <1>4, <2>2, <2>3
<1>6. rts # {} /\ Defaults(rts) = {} => Defaults(confs) = {}
  <2> SUFFICES ASSUME rts # {}, Defaults(rts) = {}, NEW c \in Defaults(confs)
               PROVE  FALSE
    OBVIOUS
  <2>1. PICK r \in Defaults(m.rts) : TRUE
    BY <1>0 DEF ValidRuntimes
  <2>2. r.id = id
    BY <1>0, <1>4, <2>1 DEF Defaults
  <2>3. c.id = id
    BY <1>4, <2>1, <2>2 DEF Paired
  <2> QED BY <1>4, <2>3
<1>7. (confs = {} <=> rts = {}) /\ (\A c \in confs : c.pos \in Nat) /\ (\A r \in rts : r.pos \in Nat)
  BY <1>0, <1>3 DEF Beside
<1> HIDE DEF confs, rts, wasDefault, n
<1>8. confs # {} => /\ First(confs) \in confs /\ First(rts) \in rts
                    /\ First(confs).id = First(rts).id
  <2> SUFFICES ASSUME confs # {}
               PROVE  /\ First(confs) \in confs /\ First(rts) \in rts
                      /\ First(confs).id = First(rts).id
    OBVIOUS
  <2>1. First(confs) \in confs /\ \A y \in confs : First(confs).pos <= y.pos
    BY <1>7, FirstIsFirst
  <2>2. First(rts) \in rts /\ \A y \in rts : First(rts).pos <= y.pos
    BY <1>7, FirstIsFirst
  <2>3. PICK c \in confs : c.id = First(rts).id /\ c.pos = First(rts).pos
    BY <1>3, <2>2 DEF Beside
  <2>4. PICK r \in rts : r.pos = First(confs).pos
    BY <1>3, <2>1 DEF Beside
  <2>5. First(confs).pos <= c.pos /\ c.pos <= First(confs).pos
    BY <2>1, <2>2, <2>3, <2>4
  <2>6. First(confs).pos = c.pos
    BY <1>7, <2>1, <2>5
  <2> QED BY <1>3, <2>1, <2>2, <2>3, <2>6 DEF Beside
<1>9. /\ Remarked(confs, n.confs)
      /\ wasDefault /\ confs # {} => \A c \in Defaults(n.confs) : c.id = First(confs).id
  <2>1. CASE wasDefault /\ confs # {}
    <3>1. /\ Remarked(confs, Mark(confs, First(confs)))
          /\ Defaults(confs) = {} => /\ Defaults(Mark(confs, First(confs))) # {}
                                     /\ \A a, b \in Defaults(Mark(confs, First(confs))) : a = b
                                     /\ \A a \in Defaults(Mark(confs, First(confs))) :
                                          a.id = First(confs).id
      BY <1>2, <1>8, <2>1, MarkRemarks
    <3> QED BY <1>1, <1>5, <2>1, <3>1
  <2>2. CASE ~(wasDefault /\ confs # {})
    <3>1. Remarked(confs, confs)
      BY <1>2, RemarkedSelf
    <3> QED BY <1>1, <2>2, <3>1
  <2> QED BY <2>1, <2>2
<1>10. /\ Remarked(rts, n.rts)
       /\ rts # {} /\ Defaults(rts) = {} => \A r \in Defaults(n.rts) : r.id = First(rts).id
  <2>1. CASE rts # {} /\ Defaults(rts) = {}
    <3>1. /\ Remarked(rts, Mark(rts, First(rts)))
          /\ Defaults(rts) = {} => /\ Defaults(Mark(rts, First(rts))) # {}
                                   /\ \A a, b \in Defaults(Mark(rts, First(rts))) : a = b
                                   /\ \A a \in Defaults(Mark(rts, First(rts))) : a.id = First(rts).id
      BY <1>2, <1>7, <1>8, <2>1, MarkRemarks
    <3> QED BY <1>1, <2>1, <3>1
  <2>2. CASE ~(rts # {} /\ Defaults(rts) = {})
    <3>1. Remarked(rts, rts)
      BY <1>2, RemarkedSelf
    <3> QED BY <1>1, <2>2, <3>1
  <2> QED BY <2>1, <2>2
<1>11. Beside(n.confs, n.rts)
  BY <1>2, <1>3, <1>9, <1>10, RemarkedBeside
<1>12. ASSUME NEW c \in Defaults(n.confs), NEW r \in Defaults(n.rts)
       PROVE  c.id = r.id
  <2>1. CASE confs = {}
    BY <1>1, <1>7, <2>1 DEF Defaults
  <2>2. CASE confs # {} /\ wasDefault
    BY <1>5, <1>7, <1>8, <1>9, <1>10, <2>2
  <2>3. CASE confs # {} /\ ~wasDefault
    <3>1. c \in Defaults(confs)
      BY <1>1, <2>3
    <3>2. r \in Defaults(rts)
      BY <1>1, <1>6, <1>7, <2>3, <3>1
    <3> QED BY <1>4, <3>1, <3>2 DEF Paired
  <2> QED BY <2>1, <2>2, <2>3
<1> QED BY <1>11, <1>12 DEF Paired, n

PInv == Paired(man) /\ \A p \in Procs : Paired(proc[p].data)

\* A command begins with a paired copy.
LEMMA BeginPaired ==
  ASSUME WInv, PInv, NEW p \in Procs, NEW op, NEW id, NEW ext, NEW data, NEW place,
         Paired(data), Begin(p, op, id, ext, data, place)
  PROVE  PInv'
<1> DEFINE c == [Idle EXCEPT !.at = place, !.op = op, !.id = id, !.ext = ext, !.data = data]
<1>1. c.data = data
  BY DEF Idle
<1>2. proc' = [proc EXCEPT ![p] = c] /\ man' = man
  BY DEF Begin
<1> HIDE DEF c
<1>3. \A q \in Procs : proc'[q] \in {proc[q], c}
  BY <1>2 DEF WInv
<1>4. \A q \in Procs : Paired(proc'[q].data)
  BY <1>1, <1>3 DEF PInv
<1> QED BY <1>2, <1>4 DEF PInv, Paired, Beside

\* A command that begins with a paired copy keeps the manifests paired.
LEMMA PInvStart ==
  ASSUME RuntimeOptional = FALSE, WInv, PInv, NEW p \in Procs, Start(p)
  PROVE  PInv'
<1>0. Good(man) /\ Paired(man)
  BY DEF WInv, PInv
<1>1. ASSUME NEW kind \in {"configuration", "extension"}, NEW force \in BOOLEAN,
             BeginInit(p, kind, force)
      PROVE  PInv'
  <2> DEFINE id == IF kind = "extension" THEN Main ELSE None
             data == IF kind = "extension" THEN TemplateManifest(kind) ELSE EmptyManifest
  <2>1. Paired(data)
    BY TemplatesPaired
  <2>2. Begin(p, "init", id, None, data, "truncate")
    BY <1>1 DEF BeginInit
  <2> HIDE DEF id, data
  <2> QED BY <2>1, <2>2, BeginPaired
<1>2. CASE BeginConfigure(p)
  <2>1. Begin(p, "configure", None, None, TemplateManifest("configuration"), "truncate")
    BY <1>2 DEF BeginConfigure
  <2> QED BY <2>1, TemplatesPaired, BeginPaired
<1>3. ASSUME NEW id \in Ids, NEW d \in Flags, NEW r \in {TRUE, ~RuntimeOptional},
             NEW force \in BOOLEAN, BeginAdd(p, id, d, r, force)
      PROVE  PInv'
  <2>1. Paired(Register(man, id, d, TRUE)) /\ r = TRUE
    BY <1>0, RegisterPaired
  <2>2. Begin(p, "add", id, None, Register(man, id, d, TRUE), "disk")
    BY <1>3, <2>1 DEF BeginAdd
  <2> QED BY <2>1, <2>2, BeginPaired
<1>4. ASSUME NEW id \in Ids, BeginSetDefault(p, id)
      PROVE  PInv'
  <2>1. Paired(SetDefault(man, id))
    BY <1>0, <1>4, SetDefaultPaired DEF BeginSetDefault
  <2>2. Begin(p, "setDefault", id, None, SetDefault(man, id), "truncate")
    BY <1>4 DEF BeginSetDefault
  <2> QED BY <2>1, <2>2, BeginPaired
<1>5. ASSUME NEW id \in Ids, NEW wipe \in BOOLEAN, BeginRemove(p, id, wipe)
      PROVE  PInv'
  <2>1. PICK heir : Begin(p, "remove", id, None, Without(man, id, heir),
                          IF wipe THEN "disk" ELSE "truncate")
    BY <1>5 DEF BeginRemove
  <2>2. Paired(Without(man, id, heir))
    BY <1>0, WithoutPaired
  <2> QED BY <2>1, <2>2, BeginPaired
<1>6. ASSUME NEW conf \in Ids \cup {None}, NEW e \in Exts, NEW force \in BOOLEAN,
             BeginExtension(p, conf, e, force)
      PROVE  PInv'
  <2> DEFINE c == Resolve(man, conf, FALSE).conf
  <2>1. Begin(p, "extension", c, e, WithExtension(man, c, e), "disk")
    BY <1>6 DEF BeginExtension
  <2> HIDE DEF c
  <2>2. Paired(WithExtension(man, c, e))
    BY <1>0, WithExtensionPaired
  <2> QED BY <2>1, <2>2, BeginPaired
<1>7. ASSUME NEW conf \in Ids \cup {None}, BeginClean(p, conf)
      PROVE  PInv'
  <2>1. PICK c, place : Begin(p, "clean", c, None, man, place)
    BY <1>7 DEF BeginClean
  <2> QED BY <1>0, <2>1, BeginPaired
<1>8. ASSUME NEW b \in Backends, BeginPublish(p, b)
      PROVE  PInv'
  <2>1. Begin(p, "publish", None, None, WithProfile(man, b), "truncate")
    BY <1>8 DEF BeginPublish
  <2>2. WithProfile(man, b).confs = man.confs /\ WithProfile(man, b).rts = man.rts
    BY <1>0 DEF WithProfile, Good, Manifests
  <2>3. Paired(WithProfile(man, b))
    BY <1>0, <2>2 DEF Paired
  <2> QED BY <2>1, <2>3, BeginPaired
<1> QED BY <1>1, <1>2, <1>3, <1>4, <1>5, <1>6, <1>7, <1>8 DEF Start

\* Every step keeps the manifests paired.
LEMMA PInvStep ==
  ASSUME RuntimeOptional = FALSE, WInv, PInv, [Next]_vars
  PROVE  PInv'
<1>1. CASE UNCHANGED vars
  BY <1>1 DEF vars, PInv, Paired, Beside
<1>2. CASE Next
  <2>1. PICK p \in Procs : Start(p) \/ Step(p)
    BY <1>2 DEF Next
  <2>2. CASE Start(p)
    BY <2>2, PInvStart
  <2>3. CASE Step(p)
    <3>1. \A q \in Procs : proc[q] \in Command
      BY DEF WInv
    <3>2. /\ man' \in {man, proc[p].data}
          /\ \A q \in Procs : proc'[q].data \in {proc[q].data, EmptyManifest}
      <4>1. CASE Fill(p)
        <5>1. \A q \in Procs : proc'[q].data = proc[q].data
          BY <3>1, <4>1 DEF Fill, MarkStale, WInv, Command
        <5> QED BY <4>1, <5>1 DEF Fill
      <4>2. ASSUME NEW place, Goto(p, place)
            PROVE  \A q \in Procs : proc'[q].data = proc[q].data
        BY <3>1, <4>2 DEF Goto, Command, WInv
      <4>3. CASE End(p)
        BY <2>3, <4>3
           DEF End, WInv, Idle, Step, Scaffold, ScaffoldFails, ScaffoldExtension, ImportCfeFails, Wipe,
               CleanSources, CleanFails, Truncate, WriteFails, Validate, Crash, Fill
      <4>4. CASE Validate(p)
        BY <4>4 DEF Validate, WInv, Idle
      <4> QED BY <2>3, <4>1, <4>2, <4>3, <4>4
           DEF Step, Scaffold, ScaffoldFails, ScaffoldExtension, ImportCfeFails, Wipe,
               CleanSources, CleanFails, Truncate, WriteFails, Crash
    <3>3. Paired(EmptyManifest)
      BY TemplatesPaired
    <3>4. Paired(man') /\ \A q \in Procs : Paired(proc'[q].data)
      BY <3>2, <3>3 DEF PInv
    <3> QED BY <3>4 DEF PInv, Paired, Beside
  <2> QED BY <2>1, <2>2, <2>3
<1> QED BY <1>1, <1>2

\* Where every configuration is added with its runtime, the default runtime stays the
\* default configuration's, whatever is added, made the default and removed, in
\* whatever order and overlap.
THEOREM DefaultsStayTogether ==
  ASSUME RuntimeOptional = FALSE
  PROVE  Spec => []DefaultsAgree
<1>1. Init => PInv
  BY TemplatesPaired DEF Init, PInv, Idle
<1>2. WInv /\ PInv /\ [Next]_vars => PInv'
  BY PInvStep
<1>3. WInv /\ PInv => DefaultsAgree
  <2> SUFFICES ASSUME WInv, PInv, NEW c \in Defaults(man.confs), NEW r \in Defaults(man.rts)
               PROVE  r.conf = c.id
    BY DEF DefaultsAgree
  <2>1. r.conf = r.id
    BY DEF WInv, Good, Defaults
  <2> QED BY <2>1 DEF PInv, Paired
<1> QED BY <1>1, <1>2, <1>3, Invariant, PTL DEF Spec
=============================================================================
