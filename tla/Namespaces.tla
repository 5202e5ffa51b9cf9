----------------------------- MODULE Namespaces -----------------------------
(***************************************************************************)
(* The namespaces of the compiler (prolacc/namespace.{hh,cc}) and the      *)
(* module operators that change them (prolacc/modfrob.cc).                 *)
(*                                                                         *)
(* A Namespace points to a ConcreteNamespace, which holds the features: a  *)
(* hash table from names to positions in two vectors.  Copying the names   *)
(* of a module shares the concrete namespace; make_unique gives a          *)
(* namespace a concrete one of its own, whose nested namespaces are new    *)
(* objects that still share theirs.  Pointers are positions in the two     *)
(* sequences of heap; nothing of them is ever freed.                       *)
(***************************************************************************)
EXTENDS ModuleSource, HashMap, FiniteSetsExt

CONSTANTS
    MaxOperators,   \* bound: operators a source applies
    MaxExpressions  \* bound: module expressions that apply some

VARIABLES
    heap,           \* [nss, cns]: the Namespaces and the ConcreteNamespaces
    names,          \* the ModuleNames made so far
    current,        \* the ModuleNames operators are being applied to, or 0
    applied,        \* operators applied so far, and to the current names
    failed,         \* an error was reported
    last            \* ghost: the operator applied last, with its argument

vars == << heap, names, current, applied, failed, last >>

Nothing == [kind |-> "nothing"]
RuleRef(rule) == [kind |-> "rule", of |-> rule.of, rule |-> rule]
Nested(s, of) == [kind |-> "namespace", of |-> of, at |-> s]
Ancestor(of, i) == [kind |-> "ancestor", of |-> of, at |-> i]

---------------------------------------------------------------------------
(* Concrete namespaces.  Position 0 of the source's vectors is left out:   *)
(* the table maps a name that is not defined, or no more, to 0.            *)

NewConcrete == [h |-> EmptyMap, f |-> << >>, n |-> << >>, refs |-> 0]

FeatureOf(c, n) == LET i == Find(c.h, n) IN IF i = 0 THEN Nothing ELSE c.f[i]

NameOf(c, f) ==
    LET found == { i \in DOMAIN c.f : c.f[i] = f }
    IN  IF found = {} THEN NoKey
        ELSE c.n[CHOOSE i \in found : \A j \in found : i <= j]

Define(c, n, f) ==
    IF Find(c.h, n) # 0 THEN [c EXCEPT !.f[Find(c.h, n)] = f]
    ELSE [c EXCEPT !.f = Append(@, f), !.n = Append(@, n),
                   !.h = Insert(@, n, Len(c.f) + 1)]

(* Mutant: the table still has the old position of the entry that moves. *)
LastMovesOnly(c, i, gone) ==
    IF i = Len(c.f) THEN gone
    ELSE [gone EXCEPT !.f[i] = Last(c.f), !.n[i] = Last(c.n)]
(* The last entry of the vectors moves to the place i of the one taken out. *)
LastTo(c, i, gone) ==
    IF i = Len(c.f) THEN gone
    ELSE [gone EXCEPT !.f[i] = Last(c.f), !.n[i] = Last(c.n),
                      !.h = Insert(@, Last(c.n), i)]
UndefineAt(c, i, n) ==
    IF i = 0 THEN c
    ELSE LastTo(c, i, [c EXCEPT !.h = Insert(@, n, 0), !.f = Front(@), !.n = Front(@)])
Undefine(c, n) == UndefineAt(c, Find(c.h, n), n)

Cleared(c) == [NewConcrete EXCEPT !.refs = c.refs]

---------------------------------------------------------------------------
(* Namespaces. *)

Concrete(hp, s) == hp.cns[hp.nss[s].cns]
Lookup(hp, s, n) == FeatureOf(Concrete(hp, s), n)
InConcrete(hp, s, c) == [hp EXCEPT !.cns[hp.nss[s].cns] = c]
Def(hp, s, n, f) == InConcrete(hp, s, Define(Concrete(hp, s), n, f))
Undef(hp, s, n) == InConcrete(hp, s, Undefine(Concrete(hp, s), n))

(* The namespace made last is the one at the end of nss. *)
NewNamespace(hp, parent, of) ==
    [cns |-> Append(hp.cns, [NewConcrete EXCEPT !.refs = 1]),
     nss |-> Append(hp.nss, [parent |-> parent, of |-> of, cns |-> Len(hp.cns) + 1])]

ShareNamespace(hp, s, parent) ==
    [cns |-> [hp.cns EXCEPT ![hp.nss[s].cns].refs = @ + 1],
     nss |-> Append(hp.nss, [hp.nss[s] EXCEPT !.parent = parent])]

(* Mutant: the concrete namespace left behind is not released. *)
ChangeUnreleased(hp, s, c) ==
    [cns |-> [hp.cns EXCEPT ![c].refs = @ + 1], nss |-> [hp.nss EXCEPT ![s].cns = c]]
ChangeConcrete(hp, s, c) ==
    LET used == [hp.cns EXCEPT ![c].refs = @ + 1]
    IN  [cns |-> [used EXCEPT ![hp.nss[s].cns].refs = @ - 1],
         nss |-> [hp.nss EXCEPT ![s].cns = c]]

(* Mutant: the copies stay in the namespace that was cloned. *)
CloneInPlace(hp, s) ==
    LET c == Concrete(hp, s)
        copy(h, i) ==
            IF c.f[i].kind # "namespace" THEN h
            ELSE LET shared == ShareNamespace(h, c.f[i].at, h.nss[c.f[i].at].parent)
                 IN  [shared EXCEPT !.cns[Len(hp.cns) + 1].f[i].at = Len(shared.nss)]
    IN  FoldLeft(copy, [hp EXCEPT !.cns = Append(@, [c EXCEPT !.refs = 0])],
                 [i \in DOMAIN c.f |-> i])
(* clone: the nested namespaces are copied, with s for parent. *)
Clone(hp, s) ==
    LET c == Concrete(hp, s)
        copy(h, i) ==
            IF c.f[i].kind # "namespace" THEN h
            ELSE LET shared == ShareNamespace(h, c.f[i].at, s)
                 IN  [shared EXCEPT !.cns[Len(hp.cns) + 1].f[i].at = Len(shared.nss)]
    IN  FoldLeft(copy, [hp EXCEPT !.cns = Append(@, [c EXCEPT !.refs = 0])],
                 [i \in DOMAIN c.f |-> i])

Unshared(hp, s) == hp      \* mutant
MakeUnique(hp, s) ==
    IF Concrete(hp, s).refs = 1 THEN hp
    ELSE ChangeConcrete(Clone(hp, s), s, Len(hp.cns) + 1)

DefReparent(hp, s, n, f, isConst) ==
    IF f.kind # "namespace" THEN Def(hp, s, n, f)
    ELSE IF isConst
    THEN Def(ShareNamespace(hp, f.at, s), s, n, Nested(Len(hp.nss) + 1, f.of))
    ELSE Def([hp EXCEPT !.nss[f.at].parent = s], s, n, f)

---------------------------------------------------------------------------
(* Building the names of a module: Protomodule::resolve1. *)

(* The result is new and a class has one parent (the assertion of          *)
(* resolve2_parent), so what the parent defines is not defined yet.        *)
ResolveParent(hp, result, p) ==
    LET c == Concrete(hp, p)
        inherit(h, i) == IF c.f[i].kind = "ancestor" THEN h
                         ELSE DefReparent(h, result, c.n[i], c.f[i], TRUE)
    IN  FoldLeft(inherit, hp, [i \in DOMAIN c.f |-> i])

(* Merges the internal namespace own into result; ok is whether there was  *)
(* no conflict.                                                            *)
RECURSIVE ResolveInternal(_, _, _)
Merge(r, result, n, f, there) ==
    CASE f.kind = "namespace" /\ there.kind = "namespace" ->
             ResolveInternal([r EXCEPT !.hp = MakeUnique(@, there.at)], there.at, f.at)
      [] there = Nothing \/ (f.kind = "rule" /\ there.kind = "rule") ->
             IF there = Nothing \/ Replaced(there.rule)
             THEN [r EXCEPT !.hp = DefReparent(@, result, n, f, FALSE)] ELSE r
      [] OTHER -> [ok |-> FALSE,
                   hp |-> IF there.of # f.of THEN DefReparent(r.hp, result, n, f, FALSE)
                          ELSE r.hp]
ResolveInternal(r, result, own) ==
    LET c == Concrete(r.hp, own)
        merge(acc, i) == Merge(acc, result, c.n[i], c.f[i], Lookup(acc.hp, result, c.n[i]))
    IN  FoldLeft(merge, r, [i \in DOMAIN c.f |-> i])

(* The namespace the parser makes of a body: the methods in order, each    *)
(* namespace where its first method is, and the constructor last.  The      *)
(* them the module header defines the name of the parent.                  *)
Parsed(hp, s, m, header) ==
    LET open(h, n) == IF Lookup(h, s, n) # Nothing THEN h
                      ELSE Def(NewNamespace(h, s, m), s, n, Nested(Len(h.nss) + 1, m))
        in(h, path) == Def(h, Lookup(h, s, path[1]).at, path[2], RuleRef(Method(m, path)))
        add(h, path) == IF Len(path) = 1 THEN Def(h, s, path[1], RuleRef(Method(m, path)))
                        ELSE in(open(h, path[1]), path)
        headed == IF header.kind = "ancestor"
                  THEN Def(hp, s, names[header.at].basename, header) ELSE hp
    IN  FoldLeft(add, headed, Append(Methods[m], << Constructor >>))

(* opRedoSelfRef: the entries for the module itself are made to mean the   *)
(* names i, without asking whether the namespace is shared.                *)
Mine(nms, i, f) == f.kind = "ancestor" /\ nms[f.at].module = nms[i].module
SelfRef(hp, nms, i, there) ==
    LET self == Ancestor(nms[i].module, i)
    IN  [ok |-> there = Nothing \/ Mine(nms, i, there),
         hp |-> IF Mine(nms, i, there) THEN hp
                ELSE Def(hp, nms[i].ns, nms[i].basename, self)]
SelfRefUnder(hp, nms, i) == SelfRef(hp, nms, i, Lookup(hp, nms[i].ns, nms[i].basename))
RedoSelfRef(hp, nms, i) ==
    LET c == Concrete(hp, nms[i].ns)
        redo(h, j) == IF Mine(nms, i, c.f[j])
                      THEN Def(h, nms[i].ns, c.n[j], Ancestor(nms[i].module, i)) ELSE h
    IN  SelfRefUnder(FoldLeft(redo, hp, [j \in DOMAIN c.f |-> j]), nms, i)

---------------------------------------------------------------------------
(* hide *)

HideFeature(hp, s, i) == Undef(hp, s, Concrete(hp, s).n[i])

(* The loop over a pattern: a feature that is taken out is replaced by the *)
(* last one, and the loop goes on with the next position.                  *)
RECURSIVE HideMatches(_, _, _, _)
HideMatches(hp, s, match(_, _), i) ==
    LET c == Concrete(hp, s)
    IN  IF i > Len(c.f) THEN hp
        ELSE HideMatches(IF match(c.n[i], c.f[i]) THEN HideFeature(hp, s, i) ELSE hp,
                         s, match, i + 1)

(* compile_pattern fills a character class with its first character, once  *)
(* for every character of the class.                                       *)
GlobMatch(n, class) == Initial[n] = class[1]

HideWholeNamespace(hp, s) ==
    LET parent == hp.nss[s].parent
    IN  Undef(hp, parent, NameOf(Concrete(hp, parent), Nested(s, hp.nss[s].of)))

(* The features of a supertype are those its module introduced; its name   *)
(* must be known where they are to be hidden.                              *)
HideOf(hp, s, arg) ==
    LET super == Lookup(hp, s, arg.module)
        origin == names[super.at].module
    IN  CASE super.kind # "ancestor" -> hp
          [] arg.form = "of" ->
                 LET f == Lookup(hp, s, arg.path[1])
                 IN  IF f # Nothing /\ f.of = origin THEN Undef(hp, s, arg.path[1]) ELSE hp
          [] OTHER -> HideMatches(hp, s, LAMBDA n, f : f.of = origin, 1)

HideIn(hp, s, arg) ==
    LET top == Lookup(hp, s, arg.path[1])
    IN  IF arg.form = "path" /\ Len(arg.path) = 1 THEN Undef(hp, s, arg.path[1])
        ELSE IF top.kind # "namespace" THEN hp
        ELSE IF arg.form = "path"
        THEN Undef(MakeUnique(hp, top.at), top.at, arg.path[2])
        ELSE HideWholeNamespace(MakeUnique(hp, top.at), top.at)

Applied(op, arg) ==
    /\ applied' = [total |-> applied.total + 1, here |-> applied.here + 1]
    /\ last' = [op |-> op, arg |-> arg]

(* do_hide: a pattern without a match is only warned about. *)
Hidden(hp, s, arg) ==
    CASE arg.form = "all" -> InConcrete(hp, s, Cleared(Concrete(hp, s)))
      [] arg.form = "pattern" ->
             HideMatches(hp, s, LAMBDA n, f : GlobMatch(n, arg.class), 1)
      [] arg.form \in {"of", "allOf"} -> HideOf(hp, s, arg)
      [] OTHER -> HideIn(hp, s, arg)

Hide(arg) ==
    LET s == names[current].ns
    IN  /\ heap' = Hidden(MakeUnique(heap, s), s, arg)
        /\ Applied("hide", arg)
        /\ UNCHANGED << names, current, failed >>

---------------------------------------------------------------------------
(* show and rename *)

(* parse_name: the namespace the last name of a path is looked up in, or 0. *)
ParseName(hp, s, path) ==
    IF Len(path) = 1 THEN s
    ELSE LET f == Lookup(hp, s, path[1])
         IN  IF f.kind = "namespace" THEN f.at ELSE 0

(* parse_name with parseUniqueify and parseCreate, and                     *)
(* copy_namespace_parents: a namespace on the way is made unique, or made. *)
Into(hp, s, path) ==
    LET f == Lookup(hp, s, path[1])
        of == hp.nss[s].of
        new == Len(hp.nss) + 1
    IN  CASE Len(path) = 1 -> [at |-> s, hp |-> hp]
          [] f.kind = "namespace" -> [at |-> f.at, hp |-> MakeUnique(hp, f.at)]
          [] f = Nothing -> [at |-> new, hp |-> Def(NewNamespace(hp, s, of), s, path[1],
                                                    Nested(new, of))]
          [] OTHER -> [at |-> 0, hp |-> hp]

(* show without a new name keeps the namespaces the feature is in. *)
NewPath(hp, arg, from) ==
    IF arg.old # arg.new \/ Len(arg.old) = 1 THEN arg.new
    ELSE LET parent == hp.nss[from].parent
         IN  << NameOf(Concrete(hp, parent), Nested(from, hp.nss[from].of)), arg.old[2] >>

(* do_show: both, told apart by where the old name is looked up. *)
ShowAs(op, arg, f, from, into, new) ==
    IF into.at # 0 /\ Lookup(into.hp, into.at, new) \in {Nothing, f}
    THEN /\ heap' = Def(IF op = "rename" THEN Undef(into.hp, from, Last(arg.old))
                        ELSE into.hp, into.at, new, f)
         /\ Applied(op, arg)
         /\ UNCHANGED failed
    ELSE /\ heap' = into.hp
         /\ failed' = TRUE
         /\ UNCHANGED << applied, last >>

DoShow(op, arg) ==
    /\ \E unique \in { MakeUnique(heap, names[current].ns) } :
          LET s == names[current].ns
              from == ParseName(unique, IF op = "rename" THEN s
                                        ELSE names[names[current].base].ns, arg.old)
              f == Lookup(unique, from, Last(arg.old))
              path == NewPath(unique, arg, from)
          IN  IF from # 0 /\ f.kind \in {"rule", "namespace"}
              THEN ShowAs(op, arg, f, from, Into(unique, s, path), Last(path))
              ELSE heap' = unique /\ failed' = TRUE /\ UNCHANGED << applied, last >>
    /\ UNCHANGED << names, current >>

---------------------------------------------------------------------------
(* The steps of a compilation. *)

Init == /\ heap = [nss |-> << >>, cns |-> << >>]
        /\ names = << >>
        /\ current = 0
        /\ applied = [total |-> 0, here |-> 0]
        /\ failed = FALSE
        /\ last = [op |-> "none"]

Declared == { names[i].module : i \in DOMAIN names }
Visible == { i \in DOMAIN names : names[i].outer }

(* Protomodule::resolve1 and the resolve1 of its _pre_frobbed: the names   *)
(* of the module, and those others see, copied from them.  The temporary   *)
(* namespace the names are put together in keeps its reference.            *)
Takes(r, own, result, m, i) ==
    [r EXCEPT !.hp = Def(ChangeConcrete(@, own, @.nss[result].cns), own, m, Ancestor(m, i))]
Resolve1(hp, own, m, p) ==
    LET result == Len(hp.nss)
        parent == IF p = 0 THEN hp ELSE ResolveParent(hp, result, names[p].ns)
    IN  Takes(ResolveInternal([ok |-> TRUE, hp |-> parent], result, own),
              own, result, m, Len(names) + 1)

Implicit(hp, own, m) ==
    SelectSeq(ImplicitNames[m], LAMBDA n : Lookup(hp, own, n) = Nothing)
AddImplicit(hp, own, m, implicit) ==
    FoldLeft(LAMBDA h, n : Def(h, own, n, RuleRef(Method(m, << n >>))), hp, implicit)
HideImplicit(hp, seen, implicit) ==
    FoldLeft(LAMBDA h, n : Undef(MakeUnique(h, seen), seen, n), hp, implicit)

Declare(m, p) ==
    LET own == Len(heap.nss) + 1
        header == IF p = 0 THEN Nothing ELSE Ancestor(m, p)
        parsed == Parsed(NewNamespace(heap, 0, m), own, m, header)
        Names(s, outer) == [ns |-> s, module |-> m, base |-> Len(names) + 1,
                            basename |-> m, outer |-> outer]
    IN  /\ current = 0
        /\ Cardinality(Declared) < Len(Modules)
        /\ m = Modules[Cardinality(Declared) + 1]
        /\ \E base \in { Resolve1(NewNamespace(parsed, 0, ""), own, m, p) } :
           \E implicit \in { Implicit(base.hp, own, m) } :
           \E full \in { AddImplicit(base.hp, own, m, implicit) } :
           LET seen == Len(full.nss) + 1
               both == names \o << Names(own, FALSE), Names(seen, TRUE) >>
           IN  \E redone \in { RedoSelfRef(ShareNamespace(full, own, 0), both, Len(both)) } :
               IF base.ok /\ redone.ok
               THEN /\ heap' = HideImplicit(redone.hp, seen, implicit)
                    /\ names' = both
                    /\ last' = [op |-> "declare", module |-> m]
                    /\ UNCHANGED failed
               ELSE failed' = TRUE /\ UNCHANGED << heap, names, last >>
        /\ UNCHANGED << current, applied >>

(* A Protofrob starts with a copy of the names it is applied to. *)
Operate(i) ==
    LET shared == ShareNamespace(heap, names[i].ns, 0)
    IN  /\ current = 0
        /\ Len(names) < 2 * Cardinality(Declared) + MaxExpressions
        /\ heap' = shared
        /\ names' = Append(names, [names[i] EXCEPT !.ns = Len(shared.nss)])
        /\ current' = Len(names) + 1
        /\ applied' = [applied EXCEPT !.here = 0]
        /\ last' = [op |-> "operate"]
        /\ UNCHANGED failed

(* A module expression ends; as a module equation (Protoequate::resolve1)  *)
(* it gets a name, and a reference to itself under that name.              *)
Close(name) ==
    LET named == [names EXCEPT ![current].basename = name]
    IN  /\ current # 0
        /\ \E redone \in { IF name # names[current].basename /\ applied.here > 0
                            THEN RedoSelfRef(heap, named, current)
                            ELSE [ok |-> TRUE, hp |-> heap] } :
              heap' = redone.hp /\ failed' = ~ redone.ok
        /\ names' = named
        /\ current' = 0
        /\ last' = [op |-> "close"]
        /\ UNCHANGED applied

(* Sources that put a namespace into a namespace are left out. *)
Flat(arg) ==
    Len(arg.old) = 1 /\ Len(arg.new) = 2 =>
        Lookup(heap, names[current].ns, arg.old[1]).kind # "namespace"

Next ==
    /\ ~ failed
    /\ \/ \E i \in 1 .. Len(Modules), p \in {0} \cup Visible : Declare(Modules[i], p)
       \/ \E i \in Visible : Operate(i)
       \/ /\ current # 0
          /\ applied.total < MaxOperators
          /\ \/ \E arg \in HideArgs : Hide(arg)
             \/ \E arg \in ShownNames : DoShow("show", arg)
             \/ \E arg \in RenamedNames : Flat(arg) /\ DoShow("rename", arg)
       \/ \E name \in Equations \cup { names[i].basename : i \in {current} \ {0} } :
              Close(name)

Spec == Init /\ [][Next]_vars

---------------------------------------------------------------------------
(* Properties. *)

(* What the names i mean: every path a method can be reached by. *)
Entries(c, prefix) ==
    { << Append(prefix, c.n[j]), c.f[j].rule >> :
        j \in { k \in DOMAIN c.f : c.f[k].kind = "rule" } }
View(i) ==
    LET c == Concrete(heap, names[i].ns)
        nested == { j \in DOMAIN c.f : c.f[j].kind = "namespace" }
        entries == Entries(c, << >>) \cup
                   UNION { Entries(Concrete(heap, c.f[j].at), << c.n[j] >>) : j \in nested }
    IN  [q \in { e[1] : e \in entries } |-> (CHOOSE e \in entries : e[1] = q)[2]]

(* The table of a namespace and its two vectors say the same thing, after  *)
(* any sequence of definitions and hidings: each name has one position,    *)
(* and names no longer defined none.                                       *)
TablesAgree ==
    \A c \in { heap.cns[j] : j \in DOMAIN heap.cns } :
        \A k \in Keys(c.h) \cup { c.n[j] : j \in DOMAIN c.n } :
            { j \in DOMAIN c.n : c.n[j] = k } = {Find(c.h, k)} \ {0}

(* A probe for a name the table does not hold ends. *)
ProbesEnd == \A j \in DOMAIN heap.cns : HasFreeSlot(heap.cns[j].h)

(* A concrete namespace counts the namespaces that point to it: one that   *)
(* is shared never looks unique (namespace.cc, make_unique).               *)
RefsCount ==
    \A c \in DOMAIN heap.cns :
        heap.cns[c].refs = Cardinality({ s \in DOMAIN heap.nss : heap.nss[s].cns = c })

(* Names operators have changed own their nested namespaces: each of them  *)
(* has them for parent, which hide_whole_namespace goes by.                *)
OwnsNested ==
    \A i \in DOMAIN names :
        LET c == Concrete(heap, names[i].ns)
        IN  c.refs = 1 =>
                \A j \in DOMAIN c.f :
                    c.f[j].kind = "namespace" => heap.nss[c.f[j].at].parent = names[i].ns

(* The code implements what the module operators promise: a change to one  *)
(* names never shows in another, whatever they share.                      *)
Promise == INSTANCE ModuleOperators WITH
               scopes <- [i \in DOMAIN names |-> View(i)],
               origins <- [i \in DOMAIN names |-> names[i].base]
KeepsPromise == Promise!AbsSpec

(* doc/refman.tex: hide "pattern" "hides all names that match the          *)
(* pattern", character classes included.                                   *)
HidesMatches ==
    (last.op = "hide" /\ last.arg.form = "pattern") =>
            \A q \in DOMAIN View(current) : ~ InClass(q[1], last.arg.class)

(* doc/refman.tex: names are shown from the module's original namespace,   *)
(* which no operator changes.                                              *)
OriginalKept ==
    [][\A i \in DOMAIN names : i # current => View(i)' = View(i)]_vars
=============================================================================
