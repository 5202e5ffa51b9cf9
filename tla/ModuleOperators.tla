-------------------------- MODULE ModuleOperators --------------------------
(***************************************************************************)
(* What the module operators promise (doc/refman.tex, "Namespace module    *)
(* operators"): every names of a module is a dictionary of its own, from   *)
(* paths to methods, and an operator changes the one it is applied to and  *)
(* no other.  Namespaces, where names share their tables until one of them *)
(* is changed, is shown to implement it.                                   *)
(***************************************************************************)
EXTENDS ModuleSource, SequencesExt

VARIABLES
    scopes,         \* scopes[i]: the dictionary of the names i
    origins,        \* origins[i]: the names of the module itself, where show
                    \* looks up its old name
    current,        \* the names operators are being applied to, or 0
    last            \* the operator applied last, with its argument

absVars == << scopes, origins, current, last >>

Over(d, e) == [q \in DOMAIN d \cup DOMAIN e |-> IF q \in DOMAIN d THEN d[q] ELSE e[q]]
Without(d, P) == Restrict(d, { q \in DOMAIN d : \A p \in P : ~ IsPrefix(p, q) })

(* The dictionary of a body, with the constructor every module has. *)
OwnMethods(m) ==
    LET paths == { Methods[m][i] : i \in DOMAIN Methods[m] } \cup {<< Constructor >>}
    IN  [q \in paths |-> Method(m, q)]

(* An own method of an inherited path overrides what is there: the name   *)
(* still means the method of the supertype.                               *)
Inherit(own, parent) ==
    [q \in DOMAIN own \cup DOMAIN parent |->
        IF q \in DOMAIN parent /\ (q \in DOMAIN own => ~ Replaced(parent[q]))
        THEN parent[q] ELSE own[q]]

(* Implicit methods: simple names of the bodies that mean nothing. *)
ImplicitMethods(m, d) ==
    LET paths == { << ImplicitNames[m][i] >> : i \in DOMAIN ImplicitNames[m] }
        free == { q \in paths : ~ \E r \in DOMAIN d : IsPrefix(q, r) }
    IN  [q \in free |-> Method(m, q)]

AbsInit == /\ scopes = << >> /\ origins = << >>
           /\ current = 0 /\ last = [op |-> "none"]

(* A module has two names: its own, and those others see, which are        *)
(* without the implicit methods.                                           *)
AbsDeclare(m, p) ==
    /\ current = 0
    /\ last' = [op |-> "declare", module |-> m]
    /\ LET d == Inherit(OwnMethods(m), IF p = 0 THEN << >> ELSE scopes[p])
           implicit == ImplicitMethods(m, d)
       IN  scopes' = scopes \o << Over(d, implicit), d >>
    /\ origins' = origins \o << Len(scopes) + 1, Len(scopes) + 1 >>
    /\ UNCHANGED current

AbsOperate(i) ==
    /\ current = 0
    /\ last' = [op |-> "operate"]
    /\ scopes' = Append(scopes, scopes[i])
    /\ origins' = Append(origins, origins[i])
    /\ current' = Len(scopes) + 1

Becomes(d, op, arg) ==
    /\ last' = [op |-> op, arg |-> arg]
    /\ scopes' = [scopes EXCEPT ![current] = d]
    /\ UNCHANGED << origins, current >>

(* Hide takes away what its argument names.  Of what a pattern matches, or *)
(* of the methods of a supertype, the code may leave some.                 *)
AbsHide(arg) ==
    LET d == scopes[current]
        tops == { << q[1] >> : q \in DOMAIN d }
        some == { q \in tops :
                    CASE arg.form = "pattern" -> InClass(q[1], arg.class)
                      [] arg.form = "allOf" -> q \in DOMAIN d => d[q].of = arg.module
                      [] OTHER -> FALSE }
    IN  CASE arg.form \in {"path", "space"} ->
                 Becomes(Without(d, {arg.path}), "hide", arg)
          [] arg.form = "all" -> Becomes(Without(d, tops), "hide", arg)
          [] arg.form = "of" ->
                 \E P \in { {}, {arg.path} } :
                     /\ P # {} /\ arg.path \in DOMAIN d => d[arg.path].of = arg.module
                     /\ Becomes(Without(d, P), "hide", arg)
          [] OTHER -> \E P \in SUBSET some : Becomes(Without(d, P), "hide", arg)

(* show (new = old) makes what old is in the module itself, and everything *)
(* in it when it is a namespace, known as new.                             *)
Known(d, old, new) ==
    LET moved == { q \in DOMAIN d : IsPrefix(old, q) }
        paths == { new \o SubSeq(q, Len(old) + 1, Len(q)) : q \in moved }
    IN  [r \in paths |-> d[old \o SubSeq(r, Len(new) + 1, Len(r))]]

AbsShow(arg) ==
    LET base == scopes[origins[current]]
        shown == Known(base, arg.old, arg.new)
    IN  Becomes(Over(shown, scopes[current]), "show", arg)

(* rename (new = old): show (new = old) of the current names, hide old. *)
AbsRename(arg) ==
    LET d == scopes[current]
    IN  Becomes(Over(Known(d, arg.old, arg.new), Without(d, {arg.old})), "rename", arg)

AbsClose == /\ current # 0
            /\ last' = [op |-> "close"]
            /\ current' = 0
            /\ UNCHANGED << scopes, origins >>

AbsNext ==
    \/ \E m \in DOMAIN Methods, p \in {0} \cup DOMAIN scopes : AbsDeclare(m, p)
    \/ \E i \in DOMAIN scopes : AbsOperate(i)
    \/ /\ current # 0
       /\ \/ \E arg \in HideArgs : AbsHide(arg)
          \/ \E arg \in ShownNames : AbsShow(arg)
          \/ \E arg \in RenamedNames : AbsRename(arg)
          \/ AbsClose

AbsSpec == AbsInit /\ [][AbsNext]_absVars
=============================================================================
