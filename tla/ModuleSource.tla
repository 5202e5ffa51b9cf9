---------------------------- MODULE ModuleSource ----------------------------
(***************************************************************************)
(* What a Prolac source says about the names of its modules: the bodies of *)
(* the modules, and the arguments of the module operators.  A method is    *)
(* the module that introduced it and its name; a path is one name, or two  *)
(* for a method inside a namespace of the module.                          *)
(***************************************************************************)
EXTENDS Integers, Sequences

CONSTANTS
    Modules,        \* the modules with a body, in the order of the source
    Equations,      \* the names module equations give
    Methods,        \* Methods[m]: the paths of the methods of a body, in order
    StaticMethods,  \* the methods that are static
    ImplicitNames,  \* ImplicitNames[m]: simple names its method bodies use
    Initial,        \* Initial[n]: the letter a name starts with, as a number
    Ranges,         \* the character classes << lo, hi >> of hide patterns
    Assignments,    \* the pairs [old, new] of paths in show and rename
    Aliasing        \* whether a source renames methods out of a namespace
                    \* and shows whole namespaces

Constructor == "constructor"
Method(m, path) == [of |-> m, name |-> path[Len(path)]]

(* resolve1_rule_override: over these an own method is installed as a     *)
(* method of its own.                                                     *)
Replaced(rule) == rule.name = Constructor \/ rule \in StaticMethods

Paths == UNION { { Methods[m][i] : i \in DOMAIN Methods[m] } : m \in DOMAIN Methods }
Simple == { q \in Paths : Len(q) = 1 }
Spaces == { << q[1] >> : q \in Paths \ Simple }

(* The forms of the argument of hide: a name, a namespace's `all', a       *)
(* pattern, `all', and the name or `all' behind the name of a supertype.   *)
HideArgs ==
    [form : {"path"}, path : Paths \cup Spaces]
        \cup [form : {"space"}, path : Spaces]
        \cup [form : {"pattern"}, class : Ranges]
        \cup [form : {"all"}]
        \cup [form : {"of"}, module : DOMAIN Methods, path : Simple]
        \cup [form : {"allOf"}, module : DOMAIN Methods]

(* No body here has a namespace inside a namespace, and no assignment      *)
(* makes one.                                                             *)
ASSUME SourceAssumption ==
    /\ Assignments \subseteq [old : Paths \cup Spaces, new : Paths \cup Spaces]
    /\ \A a \in Assignments : a.old \in Spaces => a.new \in Spaces \cup Simple
    /\ Aliasing \in BOOLEAN

(* The assignments of show, and those of rename. *)
ShownNames == IF Aliasing THEN Assignments ELSE { a \in Assignments : a.old \in Paths }
RenamedNames == IF Aliasing THEN Assignments ELSE { a \in Assignments : Len(a.old) = 1 }

InClass(n, class) == Initial[n] \in class[1] .. class[2]
=============================================================================
