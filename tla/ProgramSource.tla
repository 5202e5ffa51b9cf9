--------------------------- MODULE ProgramSource ---------------------------
(***************************************************************************)
(* What a Prolac source says about the methods and the objects of its      *)
(* modules.  A method is the module that introduced it and its name; a     *)
(* rule is the definition one module gives of a method.  A call names a    *)
(* method and the expression it is made on:                                *)
(*   self     the object of the rule,                                      *)
(*   super    the same object, and the definition of the parent,           *)
(*   pointer  what a pointer to the module `type' points to,               *)
(*   object   a variable or field that is an object of `type',             *)
(*   new      the constructor of `type' on a new variable,                 *)
(*   parent   in a constructor, the constructor of the parent on self.     *)
(***************************************************************************)
EXTENDS Integers, Sequences

CONSTANTS
    Modules,        \* the modules, in the order of the source: parents first
    Parent,         \* Parent[m]: the only parent of a module, or NoModule
    Methods,        \* Methods[m]: the names of the methods m introduces
    Overridable,    \* the pairs << m, method >> an override may be written for
    Bodies,         \* the functions from rules to bodies: what each calls
    StaticRules,    \* the rules that are static
    Exports,        \* what a source may export: sequences of a module with a
                    \* method, or with AllMethods
    InlineChoices,  \* the sets of rules it may ask to inline
    FieldChoices    \* functions from a module to the slots it declares: their
                    \* size, alignment and offset, or Floating

NoModule == "none"
Floating == -1
Constructor == "constructor"
AllMethods == [of |-> NoModule, name |-> "all"]

Index(m) == CHOOSE i \in DOMAIN Modules : Modules[i] = m
ModuleSet == { Modules[i] : i \in DOMAIN Modules }

(* A module and its supertypes, nearest first. *)
Line[m \in ModuleSet] ==
    << m >> \o (IF Parent[m] = NoModule THEN << >> ELSE Line[Parent[m]])
Supertypes(m) == { Line[m][i] : i \in DOMAIN Line[m] }

Rule(m, q) == [in |-> m, of |-> q.of, name |-> q.name]
MethodOf(rule) == [of |-> rule.of, name |-> rule.name]
ConstructorOf(m) == [in |-> m, of |-> m, name |-> Constructor]
Introduced(m) == { [of |-> m, name |-> f] : f \in Methods[m] }
EveryMethod == UNION { Introduced(m) : m \in ModuleSet }

ASSUME SourceAssumption ==
    /\ \A m \in ModuleSet : Parent[m] # NoModule =>
           Parent[m] \in ModuleSet /\ Index(Parent[m]) < Index(m)
    /\ \A o \in Overridable :
           /\ o[1] \in ModuleSet /\ o[2] \in EveryMethod
           /\ o[2].of \in Supertypes(o[1]) \ {o[1]}

(* A module is declared once, and its slots have a size: one whose type is *)
(* a module without slots is left out.                                     *)
ASSUME SlotAssumption ==
    /\ Modules \in Seq(ModuleSet) /\ NoModule \notin ModuleSet
    /\ \A i, j \in DOMAIN Modules : Modules[i] = Modules[j] => i = j
    /\ \A fields \in FieldChoices, m \in ModuleSet :
           fields[m] \in Seq([size : Nat \ {0}, align : Nat \ {0}, at : Nat \cup {Floating}])
=============================================================================
