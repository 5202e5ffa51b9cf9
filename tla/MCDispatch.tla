----------------------------- MODULE MCDispatch -----------------------------
(***************************************************************************)
(* Sources with a module A of two methods, a line of two modules under it  *)
(* and a module beside them, and a static method that makes objects and    *)
(* calls methods through pointers.                                         *)
(***************************************************************************)
EXTENDS Dispatch

CONSTANTS
    Constructions,  \* the sets of classes the static method may construct
    Inner           \* what a method of the line may construct

F == [of |-> "A", name |-> "f"]
G == [of |-> "A", name |-> "g"]
Run == [of |-> "Main", name |-> "run"]
MCModules == << "A", "B", "C", "D", "Main" >>
MCParent == [A |-> NoModule, B |-> "A", C |-> "B", D |-> "A", Main |-> NoModule]
MCMethods == [A |-> {"f", "g"}, B |-> {}, C |-> {}, D |-> {}, Main |-> {"run"}]
MCOverridable == { <<"B", F>>, <<"B", G>>, <<"C", F>>, <<"C", G>>, <<"D", G>> }
MCStaticRules == { Rule("Main", Run) }
(* Only the static method, or also every method as every module has it,    *)
(* and the constructor of A.                                               *)
MCExports ==
    { << [in |-> "Main", method |-> Run] >>,
      << [in |-> "Main", method |-> Run], [in |-> "A", method |-> AllMethods] >> \o
        SetToSeq([in : {"B", "C", "D"}, method : {F, G}]) }
MCInlineChoices == { {}, { Rule(m, q) : m \in {"A", "B", "C", "D"}, q \in {F, G} } }
Slot(size, place) == [size |-> size, align |-> size, at |-> place]
MCFieldChoices ==
    { [A |-> << Slot(1, Floating), Slot(4, Floating) >>, B |-> << Slot(2, Floating) >>,
       C |-> << Slot(1, place), Slot(2, Floating) >>, D |-> << >>, Main |-> << >>] : place \in {1, 5} }

On(on, type, q) == [on |-> on, type |-> type, method |-> q]
New(m) == On("new", m, MethodOf(ConstructorOf(m)))

(* What the static method makes, and the calls it makes then. *)
RunBodies ==
    { SetToSeq({ New(m) : m \in ms }) \o
        << On("pointer", IF ms = {"C", "D"} THEN "B" ELSE "A", F), On("object", "B", F) >> :
        ms \in Constructions }
BodiesOf(rule) ==
    CASE rule = Rule("Main", Run) -> RunBodies
      [] rule.name = Constructor ->
            { IF rule.in \in {"B", "C", "D"} THEN << On("parent", rule.in, F) >> ELSE << >> }
      [] rule = Rule("A", F) -> { << >>, << On("self", "A", G) >> }
      [] rule = Rule("B", F) -> { << On("super", "A", F) >>, << On("self", "B", G) >> }
      [] rule = Rule("C", F) -> { << On("super", "B", F) >> }
                                   \cup { << New(m), On("self", "C", G) >> : m \in Inner }
      [] OTHER -> { << >> }

EveryRule ==
    { Rule(m, q) : m \in {"A", "B", "C", "D"}, q \in {F, G} }
        \cup { Rule("Main", Run) } \cup { ConstructorOf(m) : m \in ModuleSet }
MCBodies ==
    { [r \in EveryRule |->
          CASE r = Rule("Main", Run) -> b1 [] r = Rule("A", F) -> b2
            [] r = Rule("B", F) -> b3 [] r = Rule("C", F) -> b4
            [] OTHER -> CHOOSE b \in BodiesOf(r) : TRUE] :
        b1 \in BodiesOf(Rule("Main", Run)), b2 \in BodiesOf(Rule("A", F)),
        b3 \in BodiesOf(Rule("B", F)), b4 \in BodiesOf(Rule("C", F)) }
=============================================================================
