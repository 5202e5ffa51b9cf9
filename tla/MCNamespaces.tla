---------------------------- MODULE MCNamespaces ----------------------------
(***************************************************************************)
(* Sources with a base module of three methods, a namespace and an         *)
(* implicit method, and a module for which everything made so far can be   *)
(* the parent, that overrides, adds and merges into the namespace.  Hash   *)
(* codes are chosen to collide, in the first slot and in the step.         *)
(***************************************************************************)
EXTENDS Namespaces

MCModules == << "A", "B" >>
MCMethods == [A |-> << <<"x1">>, <<"ns", "x1">>, <<"x2">> >>,
              B |-> << <<"x1">>, <<"ns", "y1">> >>]
MCStatic == { [of |-> "A", name |-> "x2"] }
MCImplicit == [A |-> <<"z1">>, B |-> <<"z1", "x2">>]
MCInitial == [x1 |-> 24, x2 |-> 24, y1 |-> 25, z1 |-> 26, ns |-> 14,
              A |-> 1, B |-> 2, E |-> 5, constructor |-> 3]
MCAssignments ==
    { [old |-> a[1], new |-> a[2]] :
        a \in { << <<"x1">>, <<"x1">> >>, << <<"x1">>, <<"x2">> >>,
                << <<"x1">>, <<"ns", "x1">> >>, << <<"x2">>, <<"ns", "y1">> >>,
                << <<"ns", "x1">>, <<"ns", "x1">> >>, << <<"ns", "x1">>, <<"x2">> >>,
                << <<"ns", "y1">>, <<"ns", "y1">> >>, << <<"ns">>, <<"x1">> >>,
                << <<"ns">>, <<"x2">> >> } }
MCRanges == { <<24, 25>> }
MCHashCode == [x1 |-> 0, x2 |-> 8, y1 |-> 72, z1 |-> 16, ns |-> 3,
               A |-> 1, B |-> 2, E |-> 66, constructor |-> 10]
=============================================================================
