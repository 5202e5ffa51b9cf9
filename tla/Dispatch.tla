------------------------------ MODULE Dispatch ------------------------------
(***************************************************************************)
(* How the compiler decides which function a method call reaches:          *)
(* the rulesets of the modules (prolacc/ruleset.cc, module.cc), the        *)
(* receiver class and callable analyses over the bodies (node.cc), the     *)
(* layout of the objects (module.cc), the code of every rule, with inlining*)
(* (optimize.cc, node.cc), and then the generated program, that makes      *)
(* objects and calls methods on them.                                      *)
(*                                                                         *)
(* The analyses are recursive walks over the bodies; the stack work holds  *)
(* what is left of the walk.  A Ruleset is known by the module it belongs  *)
(* to and the module whose methods it holds.                               *)
(***************************************************************************)
EXTENDS ProgramSource, SequencesExt, FiniteSetsExt

VARIABLES
    source,     \* [overrides, body, exports, inline, fields]: the program compiled
    exports,    \* _export_rules
    phase, at,  \* the phase of the compiler, and what of it is done
    rules,      \* rules[m][q]: the rule of method q in the rulesets of m
    owner,      \* owner[m][o]: the module whose ruleset for o module m uses
    notLeaf,    \* the rules something overrides
    work,       \* what is left of the walk
    classed,    \* the rules receiver class analysis went through
    receiver,   \* receiver[m]: _receiver_class of m, or NoModule
    callable,   \* the rules callable analysis went through
    dynamic,    \* the methods dispatched through a vtbl
    offset,     \* offset[s]: the place of a slot in its objects
    misplaced,  \* an error about the placement of a slot was reported
    marked,     \* the rules to be generated, those generated among them
    generated,  \* the rules generated
    pending,    \* what is left of the code of the rule that is generated
    made,       \* the classes of which the program has made objects
    frame       \* the method the generated program is in

analysis == << classed, receiver, callable, dynamic >>
tables == << rules, owner, notLeaf, exports >>
layout == << offset, misplaced >>
output == << marked, generated, pending >>
program == << made, frame >>
vars == << source, phase, at, tables, work, analysis, layout, output, program >>

---------------------------------------------------------------------------
(* Rulesets. *)

HasAncestor(m, a) == a \in Supertypes(m)
VersionIn(m, q) == rules[m][q]
Leaf(rule) == rule \notin notLeaf
ReceiverClass(m) == IF receiver[m] = NoModule THEN m ELSE receiver[m]

(* Module m declares its rules: it shares the rulesets of its parent, has  *)
(* one of its own for the methods it introduces, and a new one, that       *)
(* starts as a copy, for each module with a method it overrides.           *)
Resolve1(m) ==
    LET p == Parent[m]
        own == { o[2] : o \in { x \in source.overrides : x[1] = m } }
        new == Introduced(m) \cup { MethodOf(ConstructorOf(m)) }
        old == IF p = NoModule THEN << >> ELSE rules[p]
        oldOwner == IF p = NoModule THEN << >> ELSE owner[p]
    IN  /\ rules' = rules @@ (m :>
               [q \in new \cup DOMAIN old |-> IF q \in own \cup new THEN Rule(m, q) ELSE old[q]])
        /\ owner' = owner @@ (m :>
               [o \in {m} \cup DOMAIN oldOwner |->
                    IF o = m \/ \E q \in own : q.of = o THEN m ELSE oldOwner[o]])
        /\ notLeaf' = notLeaf \cup { old[q] : q \in own }

(* The rulesets made from that of a rule, newest first. *)
ChildRules(rule) ==
    LET child(m) == /\ Parent[m] # NoModule /\ rule.of \in DOMAIN owner[m]
                    /\ owner[m][rule.of] = m /\ m # rule.of
                    /\ owner[Parent[m]][rule.of] = owner[rule.in][rule.of]
        ms == Reverse(SelectSeq(Modules, child))
    IN  [i \in DOMAIN ms |-> [do |-> "child", rule |-> VersionIn(ms[i], MethodOf(rule))]]

---------------------------------------------------------------------------
(* Calls. *)

(* resolve_feature: the rule a call in the body of s is resolved to. *)
CallRule(s, call) ==
    CASE call.on = "self" -> VersionIn(s.in, call.method)
      [] call.on = "super" -> VersionIn(Parent[s.in], call.method)
      [] call.on = "new" -> ConstructorOf(call.type)
      [] call.on = "parent" -> ConstructorOf(Parent[s.in])
      [] OTHER -> VersionIn(call.type, call.method)
IsFixed(call) == call.on = "super"

Calls(rule) ==
    LET b == source.body[rule]
    IN  [i \in DOMAIN b |->
            [do |-> "call", rule |-> CallRule(rule, b[i]), on |-> b[i].on]]

---------------------------------------------------------------------------
(* Receiver classes: for every module, the closest common ancestor of the  *)
(* classes under it the program constructs.                                *)

(* Mutant: a class that is not on the line of the receiver class is left out. *)
MergeOnLine(was, m) ==
    IF was = NoModule \/ HasAncestor(was, m) THEN m ELSE was
Merge(was, m) ==
    IF was = NoModule \/ HasAncestor(was, m) THEN m
    ELSE IF HasAncestor(m, was) THEN was
    ELSE LET common == SelectSeq(Line[m], LAMBDA a : HasAncestor(was, a))
         IN  common[1]

(* A constructor called on anything but the object under construction      *)
(* makes objects that are used as objects of every supertype.              *)
MarkConstructed(m) ==
    receiver' = [a \in ModuleSet |->
                    IF HasAncestor(m, a) THEN Merge(receiver[a], m) ELSE receiver[a]]

Constructs(item) == item.do = "call" /\ item.on = "new"

(* What is to be looked into behind a rule met for the first time. *)
Behind(item) ==
    Calls(item.rule) \o
        (IF item.do = "call" /\ item.on = "super" THEN << >> ELSE ChildRules(item.rule))

ReceiverStep ==
    /\ phase = "receiver" /\ work # << >>
    /\ LET item == Head(work)
       IN  /\ IF Constructs(item) THEN MarkConstructed(item.rule.in) ELSE UNCHANGED receiver
           /\ classed' = classed \cup {item.rule}
           /\ work' = (IF item.rule \in classed THEN << >> ELSE Behind(item)) \o Tail(work)
    /\ UNCHANGED << source, phase, at, tables, callable, dynamic, layout, output, program >>

(* analyze_exports: the body of every exported rule, met before or not.    *)
ReceiverExport ==
    /\ phase = "receiver" /\ work = << >> /\ at < Len(exports)
    /\ at' = at + 1
    /\ classed' = classed \cup {exports[at']}
    /\ work' = Calls(exports[at'])
    /\ UNCHANGED << source, phase, tables, receiver, callable, dynamic, layout, output, program >>

(* An exported constructor marks its own module, and no other. *)
MarkExportedConstructors ==
    /\ phase = "receiver" /\ work = << >> /\ at = Len(exports)
    /\ phase' = "callable" /\ at' = 0
    /\ receiver' = [m \in ModuleSet |->
           IF \E i \in DOMAIN exports : exports[i] = ConstructorOf(m)
           THEN Merge(receiver[m], m) ELSE receiver[m]]
    /\ UNCHANGED << source, tables, work, classed, callable, dynamic, layout, output, program >>

---------------------------------------------------------------------------
(* Which methods are called through a vtbl.  Every body is taken to be of  *)
(* more than inlineTrivialNodeCount operations, what it calls included:    *)
(* resolve5_rule would inline into a smaller one before this.              *)

(* Where a call that is not fixed goes if every object is of the receiver  *)
(* class of the rule.                                                      *)
Received(rule) == VersionIn(ReceiverClass(rule.in), MethodOf(rule))

(* Mutant: the rules that override a dispatched one are not gone through.  *)
OnlyOverrides(r) == IF r \in callable THEN << >> ELSE ChildRules(r)
(* What a rule that overrides a dispatched one brings with it. *)
Reached(r) == IF r \in callable THEN << >> ELSE Calls(r) \o ChildRules(r)

CallableStep ==
    /\ phase = "callable" /\ work # << >>
    /\ LET item == Head(work)
           r == IF item.do = "call" /\ item.on # "super" THEN Received(item.rule) ELSE item.rule
           q == MethodOf(r)
           dispatched == [do |-> "dispatch", rule |-> r, on |-> item.on]
       IN  CASE item.do = "call" ->
                    /\ callable' = callable \cup {r}
                    /\ work' = (IF r \in callable THEN << >> ELSE Calls(r))
                                   \o << dispatched >> \o Tail(work)
                    /\ UNCHANGED dynamic
             [] item.do = "dispatch" ->
                    LET needed == ~ Leaf(r) /\ item.on # "super" /\ q \notin dynamic
                    IN  /\ dynamic' = IF needed THEN dynamic \cup {q} ELSE dynamic
                        /\ work' = (IF needed THEN ChildRules(r) ELSE << >>) \o Tail(work)
                        /\ UNCHANGED callable
             [] item.do = "child" ->
                    /\ callable' = callable \cup {r}
                    /\ work' = Reached(r) \o Tail(work)
                    /\ UNCHANGED dynamic
    /\ UNCHANGED << source, phase, at, tables, classed, receiver, layout, output, program >>

(* resolve_code: a call of every exported rule that nobody wrote, so that  *)
(* callers in C find a vtbl where one is needed.                           *)
CallableExport ==
    /\ phase = "callable" /\ work = << >> /\ at < Len(exports)
    /\ at' = at + 1
    /\ work' = << [do |-> "call", rule |-> exports[at'], on |-> "self"] >>
    /\ marked' = marked \cup {exports[at']}
    /\ UNCHANGED << source, phase, tables, analysis, layout, generated, pending, program >>

LayOut ==
    /\ phase = "callable" /\ work = << >> /\ at = Len(exports)
    /\ phase' = "layout" /\ at' = 0
    /\ UNCHANGED << source, tables, work, analysis, layout, output, program >>

---------------------------------------------------------------------------
(* The layout of the objects.  Slot 0 of a module is the pointer to the    *)
(* vtbl of its methods, there if one of them is dispatched.                *)

AnyDynamic(m) == \E q \in dynamic : q.of = m

Pointer == [size |-> 4, align |-> 4, at |-> Floating]
FieldOf(s) == IF s.n = 0 THEN Pointer ELSE source.fields[s.of][s.n]
SlotsOf(m) ==
    { [of |-> m, n |-> i] :
        i \in DOMAIN source.fields[m] \cup (IF AnyDynamic(m) THEN {0} ELSE {}) }
(* resolve2_parent: the slots of the supertypes are slots of the module.   *)
AllSlots(m) == UNION { SlotsOf(a) : a \in Supertypes(m) }

AlignUp(x, a) == ((x + a - 1) \div a) * a

(* The slots of a module without a place come in the order of the source,  *)
(* the pointer last; those of its supertypes have places.                  *)
FirstFloat(floats) ==
    CHOOSE s \in floats : \A t \in floats : t.n = 0 \/ (s.n # 0 /\ s.n <= t.n)
(* The first of the slots whose place is known. *)
FirstFixed(fixed, put) == CHOOSE s \in fixed : \A t \in fixed : put[s] <= put[t]

(* A turn of the loop that gives the floating slots their places: the      *)
(* first of them goes where it is aligned, if it ends before the next slot *)
(* that has a place, else that slot is passed; so the gaps of a parent are *)
(* filled.                                                                 *)
PlaceNext(x) ==
    IF x.floats = {} THEN x
    ELSE LET s == FirstFloat(x.floats)
             start == AlignUp(x.next, FieldOf(s).align)
             end == start + FieldOf(s).size
             fixed == FirstFixed(x.fixed, x.put)
         IN  IF x.fixed # {} /\ end > x.put[fixed]
             THEN [x EXCEPT !.fixed = @ \ {fixed}, !.next = x.put[fixed] + FieldOf(fixed).size]
             ELSE [x EXCEPT !.floats = @ \ {s}, !.next = end,
                            !.put = [t \in DOMAIN @ \cup {s} |-> IF t = s THEN start ELSE @[t]]]

(* layout2. *)
Layout2(m) ==
    LET known == { s \in AllSlots(m) : s \in DOMAIN offset \/ FieldOf(s).at # Floating }
        place(s) == IF s \in DOMAIN offset THEN offset[s] ELSE FieldOf(s).at
        start == [fixed |-> known, floats |-> AllSlots(m) \ known, next |-> 0,
                  put |-> [s \in known |-> place(s)]]
        turns == Cardinality(AllSlots(m))
        after[i \in 0 .. turns] == IF i = 0 THEN start ELSE PlaceNext(after[i - 1])
    IN  after[turns].put

Disjoint(put, s, t) ==
    \/ put[s] + FieldOf(s).size <= put[t]
    \/ put[t] + FieldOf(t).size <= put[s]
AlignedAt(put, s) == put[s] % FieldOf(s).align = 0

(* Two neighbours overlap. *)
Overlap(put, s, t) ==
    /\ s # t /\ put[s] <= put[t] /\ put[t] < put[s] + FieldOf(s).size
    /\ ~ \E u \in DOMAIN put : put[s] < put[u] /\ put[u] < put[t]

(* Mutant: only what stands behind a slot of this module is looked at. *)
MisplacesBehind(m, put) ==
    \/ \E s \in DOMAIN put : s.of = m /\ ~ AlignedAt(put, s)
    \/ \E s, t \in DOMAIN put : Overlap(put, s, t) /\ s.of = m
(* What is reported: a slot of this module that is not aligned, and two    *)
(* neighbours that overlap, one of them of this module.                    *)
Misplaces(m, put) ==
    \/ \E s \in DOMAIN put : s.of = m /\ ~ AlignedAt(put, s)
    \/ \E s, t \in DOMAIN put : Overlap(put, s, t) /\ m \in {s.of, t.of}

LayoutStep ==
    /\ phase = "layout" /\ at < Len(Modules)
    /\ at' = at + 1
    /\ \E put \in {Layout2(Modules[at'])} :
           /\ offset' = [s \in DOMAIN offset \cup DOMAIN put |->
                            IF s \in DOMAIN offset THEN offset[s] ELSE put[s]]
           /\ misplaced' = (misplaced \/ Misplaces(Modules[at'], put))
    /\ UNCHANGED << source, phase, tables, work, analysis, output, program >>

Generate ==
    /\ phase = "layout" /\ at = Len(Modules) /\ ~ misplaced
    /\ phase' = "generate" /\ at' = 0
    /\ UNCHANGED << source, tables, work, analysis, layout, output, program >>

---------------------------------------------------------------------------
(* The code of a rule.  A place in the code is the function it is in (fn), *)
(* the rule whose body it comes from (src), the rules being inlined (inl), *)
(* and the object self has become there: its form and its type.            *)

Entry(rule) == [fn |-> rule, src |-> rule, inl |-> {},
                on |-> "self", type |-> ReceiverClass(rule.in)]

(* The object a call at a place is made on, and the type known for it. *)
ObjectOf(pl, call) ==
    IF call.on \in {"self", "super", "parent"} THEN [on |-> pl.on, type |-> pl.type]
    ELSE [on |-> IF call.on = "pointer" THEN "pointer" ELSE "object", type |-> call.type]

(* CallNode::fixed_rule, or NoRule if the vtbl has to decide. *)
NoRule == [in |-> NoModule, of |-> NoModule, name |-> "none"]
(* Mutant: the type a pointer is declared with is taken for that of the object. *)
PointerRule(rule, call, object) ==
    IF IsFixed(call) THEN rule
    ELSE IF object.on # "self" THEN VersionIn(object.type, MethodOf(rule))
    ELSE IF Leaf(Received(rule)) THEN Received(rule) ELSE NoRule
FixedRule(rule, call, object) ==
    IF IsFixed(call) THEN rule
    ELSE IF object.on = "object" THEN VersionIn(object.type, MethodOf(rule))
    ELSE IF Leaf(Received(rule)) THEN Received(rule) ELSE NoRule

(* InlineOptimizer::do_call, and for what it leaves CallFixer::do_call and *)
(* CallNode::gen_value_real.                                               *)
Bind(pl, call) ==
    LET object == ObjectOf(pl, call)
        rule == CallRule(pl.src, call)
        fixed == FixedRule(rule, call, object)
        seen == IF fixed # NoRule THEN fixed ELSE VersionIn(object.type, MethodOf(rule))
        inlines == /\ seen \in source.inline \ pl.inl
                   /\ Leaf(seen) \/ fixed # NoRule
        left == IF object.on = "self" /\ fixed = NoRule
                THEN VersionIn(ReceiverClass(pl.fn.in), MethodOf(rule)) ELSE rule
        target == FixedRule(left, call, object)
    IN  IF inlines
        THEN [how |-> "inlined", rule |-> seen,
              place |-> [fn |-> pl.fn, src |-> seen, inl |-> pl.inl \cup {seen},
                         on |-> object.on, type |-> object.type]]
        ELSE [how |-> IF target = NoRule THEN "dispatched" ELSE "called",
              rule |-> IF target = NoRule THEN left ELSE target, fixed |-> IsFixed(call)]

(* gen_prototypes: the version of the receiver class, if it is a leaf; for *)
(* a call on super, its rule and no other.                                 *)
Prototyped(bound) ==
    IF bound.how = "called" /\ ~ bound.fixed /\ Leaf(Received(bound.rule))
    THEN {Received(bound.rule)} ELSE {}

(* Mutant: only the rule of the prototype is marked. *)
PrototypesOnly(bounds) == UNION { Prototyped(b) : b \in bounds }
Marks(bounds) ==
    { b.rule : b \in { x \in bounds : x.how = "called" } }
        \cup UNION { Prototyped(b) : b \in bounds }

Bounds(pl) == LET body == source.body[pl.src] IN { Bind(pl, body[i]) : i \in DOMAIN body }

(* compile_exports goes on until no rule is left that needs code. *)
GenerateRule ==
    /\ phase = "generate" /\ pending = {}
    /\ \E r \in marked \ generated :
           /\ r = CHOOSE x \in marked \ generated : TRUE
           /\ generated' = generated \cup {r}
           /\ pending' = {Entry(r)}
    /\ UNCHANGED << source, phase, at, tables, work, analysis, layout, marked, program >>

(* The places behind the calls that are inlined at a place. *)
Inlined(bounds) == { b.place : b \in { x \in bounds : x.how = "inlined" } }

GenerateBody ==
    /\ phase = "generate"
    /\ \E pl \in pending :
           /\ pl = CHOOSE x \in pending : TRUE
           /\ marked' = marked \cup Marks(Bounds(pl))
           /\ pending' = (pending \ {pl}) \cup Inlined(Bounds(pl))
    /\ UNCHANGED << source, phase, at, tables, work, analysis, layout, generated, program >>

Link ==
    /\ phase = "generate" /\ pending = {} /\ marked \subseteq generated
    /\ phase' = "run"
    /\ UNCHANGED << source, at, tables, work, analysis, layout, output, program >>

---------------------------------------------------------------------------
(* The generated program.  The frame is a place in its code, the class of  *)
(* the object self is there, how control came there, and the definition    *)
(* the language selects.  It forgets its callers: what a method does after *)
(* a call returns is what it does when it is entered again.                *)

NoFrame == [how |-> "outside"]

(* A vtbl slot holds 0 for a method that is not dispatched. *)
VtblSlot(m, q) == IF q \in dynamic THEN VersionIn(m, q) ELSE NoRule

(* Callers in C call the rules that are exported, by their names: static   *)
(* ones, constructors of objects they have the room for, and methods of    *)
(* the objects there are.                                                  *)
Enter ==
    /\ phase = "run"
    /\ \E r \in ToSet(exports) :
           \E class \in IF r \in StaticRules \/ r.name = Constructor THEN {r.in}
                        ELSE { c \in made : HasAncestor(c, r.in) } :
              /\ frame' = [how |-> "exported", place |-> Entry(r), class |-> class, selected |-> r]
              /\ made' = IF r.name = Constructor THEN made \cup {class} ELSE made
    /\ UNCHANGED << source, phase, at, tables, work, analysis, layout, output >>

(* The classes of the object a call is made on, and the definition of the  *)
(* method the language selects for each: by its class, whatever it is      *)
(* declared as, except for super.                                          *)
Receivers(call) ==
    CASE call.on = "new" -> {call.type}
      [] call.on = "object" -> made \cap {call.type}
      [] call.on = "pointer" -> { c \in made : HasAncestor(c, call.type) }
      [] OTHER -> {frame.class}
Selected(s, call, class) ==
    LET rule == CallRule(s, call)
    IN  IF call.on \in {"super", "parent"} THEN rule ELSE VersionIn(class, MethodOf(rule))

Call ==
    /\ phase = "run" /\ frame # NoFrame /\ frame.place # NoRule
    /\ \E i \in DOMAIN source.body[frame.place.src] :
           LET call == source.body[frame.place.src][i]
               bound == Bind(frame.place, call)
           IN  \E class \in Receivers(call) :
                  LET rule == IF bound.how = "dispatched"
                              THEN VtblSlot(class, MethodOf(bound.rule)) ELSE bound.rule
                  IN  /\ frame' = [how |-> bound.how, class |-> class,
                                   selected |-> Selected(frame.place.src, call, class),
                                   place |-> CASE bound.how = "inlined" -> bound.place
                                               [] rule = NoRule -> NoRule
                                               [] OTHER -> Entry(rule)]
                      /\ made' = IF call.on = "new" THEN made \cup {class} ELSE made
    /\ UNCHANGED << source, phase, at, tables, work, analysis, layout, output >>

---------------------------------------------------------------------------
Resolve ==
    /\ phase = "resolve" /\ at < Len(Modules)
    /\ at' = at + 1
    /\ Resolve1(Modules[at'])
    /\ UNCHANGED << source, exports, phase, work, analysis, layout, output, program >>

(* analyze_exports: an export names a method as a module has it, or all    *)
(* the rules the module itself gives, its constructor among them.          *)
ExportRules(e) ==
    IF e.method = AllMethods
    THEN SetToSeq({ rules[e.in][q] : q \in { x \in DOMAIN rules[e.in] : rules[e.in][x].in = e.in } })
    ELSE << VersionIn(e.in, e.method) >>

Analyze ==
    /\ phase = "resolve" /\ at = Len(Modules)
    /\ phase' = "receiver" /\ at' = 0
    /\ exports' = FlattenSeq([i \in DOMAIN source.exports |-> ExportRules(source.exports[i])])
    /\ UNCHANGED << source, rules, owner, notLeaf, work, analysis, layout, output, program >>

Init ==
    /\ source \in [overrides : SUBSET Overridable, body : Bodies, exports : Exports,
                   inline : InlineChoices, fields : FieldChoices]
    /\ phase = "resolve" /\ at = 0
    /\ rules = << >> /\ owner = << >> /\ notLeaf = {} /\ exports = << >>
    /\ work = << >> /\ classed = {} /\ receiver = [m \in ModuleSet |-> NoModule]
    /\ callable = {} /\ dynamic = {}
    /\ offset = << >> /\ misplaced = FALSE
    /\ marked = {} /\ generated = {} /\ pending = {}
    /\ made = {} /\ frame = NoFrame

Next ==
    \/ Resolve \/ Analyze
    \/ ReceiverStep \/ ReceiverExport \/ MarkExportedConstructors
    \/ CallableStep \/ CallableExport
    \/ LayOut \/ LayoutStep
    \/ Generate \/ GenerateRule \/ GenerateBody \/ Link
    \/ Enter \/ Call

Spec == Init /\ [][Next]_vars

---------------------------------------------------------------------------
(* The definition of a method a call reaches is the most specific one in   *)
(* the supertypes of the class of the object, whatever the call was bound  *)
(* to and inlined into ("Method selection" of the manual).                 *)
SelectsByClass ==
    frame # NoFrame /\ frame.place # NoRule => frame.place.src = frame.selected

(* No call goes through a slot of a vtbl that was left 0. *)
SlotsFilled == frame # NoFrame => frame.place # NoRule

(* The functions the code of a function calls by their names are generated *)
(* when it is.                                                             *)
CalledIsGenerated ==
    [][ frame # NoFrame /\ frame'.how = "called" /\ frame.place.fn \in generated
        => frame'.place.fn \in generated ]_frame

(* A module that has a receiver class has the closest common ancestor of   *)
(* the classes the program makes objects of.                               *)
ReceiverCovers ==
    \A c \in made, m \in ModuleSet :
        HasAncestor(c, m) => HasAncestor(c, ReceiverClass(m))

(* In the objects of every class no two slots overlap, those of its        *)
(* supertypes and the vtbls included, and every slot is aligned.           *)
SlotsFit ==
    phase = "run" =>
        \A m \in ModuleSet :
            /\ \A s, t \in AllSlots(m) : s # t => Disjoint(offset, s, t)
            /\ \A s \in AllSlots(m) : AlignedAt(offset, s)
=============================================================================
