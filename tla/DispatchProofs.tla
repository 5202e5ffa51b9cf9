--------------------------- MODULE DispatchProofs ---------------------------
(***************************************************************************)
(* Proofs about code generation and the layout of objects (Dispatch).      *)
(*                                                                         *)
(* Rules are marked while others are generated, by calls that are bound    *)
(* only after inlining; when the loop of compile_exports ends, everything  *)
(* the generated code calls by its name has been generated.                *)
(*                                                                         *)
(* The places in the code of the generated functions form a set that is    *)
(* closed under inlining, but for what is pending.  The invariant says     *)
(* that there is such a set, that what is called from its places is        *)
(* marked, and that the program that runs is at one of them.               *)
(*                                                                         *)
(* In an object no two slots overlap and all are aligned: layout2 checks   *)
(* neighbours, of which one is a slot of the module, and that is enough as *)
(* the slots of the supertypes were checked and stay where they are.       *)
(***************************************************************************)
EXTENDS Dispatch, SequenceTheorems, FiniteSetTheorems, TLAPS

(* The loop that places the slots of a module: all are all of them, and    *)
(* put the places that were known before.                                  *)
PlaceTurn(q, i, x) == PlaceNext(x)
Places(all, put, i, x) ==
  /\ x = [fixed |-> x.fixed, floats |-> x.floats, next |-> x.next, put |-> x.put]
  /\ x.next \in Nat /\ x.fixed \subseteq all /\ x.fixed \subseteq DOMAIN x.put
  /\ x.floats \subseteq all /\ x.floats \cup DOMAIN x.put = all
  /\ \A s \in DOMAIN x.put : x.put[s] \in Nat
  /\ \A s \in DOMAIN put : s \in DOMAIN x.put /\ x.put[s] = put[s]
  /\ x.floats \cap DOMAIN put = {}
  /\ IsFiniteSet(x.fixed) /\ IsFiniteSet(x.floats)
  /\ x.floats = {} \/ Cardinality(x.fixed) + Cardinality(x.floats) + i <= Cardinality(all)
PlaceRel(p, i, x) == Places(p.all, p.put, i, x)
Placing == INSTANCE Iteration WITH Step <- PlaceTurn, Rel <- PlaceRel

(* The code at the places P was gone through, but for what is pending. *)
GoneThrough(P) ==
  /\ \A g \in generated : Entry(g) \in P
  /\ \A pl \in P \ pending : /\ Marks(Bounds(pl)) \subseteq marked
                             /\ Inlined(Bounds(pl)) \subseteq P

(* The program that runs is at one of these places, if it is in a function *)
(* that was generated.                                                     *)
FrameIn(P) ==
  frame # NoFrame /\ frame.place # NoRule /\ frame.place.fn \in generated
    => frame.place \in P

IInv ==
  /\ phase \in {"resolve", "receiver", "callable", "layout"} => generated = {} /\ pending = {}
  /\ phase = "run" => pending = {} /\ marked \subseteq generated
  /\ phase # "run" => frame = NoFrame
  /\ \E P : GoneThrough(P) /\ FrameIn(P)

(* No rule is generated before the phase of that name. *)
LEMMA NothingYet ==
  ASSUME generated = {}, pending = {}, frame = NoFrame
  PROVE  \E P : GoneThrough(P) /\ FrameIn(P)
<1>1. GoneThrough({}) /\ FrameIn({})
  BY DEF GoneThrough, FrameIn
<1> QED BY <1>1

(* How a call at a place is bound depends on what the analyses found.      *)
LEMMA SameBounds ==
  ASSUME UNCHANGED << source, tables, analysis >>, NEW P
  PROVE  /\ \A g : Entry(g)' = Entry(g)
         /\ \A pl : /\ Marks(Bounds(pl))' = Marks(Bounds(pl))
                    /\ Inlined(Bounds(pl))' = Inlined(Bounds(pl))
<1>1. source' = source /\ rules' = rules /\ notLeaf' = notLeaf /\ receiver' = receiver
  BY DEF tables, analysis
<1>2. \A m : ReceiverClass(m)' = ReceiverClass(m)
  BY <1>1 DEF ReceiverClass
<1>3. \A m, q : VersionIn(m, q)' = VersionIn(m, q)
  BY <1>1 DEF VersionIn
<1>4. \A r : Received(r)' = Received(r) /\ Leaf(r)' = Leaf(r)
  BY <1>1, <1>2, <1>3 DEF Received, Leaf
<1>5. \A s, c : CallRule(s, c)' = CallRule(s, c)
  BY <1>1, <1>3 DEF CallRule
<1>6. \A r, c, o : FixedRule(r, c, o)' = FixedRule(r, c, o)
  BY <1>3, <1>4 DEF FixedRule
<1>7. ASSUME NEW pl, NEW c PROVE Bind(pl, c)' = Bind(pl, c)
  BY <1>1, <1>2, <1>3, <1>4, <1>5, <1>6 DEF Bind, IsFixed
<1>8. \A pl : Bounds(pl)' = Bounds(pl)
  BY <1>1, <1>7 DEF Bounds
<1>9. \A b : Prototyped(b)' = Prototyped(b)
  BY <1>4 DEF Prototyped
<1>10. \A g : Entry(g)' = Entry(g)
  BY <1>2 DEF Entry
<1>11. \A pl : Marks(Bounds(pl))' = Marks(Bounds(pl))
  BY <1>8, <1>9 DEF Marks
<1>12. \A pl : Inlined(Bounds(pl))' = Inlined(Bounds(pl))
  BY <1>8 DEF Inlined
<1> QED BY <1>10, <1>11, <1>12

(* A rule more: its code is still to be gone through. *)
LEMMA GenerateRuleOK == ASSUME IInv, GenerateRule PROVE IInv'
<1>1. PICK P : GoneThrough(P) /\ FrameIn(P)
  BY DEF IInv
<1>2. PICK r \in marked \ generated : generated' = generated \cup {r} /\ pending' = {Entry(r)}
  BY DEF GenerateRule
<1>3. /\ pending = {} /\ marked' = marked /\ phase' = phase /\ phase = "generate"
      /\ frame = NoFrame /\ frame' = NoFrame
      /\ UNCHANGED << source, tables, analysis >>
  BY DEF GenerateRule, IInv, program
<1>4. GoneThrough(P \cup {Entry(r)})' /\ FrameIn(P \cup {Entry(r)})'
  BY <1>1, <1>2, <1>3, SameBounds DEF GoneThrough, FrameIn
<1> QED BY <1>3, <1>4 DEF IInv

(* The code at a place: what it calls is marked, what it inlines is        *)
(* pending.                                                                *)
LEMMA GenerateBodyOK == ASSUME IInv, GenerateBody PROVE IInv'
<1>1. PICK P : GoneThrough(P) /\ FrameIn(P)
  BY DEF IInv
<1>2. PICK pl \in pending : /\ marked' = marked \cup Marks(Bounds(pl))
                            /\ pending' = (pending \ {pl}) \cup Inlined(Bounds(pl))
  BY DEF GenerateBody
<1>3. /\ generated' = generated /\ phase' = phase /\ phase = "generate"
      /\ frame = NoFrame /\ frame' = NoFrame
      /\ UNCHANGED << source, tables, analysis >>
  BY DEF GenerateBody, IInv, program
<1> DEFINE Q == P \cup Inlined(Bounds(pl))
<1>4. GoneThrough(Q)'
  BY <1>1, <1>2, <1>3, SameBounds DEF GoneThrough
<1>5. FrameIn(Q)'
  BY <1>3 DEF FrameIn
<1> QED BY <1>3, <1>4, <1>5 DEF IInv

(* The rest of the compiler. *)
LEMMA OtherPhases ==
  ASSUME IInv, [Next]_vars, ~GenerateRule, ~GenerateBody, phase # "run"
  PROVE  IInv' /\ frame' = frame
<1>1. /\ generated' = generated /\ pending' = pending /\ frame' = frame
      /\ frame = NoFrame
  BY DEF IInv, Next, Resolve, Analyze, ReceiverStep, ReceiverExport, MarkExportedConstructors,
         CallableStep, CallableExport, LayOut, LayoutStep, Generate, Link, Enter, Call, vars,
         output, program
<1>2. CASE phase = "generate"
  <2>1. /\ marked' = marked /\ UNCHANGED << source, tables, analysis >>
        /\ phase' \in {"generate", "run"}
        /\ phase' = "run" => pending = {} /\ marked \subseteq generated
    BY <1>2 DEF Next, Resolve, Analyze, ReceiverStep, ReceiverExport, MarkExportedConstructors,
         CallableStep, CallableExport, LayOut, LayoutStep, Generate, Link, Enter, Call, vars,
         output
  <2>2. PICK P : GoneThrough(P) /\ FrameIn(P)
    BY DEF IInv
  <2>3. GoneThrough(P)' /\ FrameIn(P)'
    BY <1>1, <2>1, <2>2, SameBounds DEF GoneThrough, FrameIn
  <2> QED BY <1>1, <2>1, <2>3 DEF IInv
<1>3. CASE phase # "generate" /\ generated = {} /\ pending = {}
  <2>1. phase' # "run"
    BY <1>3 DEF Next, Resolve, Analyze, ReceiverStep, ReceiverExport, MarkExportedConstructors,
         CallableStep, CallableExport, LayOut, LayoutStep, Generate, Link, Enter, Call, vars
  <2>2. (\E P : GoneThrough(P) /\ FrameIn(P))'
    <3>1. generated' = {} /\ pending' = {} /\ frame' = NoFrame
      BY <1>1, <1>3
    <3>2. GoneThrough({})' /\ FrameIn({})'
      BY <3>1 DEF GoneThrough, FrameIn
    <3> QED BY <3>2
  <2> QED BY <1>1, <1>3, <2>1, <2>2 DEF IInv
<1>4. CASE phase \notin {"generate", "resolve", "receiver", "callable", "layout"}
  <2>1. UNCHANGED << vars >>
    BY <1>4 DEF Next, Resolve, Analyze, ReceiverStep, ReceiverExport, MarkExportedConstructors,
         CallableStep, CallableExport, LayOut, LayoutStep, Generate, GenerateRule, GenerateBody,
         Link, Enter, Call
  <2>2. /\ phase' = phase /\ marked' = marked /\ UNCHANGED << source, tables, analysis >>
    BY <2>1 DEF vars, output
  <2>3. PICK P : GoneThrough(P) /\ FrameIn(P)
    BY DEF IInv
  <2>4. GoneThrough(P)' /\ FrameIn(P)'
    BY <1>1, <2>2, <2>3, SameBounds DEF GoneThrough, FrameIn
  <2> QED BY <1>1, <1>4, <2>2, <2>4 DEF IInv
<1> QED BY <1>2, <1>3, <1>4 DEF IInv

(* The program that runs calls what was generated. *)
CallsGenerated ==
  frame # NoFrame /\ frame'.how = "called" /\ frame.place.fn \in generated
    => frame'.place.fn \in generated

(* A call: inlined code stays at the places, and so does what is entered. *)
LEMMA CallOK ==
  ASSUME IInv, Call
  PROVE  IInv' /\ CallsGenerated
<1>1. PICK P : GoneThrough(P) /\ FrameIn(P)
  BY DEF IInv
<1>2. /\ phase = "run" /\ phase' = phase /\ pending = {} /\ marked \subseteq generated
      /\ generated' = generated /\ pending' = pending /\ marked' = marked
      /\ UNCHANGED << source, tables, analysis >>
      /\ frame # NoFrame /\ frame.place # NoRule
  BY DEF Call, IInv, output
<1> DEFINE pl == frame.place
<1> DEFINE Enters(class, call, bound, rule) ==
             frame' = [how |-> bound.how, class |-> class,
                       selected |-> Selected(pl.src, call, class),
                       place |-> CASE bound.how = "inlined" -> bound.place
                                  [] rule = NoRule -> NoRule
                                  [] OTHER -> Entry(rule)]
           Target(class, bound) == IF bound.how = "dispatched"
                                   THEN VtblSlot(class, MethodOf(bound.rule)) ELSE bound.rule
<1>3. PICK i \in DOMAIN source.body[pl.src] :
        \E class : Enters(class, source.body[pl.src][i], Bind(pl, source.body[pl.src][i]),
                         Target(class, Bind(pl, source.body[pl.src][i])))
  BY DEF Call
<1> DEFINE call  == source.body[pl.src][i]
           bound == Bind(pl, call)
<1>4. PICK class : Enters(class, call, bound, Target(class, bound))
  BY <1>3
<1> DEFINE rule == Target(class, bound)
<1>5. /\ bound.how = "called" => rule = bound.rule
      /\ frame'.how = bound.how
      /\ frame'.place = CASE bound.how = "inlined" -> bound.place
                          [] rule = NoRule -> NoRule
                          [] OTHER -> Entry(rule)
  <2> HIDE DEF bound, call
  <2> QED BY <1>4
<1>6. bound \in Bounds(pl)
  BY DEF Bounds
<1>7. bound.how = "inlined" => bound.place.fn = pl.fn
  BY DEF Bind
<1>8. bound.how = "called" => bound.rule # NoRule
  BY DEF Bind
<1>9. \A r : Entry(r).fn = r
  BY DEF Entry
<1> HIDE DEF bound, call, rule
<1>10. ASSUME pl.fn \in generated
       PROVE  /\ bound.how = "called" => bound.rule \in generated
              /\ bound.how = "inlined" => bound.place \in P
  <2>1. pl \in P \ pending
    BY <1>1, <1>2, <1>10 DEF FrameIn
  <2>2. bound.how = "called" => bound.rule \in Marks(Bounds(pl))
    BY <1>6 DEF Marks
  <2>3. bound.how = "inlined" => bound.place \in Inlined(Bounds(pl))
    BY <1>6 DEF Inlined
  <2> QED BY <1>1, <1>2, <2>1, <2>2, <2>3, SMTT(30) DEF GoneThrough
<1>11. CallsGenerated
  <2> SUFFICES ASSUME frame'.how = "called", pl.fn \in generated
               PROVE  frame'.place.fn \in generated
    BY DEF CallsGenerated
  <2>1. bound.how = "called" /\ rule = bound.rule /\ rule # NoRule
    BY <1>5, <1>8, SMTT(30)
  <2>2. frame'.place = Entry(bound.rule)
    BY <1>5, <2>1, SMTT(30)
  <2> QED BY <1>9, <1>10, <2>1, <2>2
<1>12. FrameIn(P)'
  <2> SUFFICES ASSUME frame'.place # NoRule, frame'.place.fn \in generated
               PROVE  frame'.place \in P
    BY <1>2 DEF FrameIn
  <2>1. CASE bound.how = "inlined"
    BY <1>5, <1>7, <1>10, <2>1, SMTT(30)
  <2>2. CASE bound.how # "inlined"
    <3>1. frame'.place = Entry(rule)
      BY <1>5, <2>2, SMTT(30)
    <3> QED BY <1>1, <1>9, <3>1 DEF GoneThrough
  <2> QED BY <2>1, <2>2
<1>13. GoneThrough(P)'
  BY <1>1, <1>2, SameBounds DEF GoneThrough
<1> QED BY <1>2, <1>11, <1>12, <1>13 DEF IInv

(* A caller in C enters an exported function. *)
LEMMA EnterOK ==
  ASSUME IInv, Enter
  PROVE  IInv' /\ CallsGenerated
<1>1. PICK P : GoneThrough(P) /\ FrameIn(P)
  BY DEF IInv
<1>2. /\ phase = "run" /\ phase' = phase /\ pending = {} /\ marked \subseteq generated
      /\ generated' = generated /\ pending' = pending /\ marked' = marked
      /\ UNCHANGED << source, tables, analysis >>
  BY DEF Enter, IInv, output
<1>3. PICK r : frame'.how = "exported" /\ frame'.place = Entry(r)
  BY DEF Enter
<1>4. FrameIn(P)'
  BY <1>1, <1>2, <1>3 DEF FrameIn, GoneThrough, Entry
<1>5. GoneThrough(P)'
  BY <1>1, <1>2, SameBounds DEF GoneThrough
<1> QED BY <1>2, <1>3, <1>4, <1>5 DEF IInv, CallsGenerated

(* While the program runs there is nothing else. *)
LEMMA RunOK ==
  ASSUME IInv, [Next]_vars, phase = "run"
  PROVE  IInv' /\ (frame' = frame \/ CallsGenerated)
<1>1. CASE Enter \/ Call
  BY <1>1, CallOK, EnterOK
<1>2. CASE UNCHANGED vars
  <2>1. /\ phase' = phase /\ marked' = marked /\ generated' = generated
        /\ pending' = pending /\ frame' = frame /\ UNCHANGED << source, tables, analysis >>
    BY <1>2 DEF vars, output, program
  <2>2. PICK P : GoneThrough(P) /\ FrameIn(P)
    BY DEF IInv
  <2>3. GoneThrough(P)' /\ FrameIn(P)'
    BY <2>1, <2>2, SameBounds DEF GoneThrough, FrameIn
  <2> QED BY <2>1, <2>3 DEF IInv
<1> QED BY <1>1, <1>2 DEF Next, Resolve, Analyze, ReceiverStep, ReceiverExport,
           MarkExportedConstructors, CallableStep, CallableExport, LayOut, LayoutStep,
           Generate, GenerateRule, GenerateBody, Link

(* The invariant holds in every state. *)
THEOREM Invariance == Spec => []IInv
<1>1. Init => IInv
  BY NothingYet DEF Init, IInv
<1>2. IInv /\ [Next]_vars => IInv'
  BY GenerateRuleOK, GenerateBodyOK, OtherPhases, RunOK
<1> QED BY <1>1, <1>2, PTL DEF Spec

(* CalledIsGenerated: for any modules, bodies, exports and choice of what  *)
(* to inline, compile_exports has generated whatever a generated function  *)
(* calls by its name, however the call was bound.                          *)
THEOREM CalledIsGeneratedHolds == Spec => CalledIsGenerated
<1>1. IInv /\ [Next]_vars => [CallsGenerated]_frame
  <2> SUFFICES ASSUME IInv, [Next]_vars, frame' # frame PROVE CallsGenerated
    OBVIOUS
  <2>1. ~GenerateRule /\ ~GenerateBody
    BY DEF GenerateRule, GenerateBody, program
  <2> QED BY <2>1, OtherPhases, RunOK
<1>2. Spec => [][CallsGenerated]_frame
  BY <1>1, Invariance, PTL DEF Spec
<1> QED BY <1>2 DEF CalledIsGenerated, CallsGenerated

(***************************************************************************)
(* The layout of the objects.  What is checked after the slots of a module *)
(* are placed is enough: SlotsFit needs nothing of how they are placed but *)
(* that all of them are, and that those of the supertypes stay where they  *)
(* were.                                                                   *)
(***************************************************************************)
(* The first m modules, and the lines of their supertypes. *)
Above(m) == { x \in ModuleSet : Index(x) <= m }
LineTo(k, f) ==
  f = [m \in Above(k) |-> << m >> \o (IF Parent[m] = NoModule THEN << >> ELSE f[Parent[m]])]

(* A module is at its index. *)
LEMMA IndexFacts ==
  ASSUME NEW m \in ModuleSet
  PROVE  Index(m) \in 1..Len(Modules) /\ Modules[Index(m)] = m
<1>1. Modules \in Seq(ModuleSet)
  BY SlotAssumption
<1>2. DOMAIN Modules = 1..Len(Modules)
  BY <1>1
<1>3. \E i \in DOMAIN Modules : Modules[i] = m
  BY DEF ModuleSet
<1> QED BY <1>2, <1>3 DEF Index

(* The parent of a module comes before it. *)
LEMMA ParentFacts ==
  ASSUME NEW m \in ModuleSet, Parent[m] # NoModule
  PROVE  Parent[m] \in ModuleSet /\ Index(Parent[m]) < Index(m)
BY SourceAssumption

(* The lines of the first modules exist: of the first number of them for   *)
(* which they do not they would, by one line more.                         *)
LEMMA LinesExist ==
  ASSUME NEW n \in Nat
  PROVE  \E f : LineTo(n, f)
<1> DEFINE Bad == {k \in Nat : ~ \E f : LineTo(k, f)}
<1>1. SUFFICES ASSUME Bad # {} PROVE FALSE
  OBVIOUS
<1>2. PICK k \in Bad : \A j \in Bad : k <= j
  BY <1>1, Placing!LeastExists
<1>3. k # 0
  <2>1. SUFFICES ASSUME k = 0 PROVE \E f : LineTo(0, f)
    BY DEF Bad
  <2> DEFINE f == [m \in Above(0) |-> << m >>]
  <2>2. Above(0) = {}
    BY IndexFacts DEF Above
  <2>3. f = [m \in Above(0) |-> << m >> \o (IF Parent[m] = NoModule THEN << >> ELSE f[Parent[m]])]
    BY <2>2
  <2> QED BY <2>3 DEF LineTo
<1>4. k - 1 \in Nat /\ k - 1 \notin Bad
  BY <1>2, <1>3
<1>5. PICK g : LineTo(k - 1, g)
  BY <1>4
<1> DEFINE Next1(h, m) == << m >> \o (IF Parent[m] = NoModule THEN << >> ELSE h[Parent[m]])
           f == [m \in Above(k) |-> IF m \in Above(k - 1) THEN g[m] ELSE Next1(g, m)]
<1>6. \A m \in Above(k - 1) : g[m] = Next1(g, m)
  BY <1>5 DEF LineTo
<1>7. ASSUME NEW m \in Above(k) PROVE f[m] = Next1(f, m)
  <2>1. m \in ModuleSet /\ Index(m) \in Nat /\ Index(m) <= k
    BY IndexFacts DEF Above
  <2>2. Parent[m] # NoModule => /\ Parent[m] \in Above(k - 1) /\ Parent[m] \in Above(k)
    BY <2>1, <1>4, ParentFacts, IndexFacts DEF Above
  <2>3. Parent[m] # NoModule => f[Parent[m]] = g[Parent[m]]
    BY <2>2
  <2>4. Next1(f, m) = Next1(g, m)
    BY <2>3
  <2>5. f[m] = Next1(g, m)
    BY <1>6
  <2> QED BY <2>4, <2>5
<1>8. f = [m \in Above(k) |-> f[m]]
  OBVIOUS
<1> HIDE DEF f
<1>9. f = [m \in Above(k) |-> Next1(f, m)]
  BY <1>7, <1>8
<1>10. LineTo(k, f)
  BY <1>9 DEF LineTo
<1> QED BY <1>10 DEF Bad

(* A line is the module and the line of its parent. *)
LEMMA LineFacts ==
  ASSUME NEW m \in ModuleSet
  PROVE  Line[m] = << m >> \o (IF Parent[m] = NoModule THEN << >> ELSE Line[Parent[m]])
<1> DEFINE n == Len(Modules)
<1>1. n \in Nat
  BY SlotAssumption
<1>2. Above(n) = ModuleSet
  BY <1>1, IndexFacts DEF Above
<1>3. \E f : f = [x \in ModuleSet |-> << x >> \o (IF Parent[x] = NoModule THEN << >> ELSE f[Parent[x]])]
  BY <1>1, <1>2, LinesExist DEF LineTo
<1>4. Line = [x \in ModuleSet |-> << x >> \o (IF Parent[x] = NoModule THEN << >> ELSE Line[Parent[x]])]
  BY <1>3 DEF Line
<1> QED BY <1>4

(* It is a sequence of modules. *)
LEMMA LineIsSeq == \A m \in ModuleSet : Line[m] \in Seq(ModuleSet)
<1> DEFINE Bad == {k \in Nat : \E m \in ModuleSet : Index(m) = k /\ Line[m] \notin Seq(ModuleSet)}
<1>1. ASSUME Bad # {} PROVE FALSE
  <2>1. PICK k \in Bad : \A j \in Bad : k <= j
    BY <1>1, Placing!LeastExists
  <2>2. PICK m \in ModuleSet : Index(m) = k /\ Line[m] \notin Seq(ModuleSet)
    BY <2>1
  <2>3. << m >> \in Seq(ModuleSet)
    OBVIOUS
  <2>4. CASE Parent[m] = NoModule
    <3>1. Line[m] = << m >> \o << >>
      BY <2>4, LineFacts
    <3>2. << >> \in Seq(ModuleSet)
      OBVIOUS
    <3> QED BY <3>1, <3>2, <2>2, <2>3, ConcatProperties
  <2>5. CASE Parent[m] # NoModule
    <3> DEFINE p == Parent[m]
    <3>1. p \in ModuleSet /\ Index(p) < k /\ Index(p) \in Nat
      BY <2>2, <2>5, ParentFacts, IndexFacts
    <3>2. Index(p) \notin Bad
      BY <2>1, <3>1
    <3>3. Line[p] \in Seq(ModuleSet)
      BY <3>1, <3>2
    <3>4. Line[m] = << m >> \o Line[p]
      BY <2>5, LineFacts
    <3> QED BY <3>3, <3>4, <2>2, <2>3, ConcatProperties
  <2> QED BY <2>4, <2>5
<1>2. ASSUME NEW m \in ModuleSet PROVE Line[m] \in Seq(ModuleSet)
  BY <1>1, IndexFacts
<1> QED BY <1>2

(* The supertypes of a module: itself, and those of its parent. *)
LEMMA SupertypesFacts ==
  ASSUME NEW m \in ModuleSet
  PROVE  /\ Supertypes(m) = {m} \cup (IF Parent[m] = NoModule THEN {} ELSE Supertypes(Parent[m]))
         /\ Supertypes(m) \subseteq ModuleSet
<1> DEFINE r == IF Parent[m] = NoModule THEN << >> ELSE Line[Parent[m]]
<1>1. r \in Seq(ModuleSet)
  BY LineIsSeq, ParentFacts
<1>2. Line[m] = << m >> \o r
  BY LineFacts
<1>3. << m >> \in Seq(ModuleSet) /\ Len(<< m >>) = 1 /\ << m >>[1] = m
  OBVIOUS
<1>4. {r[i] : i \in DOMAIN r} = IF Parent[m] = NoModule THEN {} ELSE Supertypes(Parent[m])
  BY DEF Supertypes
<1> HIDE DEF r
<1>5. Len(r) \in Nat /\ DOMAIN r = 1..Len(r)
  BY <1>1
<1>6. /\ DOMAIN (<< m >> \o r) = 1..(1 + Len(r))
      /\ (<< m >> \o r)[1] = m
      /\ \A i \in 1..Len(r) : (<< m >> \o r)[i + 1] = r[i]
  BY <1>1, <1>3, <1>5
<1> DEFINE l == << m >> \o r
<1>7. {l[i] : i \in DOMAIN l} = {m} \cup {r[i] : i \in DOMAIN r}
  <2> HIDE DEF l
  <2>1. ASSUME NEW i \in DOMAIN l PROVE l[i] \in {m} \cup {r[j] : j \in DOMAIN r}
    <3>1. i = 1 \/ (i - 1 \in 1..Len(r) /\ i = (i - 1) + 1)
      BY <1>5, <1>6 DEF l
    <3> QED BY <3>1, <1>5, <1>6 DEF l
  <2>2. m \in {l[i] : i \in DOMAIN l}
    <3>1. 1 \in DOMAIN l /\ l[1] = m
      BY <1>5, <1>6 DEF l
    <3> QED BY <3>1
  <2>3. ASSUME NEW j \in DOMAIN r PROVE r[j] \in {l[i] : i \in DOMAIN l}
    <3>1. j + 1 \in DOMAIN l /\ l[j + 1] = r[j]
      BY <1>5, <1>6 DEF l
    <3> QED BY <3>1
  <2> QED BY <2>1, <2>2, <2>3
<1>8. Supertypes(m) = {l[i] : i \in DOMAIN l}
  BY <1>2 DEF Supertypes
<1>9. Supertypes(m) \subseteq ModuleSet
  <2>1. {r[i] : i \in DOMAIN r} \subseteq ModuleSet
    BY <1>1
  <2> QED BY <2>1, <1>7, <1>8
<1> QED BY <1>4, <1>7, <1>8, <1>9

(* The slots of a module: its own, and those of its parent. *)
LEMMA SlotsFacts ==
  ASSUME NEW m \in ModuleSet
  PROVE  /\ AllSlots(m) = SlotsOf(m) \cup (IF Parent[m] = NoModule THEN {} ELSE AllSlots(Parent[m]))
         /\ \A s \in AllSlots(m) : s.of \in ModuleSet
<1>1. AllSlots(m) = SlotsOf(m) \cup (IF Parent[m] = NoModule THEN {} ELSE AllSlots(Parent[m]))
  BY SupertypesFacts DEF AllSlots
<1>2. \A a, s : s \in SlotsOf(a) => s.of = a
  BY DEF SlotsOf
<1>3. \A s \in AllSlots(m) : s.of \in ModuleSet
  BY <1>2, SupertypesFacts DEF AllSlots
<1> QED BY <1>1, <1>3

(* What is known of a slot, and that a module has finitely many. *)
LEMMA SlotTypes ==
  ASSUME source.fields \in FieldChoices, NEW m \in ModuleSet
  PROVE  /\ \A s \in SlotsOf(m) :
              /\ s.of = m /\ s.n \in Nat
              /\ FieldOf(s).size \in Nat \ {0} /\ FieldOf(s).align \in Nat \ {0}
              /\ FieldOf(s).at \in Nat \cup {Floating}
         /\ IsFiniteSet(SlotsOf(m))
<1> DEFINE q == source.fields[m]
           D == DOMAIN q \cup (IF AnyDynamic(m) THEN {0} ELSE {})
<1>1. q \in Seq([size : Nat \ {0}, align : Nat \ {0}, at : Nat \cup {Floating}])
  BY SlotAssumption
<1>2. DOMAIN q = 1..Len(q) /\ Len(q) \in Nat
  BY <1>1
<1>3. ASSUME NEW i \in D
      PROVE  LET s == [of |-> m, n |-> i]
             IN /\ s.of = m /\ s.n \in Nat
                /\ FieldOf(s).size \in Nat \ {0} /\ FieldOf(s).align \in Nat \ {0}
                /\ FieldOf(s).at \in Nat \cup {Floating}
  <2> DEFINE s == [of |-> m, n |-> i]
  <2>1. s.of = m /\ s.n = i
    OBVIOUS
  <2>2. CASE i = 0
    <3>1. FieldOf(s) = Pointer
      BY <2>1, <2>2 DEF FieldOf
    <3> QED BY <2>1, <2>2, <3>1 DEF Pointer
  <2>3. CASE i # 0
    <3>1. i \in 1..Len(q)
      BY <1>2, <2>3
    <3>2. FieldOf(s) = q[i]
      BY <2>1, <2>3 DEF FieldOf
    <3>3. q[i] \in [size : Nat \ {0}, align : Nat \ {0}, at : Nat \cup {Floating}]
      BY <1>1, <1>2, <3>1, ElementOfSeq
    <3>4. /\ q[i].size \in Nat \ {0} /\ q[i].align \in Nat \ {0}
          /\ q[i].at \in Nat \cup {Floating}
      BY <3>3
    <3>5. i \in Nat
      BY <1>2, <3>1
    <3> HIDE DEF q, s
    <3>6. /\ s.of = m /\ s.n \in Nat
          /\ FieldOf(s).size \in Nat \ {0} /\ FieldOf(s).align \in Nat \ {0}
          /\ FieldOf(s).at \in Nat \cup {Floating}
      BY <2>1, <3>2, <3>4, <3>5
    <3> QED BY <3>6 DEF s
  <2> QED BY <2>2, <2>3
<1>4. SlotsOf(m) = {[of |-> m, n |-> i] : i \in D}
  BY DEF SlotsOf
<1>5. IsFiniteSet(D)
  <2>1. IsFiniteSet(1..Len(q)) /\ IsFiniteSet({0}) /\ IsFiniteSet({})
    <3>1. 1 \in Int /\ Len(q) \in Int
      BY <1>2
    <3> HIDE DEF q
    <3> QED BY <3>1, FS_Interval, FS_Singleton, FS_EmptySet
  <2> DEFINE E == IF AnyDynamic(m) THEN {0} ELSE {}
  <2>2. E = {0} \/ E = {}
    OBVIOUS
  <2>3. IsFiniteSet(E)
    BY <2>1, <2>2
  <2>4. IsFiniteSet(DOMAIN q)
    BY <1>2, <2>1
  <2> HIDE DEF q, E
  <2>5. IsFiniteSet(DOMAIN q \cup E)
    BY <2>3, <2>4, FS_Union
  <2> QED BY <2>5 DEF E
<1>6. IsFiniteSet(SlotsOf(m))
  <2> HIDE DEF D
  <2> DEFINE f == [i \in D |-> [of |-> m, n |-> i]]
  <2>1. f \in Surjection(D, SlotsOf(m))
    BY <1>4 DEF Surjection
  <2> QED BY <1>5, <2>1, FS_Surjection
<1> QED BY <1>3, <1>4, <1>6

(* Alignment goes from a number to a number. *)
LEMMA AlignUpFacts ==
  ASSUME NEW x \in Nat, NEW a \in Nat \ {0}
  PROVE  AlignUp(x, a) \in Nat
<1> DEFINE q == (x + a - 1) \div a
<1>1. q \in Int
  OBVIOUS
<1>2. q >= 0
  OBVIOUS
<1>3. q * a \in Nat
  <2> HIDE DEF q
  <2> QED BY <1>1, <1>2
<1> QED BY <1>3 DEF AlignUp

(* There is a first slot without a place. *)
LEMMA FirstFloatFacts ==
  ASSUME NEW S, S # {}, \A s \in S : s.n \in Nat
  PROVE  FirstFloat(S) \in S
<1> DEFINE N == {s.n : s \in {x \in S : x.n # 0}}
<1>1. \E s \in S : \A t \in S : t.n = 0 \/ (s.n # 0 /\ s.n <= t.n)
  <2>1. CASE N = {}
    BY <2>1
  <2>2. CASE N # {}
    <3>1. PICK k \in N : \A j \in N : k <= j
      BY <2>2, Placing!LeastExists
    <3> QED BY <3>1
  <2> QED BY <2>1, <2>2
<1> QED BY <1>1 DEF FirstFloat

(* And a first with one. *)
LEMMA FirstFixedFacts ==
  ASSUME NEW S, S # {}, NEW put, \A s \in S : put[s] \in Nat
  PROVE  FirstFixed(S, put) \in S
<1> DEFINE N == {put[s] : s \in S}
<1>1. PICK k \in N : \A j \in N : k <= j
  BY Placing!LeastExists
<1>2. \E s \in S : \A t \in S : put[s] <= put[t]
  BY <1>1
<1> QED BY <1>2 DEF FirstFixed

(* The neighbours among overlapping slots are the nearest of them, so one  *)
(* that overlaps another is reported if those of the supertypes do not     *)
(* overlap each other.                                                     *)
LEMMA CheckSuffices ==
  ASSUME NEW m, NEW put, NEW P,
         \A s \in DOMAIN put : put[s] \in Nat /\ FieldOf(s).size \in Nat \ {0},
         \A s \in DOMAIN put : s \notin P => s.of = m,
         \A s, t \in DOMAIN put : s \in P /\ t \in P /\ s # t => Disjoint(put, s, t),
         ~Misplaces(m, put)
  PROVE  \A s, t \in DOMAIN put : s # t => Disjoint(put, s, t)
<1> DEFINE Crossed(s, t) == s # t /\ put[s] <= put[t] /\ put[t] < put[s] + FieldOf(s).size
           Bad == {d \in Nat : \E s, t \in DOMAIN put : Crossed(s, t) /\ d = put[t] - put[s]}
<1>1. ASSUME Bad # {} PROVE FALSE
  <2>1. PICK d \in Bad : \A j \in Bad : d <= j
    BY <1>1, Placing!LeastExists
  <2>2. PICK s \in DOMAIN put, t \in DOMAIN put : Crossed(s, t) /\ d = put[t] - put[s]
    BY <2>1
  <2>3. put[s] \in Nat /\ put[t] \in Nat /\ FieldOf(s).size \in Nat /\ FieldOf(t).size \in Nat \ {0}
    OBVIOUS
  <2>4. ~ Disjoint(put, s, t)
    BY <2>2, <2>3 DEF Disjoint
  <2>5. s.of = m \/ t.of = m
    BY <2>2, <2>4
  <2>6. ASSUME NEW u \in DOMAIN put, put[s] < put[u], put[u] < put[t] PROVE FALSE
    <3>1. put[u] \in Nat
      OBVIOUS
    <3>2. Crossed(s, u)
      BY <2>2, <2>3, <2>6, <3>1
    <3>3. put[u] - put[s] \in Nat /\ put[u] - put[s] < d
      BY <2>2, <2>3, <2>6, <3>1
    <3> QED BY <2>1, <3>2, <3>3
  <2>7. Overlap(put, s, t)
    BY <2>2, <2>6 DEF Overlap
  <2> QED BY <2>5, <2>7 DEF Misplaces
<1>2. ASSUME NEW s \in DOMAIN put, NEW t \in DOMAIN put, s # t PROVE Disjoint(put, s, t)
  <2>1. put[s] \in Nat /\ put[t] \in Nat /\ FieldOf(s).size \in Nat /\ FieldOf(t).size \in Nat
    OBVIOUS
  <2>2. ~Crossed(s, t)
    <3>1. Crossed(s, t) => put[t] - put[s] \in Nat
      BY <2>1
    <3> QED BY <1>1, <3>1
  <2>3. ~Crossed(t, s)
    <3>1. Crossed(t, s) => put[s] - put[t] \in Nat
      BY <2>1
    <3> QED BY <1>1, <3>1
  <2> QED BY <1>2, <2>1, <2>2, <2>3 DEF Disjoint
<1> QED BY <1>2

(***************************************************************************)
(* The placement.                                                          *)
(***************************************************************************)
(* The slots of a module whose place is known, and that place. *)
Known(m) == { s \in AllSlots(m) : s \in DOMAIN offset \/ FieldOf(s).at # Floating }
PlaceOf(s) == IF s \in DOMAIN offset THEN offset[s] ELSE FieldOf(s).at
Unplaced(m) ==
  [fixed |-> Known(m), floats |-> AllSlots(m) \ Known(m), next |-> 0,
   put |-> [s \in Known(m) |-> PlaceOf(s)]]

(* The layout is a loop over as many turns as there are slots. *)
LEMMA LayoutIsLoop ==
  ASSUME NEW m
  PROVE  Layout2(m) = Placing!Result(0, Unplaced(m), Cardinality(AllSlots(m))).put
BY DEF Layout2, Placing!Result, PlaceTurn, Unplaced, Known, PlaceOf

(* A turn gives a place to a slot or passes one. *)
LEMMA PlaceNextOK ==
  ASSUME NEW A, \A s \in A : s.n \in Nat /\ FieldOf(s).size \in Nat \ {0} /\ FieldOf(s).align \in Nat \ {0},
         NEW i \in Nat, NEW put, NEW x, Places(A, put, i, x)
  PROVE  Places(A, put, i + 1, PlaceNext(x))
<1> DEFINE z == PlaceNext(x)
           s == FirstFloat(x.floats)
           start == AlignUp(x.next, FieldOf(s).align)
           end == start + FieldOf(s).size
           t == FirstFixed(x.fixed, x.put)
<1> SUFFICES Places(A, put, i + 1, z)
  OBVIOUS
<1>1. /\ x = [fixed |-> x.fixed, floats |-> x.floats, next |-> x.next, put |-> x.put]
      /\ x.next \in Nat /\ x.fixed \subseteq A /\ x.fixed \subseteq DOMAIN x.put /\ x.floats \subseteq A
      /\ x.floats \cup DOMAIN x.put = A
      /\ \A u \in DOMAIN x.put : x.put[u] \in Nat
      /\ \A u \in DOMAIN put : u \in DOMAIN x.put /\ x.put[u] = put[u]
      /\ x.floats \cap DOMAIN put = {}
      /\ IsFiniteSet(x.fixed) /\ IsFiniteSet(x.floats)
      /\ x.floats = {} \/ Cardinality(x.fixed) + Cardinality(x.floats) + i <= Cardinality(A)
  BY DEF Places
<1>2. CASE x.floats = {}
  <2>1. z = x
    BY <1>2 DEF PlaceNext
  <2> QED BY <1>1, <1>2, <2>1 DEF Places
<1>3. CASE x.floats # {}
  <2>1. s \in x.floats
    BY <1>1, <1>3, FirstFloatFacts
  <2>2. start \in Nat /\ end \in Nat
    <3> HIDE DEF s
    <3>1. FieldOf(s).align \in Nat \ {0} /\ FieldOf(s).size \in Nat
      BY <1>1, <2>1
    <3>2. start \in Nat
      BY <1>1, <3>1, AlignUpFacts
    <3> HIDE DEF start
    <3> QED BY <3>1, <3>2
  <2>3. Cardinality(x.fixed) \in Nat /\ Cardinality(x.floats) \in Nat
    BY <1>1, FS_CardinalityType
  <2>4. CASE x.fixed # {} /\ end > x.put[t]
    <3>1. t \in x.fixed
      BY <1>1, <2>4, FirstFixedFacts
    <3>2. z = [x EXCEPT !.fixed = @ \ {t}, !.next = x.put[t] + FieldOf(t).size]
      BY <1>3, <2>4 DEF PlaceNext
    <3> HIDE DEF t, z
    <3>3. z = [fixed |-> x.fixed \ {t}, floats |-> x.floats, next |-> x.put[t] + FieldOf(t).size,
               put |-> x.put]
      BY <1>1, <3>2
    <3>4. x.put[t] + FieldOf(t).size \in Nat
      BY <1>1, <3>1
    <3>5. IsFiniteSet(x.fixed \ {t}) /\ Cardinality(x.fixed \ {t}) = Cardinality(x.fixed) - 1
      BY <1>1, <3>1, FS_RemoveElement
    <3>6. /\ z.fixed = x.fixed \ {t} /\ z.floats = x.floats /\ z.put = x.put
          /\ z.next = x.put[t] + FieldOf(t).size
          /\ z = [fixed |-> z.fixed, floats |-> z.floats, next |-> z.next, put |-> z.put]
      BY <3>3
    <3>7. Cardinality(z.fixed) + Cardinality(z.floats) + (i + 1) <= Cardinality(A)
      <4>1. Cardinality(x.fixed) + Cardinality(x.floats) + i <= Cardinality(A)
        BY <1>1, <1>3
      <4>2. (Cardinality(x.fixed) - 1) + Cardinality(x.floats) + (i + 1)
              = Cardinality(x.fixed) + Cardinality(x.floats) + i
        BY <2>3
      <4> QED BY <3>5, <3>6, <4>1, <4>2
    <3>8. z.next \in Nat /\ z.fixed \subseteq x.fixed
      BY <3>4, <3>6
    <3> QED BY <1>1, <3>5, <3>6, <3>7, <3>8 DEF Places
  <2>5. CASE ~(x.fixed # {} /\ end > x.put[t])
    <3>1. z = [x EXCEPT !.floats = @ \ {s}, !.next = end,
                        !.put = [u \in DOMAIN @ \cup {s} |-> IF u = s THEN start ELSE @[u]]]
      BY <1>3, <2>5 DEF PlaceNext
    <3> HIDE DEF t, s, start, end, z
    <3> DEFINE q == [u \in DOMAIN x.put \cup {s} |-> IF u = s THEN start ELSE x.put[u]]
    <3>2. /\ DOMAIN q = DOMAIN x.put \cup {s}
          /\ \A u \in DOMAIN x.put : u # s => q[u] = x.put[u]
          /\ q[s] = start
      OBVIOUS
    <3> HIDE DEF q
    <3>3. /\ z.fixed = x.fixed /\ z.floats = x.floats \ {s} /\ z.put = q /\ z.next = end
          /\ z = [fixed |-> z.fixed, floats |-> z.floats, next |-> z.next, put |-> z.put]
      BY <1>1, <3>1 DEF q
    <3>4. IsFiniteSet(x.floats \ {s}) /\ Cardinality(x.floats \ {s}) = Cardinality(x.floats) - 1
      BY <1>1, <2>1, FS_RemoveElement
    <3>5. Cardinality(z.fixed) + Cardinality(z.floats) + (i + 1) <= Cardinality(A)
      <4>1. Cardinality(x.fixed) + Cardinality(x.floats) + i <= Cardinality(A)
        BY <1>1, <1>3
      <4>2. Cardinality(x.fixed) + (Cardinality(x.floats) - 1) + (i + 1)
              = Cardinality(x.fixed) + Cardinality(x.floats) + i
        BY <2>3
      <4> QED BY <3>3, <3>4, <4>1, <4>2
    <3>6. /\ \A u \in DOMAIN q : q[u] \in Nat
          /\ \A u \in DOMAIN put : u \in DOMAIN q /\ q[u] = put[u]
          /\ (x.floats \ {s}) \cup DOMAIN q = A
      BY <1>1, <2>1, <2>2, <3>2
    <3>7. /\ z.fixed \subseteq A /\ z.fixed \subseteq DOMAIN z.put /\ z.floats \subseteq A
          /\ z.floats \cap DOMAIN put = {} /\ z.next \in Nat
          /\ IsFiniteSet(z.fixed) /\ IsFiniteSet(z.floats)
      BY <1>1, <2>2, <3>2, <3>3, <3>4
    <3> QED BY <3>3, <3>5, <3>6, <3>7 DEF Places
  <2> QED BY <2>4, <2>5
<1> QED BY <1>2, <1>3

(* Every slot of the module gets a place, and those that had one keep it. *)
LEMMA LayoutFacts ==
  ASSUME NEW m, IsFiniteSet(AllSlots(m)),
         \A s \in AllSlots(m) :
            /\ s.n \in Nat /\ FieldOf(s).size \in Nat \ {0} /\ FieldOf(s).align \in Nat \ {0}
            /\ FieldOf(s).at \in Nat \cup {Floating},
         \A s \in DOMAIN offset : offset[s] \in Nat
  PROVE  /\ DOMAIN Layout2(m) = AllSlots(m)
         /\ \A s \in AllSlots(m) : Layout2(m)[s] \in Nat
         /\ \A s \in AllSlots(m) \cap DOMAIN offset : Layout2(m)[s] = offset[s]
<1> DEFINE A == AllSlots(m)
           K == Known(m)
           put == [s \in K |-> PlaceOf(s)]
           x == Unplaced(m)
           n == Cardinality(A)
           z == Placing!Result(0, x, n)
           p == [all |-> A, put |-> put]
<1>1. Layout2(m) = z.put
  BY LayoutIsLoop
<1>2. K \subseteq A /\ A \cap DOMAIN offset \subseteq K /\ \A s \in K : PlaceOf(s) \in Nat
  BY DEF Known, PlaceOf
<1>3. x = [fixed |-> K, floats |-> A \ K, next |-> 0, put |-> put]
  BY DEF Unplaced
<1>4. DOMAIN put = K /\ \A s \in K : put[s] = PlaceOf(s)
  OBVIOUS
<1>5. /\ IsFiniteSet(K) /\ IsFiniteSet(A \ K)
      /\ Cardinality(K) + Cardinality(A \ K) = n /\ n \in Nat
  <2> HIDE DEF K
  <2>1. IsFiniteSet(A) /\ n \in Nat
    BY FS_CardinalityType
  <2>2. IsFiniteSet(K) /\ IsFiniteSet(A \ K)
    BY <1>2, <2>1, FS_Subset
  <2>3. K \cup (A \ K) = A /\ K \cap (A \ K) = {}
    BY <1>2
  <2>4. Cardinality(K) \in Nat /\ Cardinality(A \ K) \in Nat
    BY <2>2, FS_CardinalityType
  <2>5. Cardinality(K \cup (A \ K)) = Cardinality(K) + Cardinality(A \ K) - Cardinality(K \cap (A \ K))
    BY <2>2, FS_Union
  <2>6. Cardinality(K \cap (A \ K)) = 0
    BY <2>3, FS_EmptySet
  <2> QED BY <2>1, <2>2, <2>3, <2>4, <2>5, <2>6
<1> HIDE DEF K, put, x, z, n
<1>6. Places(A, put, 0, x)
  <2>1. /\ x.fixed = K /\ x.floats = A \ K /\ x.next = 0 /\ x.put = put
        /\ x = [fixed |-> x.fixed, floats |-> x.floats, next |-> x.next, put |-> x.put]
    BY <1>3
  <2>2. Cardinality(K) + Cardinality(A \ K) + 0 <= Cardinality(A)
    BY <1>5 DEF n
  <2> HIDE DEF A
  <2> QED BY <1>2, <1>4, <1>5, <2>1, <2>2 DEF Places
<1>7. \A i \in 1..n : \A y : Places(A, put, i - 1, y) => Places(A, put, i, PlaceNext(y))
  <2> SUFFICES ASSUME NEW i \in 1..n, NEW y, Places(A, put, i - 1, y)
               PROVE  Places(A, put, i, PlaceNext(y))
    OBVIOUS
  <2>1. i - 1 \in Nat /\ (i - 1) + 1 = i
    BY <1>5
  <2>2. \A s \in A : s.n \in Nat /\ FieldOf(s).size \in Nat \ {0} /\ FieldOf(s).align \in Nat \ {0}
    OBVIOUS
  <2> HIDE DEF A
  <2>3. Places(A, put, (i - 1) + 1, PlaceNext(y))
    BY <2>1, <2>2, PlaceNextOK
  <2> QED BY <2>1, <2>3
<1>8. Places(A, put, n, z)
  <2> HIDE DEF A
  <2>1. p.all = A /\ p.put = put
    OBVIOUS
  <2> HIDE DEF p
  <2>2. PlaceRel(p, 0, x)
    BY <1>6, <2>1 DEF PlaceRel
  <2>3. \A i \in 1..n : \A y : PlaceRel(p, i - 1, y) => PlaceRel(p, i, PlaceTurn(0, i, y))
    BY <1>7, <2>1 DEF PlaceRel, PlaceTurn
  <2>4. PlaceRel(p, n, Placing!Result(0, x, n))
    BY <1>5, <2>2, <2>3, Placing!AfterTurns
  <2> QED BY <2>1, <2>4 DEF PlaceRel, z
<1> HIDE DEF A
<1>9. z.floats = {}
  <2> SUFFICES ASSUME z.floats # {} PROVE FALSE
    OBVIOUS
  <2>1. /\ IsFiniteSet(z.fixed) /\ IsFiniteSet(z.floats)
        /\ Cardinality(z.fixed) + Cardinality(z.floats) + n <= Cardinality(A)
    BY <1>8 DEF Places
  <2>2. Cardinality(z.fixed) \in Nat /\ Cardinality(z.floats) \in Nat /\ Cardinality(z.floats) # 0
    BY <2>1, FS_CardinalityType, FS_EmptySet
  <2> QED BY <1>5, <2>1, <2>2 DEF n
<1>10. /\ DOMAIN z.put = A /\ \A s \in A : z.put[s] \in Nat
       /\ \A s \in K : z.put[s] = put[s]
  BY <1>4, <1>8, <1>9 DEF Places
<1>11. \A s \in A \cap DOMAIN offset : z.put[s] = offset[s]
  BY <1>2, <1>4, <1>10 DEF PlaceOf
<1> QED BY <1>1, <1>10, <1>11 DEF A

(* All slots of a module are of that kind, and they are finitely many.     *)
LEMMA AllSlotsFacts ==
  ASSUME source.fields \in FieldChoices
  PROVE  \A m \in ModuleSet :
           /\ \A s \in AllSlots(m) :
                /\ s.n \in Nat /\ FieldOf(s).size \in Nat \ {0} /\ FieldOf(s).align \in Nat \ {0}
                /\ FieldOf(s).at \in Nat \cup {Floating}
           /\ IsFiniteSet(AllSlots(m))
<1>1. ASSUME NEW m \in ModuleSet, NEW s \in AllSlots(m)
      PROVE  /\ s.n \in Nat /\ FieldOf(s).size \in Nat \ {0} /\ FieldOf(s).align \in Nat \ {0}
             /\ FieldOf(s).at \in Nat \cup {Floating}
  <2>1. PICK a \in Supertypes(m) : s \in SlotsOf(a)
    BY <1>1 DEF AllSlots
  <2>2. a \in ModuleSet
    BY SupertypesFacts
  <2> QED BY <2>1, <2>2, SlotTypes
<1> DEFINE Bad == {k \in Nat : \E m \in ModuleSet : Index(m) = k /\ ~IsFiniteSet(AllSlots(m))}
<1>2. ASSUME Bad # {} PROVE FALSE
  <2>1. PICK k \in Bad : \A j \in Bad : k <= j
    BY <1>2, Placing!LeastExists
  <2>2. PICK m \in ModuleSet : Index(m) = k /\ ~IsFiniteSet(AllSlots(m))
    BY <2>1
  <2>3. IsFiniteSet(SlotsOf(m))
    BY SlotTypes
  <2>4. CASE Parent[m] = NoModule
    BY <2>2, <2>3, <2>4, SlotsFacts
  <2>5. CASE Parent[m] # NoModule
    <3> DEFINE p == Parent[m]
    <3>1. p \in ModuleSet /\ Index(p) < k /\ Index(p) \in Nat
      BY <2>2, <2>5, ParentFacts, IndexFacts
    <3>2. IsFiniteSet(AllSlots(p))
      BY <2>1, <3>1
    <3>3. AllSlots(m) = SlotsOf(m) \cup AllSlots(p)
      BY <2>5, SlotsFacts
    <3> QED BY <2>2, <2>3, <3>2, <3>3, FS_Union
  <2> QED BY <2>4, <2>5
<1>3. ASSUME NEW m \in ModuleSet PROVE IsFiniteSet(AllSlots(m))
  BY <1>2, IndexFacts
<1> QED BY <1>1, <1>3

(***************************************************************************)
(* The invariant: the objects of the modules that were laid out are in     *)
(* order, or an error was reported.                                        *)
(***************************************************************************)
Fits(m) ==
  /\ AllSlots(m) \subseteq DOMAIN offset
  /\ \A s, t \in AllSlots(m) : s # t => Disjoint(offset, s, t)
  /\ \A s \in AllSlots(m) : AlignedAt(offset, s)
LayoutInv ==
  /\ source.fields \in FieldChoices
  /\ phase \in {"resolve", "receiver", "callable", "layout", "generate", "run"}
  /\ \A s \in DOMAIN offset : offset[s] \in Nat
  /\ phase = "layout" => /\ at \in 0..Len(Modules)
                         /\ misplaced \/ \A i \in 1..at : Fits(Modules[i])
  /\ phase \in {"generate", "run"} => \A m \in ModuleSet : Fits(m)

(* What does not change the slots or where they are. *)
LEMMA SameFits ==
  ASSUME UNCHANGED << source, dynamic, offset >>
  PROVE  \A m : Fits(m)' <=> Fits(m)
<1>1. \A m : SlotsOf(m)' = SlotsOf(m)
  BY DEF SlotsOf, AnyDynamic
<1>2. \A m : AllSlots(m)' = AllSlots(m)
  BY <1>1 DEF AllSlots
<1>3. \A s : FieldOf(s)' = FieldOf(s)
  BY DEF FieldOf
<1>4. \A s, t : Disjoint(offset, s, t)' <=> Disjoint(offset, s, t)
  BY <1>3 DEF Disjoint
<1>5. \A s : AlignedAt(offset, s)' <=> AlignedAt(offset, s)
  BY <1>3 DEF AlignedAt
<1> QED BY <1>2, <1>4, <1>5 DEF Fits

(* A module is laid out, after its parent. *)
LEMMA LayoutStepOK ==
  ASSUME LayoutInv, LayoutStep
  PROVE  LayoutInv'
<1>0. PICK m : m = Modules[at + 1]
  OBVIOUS
<1> DEFINE A == AllSlots(m)
           put == Layout2(m)
           P == IF Parent[m] = NoModule THEN {} ELSE AllSlots(Parent[m])
<1>1. /\ phase = "layout" /\ phase' = "layout" /\ at \in 0..Len(Modules) /\ at < Len(Modules)
      /\ at' = at + 1 /\ source' = source /\ dynamic' = dynamic
      /\ offset' = [s \in DOMAIN offset \cup DOMAIN put |-> IF s \in DOMAIN offset THEN offset[s] ELSE put[s]]
      /\ misplaced' = (misplaced \/ Misplaces(m, put))
      /\ source.fields \in FieldChoices /\ \A s \in DOMAIN offset : offset[s] \in Nat
      /\ misplaced \/ \A i \in 1..at : Fits(Modules[i])
  BY <1>0 DEF LayoutStep, LayoutInv, analysis
<1>2. Len(Modules) \in Nat /\ DOMAIN Modules = 1..Len(Modules) /\ at + 1 \in DOMAIN Modules
  BY <1>1, SlotAssumption
<1>3. m \in ModuleSet /\ Index(m) = at + 1
  <2>1. m \in ModuleSet
    BY <1>0, <1>2 DEF ModuleSet
  <2> QED BY <1>0, <1>2, <2>1, IndexFacts, SlotAssumption
<1>4. /\ \A s \in A : /\ s.n \in Nat /\ FieldOf(s).size \in Nat \ {0} /\ FieldOf(s).align \in Nat \ {0}
                      /\ FieldOf(s).at \in Nat \cup {Floating}
      /\ IsFiniteSet(A)
  BY <1>1, <1>3, AllSlotsFacts
<1>5. /\ DOMAIN put = A /\ \A s \in A : put[s] \in Nat
      /\ \A s \in A \cap DOMAIN offset : put[s] = offset[s]
  BY <1>1, <1>3, <1>4, LayoutFacts
<1>6. /\ A = SlotsOf(m) \cup P /\ \A s \in SlotsOf(m) : s.of = m
  BY <1>1, <1>3, SlotsFacts, SlotTypes
<1> HIDE DEF put
<1>7. /\ DOMAIN offset' = DOMAIN offset \cup A
      /\ \A s \in DOMAIN offset : offset'[s] = offset[s]
      /\ \A s \in A : offset'[s] = put[s]
      /\ \A s \in DOMAIN offset' : offset'[s] \in Nat
  <2> HIDE DEF A
  <2> QED BY <1>1, <1>5
<1>8. \A x : AllSlots(x)' = AllSlots(x)
  BY <1>1 DEF AllSlots, SlotsOf, AnyDynamic
<1>9. \A s : FieldOf(s)' = FieldOf(s)
  BY <1>1 DEF FieldOf
<1>10. ASSUME NEW x, Fits(x) PROVE Fits(x)'
  <2>1. AllSlots(x) \subseteq DOMAIN offset
    BY <1>10 DEF Fits
  <2>2. \A s \in AllSlots(x) : offset'[s] = offset[s]
    BY <1>7, <2>1
  <2>3. AllSlots(x)' \subseteq DOMAIN offset'
    BY <1>7, <1>8, <2>1
  <2>4. \A s, t \in AllSlots(x) : s # t => Disjoint(offset, s, t)'
    BY <1>9, <1>10, <2>2 DEF Fits, Disjoint
  <2>5. \A s \in AllSlots(x) : AlignedAt(offset, s)'
    BY <1>9, <1>10, <2>2 DEF Fits, AlignedAt
  <2> QED BY <1>8, <2>3, <2>4, <2>5 DEF Fits
<1>11. ASSUME ~misplaced' PROVE Fits(m)'
  <2>1. ~misplaced /\ ~Misplaces(m, put)
    BY <1>1, <1>11
  <2>2. \/ P = {}
        \/ P = AllSlots(Parent[m]) /\ Fits(Parent[m])
    <3>1. CASE Parent[m] # NoModule
      <4> DEFINE p == Parent[m]
      <4>1. p \in ModuleSet /\ Index(p) < at + 1 /\ Index(p) \in 1..Len(Modules) /\ Modules[Index(p)] = p
        BY <1>3, <3>1, ParentFacts, IndexFacts
      <4>2. Index(p) \in 1..at
        BY <1>1, <4>1
      <4> QED BY <1>1, <2>1, <3>1, <4>1, <4>2
    <3> QED BY <3>1
  <2>3. /\ P \subseteq DOMAIN offset /\ \A s, t \in P : s # t => Disjoint(offset, s, t)
        /\ \A s \in P : AlignedAt(offset, s)
    BY <2>2 DEF Fits
  <2>4. P \subseteq A /\ \A s \in P : put[s] = offset[s]
    BY <1>5, <1>6, <2>3
  <2> HIDE DEF A, P
  <2>5. \A s, t \in P : s # t => Disjoint(put, s, t)
    BY <2>3, <2>4 DEF Disjoint
  <2>6. \A s, t \in A : s # t => Disjoint(put, s, t)
    <3>1. \A s \in DOMAIN put : put[s] \in Nat /\ FieldOf(s).size \in Nat \ {0}
      BY <1>4, <1>5
    <3>2. \A s \in DOMAIN put : s \notin P => s.of = m
      BY <1>5, <1>6
    <3>3. \A s, t \in DOMAIN put : s \in P /\ t \in P /\ s # t => Disjoint(put, s, t)
      BY <2>5
    <3>4. \A s, t \in DOMAIN put : s # t => Disjoint(put, s, t)
      BY <2>1, <3>1, <3>2, <3>3, CheckSuffices
    <3> QED BY <1>5, <3>4
  <2>7. \A s \in A : AlignedAt(put, s)
    <3>1. ASSUME NEW s \in A, s \notin P PROVE AlignedAt(put, s)
      BY <1>5, <1>6, <2>1, <3>1 DEF Misplaces
    <3>2. ASSUME NEW s \in P PROVE AlignedAt(put, s)
      BY <2>3, <2>4 DEF AlignedAt
    <3> QED BY <3>1, <3>2
  <2>8. \A s, t \in A : s # t => Disjoint(offset, s, t)'
    BY <1>7, <1>9, <2>6 DEF Disjoint
  <2>9. \A s \in A : AlignedAt(offset, s)'
    BY <1>7, <1>9, <2>7 DEF AlignedAt
  <2>10. AllSlots(m)' = A
    BY <1>8 DEF A
  <2> QED BY <1>7, <2>8, <2>9, <2>10 DEF Fits
<1>12. misplaced' \/ \A i \in 1..at' : Fits(Modules[i])'
  <2> SUFFICES ASSUME ~misplaced', NEW i \in 1..at' PROVE Fits(Modules[i])'
    OBVIOUS
  <2>1. i \in 1..at \/ i = at + 1
    BY <1>1
  <2>2. CASE i \in 1..at
    BY <1>1, <1>10, <2>2
  <2>3. CASE i = at + 1
    BY <1>0, <1>11, <2>3
  <2> QED BY <2>1, <2>2, <2>3
<1>13. (misplaced \/ \A i \in 1..at : Fits(Modules[i]))'
  BY <1>12
<1>14. at' \in 0..Len(Modules)
  BY <1>1, <1>2
<1> QED BY <1>1, <1>7, <1>13, <1>14 DEF LayoutInv

(* All are laid out. *)
LEMMA GenerateLayoutOK ==
  ASSUME LayoutInv, Generate
  PROVE  LayoutInv'
<1>1. /\ phase = "layout" /\ at = Len(Modules) /\ ~misplaced /\ phase' = "generate"
      /\ UNCHANGED << source, dynamic, offset >>
  BY DEF Generate, analysis, layout
<1>2. ASSUME NEW m \in ModuleSet PROVE Fits(m)
  BY <1>1, IndexFacts DEF LayoutInv
<1>3. \A m \in ModuleSet : Fits(m)'
  BY <1>1, <1>2, SameFits
<1> QED BY <1>1, <1>3 DEF LayoutInv

(* The other steps: the methods that are dispatched, and with them the     *)
(* slots, do not change after callable analysis.                           *)
LEMMA OtherLayoutOK ==
  ASSUME LayoutInv, [Next]_vars, ~LayoutStep, ~Generate
  PROVE  LayoutInv'
<1>1. source' = source /\ offset' = offset
  BY DEF Next, Resolve, Analyze, ReceiverStep, ReceiverExport, MarkExportedConstructors,
         CallableStep, CallableExport, LayOut, GenerateRule, GenerateBody, Link, Enter, Call,
         vars, layout
<1>2. CASE phase \in {"resolve", "receiver", "callable"}
  <2>1. /\ phase' \in {"resolve", "receiver", "callable", "layout"}
        /\ phase' = "layout" => at' = 0
    BY <1>2 DEF Next, Resolve, Analyze, ReceiverStep, ReceiverExport, MarkExportedConstructors,
         CallableStep, CallableExport, LayOut, GenerateRule, GenerateBody, Link, Enter, Call,
         vars
  <2>2. Len(Modules) \in Nat
    BY SlotAssumption
  <2>3. at' = 0 => (\A i \in 1..at : Fits(Modules[i]))'
    OBVIOUS
  <2> QED BY <1>1, <2>1, <2>2, <2>3 DEF LayoutInv
<1>3. CASE phase = "layout"
  <2>1. UNCHANGED vars
    BY <1>3 DEF Next, Resolve, Analyze, ReceiverStep, ReceiverExport, MarkExportedConstructors,
         CallableStep, CallableExport, LayOut, GenerateRule, GenerateBody, Link, Enter, Call
  <2>2. phase' = phase /\ at' = at /\ misplaced' = misplaced /\ UNCHANGED << source, dynamic, offset >>
    BY <2>1 DEF vars, analysis, layout
  <2>3. (misplaced \/ \A i \in 1..at : Fits(Modules[i]))'
    BY <1>3, <2>2, SameFits DEF LayoutInv
  <2> QED BY <1>1, <1>3, <2>2, <2>3 DEF LayoutInv
<1>4. CASE phase \in {"generate", "run"}
  <2>1. phase' \in {"generate", "run"} /\ dynamic' = dynamic
    BY <1>4 DEF Next, Resolve, Analyze, ReceiverStep, ReceiverExport, MarkExportedConstructors,
         CallableStep, CallableExport, LayOut, GenerateRule, GenerateBody, Link, Enter, Call,
         vars, analysis
  <2>2. \A m \in ModuleSet : Fits(m)'
    BY <1>1, <1>4, <2>1, SameFits DEF LayoutInv
  <2> QED BY <1>1, <2>1, <2>2 DEF LayoutInv
<1> QED BY <1>2, <1>3, <1>4 DEF LayoutInv

(* At the start nothing has a place. *)
LEMMA InitLayoutOK ==
  ASSUME Init
  PROVE  LayoutInv
<1>1. source.fields \in FieldChoices /\ phase = "resolve" /\ offset = << >>
  BY DEF Init
<1>2. DOMAIN offset = {}
  BY <1>1
<1> QED BY <1>1, <1>2 DEF LayoutInv

(* SlotsFit: in every program that is generated, for any modules and       *)
(* slots, with places of their own or without, no two slots of an object   *)
(* overlap and every slot is aligned, although layout2 looks at neighbours *)
(* only, and at those of the module alone.                                 *)
THEOREM SlotsFitHolds == Spec => []SlotsFit
<1>1. Init => LayoutInv
  BY InitLayoutOK
<1>2. LayoutInv /\ [Next]_vars => LayoutInv'
  BY LayoutStepOK, GenerateLayoutOK, OtherLayoutOK
<1>3. LayoutInv => SlotsFit
  BY DEF LayoutInv, SlotsFit, Fits
<1> QED BY <1>1, <1>2, <1>3, PTL DEF Spec
============================================================================
