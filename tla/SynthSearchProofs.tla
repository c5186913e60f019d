------------------------- MODULE SynthSearchProofs -------------------------
(***************************************************************************)
(* Whatever the threads' interleaving, every entry of the database is of   *)
(* least main cost for its Spec: THEOREM DatabaseSound.                    *)
(*                                                                         *)
(* The invariant that carries it says, of every block on every stack, that *)
(* each task is sound, that each handle is filed under the sub-Spec it     *)
(* waits for, and that each answer on its way is the cost of a result of   *)
(* least main cost of that sub-Spec.                                       *)
(*                                                                         *)
(* First the operators of SynthTask: the reducer, the start of a task and  *)
(* the resolution of a request keep what a task has computed equal to the  *)
(* best of the Impls it has finished with, so that a complete task holds   *)
(* an Impl of least main cost.                                             *)
(***************************************************************************)
EXTENDS SynthSearch, FiniteSetTheorems, SequenceTheorems, WellFoundedInduction, TLAPS
-----------------------------------------------------------------------------
(* Tasks.                                                                  *)

\* Pairs that the reducer compares.
Pairs == [action : Nat, cost : Nat]

\* A nonempty set of naturals has a least element.
LEMMA LeastNat ==
    ASSUME NEW T \in SUBSET Nat, T # {}
    PROVE  \E m \in T : \A n \in T : m <= n
<1>1. \E x \in T : \A y \in T : ~ (<<y, x>> \in OpToRel(<, Nat))
  BY NatLessThanWellFounded, WFMin
<1>2. PICK x \in T : \A y \in T : ~ (<<y, x>> \in OpToRel(<, Nat))
  BY <1>1
<1>3. \A y \in T : ~ (y < x)
  BY <1>2 DEF OpToRel
<1> QED
  BY <1>3

\* The reducer's order has a least element in every nonempty set of pairs.
LEMMA BestExists ==
    ASSUME NEW C \in SUBSET Pairs
    PROVE  IsBest(BestOf(C), C)
<1>1. CASE C = {}
  BY <1>1 DEF IsBest, BestOf
<1>2. CASE C # {}
  <2> DEFINE Costs == {c.cost : c \in C}
  <2>0. Costs # {} /\ Costs \in SUBSET Nat
    BY <1>2 DEF Pairs
  <2>1. PICK m \in Costs : \A n \in Costs : m <= n
    BY <2>0, LeastNat
  <2> DEFINE Actions == {c.action : c \in {d \in C : d.cost = m}}
  <2>2. Actions # {} /\ Actions \in SUBSET Nat
    <3>1. PICK c \in C : c.cost = m
      BY <2>1
    <3> QED
      BY <3>1 DEF Pairs
  <2>3. PICK a \in Actions : \A n \in Actions : a <= n
    BY <2>2, LeastNat
  <2>4. PICK best \in C : best.cost = m /\ best.action = a
    BY <2>3
  <2>5. ASSUME NEW d \in C PROVE AtMost(best, d)
    <3>1. m <= d.cost
      BY <2>1
    <3>2. d.cost = m => a <= d.action
      BY <2>3
    <3>3. m \in Nat /\ d.cost \in Nat
      BY <2>1 DEF Pairs
    <3> QED
      BY <2>4, <3>1, <3>2, <3>3 DEF AtMost
  <2>6. \E c \in C : \A d \in C : AtMost(c, d)
    BY <2>5
  <2> QED
    BY <1>2, <2>6 DEF IsBest, BestOf
<1> QED
  BY <1>1, <1>2

\* Inserting one more pair keeps the best.
LEMMA InsertKeepsBest ==
    ASSUME NEW C \in SUBSET Pairs, NEW best, IsBest(best, C), NEW new \in Pairs
    PROVE  IsBest(Insert(best, new), C \cup {new})
<1>1. CASE C = {}
  BY <1>1 DEF IsBest, Insert, AtMost, Pairs
<1>2. CASE C # {}
  <2>1. best \in Pairs /\ \A c \in C : AtMost(best, c)
    BY <1>2 DEF IsBest
  <2>2. best # NoImpl
    BY <2>1 DEF Pairs, NoImpl, None
  <2>3. CASE AtMost(best, new)
    BY <1>2, <2>1, <2>2, <2>3 DEF IsBest, Insert
  <2>4. CASE ~AtMost(best, new)
    <3>1. \A c \in C : AtMost(new, c)
      BY <2>1, <2>4 DEF AtMost, Pairs
    <3>2. AtMost(new, new)
      BY DEF AtMost, Pairs
    <3> QED
      BY <2>4, <3>1, <3>2 DEF IsBest, Insert
  <2> QED
    BY <2>3, <2>4
<1> QED
  BY <1>1, <1>2

-----------------------------------------------------------------------------
(* What is true of a task at all times.                                    *)

\* The Impls that the reducer has been given by s's task.
FinishedImpls(s, task) ==
    Leaves(s) \cup {Impl(s, a, task.costs[a]) : a \in {b \in Acts(s) : task.parts[b] = "Sat"}}

\* What the task knows of action a's partial Impl is right.
PartSound(s, a, task) ==
    /\ task.parts[a] # "None" <=> IsPartial(s, a)
    /\ task.parts[a] = "Sat" => task.costs[a] \in Choices(s, a)
    /\ task.parts[a] = "Unsat" => ~Satisfiable(s, a)
    /\ task.parts[a] = "Constructing" =>
         /\ task.costs[a] \in [Slots(s, a) -> Nat \cup {None}]
         /\ \A j \in Slots(s, a) : task.costs[a][j] \in {None} \cup OptCosts(Subs(s, a)[j])

\* A running task's reducer holds the best Impl finished so far, and its count
\* of partial Impls under construction is right; a complete task's
\* result is of least main cost.
TaskSound(s, task) ==
    /\ task \in TaskOf(s)
    /\ ~task.running => task.best \in Opt[s]
    /\ task.running =>
         /\ \A a \in Acts(s) : PartSound(s, a, task)
         /\ IsBest(task.best, FinishedImpls(s, task))
         /\ task.incomplete = Cardinality(Constructing(s, task.parts))
         /\ task.incomplete # 0

\* An element of a sequence is of the sequence's type.
LEMMA SeqElement ==
    ASSUME NEW S, NEW q \in Seq(S), NEW i \in 1..Len(q)
    PROVE  q[i] \in S
OBVIOUS

\* The shape of the constants, unpacked.
LEMMA ConstantTypes ==
    /\ \A s \in Specs : Acts(s) \subseteq Nat /\ IsFiniteSet(Acts(s))
    /\ \A s \in Specs : \A a \in Acts(s) :
          /\ ActionsOf[s][a].ok \in BOOLEAN
          /\ Subs(s, a) \in Seq(Specs)
          /\ \A j \in Slots(s, a) : Subs(s, a)[j] \in Specs
<1>1. ASSUME NEW s \in Specs PROVE Acts(s) \subseteq Nat /\ IsFiniteSet(Acts(s))
  <2>1. Len(ActionsOf[s]) \in Nat
    BY ActionsAssumption
  <2> QED
    BY <2>1, FS_Interval DEF Acts
<1>2. ASSUME NEW s \in Specs, NEW a \in Acts(s)
      PROVE  /\ ActionsOf[s][a].ok \in BOOLEAN
             /\ Subs(s, a) \in Seq(Specs)
             /\ \A j \in Slots(s, a) : Subs(s, a)[j] \in Specs
  <2>1. ActionsOf[s] \in Seq([ok : BOOLEAN, subs : Seq(Specs)])
    BY ActionsAssumption
  <2>2. ActionsOf[s][a] \in [ok : BOOLEAN, subs : Seq(Specs)]
    BY <2>1, SeqElement DEF Acts
  <2> QED
    BY <2>2, SeqElement DEF Subs, Slots
<1> QED
  BY <1>1, <1>2

\* Every Spec has a cost; and what has one is satisfiable.
LEMMA OptCost ==
    ASSUME NEW s \in Specs
    PROVE  /\ Opt[s] \in SUBSET Results /\ Opt[s] # {}
           /\ OptCosts(s) \subseteq Nat \cup {None}
           /\ \/ Opt[s] = {NoImpl} /\ Candidates(s) = {}
              \/ /\ Candidates(s) # {} /\ Opt[s] \in SUBSET Candidates(s)
                 /\ \A r \in Opt[s] : r \in Pairs /\ r.cost # None
                 /\ None \notin OptCosts(s)
<1>1. Opt[s] = LeastMain(Candidates(s)) /\ Opt[s] \in SUBSET Results
  BY OptAssumption
<1>2. OptCosts(s) \subseteq Nat \cup {None}
  BY <1>1 DEF OptCosts, Results
<1>3. CASE Candidates(s) = {}
  BY <1>1, <1>2, <1>3 DEF LeastMain
<1>4. CASE Candidates(s) # {}
  <2> DEFINE Mains == {Main(c.cost) : c \in Candidates(s)}
  <2>1. Mains # {} /\ Mains \in SUBSET Nat
    BY <1>4, MainAssumption
  <2>2. PICK m \in Mains : \A n \in Mains : m <= n
    BY <2>1, LeastNat
  <2>3. PICK r \in Candidates(s) : Main(r.cost) = m
    BY <2>2
  <2>4. r \in Opt[s] /\ Opt[s] \in SUBSET Candidates(s)
    BY <1>1, <1>4, <2>2, <2>3 DEF LeastMain
  <2>5. \A c \in Candidates(s) : c \in Pairs
    BY ActionsAssumption, ConstantTypes DEF Candidates, Impls, Impl, Pairs
  <2>6. \A c \in Opt[s] : c \in Pairs /\ c.cost # None
    BY <2>4, <2>5 DEF Pairs, None
  <2> QED
    BY <1>1, <1>2, <1>4, <2>4, <2>6 DEF OptCosts
<1> QED
  BY <1>3, <1>4

\* What an action yields for sub-Specs' costs is a pair that the reducer compares,
\* and a candidate.
LEMMA ImplType ==
    ASSUME NEW s \in Specs, NEW a \in Acts(s), NEW f \in Choices(s, a)
    PROVE  /\ Impl(s, a, f) \in Pairs
           /\ Impl(s, a, f).action = a /\ Impl(s, a, f).cost = ImplCost(s, a, f)
           /\ ActionsOf[s][a].ok => Impl(s, a, f) \in Candidates(s)
BY ActionsAssumption, ConstantTypes DEF Candidates, Impls, Impl, Pairs

\* An action can be given costs exactly when its sub-Specs can.
LEMMA ChoicesExist ==
    ASSUME NEW s \in Specs, NEW a \in Acts(s), NEW f \in Choices(s, a)
    PROVE  Satisfiable(s, a)
<1> SUFFICES ASSUME NEW j \in Slots(s, a) PROVE None \notin OptCosts(Subs(s, a)[j])
  BY DEF Satisfiable
<1> DEFINE costs == (UNION {OptCosts(u) : u \in Specs}) \ {None}
<1>1. f \in [Slots(s, a) -> costs] /\ f[j] \in OptCosts(Subs(s, a)[j])
  BY DEF Choices
<1>2. f[j] \in costs
  BY <1>1
<1>3. Subs(s, a)[j] \in Specs
  BY ConstantTypes
<1>4. f[j] # None
  BY <1>2
<1> QED
  BY <1>1, <1>3, <1>4, OptCost DEF OptCosts, NoImpl

\* Leaves wait for nothing.
LEMMA LeafImpls ==
    ASSUME NEW s \in Specs
    PROVE  Leaves(s) \in SUBSET Pairs /\ Leaves(s) \subseteq Candidates(s)
<1>1. ASSUME NEW r \in Leaves(s) PROVE r \in Pairs /\ r \in Candidates(s)
  <2>1. PICK a \in Acts(s) : IsLeaf(s, a) /\ r \in Impls(s, a)
    BY DEF Leaves
  <2>2. PICK f \in Choices(s, a) : r = Impl(s, a, f)
    BY <2>1 DEF Impls
  <2> QED
    BY <2>1, <2>2, ImplType DEF IsLeaf
<1> QED
  BY <1>1

\* The reducer only ever holds Impls of satisfiable actions.
LEMMA FinishedType ==
    ASSUME NEW s \in Specs, NEW task,
           \A a \in Acts(s) : task.parts[a] = "Sat" =>
                IsPartial(s, a) /\ task.costs[a] \in Choices(s, a)
    PROVE  /\ FinishedImpls(s, task) \in SUBSET Pairs
           /\ FinishedImpls(s, task) \subseteq Candidates(s)
<1>1. \A a \in Acts(s) : task.parts[a] = "Sat" =>
         Impl(s, a, task.costs[a]) \in Pairs /\ Impl(s, a, task.costs[a]) \in Candidates(s)
  BY ImplType DEF IsPartial
<1> QED
  BY <1>1, LeafImpls DEF FinishedImpls

\* When no partial Impl is under construction, the reducer holds a result of least
\* main cost: it has seen one Impl of each satisfiable action, and all that an action
\* yields have one main cost.
LEMMA AllFinished ==
    ASSUME NEW s \in Specs, NEW task, task.parts \in [Acts(s) -> PartStates], NEW best,
           \A a \in Acts(s) : PartSound(s, a, task) /\ task.parts[a] # "Constructing",
           IsBest(best, FinishedImpls(s, task))
    PROVE  best \in Opt[s]
<1> DEFINE seen == FinishedImpls(s, task)
<1>1. seen \subseteq Pairs /\ seen \subseteq Candidates(s)
  BY FinishedType DEF PartSound
<1>2. ASSUME NEW c \in Candidates(s)
      PROVE  \E r \in seen : Main(r.cost) = Main(c.cost)
  <2>1. PICK a \in Acts(s) : ActionsOf[s][a].ok /\ c \in Impls(s, a)
    BY DEF Candidates
  <2>2. PICK f \in Choices(s, a) : c = Impl(s, a, f)
    BY <2>1 DEF Impls
  <2>3. CASE IsLeaf(s, a)
    BY <2>1, <2>3 DEF FinishedImpls, Leaves
  <2>4. CASE IsPartial(s, a)
    <3>1. task.parts[a] = "Sat" /\ task.costs[a] \in Choices(s, a)
      BY <2>4, ChoicesExist DEF PartSound, PartStates
    <3>2. Impl(s, a, task.costs[a]) \in seen
      BY <3>1 DEF FinishedImpls
    <3>3. Main(ImplCost(s, a, task.costs[a])) = Main(ImplCost(s, a, f))
      BY <3>1, MainAssumption
    <3> QED
      BY <2>2, <3>2, <3>3 DEF Impl
  <2> QED
    BY <2>1, <2>3, <2>4 DEF IsLeaf, IsPartial
<1>3. Opt[s] = LeastMain(Candidates(s))
  BY OptAssumption
<1> HIDE DEF seen
<1>4. CASE seen = {}
  <2>1. best = NoImpl
    BY <1>4 DEF IsBest, seen
  <2>2. Candidates(s) = {}
    BY <1>2, <1>4
  <2> QED
    BY <1>3, <2>1, <2>2 DEF LeastMain
<1>5. CASE seen # {}
  <2>1. best \in seen /\ \A r \in seen : AtMost(best, r)
    BY <1>5 DEF IsBest, seen
  <2>2. ASSUME NEW c \in Candidates(s) PROVE Main(best.cost) <= Main(c.cost)
    <3>1. PICK r \in seen : Main(r.cost) = Main(c.cost)
      BY <1>2
    <3>2. best.cost <= r.cost
      BY <1>1, <2>1 DEF AtMost, Pairs
    <3>3. best \in Candidates(s) /\ r \in Candidates(s)
      BY <1>1, <2>1
    <3> QED
      BY <3>1, <3>2, <3>3, MainAssumption
  <2> QED
    BY <1>1, <1>3, <2>1, <2>2 DEF LeastMain
<1> QED
  BY <1>4, <1>5
-----------------------------------------------------------------------------
(* The operations on a task.                                               *)

\* A task completed with a result of least main cost is sound.
LEMMA CompleteSound ==
    ASSUME NEW s \in Specs, NEW r \in Opt[s], NEW fromDb \in BOOLEAN
    PROVE  TaskSound(s, Complete(s, r, fromDb))
<1>1. Complete(s, r, fromDb) \in TaskOf(s)
  BY OptCost DEF Complete, TaskOf, PartStates
<1> QED
  BY <1>1 DEF Complete, TaskSound

\* A new task is sound: its reducer has seen the leaves, and nothing is filled.
LEMMA StartSound ==
    ASSUME NEW s \in Specs
    PROVE  TaskSound(s, Start(s))
<1> DEFINE partial == {a \in Acts(s) : IsPartial(s, a)}
           parts   == [a \in Acts(s) |-> IF a \in partial THEN "Constructing" ELSE "None"]
           costs   == [a \in Acts(s) |-> [j \in Slots(s, a) |-> None]]
<1>1. IsBest(BestOf(Leaves(s)), Leaves(s))
  <2>1. Leaves(s) \in SUBSET Pairs
    BY LeafImpls
  <2> QED
    BY <2>1, BestExists
<1>2. parts \in [Acts(s) -> PartStates] /\ (\A a \in Acts(s) : parts[a] # "Sat")
  BY DEF PartStates
<1>3. ASSUME NEW task, task.parts = parts PROVE FinishedImpls(s, task) = Leaves(s)
  BY <1>2, <1>3 DEF FinishedImpls
<1>4. CASE partial = {}
  <2>1. \A a \in Acts(s) : parts[a] = "None" /\ ~IsPartial(s, a)
    BY <1>4
  <2>2. BestOf(Leaves(s)) \in Opt[s]
    <3> DEFINE task == [parts |-> parts, costs |-> costs]
    <3>1. task.parts = parts
      OBVIOUS
    <3>2. \A a \in Acts(s) : PartSound(s, a, task) /\ task.parts[a] # "Constructing"
      BY <2>1 DEF PartSound
    <3> HIDE DEF parts, partial, task
    <3>3. IsBest(BestOf(Leaves(s)), FinishedImpls(s, task))
      BY <1>1, <1>3, <3>1
    <3> QED
      BY <1>2, <3>1, <3>2, <3>3, AllFinished
  <2>3. Start(s) = Complete(s, BestOf(Leaves(s)), FALSE)
    BY <1>4 DEF Start
  <2> QED
    BY <2>2, <2>3, CompleteSound
<1>5. CASE partial # {}
  <2>1. Start(s) = [running |-> TRUE, best |-> BestOf(Leaves(s)), parts |-> parts,
                    costs |-> costs, incomplete |-> Cardinality(partial),
                    batches |-> 0, fromDb |-> FALSE]
    BY <1>5 DEF Start
  <2>2. IsFiniteSet(partial) /\ Cardinality(partial) \in Nat /\ Cardinality(partial) # 0
    <3>1. IsFiniteSet(Acts(s)) /\ partial \in SUBSET Acts(s)
      BY ConstantTypes
    <3>2. IsFiniteSet(partial)
      BY <3>1, FS_Subset
    <3> QED
      BY <1>5, <3>2, FS_CardinalityType, FS_EmptySet
  <2>3. Constructing(s, parts) = partial
    BY DEF Constructing
  <2>4. BestOf(Leaves(s)) \in Results
    <3>1. Leaves(s) \subseteq Pairs
      BY LeafImpls
    <3> QED
      BY <1>1, <3>1 DEF IsBest, Results, Pairs, NoImpl, None
  <2>5. \A a \in Acts(s) : costs[a] \in Seq(Nat \cup {None})
    <3> SUFFICES ASSUME NEW a \in Acts(s) PROVE costs[a] \in Seq(Nat \cup {None})
      OBVIOUS
    <3>1. Len(Subs(s, a)) \in Nat
      BY ConstantTypes
    <3> QED
      BY <3>1 DEF Slots
  <2>6. Start(s) \in TaskOf(s)
    BY <1>2, <2>1, <2>2, <2>4, <2>5 DEF TaskOf
  <2>7. ASSUME NEW a \in Acts(s) PROVE PartSound(s, a, Start(s))
    <3>1. Start(s).parts[a] = parts[a] /\ Start(s).costs[a] = [j \in Slots(s, a) |-> None]
      BY <2>1
    <3> QED
      BY <3>1 DEF PartSound
  <2>8. /\ Start(s).running /\ Start(s).parts = parts
        /\ Start(s).best = BestOf(Leaves(s)) /\ Start(s).incomplete = Cardinality(partial)
    BY <2>1
  <2> HIDE DEF parts, partial
  <2> QED
    BY <1>1, <1>3, <2>2, <2>3, <2>6, <2>7, <2>8 DEF TaskSound
<1> QED
  BY <1>4, <1>5

\* The end of resolve_request keeps a task sound that has just finished one of
\* the partial Impls it counted.
LEMMA FinishPartSound ==
    ASSUME NEW s \in Specs, NEW task \in TaskOf(s), task.running,
           \A a \in Acts(s) : PartSound(s, a, task),
           IsBest(task.best, FinishedImpls(s, task)),
           task.incomplete = Cardinality(Constructing(s, task.parts)) + 1
    PROVE  TaskSound(s, FinishPart(s, task))
<1>1. IsFiniteSet(Constructing(s, task.parts))
  <2>1. IsFiniteSet(Acts(s)) /\ Constructing(s, task.parts) \in SUBSET Acts(s)
    BY ConstantTypes DEF Constructing
  <2> QED
    BY <2>1, FS_Subset
<1>2. Cardinality(Constructing(s, task.parts)) \in Nat
  BY <1>1, FS_CardinalityType
<1>3. CASE task.incomplete = 1
  <2>1. Constructing(s, task.parts) = {}
    BY <1>1, <1>2, <1>3, FS_EmptySet
  <2>2. \A a \in Acts(s) : task.parts[a] # "Constructing"
    BY <2>1 DEF Constructing
  <2>3. task.parts \in [Acts(s) -> PartStates]
    BY DEF TaskOf
  <2>4. task.best \in Opt[s]
    BY <2>2, <2>3, AllFinished
  <2> QED
    BY <1>3, <2>4, CompleteSound DEF FinishPart
<1>4. CASE task.incomplete # 1
  <2> DEFINE left  == task.incomplete - 1
             after == [task EXCEPT !.incomplete = left]
  <2>1. FinishPart(s, task) = after
    BY <1>4 DEF FinishPart
  <2>2. left = Cardinality(Constructing(s, task.parts)) /\ left \in Nat /\ left # 0
    BY <1>2, <1>4
  <2> HIDE DEF left
  <2>3. /\ after \in TaskOf(s)
        /\ after.running /\ after.parts = task.parts /\ after.costs = task.costs
        /\ after.best = task.best
        /\ after.incomplete = left
    BY <2>2 DEF TaskOf
  <2>4. \A a \in Acts(s) : PartSound(s, a, after)
    BY <2>3 DEF PartSound
  <2>5. FinishedImpls(s, after) = FinishedImpls(s, task)
    BY <2>3 DEF FinishedImpls
  <2> HIDE DEF after
  <2> QED
    BY <2>1, <2>3, <2>4, <2>5, <2>2 DEF TaskSound
<1> QED
  BY <1>3, <1>4

\* A slot holds a cost of least main cost of its sub-Spec, or nothing.
SlotsSound(s, a, slots) ==
    /\ slots \in [Slots(s, a) -> Nat \cup {None}]
    /\ \A j \in Slots(s, a) : slots[j] \in {None} \cup OptCosts(Subs(s, a)[j])

\* When every slot is filled, the action can be given these costs.
LEMMA FilledSound ==
    ASSUME NEW s \in Specs, NEW a \in Acts(s), NEW slots, SlotsSound(s, a, slots),
           \A j \in Slots(s, a) : slots[j] # None
    PROVE  slots \in Choices(s, a)
<1>1. ASSUME NEW j \in Slots(s, a)
      PROVE  /\ slots[j] \in OptCosts(Subs(s, a)[j])
             /\ slots[j] \in (UNION {OptCosts(u) : u \in Specs}) \ {None}
  <2>1. slots[j] \in OptCosts(Subs(s, a)[j]) /\ slots[j] # None
    BY DEF SlotsSound
  <2>2. Subs(s, a)[j] \in Specs
    BY ConstantTypes
  <2>3. PICK u \in Specs : u = Subs(s, a)[j]
    BY <2>2
  <2>4. slots[j] \in OptCosts(u)
    BY <2>1, <2>3
  <2>5. slots[j] \in UNION {OptCosts(v) : v \in Specs}
    BY <2>4
  <2> QED
    BY <2>1, <2>5
<1> QED
  BY <1>1 DEF SlotsSound, Choices

\* resolve_request keeps a running task sound when the cost it is given is one of
\* least main cost of the sub-Spec that was asked for.
LEMMA ResolveSound ==
    ASSUME NEW s \in Specs, NEW task, TaskSound(s, task), task.running,
           NEW a \in Acts(s), NEW j \in Slots(s, a),
           NEW cost, cost \in OptCosts(Subs(s, a)[j])
    PROVE  TaskSound(s, Resolve(s, task, a, j, cost))
<1> DEFINE filled == [task.costs[a] EXCEPT ![j] = cost]
           new    == [action |-> a, cost |-> ImplCost(s, a, filled)]
           full   == \A i \in Slots(s, a) : filled[i] # None
<1>1. task \in TaskOf(s) /\ (\A c \in Acts(s) : PartSound(s, c, task))
  BY DEF TaskSound
<1>2. Subs(s, a)[j] \in Specs
  BY ConstantTypes
<1>3. IsFiniteSet(Constructing(s, task.parts))
  <2>1. IsFiniteSet(Acts(s)) /\ Constructing(s, task.parts) \in SUBSET Acts(s)
    BY ConstantTypes DEF Constructing
  <2> QED
    BY <2>1, FS_Subset
<1>4. CASE task.parts[a] # "Constructing"
  <2>1. Resolve(s, task, a, j, cost) = task
    BY <1>4 DEF Resolve
  <2> QED
    BY <2>1
<1>5. CASE task.parts[a] = "Constructing"
  <2>1. SlotsSound(s, a, task.costs[a])
    BY <1>1, <1>5 DEF PartSound, SlotsSound
  <2>2. cost \in Nat \cup {None}
    BY <1>2, OptCost
  <2>3. SlotsSound(s, a, filled)
    BY <2>1, <2>2 DEF SlotsSound
  <2>4. filled[j] = cost
    BY <2>1 DEF SlotsSound
  <2>5. filled \in Seq(Nat \cup {None})
    <3>1. task.costs[a] \in Seq(Nat \cup {None})
      BY <1>1 DEF TaskOf
    <3>2. DOMAIN task.costs[a] = Slots(s, a)
      BY <2>1 DEF SlotsSound
    <3>3. j \in 1..Len(task.costs[a])
      BY <3>1, <3>2
    <3> QED
      BY <2>2, <3>1, <3>3, ExceptSeq
  \* One partial Impl fewer is under construction.
  <2>9. ASSUME NEW after, after \in TaskOf(s), NEW st \in {"Sat", "Unsat"},
               after.parts = [task.parts EXCEPT ![a] = st]
        PROVE  task.incomplete = Cardinality(Constructing(s, after.parts)) + 1
    <3>1. task.parts \in [Acts(s) -> PartStates]
      BY <1>1 DEF TaskOf
    <3>2. Constructing(s, after.parts) = Constructing(s, task.parts) \ {a}
      BY <2>9, <3>1 DEF Constructing
    <3>3. a \in Constructing(s, task.parts)
      BY <1>5 DEF Constructing
    <3>4. Cardinality(Constructing(s, task.parts)) \in Nat
      BY <1>3, FS_CardinalityType
    <3>5. task.incomplete = Cardinality(Constructing(s, task.parts))
      BY DEF TaskSound
    <3>6. Cardinality(Constructing(s, task.parts) \ {a})
            = Cardinality(Constructing(s, task.parts)) - 1
      BY <1>3, <3>3, FS_RemoveElement
    <3> QED
      BY <3>2, <3>4, <3>5, <3>6
  <2>6. CASE cost = None
    <3> DEFINE after == [task EXCEPT !.parts[a] = "Unsat"]
    <3>0. ~full
      BY <2>4, <2>6
    <3>1. Resolve(s, task, a, j, cost) = FinishPart(s, after)
      BY <1>5, <2>6, <3>0 DEF Resolve
    <3>2. /\ after \in TaskOf(s) /\ after.running /\ after.best = task.best
          /\ after.costs = task.costs /\ after.incomplete = task.incomplete
          /\ after.parts = [task.parts EXCEPT ![a] = "Unsat"]
      BY <1>1 DEF TaskOf, PartStates
    <3>3. task.parts \in [Acts(s) -> PartStates]
      BY <1>1 DEF TaskOf
    <3>4. ~Satisfiable(s, a)
      BY <2>6 DEF Satisfiable
    <3>5. \A c \in Acts(s) : PartSound(s, c, after)
      BY <1>1, <1>5, <3>2, <3>3, <3>4 DEF PartSound
    <3>6. FinishedImpls(s, after) = FinishedImpls(s, task)
      BY <1>5, <3>2, <3>3 DEF FinishedImpls
    <3>7. IsBest(after.best, FinishedImpls(s, after))
      BY <3>2, <3>6 DEF TaskSound
    <3>8. after.incomplete = Cardinality(Constructing(s, after.parts)) + 1
      BY <2>9, <3>2
    <3> HIDE DEF after
    <3> QED
      BY <3>1, <3>2, <3>5, <3>7, <3>8, FinishPartSound
  <2>7. CASE cost # None /\ full
    <3> DEFINE after == [task EXCEPT !.parts[a] = "Sat", !.costs[a] = filled,
                                     !.best = Insert(@, new)]
    <3>1. Resolve(s, task, a, j, cost) = FinishPart(s, after)
      BY <1>5, <2>7 DEF Resolve
    <3>2. filled \in Choices(s, a) /\ new = Impl(s, a, filled)
      <4>1. new = Impl(s, a, filled)
        BY DEF Impl
      <4> HIDE DEF filled, new
      <4> QED
        BY <2>3, <2>7, <4>1, FilledSound
    <3>3. new \in Pairs
      BY <3>2, ImplType
    <3>4. task.parts \in [Acts(s) -> PartStates]
      BY <1>1 DEF TaskOf
    <3>5. filled \in Seq(Nat \cup {None})
      BY <2>5
    <3>6. Insert(task.best, new) \in Results
      BY <1>1, <3>3 DEF Insert, TaskOf, Results, Pairs
    <3>7. /\ after \in TaskOf(s) /\ after.running /\ after.best = Insert(task.best, new)
          /\ after.costs = [task.costs EXCEPT ![a] = filled]
          /\ after.incomplete = task.incomplete
          /\ after.parts = [task.parts EXCEPT ![a] = "Sat"]
      <4> HIDE DEF filled, new
      <4> QED
        BY <1>1, <3>5, <3>6 DEF TaskOf, PartStates
    <3>8. \A c \in Acts(s) : PartSound(s, c, after)
      <4> SUFFICES ASSUME NEW c \in Acts(s) PROVE PartSound(s, c, after)
        OBVIOUS
      <4>1. CASE c = a
        <5>1. after.parts[a] = "Sat" /\ after.costs[a] = filled
          <6> HIDE DEF after, filled
          <6> QED
            BY <1>1, <3>4, <3>7 DEF TaskOf
        <5>2. IsPartial(s, a)
          BY <1>1, <1>5 DEF PartSound
        <5> HIDE DEF after, filled
        <5> QED
          BY <3>2, <4>1, <5>1, <5>2 DEF PartSound
      <4>2. CASE c # a
        <5>1. after.parts[c] = task.parts[c] /\ after.costs[c] = task.costs[c]
          BY <1>1, <3>4, <3>7, <4>2 DEF TaskOf
        <5> HIDE DEF after
        <5> QED
          BY <1>1, <5>1 DEF PartSound
      <4> QED
        BY <4>1, <4>2
    <3>9. FinishedImpls(s, after) = FinishedImpls(s, task) \cup {new}
      <4> DEFINE sat   == {b \in Acts(s) : task.parts[b] = "Sat"}
                 ready == {b \in Acts(s) : after.parts[b] = "Sat"}
      <4>1. ready = sat \cup {a} /\ a \notin sat
        <5> HIDE DEF after
        <5> QED
          BY <1>5, <3>4, <3>7
      <4>2. after.costs[a] = filled /\ \A b \in sat : after.costs[b] = task.costs[b]
        <5>1. \A b \in Acts(s) : after.costs[b] = IF b = a THEN filled ELSE task.costs[b]
          <6> HIDE DEF after, filled
          <6> QED
            BY <1>1, <3>7 DEF TaskOf
        <5> QED
          BY <4>1, <5>1
      <4>3. /\ FinishedImpls(s, after) = Leaves(s) \cup {Impl(s, b, after.costs[b]) : b \in ready}
            /\ FinishedImpls(s, task) = Leaves(s) \cup {Impl(s, b, task.costs[b]) : b \in sat}
        BY DEF FinishedImpls
      <4> HIDE DEF after, new, filled, ready, sat
      <4> QED
        BY <3>2, <4>1, <4>2, <4>3
    <3>10. FinishedImpls(s, task) \in SUBSET Pairs
      BY <1>1, FinishedType DEF PartSound
    <3>11. IsBest(after.best, FinishedImpls(s, after))
      <4>1. IsBest(task.best, FinishedImpls(s, task))
        BY DEF TaskSound
      <4> HIDE DEF after, new
      <4> QED
        BY <3>3, <3>7, <3>9, <3>10, <4>1, InsertKeepsBest
    <3>12. after.incomplete = Cardinality(Constructing(s, after.parts)) + 1
      <4> HIDE DEF after
      <4> QED
        BY <2>9, <3>7
    <3> HIDE DEF after
    <3> QED
      BY <3>1, <3>7, <3>8, <3>11, <3>12, FinishPartSound
  <2>8. CASE cost # None /\ ~full
    <3> DEFINE after == [task EXCEPT !.costs[a] = filled]
    <3>1. Resolve(s, task, a, j, cost) = after
      BY <1>5, <2>8 DEF Resolve
    <3>2. filled \in Seq(Nat \cup {None})
      BY <2>5
    <3>3. /\ after \in TaskOf(s) /\ after.running /\ after.best = task.best
          /\ after.costs = [task.costs EXCEPT ![a] = filled]
          /\ after.incomplete = task.incomplete /\ after.parts = task.parts
      <4> HIDE DEF filled
      <4> QED
        BY <1>1, <3>2 DEF TaskOf
    <3>4. \A c \in Acts(s) : PartSound(s, c, after)
      <4> SUFFICES ASSUME NEW c \in Acts(s) PROVE PartSound(s, c, after)
        OBVIOUS
      <4>1. CASE c = a
        <5>1. after.costs[a] = filled
          BY <1>1, <3>3 DEF TaskOf
        <5>2. PartSound(s, a, task)
          BY <1>1
        <5> HIDE DEF after, filled
        <5> QED
          BY <1>5, <2>3, <3>3, <4>1, <5>1, <5>2 DEF PartSound, SlotsSound
      <4>2. CASE c # a
        <5>1. after.parts[c] = task.parts[c] /\ after.costs[c] = task.costs[c]
          BY <1>1, <3>3, <4>2 DEF TaskOf
        <5> HIDE DEF after
        <5> QED
          BY <1>1, <5>1 DEF PartSound
      <4> QED
        BY <4>1, <4>2
    <3>5. FinishedImpls(s, after) = FinishedImpls(s, task)
      <4> HIDE DEF after
      <4> QED
        BY <1>1, <1>5, <3>3 DEF FinishedImpls, TaskOf
    <3> HIDE DEF after
    <3> QED
      BY <3>1, <3>3, <3>4, <3>5 DEF TaskSound
  <2> QED
    BY <2>6, <2>7, <2>8
<1> QED
  BY <1>4, <1>5
-----------------------------------------------------------------------------
(* Blocks.                                                                 *)

\* Requests that exist: each names an action and one of its slots.
SoundHandles ==
    {h \in Handles : h.action \in Acts(h.spec) /\ h.child \in Slots(h.spec, h.action)}

SoundRequests ==
    {r \in [Specs -> SUBSET SoundHandles] : \A s \in Specs : \A h \in r[s] : SubOf(h) = s}

SoundDeliveries ==
    {d \in [h : SoundHandles, cost : Nat \cup {None}] : d.cost \in OptCosts(SubOf(d.h))}

SoundFrames ==
    {f \in [spec : Specs, child : Nat, left : SUBSET Nat] :
        \A a \in f.left : a \in Acts(f.spec) /\ f.child \in Slots(f.spec, a)}

WorkingSets ==
    {f \in UNION {[D -> UNION {TaskOf(s) : s \in Specs}] : D \in SUBSET Specs} :
        \A s \in DOMAIN f : TaskSound(s, f[s])}

BlockType ==
    [pc : {"goals", "drain", "sub", "stage", "put"}, goals : SUBSET Specs,
     todo : SUBSET Specs, ws : WorkingSets, running : Int,
     internal : SoundRequests, external : SoundRequests, visited : SUBSET Specs,
     outbox : SUBSET Specs, frames : Seq(SoundFrames), deliv : SUBSET SoundDeliveries,
     cells : SUBSET Specs, res : Results]

\* Only complete tasks are announced; batches, stages and puts are of tasks of
\* the working set; the put in progress writes a result of least main cost.
BlockSound(b) ==
    /\ \A s \in b.outbox : s \in DOMAIN b.ws /\ ~b.ws[s].running
    /\ \A i \in 1..Len(b.frames) : b.frames[i].spec \in DOMAIN b.ws
    /\ b.pc \in {"stage", "put"} => b.todo \subseteq DOMAIN b.ws
    /\ \A c \in b.cells : b.res \in Opt[c]

SoundBlocks == {b \in BlockType : BlockSound(b)}

\* The inductive invariant.
IInv ==
    /\ DOMAIN db \subseteq Specs
    /\ DbSound
    /\ stack \in [Threads -> Seq(SoundBlocks)]
-----------------------------------------------------------------------------
(* Working sets and requests.                                              *)

\* Adding or replacing a sound task keeps a working set sound.
LEMMA ExtendSound ==
    ASSUME NEW f \in WorkingSets, NEW s \in Specs, NEW task, TaskSound(s, task)
    PROVE  /\ Extend(f, s, task) \in WorkingSets
           /\ DOMAIN Extend(f, s, task) = DOMAIN f \cup {s}
<1> DEFINE Tasks == UNION {TaskOf(u) : u \in Specs}
           D     == DOMAIN f \cup {s}
           new   == Extend(f, s, task)
<1>1. DOMAIN f \in SUBSET Specs /\ (\A u \in DOMAIN f : f[u] \in Tasks /\ TaskSound(u, f[u]))
  BY DEF WorkingSets
<1>2. task \in Tasks
  BY DEF TaskSound
<1>3. new = [u \in D |-> IF u = s THEN task ELSE f[u]]
  BY DEF Extend
<1>4. \A u \in D : new[u] = (IF u = s THEN task ELSE f[u])
  BY <1>3
<1>5. new \in [D -> Tasks] /\ D \in SUBSET Specs
  BY <1>1, <1>2, <1>3
<1>6. \A u \in D : TaskSound(u, new[u])
  BY <1>1, <1>4
<1>7. DOMAIN new = D
  BY <1>3
<1>8. new \in WorkingSets
  BY <1>5, <1>6, <1>7 DEF WorkingSets
<1> QED
  BY <1>7, <1>8

LEMMA ReplaceSound ==
    ASSUME NEW f \in WorkingSets, NEW s \in DOMAIN f, NEW task, TaskSound(s, task)
    PROVE  /\ [f EXCEPT ![s] = task] \in WorkingSets
           /\ DOMAIN [f EXCEPT ![s] = task] = DOMAIN f
           /\ \A u \in DOMAIN f : [f EXCEPT ![s] = task][u] = IF u = s THEN task ELSE f[u]
<1> DEFINE Tasks == UNION {TaskOf(u) : u \in Specs}
           new   == [f EXCEPT ![s] = task]
<1>1. DOMAIN f \in SUBSET Specs /\ f \in [DOMAIN f -> Tasks]
         /\ (\A u \in DOMAIN f : TaskSound(u, f[u]))
  BY DEF WorkingSets
<1>2. task \in Tasks
  BY <1>1 DEF TaskSound
<1>3. new \in [DOMAIN f -> Tasks]
  BY <1>1, <1>2
<1>4. \A u \in DOMAIN f : new[u] = IF u = s THEN task ELSE f[u]
  BY <1>1
<1>5. \A u \in DOMAIN f : TaskSound(u, new[u])
  BY <1>1, <1>4
<1>6. DOMAIN new = DOMAIN f
  BY <1>3
<1>7. new \in WorkingSets
  BY <1>1, <1>3, <1>5, <1>6 DEF WorkingSets
<1> QED
  BY <1>4, <1>6, <1>7

\* What the working set of a sound block is.
LEMMA TaskFacts ==
    ASSUME NEW b \in SoundBlocks, NEW s \in DOMAIN b.ws
    PROVE  /\ s \in Specs
           /\ TaskSound(s, b.ws[s])
           /\ b.ws[s] \in TaskOf(s)
           /\ b.ws[s].running \in BOOLEAN
           /\ ~b.ws[s].running => /\ b.ws[s].best \in Opt[s]
                                  /\ b.ws[s].best.cost \in OptCosts(s)
<1>1. b.ws \in WorkingSets
  BY DEF SoundBlocks, BlockType
<1>2. s \in Specs /\ TaskSound(s, b.ws[s])
  BY <1>1 DEF WorkingSets
<1>3. b.ws[s] \in TaskOf(s) /\ (~b.ws[s].running => b.ws[s].best \in Opt[s])
  BY <1>2 DEF TaskSound
<1>4. b.ws[s].running \in BOOLEAN
  BY <1>3 DEF TaskOf
<1> QED
  BY <1>2, <1>3, <1>4 DEF OptCosts

LEMMA HandleFacts ==
    ASSUME NEW h \in SoundHandles
    PROVE  /\ h.spec \in Specs /\ h.action \in Acts(h.spec)
           /\ h.child \in Slots(h.spec, h.action)
           /\ SubOf(h) \in Specs
<1>1. h.spec \in Specs /\ h.action \in Acts(h.spec) /\ h.child \in Slots(h.spec, h.action)
  BY DEF SoundHandles, Handles
<1> QED
  BY <1>1, ConstantTypes DEF SubOf

\* get_task_internal keeps a block sound, since the database is.
LEMMA GetTaskSound ==
    ASSUME NEW b \in SoundBlocks, NEW s \in Specs, DbSound
    PROVE  /\ GetTask(b, s) \in SoundBlocks
           /\ s \in DOMAIN GetTask(b, s).ws
           /\ DOMAIN b.ws \subseteq DOMAIN GetTask(b, s).ws
<1>1. CASE s \in DOMAIN b.ws
  BY <1>1 DEF GetTask
<1>2. CASE s \notin DOMAIN b.ws
  <2> DEFINE With(task) == [b EXCEPT !.ws = Extend(@, s, task),
                                     !.running = IF task.running THEN @ + 1 ELSE @]
  <2>1. ASSUME NEW task, TaskSound(s, task)
        PROVE  With(task) \in SoundBlocks /\ DOMAIN With(task).ws = DOMAIN b.ws \cup {s}
    <3> DEFINE run == IF task.running THEN b.running + 1 ELSE b.running
               new == [b EXCEPT !.ws = Extend(@, s, task), !.running = run]
    <3>1. b \in BlockType /\ BlockSound(b) /\ b.ws \in WorkingSets /\ run \in Int
      BY DEF SoundBlocks, BlockType
    <3>2. With(task) = new
      OBVIOUS
    <3> HIDE DEF With, run
    <3>3. /\ Extend(b.ws, s, task) \in WorkingSets
          /\ DOMAIN Extend(b.ws, s, task) = DOMAIN b.ws \cup {s}
      BY <2>1, <3>1, ExtendSound
    <3>7. \A u \in DOMAIN b.ws : Extend(b.ws, s, task)[u] = b.ws[u]
      BY <1>2 DEF Extend
    <3>4. new \in BlockType
      BY <3>1, <3>3 DEF BlockType
    <3>5. /\ new.ws = Extend(b.ws, s, task) /\ new.outbox = b.outbox /\ new.todo = b.todo
          /\ new.cells = b.cells /\ new.res = b.res /\ new.pc = b.pc
      BY <3>1 DEF BlockType
    <3>6. BlockSound(new)
      BY <3>1, <3>3, <3>5, <3>7 DEF BlockSound
    <3> HIDE DEF new
    <3> QED
      BY <3>2, <3>3, <3>4, <3>5, <3>6 DEF SoundBlocks
  <2>2. CASE s \in DOMAIN db
    <3>1. db[s] \in Opt[s]
      BY <2>2 DEF DbSound
    <3>2. GetTask(b, s) = With(Complete(s, db[s], TRUE))
      BY <1>2, <2>2 DEF GetTask
    <3> HIDE DEF With
    <3> QED
      BY <2>1, <3>1, <3>2, CompleteSound
  <2>3. CASE s \notin DOMAIN db
    <3>1. GetTask(b, s) = With(Start(s))
      BY <1>2, <2>3 DEF GetTask
    <3> HIDE DEF With
    <3> QED
      BY <2>1, <3>1, StartSound
  <2> QED
    BY <2>2, <2>3
<1> QED
  BY <1>1, <1>2

\* visit_next_request_batch asks only for slots that exist.
LEMMA PushBatchSound ==
    ASSUME NEW b \in SoundBlocks, NEW s \in DOMAIN b.ws
    PROVE  PushBatch(b, s) \in SoundBlocks
<1> DEFINE k     == b.ws[s].batches + 1
           left  == BatchActions(s, b.ws[s], k)
           frame == [spec |-> s, child |-> k, left |-> left]
           task  == [b.ws[s] EXCEPT !.batches = k]
           ws    == [b.ws EXCEPT ![s] = task]
           new   == [b EXCEPT !.ws = ws, !.frames = Append(@, frame)]
<1>1. CASE ~HasNextBatch(s, b.ws[s])
  BY <1>1 DEF PushBatch
<1>2. CASE HasNextBatch(s, b.ws[s])
  <2>1. PushBatch(b, s) = new
    BY <1>2 DEF PushBatch
  <2>2. s \in Specs /\ TaskSound(s, b.ws[s]) /\ b.ws[s] \in TaskOf(s)
    BY TaskFacts
  <2>3. k \in Nat \ {0}
    BY <2>2 DEF TaskOf
  <2>4. TaskSound(s, task) /\ task.running = b.ws[s].running
    <3>1. /\ task \in TaskOf(s) /\ task.running = b.ws[s].running
          /\ task.best = b.ws[s].best /\ task.parts = b.ws[s].parts
          /\ task.costs = b.ws[s].costs /\ task.incomplete = b.ws[s].incomplete
      BY <2>2, <2>3 DEF TaskOf
    <3>2. FinishedImpls(s, task) = FinishedImpls(s, b.ws[s])
      BY <3>1 DEF FinishedImpls
    <3>3. \A a \in Acts(s) : PartSound(s, a, b.ws[s]) <=> PartSound(s, a, task)
      BY <3>1 DEF PartSound
    <3> HIDE DEF task
    <3> QED
      BY <2>2, <3>1, <3>2, <3>3 DEF TaskSound
  <2>5. frame \in SoundFrames
    <3>1. left \in SUBSET Nat
      BY <2>2, ConstantTypes DEF BatchActions, Constructing
    <3>2. \A a \in left : a \in Acts(s) /\ Len(Subs(s, a)) \in Nat /\ k <= Len(Subs(s, a))
      BY <2>2, <2>3, ConstantTypes DEF BatchActions, Constructing
    <3>3. \A a \in left : a \in Acts(s) /\ k \in Slots(s, a)
      BY <2>3, <3>2 DEF Slots
    <3> HIDE DEF left, k
    <3> QED
      BY <2>2, <2>3, <3>1, <3>3 DEF SoundFrames
  <2>6. b \in BlockType /\ BlockSound(b) /\ b.ws \in WorkingSets /\ b.frames \in Seq(SoundFrames)
    BY DEF SoundBlocks, BlockType
  <2> HIDE DEF frame, task
  <2>7. /\ Append(b.frames, frame) \in Seq(SoundFrames)
        /\ \A i \in 1..Len(Append(b.frames, frame)) :
              Append(b.frames, frame)[i].spec \in DOMAIN b.ws
    <3>1. frame.spec = s
      BY DEF frame
    <3>2. \A i \in 1..Len(b.frames) : b.frames[i].spec \in DOMAIN b.ws
      BY <2>6 DEF BlockSound
    <3> QED
      BY <2>5, <2>6, <3>1, <3>2, AppendProperties
  <2>8. /\ ws \in WorkingSets /\ DOMAIN ws = DOMAIN b.ws
        /\ \A u \in DOMAIN b.ws : ws[u] = IF u = s THEN task ELSE b.ws[u]
    BY <2>4, <2>6, ReplaceSound
  <2> HIDE DEF ws
  <2>9. new \in BlockType
    BY <2>6, <2>7, <2>8 DEF BlockType
  <2>10. /\ new.ws = ws /\ new.outbox = b.outbox /\ new.todo = b.todo
         /\ new.cells = b.cells /\ new.res = b.res /\ new.pc = b.pc
         /\ new.frames = Append(b.frames, frame)
    BY <2>6 DEF BlockType
  <2> HIDE DEF new
  <2>11. BlockSound(new)
    BY <2>4, <2>6, <2>7, <2>8, <2>10 DEF BlockSound
  <2> QED
    BY <2>1, <2>9, <2>11 DEF SoundBlocks
<1> QED
  BY <1>1, <1>2
\* visit_spec_internal keeps a block sound.
LEMMA VisitSpecSound ==
    ASSUME NEW b \in SoundBlocks, NEW s \in Specs, DbSound
    PROVE  /\ VisitSpec(b, s) \in SoundBlocks
<1>1. CASE s \in b.visited
  BY <1>1, GetTaskSound DEF VisitSpec
<1>2. CASE s \notin b.visited
  <2> DEFINE got == GetTask(b, s)
             new == [got EXCEPT !.visited = @ \cup {s}]
  <2>1. got \in SoundBlocks /\ s \in DOMAIN got.ws
    BY GetTaskSound
  <2>2. VisitSpec(b, s) = PushBatch(new, s)
    BY <1>2 DEF VisitSpec
  <2> HIDE DEF got
  <2>3. new \in SoundBlocks /\ new.ws = got.ws
    BY <2>1 DEF SoundBlocks, BlockType, BlockSound
  <2> HIDE DEF new
  <2> QED
    BY <2>1, <2>2, <2>3, PushBatchSound
<1> QED
  BY <1>1, <1>2

\* Resolving a handle of a running task with a cost of least main cost of the
\* sub-Spec it asks for keeps the block sound.
LEMMA ResolveHandleSound ==
    ASSUME NEW b \in SoundBlocks, NEW h \in SoundHandles, h.spec \in RunningTasks(b),
           NEW cost, cost \in OptCosts(SubOf(h))
    PROVE  LET new == ResolveHandle(b, h, cost)
           IN  /\ new \in SoundBlocks
               /\ new.internal = b.internal /\ new.deliv = b.deliv /\ new.outbox = b.outbox
               /\ h.spec \in DOMAIN new.ws
<1> DEFINE s    == h.spec
           task == Resolve(s, b.ws[s], h.action, h.child, cost)
           ws   == [b.ws EXCEPT ![s] = task]
           run  == IF task.running THEN b.running ELSE b.running - 1
           new  == [b EXCEPT !.ws = ws, !.running = run]
<1>1. ResolveHandle(b, h, cost) = new
  BY DEF ResolveHandle
<1>2. s \in DOMAIN b.ws /\ b.ws[s].running
  BY DEF RunningTasks
<1>3. TaskSound(s, task)
  <2>1. s \in Specs /\ TaskSound(s, b.ws[s])
    BY <1>2, TaskFacts
  <2>2. h.action \in Acts(s) /\ h.child \in Slots(s, h.action)
    BY HandleFacts
  <2>3. cost \in OptCosts(Subs(s, h.action)[h.child])
    BY DEF SubOf
  <2> QED
    BY <1>2, <2>1, <2>2, <2>3, ResolveSound
<1>4. b \in BlockType /\ BlockSound(b) /\ b.ws \in WorkingSets /\ b.running \in Int
  BY DEF SoundBlocks, BlockType
<1>5. run \in Int
  BY <1>4
<1> HIDE DEF task, run
<1>6. /\ ws \in WorkingSets /\ DOMAIN ws = DOMAIN b.ws
      /\ \A u \in DOMAIN b.ws : ws[u] = IF u = s THEN task ELSE b.ws[u]
  BY <1>2, <1>3, <1>4, ReplaceSound
<1> HIDE DEF ws
<1>7. new \in BlockType
  BY <1>4, <1>5, <1>6 DEF BlockType
<1>8. /\ new.ws = ws /\ new.outbox = b.outbox /\ new.todo = b.todo
      /\ new.cells = b.cells /\ new.res = b.res /\ new.pc = b.pc
      /\ new.internal = b.internal /\ new.deliv = b.deliv
  BY <1>4 DEF BlockType
<1>9. BlockSound(new)
  BY <1>2, <1>4, <1>6, <1>8 DEF BlockSound
<1> HIDE DEF new
<1> QED
  BY <1>1, <1>2, <1>6, <1>7, <1>8, <1>9 DEF SoundBlocks

\* The answers handed to the handles that wait for s are right.
LEMMA DeliveriesSound ==
    ASSUME NEW s \in Specs, NEW r \in SoundRequests, NEW cost, cost \in OptCosts(s)
    PROVE  Deliveries(r[s], cost) \in SUBSET SoundDeliveries
<1>1. ASSUME NEW h \in r[s] PROVE [h |-> h, cost |-> cost] \in SoundDeliveries
  <2>1. h \in SoundHandles /\ SubOf(h) = s
    BY DEF SoundRequests
  <2>2. cost \in Nat \cup {None}
    BY OptCost
  <2> QED
    BY <2>1, <2>2 DEF SoundDeliveries
<1> QED
  BY <1>1 DEF Deliveries

\* Requests stay sound when a queue is emptied, or gains a handle of its own.
LEMMA RequestsSound ==
    ASSUME NEW r \in SoundRequests, NEW s \in Specs
    PROVE  /\ [r EXCEPT ![s] = {}] \in SoundRequests
           /\ \A h \in SoundHandles : SubOf(h) = s =>
                 [r EXCEPT ![s] = @ \cup {h}] \in SoundRequests
BY DEF SoundRequests

\* inner_resolve_request keeps a block sound.
LEMMA DeliverToSound ==
    ASSUME NEW b \in SoundBlocks, NEW h \in SoundHandles,
           NEW cost, cost \in OptCosts(SubOf(h))
    PROVE  DeliverTo(b, h, cost) \in SoundBlocks
<1> DEFINE after == ResolveHandle(b, h, cost)
           s     == h.spec
           more  == Deliveries(b.internal[s], after.ws[s].best.cost)
           new   == [after EXCEPT !.deliv = @ \cup more, !.internal[s] = {}]
<1>1. CASE s \notin RunningTasks(b)
  BY <1>1 DEF DeliverTo
<1>2. CASE s \in RunningTasks(b)
  <2>1. after \in SoundBlocks /\ after.internal = b.internal /\ s \in DOMAIN after.ws
    BY <1>2, ResolveHandleSound
  <2>2. CASE after.ws[s].running
    BY <1>2, <2>1, <2>2 DEF DeliverTo
  <2>3. CASE ~after.ws[s].running
    <3>1. DeliverTo(b, h, cost) = new
      BY <1>2, <2>3 DEF DeliverTo
    <3> HIDE DEF after
    <3>2. s \in Specs /\ after.ws[s].best.cost \in OptCosts(s)
      BY <2>1, <2>3, TaskFacts
    <3>3. after.internal \in SoundRequests /\ after \in BlockType /\ BlockSound(after)
      BY <2>1 DEF SoundBlocks, BlockType
    <3>4. more \in SUBSET SoundDeliveries
      BY <2>1, <3>2, <3>3, DeliveriesSound
    <3>5. [after.internal EXCEPT ![s] = {}] \in SoundRequests
      BY <3>2, <3>3, RequestsSound
    <3> HIDE DEF more
    <3>6. new \in SoundBlocks
      BY <3>3, <3>4, <3>5 DEF SoundBlocks, BlockType, BlockSound
    <3> QED
      BY <3>1, <3>6
  <2> QED
    BY <2>2, <2>3
<1> QED
  BY <1>1, <1>2
-----------------------------------------------------------------------------
(* Stacks.                                                                 *)

LEMMA FrontProperties ==
    ASSUME NEW S, NEW q \in Seq(S), q # <<>>
    PROVE  /\ Front(q) \in Seq(S)
           /\ Len(Front(q)) = Len(q) - 1
           /\ Len(q) \in Nat \ {0}
           /\ q[Len(q)] \in S
<1>1. Len(q) \in Nat \ {0}
  BY EmptySeq
<1>2. PICK n \in Nat : n = Len(q) - 1
  BY <1>1
<1>3. Front(q) \in Seq(S) /\ Len(Front(q)) = Len(q) - 1
  <2>1. \A i \in 1..n : q[i] \in S
    BY <1>1, <1>2, ElementOfSeq
  <2>2. SubSeq(q, 1, n) \in Seq(S) /\ Len(SubSeq(q, 1, n)) = n
    BY <2>1, SubSeqProperties
  <2> QED
    BY <1>2, <2>2 DEF Front
<1>4. q[Len(q)] \in S
  BY <1>1, ElementOfSeq
<1> QED
  BY <1>1, <1>3, <1>4

LEMMA FrontElement ==
    ASSUME NEW S, NEW q \in Seq(S), q # <<>>, NEW front, front = Front(q),
           NEW i \in 1..(Len(q) - 1)
    PROVE  front[i] = q[i]
<1>1. Len(q) \in Nat \ {0}
  BY EmptySeq
<1>2. PICK n \in Nat : n = Len(q) - 1
  BY <1>1
<1>3. SubSeq(q, 1, n)[i] = q[i]
  BY <1>2
<1> QED
  BY <1>2, <1>3 DEF Front

\* The active block of a thread is sound.
LEMMA TopSound ==
    ASSUME IInv, NEW t \in Threads, Busy(t)
    PROVE  Top(t) \in SoundBlocks
<1>1. stack[t] \in Seq(SoundBlocks) /\ stack[t] # <<>>
  BY DEF IInv, Busy
<1> QED
  BY <1>1, FrontProperties DEF Top

\* Replacing the active block by a sound one keeps the stacks sound.
LEMMA SetTopSound ==
    ASSUME IInv, NEW t \in Threads, Busy(t), NEW b \in SoundBlocks, SetTop(t, b)
    PROVE  stack' \in [Threads -> Seq(SoundBlocks)]
<1>1. stack[t] \in Seq(SoundBlocks) /\ stack[t] # <<>>
  BY DEF IInv, Busy
<1>2. Front(stack[t]) \in Seq(SoundBlocks)
  BY <1>1, FrontProperties
<1>3. Append(Front(stack[t]), b) \in Seq(SoundBlocks)
  BY <1>2, AppendProperties
<1>4. stack' = [stack EXCEPT ![t] = Append(Front(stack[t]), b)]
  BY DEF SetTop
<1> QED
  BY <1>3, <1>4 DEF IInv

\* A new block for goals that are Specs is sound.
LEMMA NewBlockSound ==
    ASSUME NEW goals \in SUBSET Specs
    PROVE  NewBlock(goals) \in SoundBlocks
<1>1. EmptyFunction \in WorkingSets
  <2>1. EmptyFunction \in [{} -> UNION {TaskOf(s) : s \in Specs}]
    BY DEF EmptyFunction
  <2>2. DOMAIN EmptyFunction = {}
    BY DEF EmptyFunction
  <2> QED
    BY <2>1, <2>2 DEF WorkingSets
<1>2. NoRequests \in SoundRequests
  BY DEF NoRequests, SoundRequests
<1>3. NoImpl \in Results /\ <<>> \in Seq(SoundFrames)
  BY DEF NoImpl, Results
<1> DEFINE new == NewBlock(goals)
<1>4. new \in BlockType
  BY <1>1, <1>2, <1>3 DEF BlockType, NewBlock
<1>5. new.outbox = {} /\ new.cells = {} /\ new.pc = "goals" /\ new.frames = <<>>
  BY DEF NewBlock
<1> HIDE DEF new
<1>6. BlockSound(new)
  BY <1>5 DEF BlockSound
<1> QED
  BY <1>4, <1>6 DEF SoundBlocks, new
-----------------------------------------------------------------------------
(* The actions.                                                            *)

LEMMA InitSound == Init => IInv
<1> SUFFICES ASSUME Init PROVE IInv
  OBVIOUS
<1>1. DOMAIN db = {}
  BY DEF Init, EmptyFunction
<1>2. stack \in [Threads -> Seq(SoundBlocks)]
  BY DEF Init
<1> QED
  BY <1>1, <1>2 DEF IInv, DbSound

\* The frame of the request a thread is at: its handles are sound.
LEMMA FrameSound ==
    ASSUME IInv, NEW t \in Threads, InBatch(t), NEW a \in Frame(t).left
    PROVE  /\ Top(t) \in SoundBlocks
           /\ HandleAt(t, a) \in SoundHandles
           /\ SubOf(HandleAt(t, a)) \in Specs
           /\ Handled(t, a) \in SoundBlocks
           /\ Handled(t, a).ws = Top(t).ws
           /\ Handled(t, a).internal = Top(t).internal
           /\ Handled(t, a).external = Top(t).external
           /\ Handled(t, a).outbox = Top(t).outbox
<1> DEFINE b == Top(t)
           n == Len(b.frames)
           f == b.frames[n]
           g == [f EXCEPT !.left = @ \ {a}]
           new == [b EXCEPT !.frames[n].left = @ \ {a}]
<1>1. b \in SoundBlocks /\ b.frames # <<>>
  BY TopSound DEF InBatch
<1> HIDE DEF b
<1>2. b \in BlockType /\ BlockSound(b) /\ b.frames \in Seq(SoundFrames)
  BY <1>1 DEF SoundBlocks, BlockType
<1>3. n \in Nat \ {0} /\ f \in SoundFrames
  BY <1>1, <1>2, FrontProperties
<1>4. Frame(t) = f /\ a \in f.left
  BY DEF Frame, b
<1>5. HandleAt(t, a) \in SoundHandles
  BY <1>3, <1>4 DEF HandleAt, SoundHandles, SoundFrames, Handles
<1>6. g \in SoundFrames
  BY <1>3 DEF SoundFrames
<1> DEFINE frames == [b.frames EXCEPT ![n] = g]
<1>7. /\ frames \in Seq(SoundFrames)
      /\ \A i \in 1..Len(frames) : frames[i].spec \in DOMAIN b.ws
  <2>1. \A i \in 1..Len(b.frames) : b.frames[i].spec \in DOMAIN b.ws
    BY <1>2 DEF BlockSound
  <2>2. g.spec = f.spec /\ n \in 1..Len(b.frames)
    BY <1>3 DEF SoundFrames
  <2>3. frames \in Seq(SoundFrames) /\ Len(frames) = Len(b.frames)
    BY <1>2, <1>6, <2>2, ExceptSeq
  <2>4. \A i \in 1..Len(b.frames) : frames[i] = IF i = n THEN g ELSE b.frames[i]
    BY <1>2, <1>6, <2>2, ExceptSeq
  <2> QED
    BY <2>1, <2>2, <2>3, <2>4
<1>8. new = [b EXCEPT !.frames = frames]
  BY <1>2, <1>3
<1>9. Handled(t, a) = new
  BY DEF Handled, b
<1>10. new \in BlockType /\ new.ws = b.ws /\ new.outbox = b.outbox /\ new.todo = b.todo
       /\ new.cells = b.cells /\ new.res = b.res /\ new.pc = b.pc
       /\ new.internal = b.internal /\ new.external = b.external
       /\ new.frames = frames
  BY <1>2, <1>7, <1>8 DEF BlockType
<1>11. BlockSound(new)
  BY <1>2, <1>7, <1>10 DEF BlockSound
<1>12. new \in SoundBlocks
  BY <1>10, <1>11 DEF SoundBlocks
<1>13. SubOf(HandleAt(t, a)) \in Specs
  BY <1>5, HandleFacts
<1> HIDE DEF new
<1> QED
  BY <1>1, <1>5, <1>9, <1>10, <1>12, <1>13 DEF b
\* A step that leaves the database alone and replaces the active block by a
\* sound one keeps the invariant.
LEMMA StepSound ==
    ASSUME IInv, NEW t \in Threads, Busy(t), NEW b \in SoundBlocks, SetTop(t, b),
           UNCHANGED db
    PROVE  IInv'
<1>1. stack' \in [Threads -> Seq(SoundBlocks)]
  BY SetTopSound
<1>2. DOMAIN db' \subseteq Specs /\ DbSound'
  BY DEF IInv, DbSound
<1> QED
  BY <1>1, <1>2 DEF IInv

\* The steps of visit_next_request_batch.
LEMMA BatchStepSound ==
    ASSUME IInv, NEW t \in Threads,
           \/ RequestExternal(t) \/ VisitSubspec(t) \/ AwaitInternal(t)
           \/ AnswerInternal(t) \/ EndBatch(t)
    PROVE  IInv'
<1>0. InBatch(t) /\ Busy(t) /\ Top(t) \in SoundBlocks /\ DbSound
  <2>1. InBatch(t)
    BY DEF RequestExternal, VisitSubspec, AwaitInternal, AnswerInternal, EndBatch
  <2> QED
    BY <2>1, TopSound DEF InBatch, IInv
<1>1. CASE RequestExternal(t)
  <2>1. PICK a \in Frame(t).left :
           SetTop(t, [Handled(t, a) EXCEPT
                        !.external[SubOf(HandleAt(t, a))] = @ \cup {HandleAt(t, a)}])
    BY <1>1 DEF RequestExternal
  <2>2. PICK h \in SoundHandles, b \in SoundBlocks : h = HandleAt(t, a) /\ b = Handled(t, a)
    BY <1>0, FrameSound
  <2> DEFINE new == [b EXCEPT !.external[SubOf(h)] = @ \cup {h}]
  <2>3. b \in BlockType /\ BlockSound(b) /\ b.external \in SoundRequests
    BY DEF SoundBlocks, BlockType
  <2>4. [b.external EXCEPT ![SubOf(h)] = @ \cup {h}] \in SoundRequests
    BY <2>3, HandleFacts, RequestsSound
  <2>5. new \in SoundBlocks
    BY <2>3, <2>4 DEF SoundBlocks, BlockType, BlockSound
  <2>6. SetTop(t, new) /\ UNCHANGED db
    BY <1>1, <2>1, <2>2 DEF RequestExternal
  <2> HIDE DEF new
  <2> QED
    BY <1>0, <2>5, <2>6, StepSound
<1>2. CASE VisitSubspec(t)
  <2>1. PICK a \in Frame(t).left : SetTop(t, VisitSpec(Top(t), SubOf(HandleAt(t, a))))
    BY <1>2 DEF VisitSubspec
  <2>2. VisitSpec(Top(t), SubOf(HandleAt(t, a))) \in SoundBlocks
    BY <1>0, FrameSound, VisitSpecSound
  <2> QED
    BY <1>0, <1>2, <2>1, <2>2, StepSound DEF VisitSubspec
<1>3. CASE AwaitInternal(t)
  <2>1. PICK a \in Frame(t).left :
           SetTop(t, [Handled(t, a) EXCEPT
                        !.internal[SubOf(HandleAt(t, a))] = @ \cup {HandleAt(t, a)}])
    BY <1>3 DEF AwaitInternal
  <2>2. PICK h \in SoundHandles, b \in SoundBlocks : h = HandleAt(t, a) /\ b = Handled(t, a)
    BY <1>0, FrameSound
  <2> DEFINE new == [b EXCEPT !.internal[SubOf(h)] = @ \cup {h}]
  <2>3. b \in BlockType /\ BlockSound(b) /\ b.internal \in SoundRequests
    BY DEF SoundBlocks, BlockType
  <2>4. [b.internal EXCEPT ![SubOf(h)] = @ \cup {h}] \in SoundRequests
    BY <2>3, HandleFacts, RequestsSound
  <2>5. new \in SoundBlocks
    BY <2>3, <2>4 DEF SoundBlocks, BlockType, BlockSound
  <2>6. SetTop(t, new) /\ UNCHANGED db
    BY <1>3, <2>1, <2>2 DEF AwaitInternal
  <2> HIDE DEF new
  <2> QED
    BY <1>0, <2>5, <2>6, StepSound
<1>4. CASE AnswerInternal(t)
  <2>1. PICK a \in Frame(t).left :
           LET h == HandleAt(t, a)
               b == ResolveHandle(Handled(t, a), h, Top(t).ws[SubOf(h)].best.cost)
           IN  /\ SubOf(h) \in (Top(t).visited \cap DOMAIN Top(t).ws) \ RunningTasks(Top(t))
               /\ h.spec \in RunningTasks(Top(t))
               /\ SetTop(t, [b EXCEPT !.outbox = IF b.ws[h.spec].running
                                                 THEN @ ELSE @ \cup {h.spec}])
    BY <1>4 DEF AnswerInternal
  <2>2. PICK h \in SoundHandles, b \in SoundBlocks : h = HandleAt(t, a) /\ b = Handled(t, a)
    BY <1>0, FrameSound
  <2>3. Top(t).ws[SubOf(h)].best.cost \in OptCosts(SubOf(h))
    <3>1. SubOf(h) \in DOMAIN Top(t).ws /\ ~Top(t).ws[SubOf(h)].running
      BY <2>1, <2>2 DEF RunningTasks
    <3> QED
      BY <1>0, <3>1, TaskFacts
  <2>4. PICK cost \in OptCosts(SubOf(h)) : cost = Top(t).ws[SubOf(h)].best.cost
    BY <2>3
  <2>5. h.spec \in RunningTasks(b)
    BY <1>0, <2>1, <2>2, FrameSound DEF RunningTasks
  <2> DEFINE r   == ResolveHandle(b, h, cost)
             out == IF r.ws[h.spec].running THEN r.outbox ELSE r.outbox \cup {h.spec}
             new == [r EXCEPT !.outbox = out]
  <2>6. r \in SoundBlocks /\ h.spec \in DOMAIN r.ws
    BY <2>3, <2>5, ResolveHandleSound
  <2>7. SetTop(t, new) /\ UNCHANGED db
    BY <1>4, <2>1, <2>2, <2>4 DEF AnswerInternal
  <2> HIDE DEF r
  <2>8. r \in BlockType /\ BlockSound(r)
    BY <2>6 DEF SoundBlocks
  <2>9. out \in SUBSET Specs /\ (\A s \in out : s \in DOMAIN r.ws /\ ~r.ws[s].running)
    BY <2>6, <2>8, HandleFacts DEF BlockSound, BlockType
  <2> HIDE DEF out
  <2>10. new \in SoundBlocks
    BY <2>8, <2>9 DEF SoundBlocks, BlockType, BlockSound
  <2> HIDE DEF new
  <2> QED
    BY <1>0, <2>7, <2>10, StepSound
<1>5. CASE EndBatch(t)
  <2>0. PICK b \in SoundBlocks : b = Top(t) /\ b.frames # <<>>
    BY <1>0 DEF InBatch
  <2>1. PICK front : front = Front(b.frames)
    OBVIOUS
  <2> DEFINE new == [b EXCEPT !.frames = front]
  <2>2. b \in BlockType /\ BlockSound(b) /\ b.frames \in Seq(SoundFrames)
    BY DEF SoundBlocks, BlockType
  <2>3. front \in Seq(SoundFrames) /\ Len(front) = Len(b.frames) - 1 /\ Len(b.frames) \in Nat
    BY <2>0, <2>1, <2>2, FrontProperties
  <2>6. ASSUME NEW i \in 1..Len(front) PROVE front[i].spec \in DOMAIN b.ws
    <3>1. front[i] = b.frames[i] /\ i \in 1..Len(b.frames)
      BY <2>0, <2>1, <2>2, <2>3, FrontElement
    <3> QED
      BY <2>2, <3>1 DEF BlockSound
  <2>4. new \in SoundBlocks
    BY <2>2, <2>3, <2>6 DEF SoundBlocks, BlockType, BlockSound
  <2>5. SetTop(t, new) /\ UNCHANGED db
    BY <1>5, <2>0, <2>1 DEF EndBatch
  <2> HIDE DEF new
  <2> QED
    BY <1>0, <2>4, <2>5, StepSound
<1> QED
  BY <1>1, <1>2, <1>3, <1>4, <1>5
\* The steps of synthesize's main loop.
LEMMA LoopStepSound ==
    ASSUME IInv, NEW t \in Threads, Busy(t),
           \/ VisitGoal(t) \/ GoalsVisited(t) \/ DrainOutbox(t) \/ ResolveRequest(t)
           \/ OutboxDrained(t) \/ BeginStage(t) \/ StageVisit(t) \/ EndStage(t)
           \/ BeginPut(t) \/ PutTask(t)
    PROVE  IInv'
<1>1. PICK b \in SoundBlocks : b = Top(t)
  BY TopSound
<1>2. b \in BlockType /\ BlockSound(b) /\ DbSound
  BY DEF SoundBlocks, IInv
<1>3. b.ws \in WorkingSets /\ DOMAIN b.ws \subseteq Specs
  BY <1>2 DEF BlockType, WorkingSets
<1>4. CASE VisitGoal(t)
  <2>1. PICK g \in b.todo : SetTop(t, VisitSpec([b EXCEPT !.todo = @ \ {g}], g))
    BY <1>1, <1>4 DEF VisitGoal
  <2>2. g \in Specs /\ [b EXCEPT !.todo = @ \ {g}] \in SoundBlocks
    BY <1>2 DEF SoundBlocks, BlockType, BlockSound
  <2>3. VisitSpec([b EXCEPT !.todo = @ \ {g}], g) \in SoundBlocks
    BY <1>2, <2>2, VisitSpecSound
  <2> QED
    BY <1>4, <2>1, <2>3, StepSound DEF VisitGoal
<1>5. CASE GoalsVisited(t)
  <2>1. [b EXCEPT !.pc = "drain"] \in SoundBlocks
    BY <1>2 DEF SoundBlocks, BlockType, BlockSound
  <2> QED
    BY <1>1, <1>5, <2>1, StepSound DEF GoalsVisited
<1>6. CASE DrainOutbox(t)
  <2>1. PICK s \in b.outbox :
           SetTop(t, [b EXCEPT !.outbox = @ \ {s}, !.internal[s] = {},
                               !.deliv = Deliveries(b.internal[s], b.ws[s].best.cost)])
    BY <1>1, <1>6 DEF DrainOutbox
  <2>2. s \in Specs /\ b.ws[s].best.cost \in OptCosts(s) /\ b.internal \in SoundRequests
    BY <1>2, TaskFacts DEF BlockSound, BlockType
  <2> DEFINE now == Deliveries(b.internal[s], b.ws[s].best.cost)
             new == [b EXCEPT !.outbox = @ \ {s}, !.internal[s] = {}, !.deliv = now]
  <2>3. now \in SUBSET SoundDeliveries
    BY <2>2, DeliveriesSound
  <2>4. [b.internal EXCEPT ![s] = {}] \in SoundRequests
    BY <2>2, RequestsSound
  <2>5. SetTop(t, new)
    BY <2>1
  <2> HIDE DEF now
  <2>6. new \in SoundBlocks
    BY <1>2, <2>3, <2>4 DEF SoundBlocks, BlockType, BlockSound
  <2> HIDE DEF new
  <2> QED
    BY <1>6, <2>5, <2>6, StepSound DEF DrainOutbox
<1>7. CASE ResolveRequest(t)
  <2>1. PICK d \in b.deliv : SetTop(t, DeliverTo([b EXCEPT !.deliv = @ \ {d}], d.h, d.cost))
    BY <1>1, <1>7 DEF ResolveRequest
  <2>2. d \in SoundDeliveries /\ [b EXCEPT !.deliv = @ \ {d}] \in SoundBlocks
    BY <1>2 DEF SoundBlocks, BlockType, BlockSound
  <2>3. d.h \in SoundHandles /\ d.cost \in OptCosts(SubOf(d.h))
    BY <2>2 DEF SoundDeliveries
  <2>4. DeliverTo([b EXCEPT !.deliv = @ \ {d}], d.h, d.cost) \in SoundBlocks
    BY <2>2, <2>3, DeliverToSound
  <2> QED
    BY <1>7, <2>1, <2>4, StepSound DEF ResolveRequest
<1>8. CASE OutboxDrained(t)
  <2>1. [b EXCEPT !.pc = "sub"] \in SoundBlocks
    BY <1>2 DEF SoundBlocks, BlockType, BlockSound
  <2> QED
    BY <1>1, <1>8, <2>1, StepSound DEF OutboxDrained
<1>9. CASE BeginStage(t)
  <2>1. RunningTasks(b) \subseteq DOMAIN b.ws
    BY DEF RunningTasks
  <2>2. [b EXCEPT !.pc = "stage", !.visited = {}, !.todo = RunningTasks(b)] \in SoundBlocks
    BY <1>2, <1>3, <2>1 DEF SoundBlocks, BlockType, BlockSound
  <2> QED
    BY <1>1, <1>9, <2>2, StepSound DEF BeginStage
<1>10. CASE StageVisit(t)
  <2>1. PICK s \in b.todo : SetTop(t, PushBatch([b EXCEPT !.todo = @ \ {s}], s))
    BY <1>1, <1>10 DEF StageVisit
  <2>2. b.pc = "stage"
    BY <1>1, <1>10 DEF StageVisit, At
  <2> DEFINE new == [b EXCEPT !.todo = @ \ {s}]
  <2>3. new \in SoundBlocks /\ s \in DOMAIN new.ws
    BY <1>2, <2>2 DEF SoundBlocks, BlockType, BlockSound
  <2>4. PushBatch(new, s) \in SoundBlocks
    BY <2>3, PushBatchSound
  <2> QED
    BY <1>10, <2>1, <2>4, StepSound DEF StageVisit
<1>11. CASE EndStage(t)
  <2>1. [b EXCEPT !.pc = "drain"] \in SoundBlocks
    BY <1>2 DEF SoundBlocks, BlockType, BlockSound
  <2> QED
    BY <1>1, <1>11, <2>1, StepSound DEF EndStage
<1>12. CASE BeginPut(t)
  <2>1. [b EXCEPT !.pc = "put", !.todo = DOMAIN b.ws] \in SoundBlocks
    BY <1>2, <1>3 DEF SoundBlocks, BlockType, BlockSound
  <2> QED
    BY <1>1, <1>12, <2>1, StepSound DEF BeginPut
<1>13. CASE PutTask(t)
  <2>1. PICK s \in b.todo :
           /\ ~b.ws[s].running
           /\ SetTop(t, [b EXCEPT !.todo = @ \ {s}, !.res = b.ws[s].best,
                                  !.cells = IF b.ws[s].fromDb THEN {}
                                            ELSE Fill(s, b.ws[s].best.cost)])
    BY <1>1, <1>13 DEF PutTask
  <2>2. b.pc = "put"
    BY <1>1, <1>13 DEF PutTask, At
  <2>3. s \in Specs /\ b.ws[s].best \in Opt[s] /\ b.ws[s].best \in Results
    BY <1>2, <2>1, <2>2, TaskFacts, OptCost DEF BlockSound
  <2> DEFINE now == IF b.ws[s].fromDb THEN {} ELSE Fill(s, b.ws[s].best.cost)
             new == [b EXCEPT !.todo = @ \ {s}, !.res = b.ws[s].best, !.cells = now]
  <2>4. now \subseteq Specs /\ (\A c \in now : b.ws[s].best \in Opt[c])
    BY <2>3, FillAssumption
  <2>5. SetTop(t, new)
    BY <2>1
  <2> HIDE DEF now
  <2>6. new \in SoundBlocks
    BY <1>2, <2>3, <2>4 DEF SoundBlocks, BlockType, BlockSound
  <2> HIDE DEF new
  <2> QED
    BY <1>13, <2>5, <2>6, StepSound DEF PutTask
<1> QED
  BY <1>4, <1>5, <1>6, <1>7, <1>8, <1>9, <1>10, <1>11, <1>12, <1>13

\* A write puts results of least main cost into the cells it fills.
LEMMA WriteBlockSound ==
    ASSUME IInv, NEW t \in Threads, WriteBlock(t)
    PROVE  IInv'
<1>1. Busy(t)
  BY DEF WriteBlock, At
<1>2. PICK b \in SoundBlocks : b = Top(t)
  BY <1>1, TopSound
<1>3. PICK now \in SUBSET b.cells :
         /\ db' = [s \in DOMAIN db \cup now |-> IF s \in now THEN b.res ELSE db[s]]
         /\ SetTop(t, [b EXCEPT !.cells = @ \ now])
  BY <1>2 DEF WriteBlock
<1>4. b \in BlockType /\ BlockSound(b)
  BY DEF SoundBlocks
<1>5. [b EXCEPT !.cells = @ \ now] \in SoundBlocks
  BY <1>4 DEF SoundBlocks, BlockType, BlockSound
<1>6. stack' \in [Threads -> Seq(SoundBlocks)]
  BY <1>1, <1>3, <1>5, SetTopSound
<1>7. now \subseteq Specs /\ (\A c \in now : b.res \in Opt[c])
  BY <1>4 DEF BlockType, BlockSound
<1>8. DOMAIN db' \subseteq Specs /\ DbSound'
  BY <1>3, <1>7 DEF IInv, DbSound
<1> QED
  BY <1>6, <1>8 DEF IInv

\* Calls of synthesize and its returns.
LEMMA CallStepSound ==
    ASSUME IInv, NEW t \in Threads,
           SynthesizeSubblock(t) \/ ReturnSubblock(t) \/ ReturnThread(t)
    PROVE  IInv'
<1>1. Busy(t) /\ stack[t] \in Seq(SoundBlocks) /\ stack[t] # <<>>
  BY DEF SynthesizeSubblock, ReturnSubblock, ReturnThread, At, IInv, Busy
<1>2. DOMAIN db' \subseteq Specs /\ DbSound'
  BY DEF SynthesizeSubblock, ReturnSubblock, ReturnThread, IInv, DbSound
<1>3. ASSUME NEW q \in Seq(SoundBlocks), stack' = [stack EXCEPT ![t] = q]
      PROVE  IInv'
  BY <1>2, <1>3 DEF IInv
<1>4. CASE SynthesizeSubblock(t)
  <2>1. PICK keys \in SUBSET Specs : stack' = [stack EXCEPT ![t] = Append(@, NewBlock(keys))]
    BY <1>4 DEF SynthesizeSubblock, Requested
  <2>2. Append(stack[t], NewBlock(keys)) \in Seq(SoundBlocks)
    BY <1>1, NewBlockSound, AppendProperties
  <2> QED
    BY <1>3, <2>1, <2>2
<1>5. CASE ReturnSubblock(t)
  <2>1. /\ Front(stack[t]) \in Seq(SoundBlocks) /\ Front(stack[t]) # <<>>
        /\ Len(stack[t]) \in Nat /\ Len(stack[t]) > 1
        /\ stack[t][Len(stack[t]) - 1] \in SoundBlocks
    <3>1. Len(stack[t]) \in Nat /\ Len(stack[t]) > 1
      BY <1>1, <1>5, FrontProperties DEF ReturnSubblock
    <3>2. Front(stack[t]) \in Seq(SoundBlocks) /\ Len(Front(stack[t])) = Len(stack[t]) - 1
      BY <1>1, FrontProperties
    <3>3. stack[t][Len(stack[t]) - 1] \in SoundBlocks
      BY <1>1, <3>1, ElementOfSeq
    <3> QED
      BY <3>1, <3>2, <3>3, EmptySeq
  <2>2. PICK child \in SoundBlocks, parent \in SoundBlocks :
           child = Top(t) /\ parent = stack[t][Len(stack[t]) - 1]
    BY <1>1, <2>1, TopSound
  <2> DEFINE ext   == [s \in Specs |-> IF s \in child.goals THEN {} ELSE parent.external[s]]
             now   == UNION {Deliveries(parent.external[g], child.ws[g].best.cost) :
                             g \in child.goals}
             after == [parent EXCEPT !.external = ext, !.deliv = now]
  <2>3. parent \in BlockType /\ BlockSound(parent) /\ parent.external \in SoundRequests
    BY DEF SoundBlocks, BlockType
  <2>4. ext \in SoundRequests
    BY <2>3 DEF SoundRequests
  <2>5. now \in SUBSET SoundDeliveries
    <3>1. ASSUME NEW g \in child.goals
          PROVE  Deliveries(parent.external[g], child.ws[g].best.cost) \in SUBSET SoundDeliveries
      <4>1. g \in Specs /\ g \in DOMAIN child.ws /\ ~child.ws[g].running
        <5>1. g \in Specs
          BY DEF SoundBlocks, BlockType
        <5>2. g \in Top(t).goals
          BY <2>2
        <5>3. g \in DOMAIN Top(t).ws /\ ~Top(t).ws[g].running
          BY <1>5, <5>2 DEF ReturnSubblock, Finished
        <5> QED
          BY <2>2, <5>1, <5>3
      <4>2. child.ws[g].best.cost \in OptCosts(g)
        BY <4>1, TaskFacts
      <4> QED
        BY <2>3, <4>1, <4>2, DeliveriesSound
    <3> QED
      BY <3>1
  <2>6. stack' = [stack EXCEPT ![t] = Append(Front(Front(@)), after)]
    BY <1>5, <2>2 DEF ReturnSubblock
  <2> HIDE DEF ext, now
  <2>7. after \in SoundBlocks
    BY <2>3, <2>4, <2>5 DEF SoundBlocks, BlockType, BlockSound
  <2> HIDE DEF after
  <2>8. Front(Front(stack[t])) \in Seq(SoundBlocks)
    BY <2>1, FrontProperties
  <2>9. Append(Front(Front(stack[t])), after) \in Seq(SoundBlocks)
    BY <2>7, <2>8, AppendProperties
  <2> QED
    BY <1>3, <2>6, <2>9
<1>6. CASE ReturnThread(t)
  <2>1. stack' = [stack EXCEPT ![t] = <<>>] /\ <<>> \in Seq(SoundBlocks)
    BY <1>6 DEF ReturnThread
  <2> QED
    BY <1>3, <2>1
<1> QED
  BY <1>4, <1>5, <1>6
\* The driver only ever starts searches for Specs.
LEMMA DriverSound ==
    ASSUME IInv, Driver
    PROVE  IInv'
<1>1. UNCHANGED db
  BY DEF Driver, StartGroup, EndGroup
<1>2. stack' \in [Threads -> Seq(SoundBlocks)]
  <2>1. CASE StartGroup
    <3>1. PICK p : stack' = [t \in Threads |-> <<NewBlock(GoalsGiven(p))>>]
      BY <2>1 DEF StartGroup
    <3>2. GoalSet \subseteq Specs
      BY GoalsAssumption, SeqElement DEF GoalSet
    <3>3. GoalsGiven(p) \in SUBSET Specs
      BY <3>2 DEF GoalsGiven
    <3>4. <<NewBlock(GoalsGiven(p))>> \in Seq(SoundBlocks)
      BY <3>3, NewBlockSound
    <3> QED
      BY <3>1, <3>4
  <2>2. CASE EndGroup
    BY <2>2 DEF EndGroup, IInv
  <2> QED
    BY <2>1, <2>2 DEF Driver
<1>3. DOMAIN db' \subseteq Specs /\ DbSound'
  BY <1>1 DEF IInv, DbSound
<1> QED
  BY <1>2, <1>3 DEF IInv

\* Every step keeps the invariant.
LEMMA NextSound == IInv /\ [Next \/ Terminating]_vars => IInv'
<1> SUFFICES ASSUME IInv, [Next \/ Terminating]_vars PROVE IInv'
  OBVIOUS
<1>1. CASE Driver
  BY <1>1, DriverSound
<1>2. ASSUME NEW t \in Threads, ThreadStep(t) PROVE IInv'
  <2>1. CASE \/ RequestExternal(t) \/ VisitSubspec(t) \/ AwaitInternal(t)
             \/ AnswerInternal(t) \/ EndBatch(t)
    BY <2>1, BatchStepSound
  <2>2. CASE \/ VisitGoal(t) \/ GoalsVisited(t) \/ DrainOutbox(t) \/ ResolveRequest(t)
             \/ OutboxDrained(t) \/ BeginStage(t) \/ StageVisit(t) \/ EndStage(t)
             \/ BeginPut(t) \/ PutTask(t)
    <3>1. Busy(t)
      BY <2>2 DEF VisitGoal, GoalsVisited, DrainOutbox, ResolveRequest, OutboxDrained,
                  BeginStage, StageVisit, EndStage, BeginPut, PutTask, SubblocksDone, At
    <3> QED
      BY <2>2, <3>1, LoopStepSound
  <2>3. CASE WriteBlock(t)
    BY <2>3, WriteBlockSound
  <2>4. CASE SynthesizeSubblock(t) \/ ReturnSubblock(t) \/ ReturnThread(t)
    BY <2>4, CallStepSound
  <2> QED
    BY <1>2, <2>1, <2>2, <2>3, <2>4 DEF ThreadStep
<1>3. CASE UNCHANGED vars
  BY <1>3 DEF vars, IInv, DbSound
<1> QED
  BY <1>1, <1>2, <1>3 DEF Next, Terminating

\* The invariant holds in every reachable state.
THEOREM Invariant == Spec => []IInv
<1> QED
  BY InitSound, NextSound, PTL DEF Spec

\* Everything the database ever holds is of least main cost for its Spec, for every
\* set of Specs, any number of threads and any interleaving of their puts.
THEOREM DatabaseSound == Spec => []DbSound
<1>1. IInv => DbSound
  BY DEF IInv
<1> QED
  BY Invariant, <1>1, PTL

\* Two results of least main cost have one main cost.
LEMMA OneMain ==
    ASSUME NEW s \in Specs, NEW x \in Opt[s], NEW y \in Opt[s]
    PROVE  SameMain(x, y)
<1>1. CASE Opt[s] = {NoImpl}
  BY <1>1 DEF SameMain
<1>2. CASE /\ Candidates(s) # {} /\ Opt[s] \in SUBSET Candidates(s)
           /\ \A r \in Opt[s] : r \in Pairs /\ r.cost # None
  <2>1. Opt[s] = {r \in Candidates(s) : \A c \in Candidates(s) : Main(r.cost) <= Main(c.cost)}
    BY <1>2, OptAssumption DEF LeastMain
  <2>2. Main(x.cost) <= Main(y.cost) /\ Main(y.cost) <= Main(x.cost)
    BY <2>1
  <2>3. Main(x.cost) \in Nat /\ Main(y.cost) \in Nat
    BY <1>2, MainAssumption
  <2>4. x # NoImpl /\ y # NoImpl
    BY <1>2 DEF NoImpl
  <2> QED
    BY <2>2, <2>3, <2>4 DEF SameMain
<1> QED
  BY <1>1, <1>2, OptCost

\* A cell, once filled, is never emptied, and the main cost it records never changes,
\* though the action may when another is as good.
THEOREM MainCostsFinal == Spec => MainCostsAreFinal
<1> DEFINE Kept == \A s \in DOMAIN db : s \in DOMAIN db' /\ SameMain(db[s], db'[s])
<1>1. IInv /\ IInv' /\ [Next \/ Terminating]_vars => [Kept]_vars
  <2> SUFFICES ASSUME IInv, IInv', Next PROVE Kept
    BY DEF Terminating
  <2>1. DOMAIN db \subseteq DOMAIN db'
    <3>1. CASE Driver
      BY <3>1 DEF Driver, StartGroup, EndGroup
    <3>2. ASSUME NEW t \in Threads, ThreadStep(t) PROVE DOMAIN db \subseteq DOMAIN db'
      <4>1. CASE WriteBlock(t)
        BY <4>1 DEF WriteBlock
      <4>2. CASE ~WriteBlock(t)
        BY <3>2, <4>2 DEF ThreadStep, RequestExternal, VisitSubspec, AwaitInternal,
             AnswerInternal, EndBatch, VisitGoal, GoalsVisited, DrainOutbox,
             ResolveRequest, OutboxDrained, SynthesizeSubblock, BeginStage, StageVisit,
             EndStage, BeginPut, PutTask, ReturnSubblock, ReturnThread
      <4> QED
        BY <4>1, <4>2
    <3> QED
      BY <3>1, <3>2 DEF Next
  <2>2. DbSound /\ DbSound' /\ DOMAIN db \subseteq Specs
    BY DEF IInv
  <2>3. ASSUME NEW s \in DOMAIN db PROVE SameMain(db[s], db'[s])
    <3>1. s \in Specs /\ db[s] \in Opt[s] /\ db'[s] \in Opt[s]
      BY <2>1, <2>2 DEF DbSound
    <3> QED
      BY <3>1, OneMain
  <2> QED
    BY <2>1, <2>3
<1> QED
  BY Invariant, <1>1, PTL DEF Spec, MainCostsAreFinal
=============================================================================
