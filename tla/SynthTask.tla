----------------------------- MODULE SynthTask -----------------------------
(***************************************************************************)
(* One SpecTask of morello/src/search.rs: the incremental computation of   *)
(* the best implementation of one Spec.                                    *)
(*                                                                         *)
(* A Spec has a sequence of actions.  Applying an action fails (it does    *)
(* not apply, or is out of memory), gives a complete Impl (no sub-Specs),  *)
(* or gives a partial Impl that waits for the cost of each sub-Spec.  The  *)
(* reducer keeps the cheapest complete Impl seen, by cost and then by      *)
(* action index (top_k = 1, the only value search.rs implements).          *)
(*                                                                         *)
(* A cost is a natural number that stands for the code's Cost, a totally   *)
(* ordered triple of main cost, peaks and depth; `Main` is the first of    *)
(* them.  Only the main cost of a Spec's best Impl is determined: peaks    *)
(* and depth depend on which of several equally good Impls of its          *)
(* sub-Specs the search has met.                                           *)
(***************************************************************************)
EXTENDS Integers, Sequences, FiniteSets

CONSTANTS
    Specs,              \* the canonical Specs reachable from the goals
    ActionsOf,          \* [Specs -> sequence of [ok, subs]], `ok` iff apply() is Ok
    ImplCost(_, _, _),  \* cost of Spec s's action a, given its sub-Specs' costs
    Main(_),            \* the main cost of a cost (CostIntensity)
    Opt                 \* [Specs -> SUBSET Results]: the results of least main cost

\* Option<Cost>::None: an unsatisfiable sub-Spec, or a slot not filled yet.
None == -1

\* An ActionCostVec for top_k = 1: empty, or one (action, cost) pair.
NoImpl == [action |-> 0, cost |-> None]
Results == [action : Nat, cost : Nat \cup {None}]

Acts(s) == 1..Len(ActionsOf[s])
Subs(s, a) == ActionsOf[s][a].subs
Slots(s, a) == 1..Len(Subs(s, a))
IsLeaf(s, a) == ActionsOf[s][a].ok /\ Subs(s, a) = <<>>
IsPartial(s, a) == ActionsOf[s][a].ok /\ Subs(s, a) # <<>>

-----------------------------------------------------------------------------
(* The reference: results of least main cost.                              *)

\* The order of the pairs (Cost, ActionIdx) in the reducer.
AtMost(x, y) == \/ x.cost < y.cost
                \/ x.cost = y.cost /\ x.action <= y.action

IsBest(r, C) == IF C = {} THEN r = NoImpl
                          ELSE r \in C /\ \A c \in C : AtMost(r, c)

\* The costs a search may give for s, None if s is unsatisfiable.
OptCosts(s) == {r.cost : r \in Opt[s]}

Satisfiable(s, a) == \A j \in Slots(s, a) : None \notin OptCosts(Subs(s, a)[j])

\* The costs that may fill the slots of action a, and the Impls it then yields.
Choices(s, a) ==
    {f \in [Slots(s, a) -> (UNION {OptCosts(u) : u \in Specs}) \ {None}] :
        \A j \in Slots(s, a) : f[j] \in OptCosts(Subs(s, a)[j])}
Impl(s, a, f) == [action |-> a, cost |-> ImplCost(s, a, f)]
Impls(s, a) == {Impl(s, a, f) : f \in Choices(s, a)}

Leaves(s) == UNION {Impls(s, a) : a \in {b \in Acts(s) : IsLeaf(s, b)}}
Candidates(s) == UNION {Impls(s, a) : a \in {b \in Acts(s) : ActionsOf[s][b].ok}}

LeastMain(C) == IF C = {} THEN {NoImpl}
                ELSE {r \in C : \A c \in C : Main(r.cost) <= Main(c.cost)}

ASSUME ActionsAssumption ==
    /\ ActionsOf \in [Specs -> Seq([ok : BOOLEAN, subs : Seq(Specs)])]
    /\ \A s \in Specs : \A a \in Acts(s) : \A f \in Choices(s, a) : ImplCost(s, a, f) \in Nat

\* Cost's order is lexicographic, with the main cost first; and an Impl's main cost
\* is computed from those of its sub-Specs, of which each has only one.
ASSUME MainAssumption ==
    \A s \in Specs :
        /\ \A r \in Candidates(s) : Main(r.cost) \in Nat
        /\ \A r, c \in Candidates(s) : r.cost <= c.cost => Main(r.cost) <= Main(c.cost)
        /\ \A a \in Acts(s) : \A f, g \in Choices(s, a) :
              Main(ImplCost(s, a, f)) = Main(ImplCost(s, a, g))

\* A Spec's sub-Specs are below it, for some well-founded order: every set of Specs
\* has one that depends on no other of the set.  (Descends, of ScheduleWalk, is
\* why: an action leaves less memory, a simpler or a smaller problem.)
ASSUME AcyclicAssumption ==
    \A T \in SUBSET Specs : T # {} =>
        \E s \in T : \A a \in Acts(s) : \A j \in Slots(s, a) : Subs(s, a)[j] \notin T

\* Opt solves the recurrence that "an Impl of least main cost" defines.
ASSUME OptAssumption ==
    /\ Opt \in [Specs -> SUBSET Results]
    /\ \A s \in Specs : Opt[s] = LeastMain(Candidates(s))

-----------------------------------------------------------------------------
(* The task.  `parts[a]` is the WorkingPartialImpl of action a ("None" for *)
(* an action that yields no partial Impl), `costs[a][j]` its j-th cost.    *)

PartStates == {"None", "Constructing", "Unsat", "Sat"}
TaskOf(s) ==
    [running : BOOLEAN, best : Results, parts : [Acts(s) -> PartStates],
     costs : [Acts(s) -> Seq(Nat \cup {None})],
     incomplete : Nat, batches : Nat, fromDb : BOOLEAN]

\* Faulty variants, each a plausible slip in the definition that follows it.
\* They show that a property can fail and are used nowhere else.
InsertKeepsDearest(best, new) == IF best = NoImpl \/ AtMost(best, new) THEN new ELSE best

\* ImplReducer::insert.
Insert(best, new) == IF best = NoImpl \/ ~AtMost(best, new) THEN new ELSE best

\* A fresh reducer after the insertion of all of C, in whichever order.
BestOf(C) == IF C = {} THEN NoImpl ELSE CHOOSE c \in C : \A d \in C : AtMost(c, d)

Constructing(s, parts) == {a \in Acts(s) : parts[a] = "Constructing"}

\* SpecTask::Complete(result, from_db).
Complete(s, result, fromDb) ==
    [running |-> FALSE, best |-> result, parts |-> [a \in Acts(s) |-> "None"],
     costs |-> [a \in Acts(s) |-> <<>>], incomplete |-> 0, batches |-> 0,
     fromDb |-> fromDb]

\* SpecTask::start: expand every action of s.
Start(s) ==
    LET partial == {a \in Acts(s) : IsPartial(s, a)}
    IN  IF partial = {}
        THEN Complete(s, BestOf(Leaves(s)), FALSE)
        ELSE [running |-> TRUE, best |-> BestOf(Leaves(s)),
              parts |-> [a \in Acts(s) |-> IF a \in partial THEN "Constructing"
                                                            ELSE "None"],
              costs |-> [a \in Acts(s) |-> [j \in Slots(s, a) |-> None]],
              incomplete |-> Cardinality(partial), batches |-> 0, fromDb |-> FALSE]
\* Faulty: the last batch is never asked for.
HasNextBatchShort(s, task) ==
    /\ task.running
    /\ \E a \in Acts(s) : IsPartial(s, a) /\ Len(Subs(s, a)) > task.batches + 1

\* SpecTask::next_request_batch: the k-th batch asks for the k-th sub-Spec of
\* every partial Impl still under construction, for k up to max_children.
HasNextBatch(s, task) ==
    /\ task.running
    /\ \E a \in Acts(s) : IsPartial(s, a) /\ Len(Subs(s, a)) > task.batches

BatchActions(s, task, k) ==
    {a \in Constructing(s, task.parts) : Len(Subs(s, a)) >= k}

\* The end of resolve_request once a partial Impl is Sat or Unsat.
FinishPart(s, task) ==
    IF task.incomplete = 1 THEN Complete(s, task.best, FALSE)
                           ELSE [task EXCEPT !.incomplete = @ - 1]

\* SpecTask::resolve_request for request (a, j) of s's running task.
Resolve(s, task, a, j, cost) ==
    LET filled == [task.costs[a] EXCEPT ![j] = cost]
        new    == [action |-> a, cost |-> ImplCost(s, a, filled)]
    IN  CASE task.parts[a] # "Constructing" -> task
          [] task.parts[a] = "Constructing" /\ cost = None ->
               FinishPart(s, [task EXCEPT !.parts[a] = "Unsat"])
          [] /\ task.parts[a] = "Constructing"
             /\ \A i \in Slots(s, a) : filled[i] # None ->
               FinishPart(s, [task EXCEPT !.parts[a] = "Sat", !.costs[a] = filled,
                                          !.best = Insert(@, new)])
          [] OTHER -> [task EXCEPT !.costs[a] = filled]

\* What resolve_request panics or debug_asserts on.
ResolvePanics(task, a, j, cost) ==
    \/ ~task.running
    \/ task.parts[a] = "Sat"
    \/ task.parts[a] = "Constructing" /\ cost # None /\ task.costs[a][j] # None
=============================================================================
