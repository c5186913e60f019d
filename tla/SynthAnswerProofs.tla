------------------------- MODULE SynthAnswerProofs -------------------------
(***************************************************************************)
(* What the search of SynthSearch gives, beyond sound requests.  First its *)
(* bookkeeping: no request is lost, none is answered twice, the count of   *)
(* running tasks is right, and synthesize ends with its queues empty.      *)
(* Then what it records and answers: a database that has every             *)
(* implementation's sub-Specs (THEOREM DependenciesKept), the type         *)
(* invariant, what top_down_many answers: a result of least main cost at   *)
(* each goal's index, provided that there is one thread or all goals are   *)
(* on one page (THEOREM AnswersOptimal); and that every step is one of     *)
(* SynthContract's (THEOREM KeepsContract).  Without the proviso the run   *)
(* synth_mixed_results refutes it.                                         *)
(*                                                                         *)
(* The invariant that carries the bookkeeping follows each request of a    *)
(* block from the frame that asks it to the queue where it waits and to    *)
(* its answer: it is in exactly one of these places as long as its slot is *)
(* empty.                                                                  *)
(***************************************************************************)
EXTENDS SynthSearchProofs

-----------------------------------------------------------------------------
(* Where a request is.                                                     *)

\* The slot that was asked for and is still empty, of a part that may yet be Sat.
MissingIn(task, a, j) ==
    /\ task.running /\ task.parts[a] = "Constructing"
    /\ j <= task.batches /\ task.costs[a][j] = None

Missing(b, h) == h.spec \in DOMAIN b.ws /\ MissingIn(b.ws[h.spec], h.action, h.child)

\* An answer to the slot would not panic: unless its task or its part is over,
\* it is empty.
OpenIn(task, a, j) ==
    task.running => /\ j <= task.batches /\ task.parts[a] # "Sat"
                    /\ task.parts[a] = "Constructing" => task.costs[a][j] = None

Open(b, h) == h.spec \in DOMAIN b.ws /\ OpenIn(b.ws[h.spec], h.action, h.child)

\* A slot that no batch has asked for yet is empty.
UnaskedIn(task, a, j) ==
    task.running /\ task.parts[a] = "Constructing" /\ j > task.batches
        => task.costs[a][j] = None

Delivered(b, h) == \E d \in b.deliv : d.h = h

Queued(b, h) == h \in b.internal[SubOf(h)] \/ h \in b.external[SubOf(h)] \/ Delivered(b, h)

FrameHandle(f, a) == [spec |-> f.spec, action |-> a, child |-> f.child]

\* The sub-Spec that a frame's visit_next_request_batch may call itself for.
DependsOn(s, u) == \E a \in Acts(s) : \E j \in Slots(s, a) : Subs(s, a)[j] = u

-----------------------------------------------------------------------------
(* The invariant of a block, by what it is about.                          *)

CountOK(b) ==
    IsFiniteSet(RunningTasks(b)) /\ b.running = Cardinality(RunningTasks(b))

\* What there can be in each phase of synthesize.
PhaseOK(b) ==
    /\ b.frames # <<>> => b.pc \in {"goals", "stage"}
    /\ b.deliv # {} => b.pc \in {"drain", "sub"}
    /\ b.pc \in {"sub", "put"} => b.outbox = {}
    /\ b.pc = "put" => RunningTasks(b) = {} /\ \A s \in Specs : b.external[s] = {}
    /\ b.visited \subseteq DOMAIN b.ws

OneAnswer(b) == \A d, e \in b.deliv : d.h = e.h => d = e

\* A queue is kept as long as its sub-Spec is running or to be announced; a request
\* is in one queue, and may be answered, once.
QueuesOK(b) ==
    /\ OneAnswer(b)
    /\ \A s \in Specs : b.internal[s] # {} => s \in RunningTasks(b) \cup b.outbox
    /\ \A h \in SoundHandles :
          /\ h \in b.internal[SubOf(h)] => IsInternal(h)
          /\ h \in b.external[SubOf(h)] => ~IsInternal(h)
          /\ Delivered(b, h) => h \notin b.internal[SubOf(h)] /\ h \notin b.external[SubOf(h)]
          /\ Queued(b, h) => Open(b, h)

UnaskedEmpty(b) ==
    \A h \in SoundHandles :
        h.spec \in DOMAIN b.ws => UnaskedIn(b.ws[h.spec], h.action, h.child)

\* What a frame is still to ask is missing and not asked yet; each frame is for a
\* sub-Spec of the one below.
FramesOK(b) ==
    /\ \A i \in 1..Len(b.frames) : \A a \in b.frames[i].left :
          LET h == FrameHandle(b.frames[i], a) IN Missing(b, h) /\ ~Queued(b, h)
    /\ \A i \in 1..Len(b.frames) - 1 : DependsOn(b.frames[i].spec, b.frames[i + 1].spec)

NothingLost(b) == \A h \in SoundHandles : Missing(b, h) => Waiting(b, h)

FlowOK(b) ==
    /\ CountOK(b) /\ PhaseOK(b) /\ QueuesOK(b)
    /\ UnaskedEmpty(b) /\ FramesOK(b) /\ NothingLost(b)

\* A block whose call of synthesize waits for a nested one.
Suspended(b) == b.pc = "sub" /\ b.deliv = {}

FlowInv ==
    \A t \in Threads : \A i \in 1..Len(stack[t]) :
        FlowOK(stack[t][i]) /\ (i < Len(stack[t]) => Suspended(stack[t][i]))

FInv == IInv /\ FlowInv
-----------------------------------------------------------------------------
(* Frames.                                                                 *)

\* Sub-Specs of sub-Specs never come back to a Spec: no frame is for a Spec that
\* another frame is for, nor for a sub-Spec that the last one may ask for.
LEMMA FramesApart ==
    ASSUME NEW n \in Nat, NEW f, NEW s,
           \A i \in 1..n : f[i] \in Specs,
           \A i \in 1..n - 1 : DependsOn(f[i], f[i + 1]),
           n > 0, s \in Specs, DependsOn(f[n], s)
    PROVE  \A i \in 1..n : f[i] # s
<1> SUFFICES ASSUME NEW i \in 1..n, f[i] = s PROVE FALSE
  OBVIOUS
<1> DEFINE T == {f[m] : m \in i..n}
<1>1. T \in SUBSET Specs /\ T # {}
  BY n \in i..n
<1>2. PICK u \in T : \A a \in Acts(u) : \A j \in Slots(u, a) : Subs(u, a)[j] \notin T
  BY <1>1, AcyclicAssumption
<1>3. PICK m \in i..n : u = f[m]
  BY <1>2
<1>4. \A x \in T : ~DependsOn(u, x)
  BY <1>2 DEF DependsOn
<1>5. CASE m = n
  BY <1>3, <1>4, <1>5
<1>6. CASE m # n
  <2>1. m \in 1..n - 1 /\ m + 1 \in i..n
    BY <1>3, <1>6
  <2> QED
    BY <1>3, <1>4, <2>1
<1> QED
  BY <1>5, <1>6

LEMMA FramesDistinct ==
    ASSUME NEW n \in Nat, NEW f,
           \A i \in 1..n : f[i] \in Specs,
           \A i \in 1..n - 1 : DependsOn(f[i], f[i + 1])
    PROVE  \A i \in 1..n - 1 : f[i] # f[n]
<1>1. CASE n < 2
  BY <1>1
<1>2. CASE n >= 2
  <2>1. n - 1 \in Nat /\ n - 1 > 0
    BY <1>2
  <2>2. PICK m \in Nat : m = n - 1
    BY <2>1
  <2>3. m > 0 /\ m + 1 = n /\ m \in 1..n - 1
    BY <2>1, <2>2
  <2>4. DependsOn(f[m], f[n])
    BY <2>3
  <2>5. \A i \in 1..m : f[i] # f[n]
    <3>1. \A i \in 1..m : f[i] \in Specs
      BY <2>3
    <3>2. \A i \in 1..m - 1 : DependsOn(f[i], f[i + 1])
      BY <2>3
    <3>3. f[n] \in Specs
      BY <1>2
    <3> QED
      BY <2>3, <2>4, <3>1, <3>2, <3>3, FramesApart
  <2> QED
    BY <2>2, <2>5
<1> QED
  BY <1>1, <1>2
-----------------------------------------------------------------------------
(* Tasks.                                                                  *)

\* A running task counts the parts under construction, of which there are few.
LEMMA Counted ==
    ASSUME NEW s \in Specs, NEW task, TaskSound(s, task), task.running
    PROVE  /\ IsFiniteSet(Constructing(s, task.parts))
           /\ task.incomplete = Cardinality(Constructing(s, task.parts))
           /\ task.parts \in [Acts(s) -> PartStates]
           /\ task.costs \in [Acts(s) -> Seq(Nat \cup {None})]
           /\ task.batches \in Nat
<1>1. IsFiniteSet(Acts(s)) /\ Constructing(s, task.parts) \in SUBSET Acts(s)
  BY ConstantTypes DEF Constructing
<1>2. IsFiniteSet(Constructing(s, task.parts))
  BY <1>1, FS_Subset
<1> QED
  BY <1>2 DEF TaskSound, TaskOf

\* A part that finishes while another is under construction is not the last.
LEMMA NotTheLast ==
    ASSUME NEW s \in Specs, NEW task, TaskSound(s, task), task.running,
           NEW a \in Acts(s), NEW c \in Acts(s), a # c,
           task.parts[a] = "Constructing", task.parts[c] = "Constructing"
    PROVE  task.incomplete # 1
<1> DEFINE C == Constructing(s, task.parts)
<1>1. IsFiniteSet(C) /\ task.incomplete = Cardinality(C) /\ a \in C /\ c \in C
  BY Counted DEF Constructing
<1>2. SUFFICES ASSUME Cardinality(C) = 1 PROVE FALSE
  BY <1>1
<1>3. Cardinality(C \ {a}) = 0 /\ IsFiniteSet(C \ {a})
  BY <1>1, <1>2, FS_RemoveElement
<1>4. C \ {a} = {}
  BY <1>3, FS_EmptySet
<1> QED
  BY <1>1, <1>4

\* What resolve_request does to the slots of a task: the one it resolves is
\* no longer missing, the others stay as open and as missing as they were.
LEMMA ResolveFlow ==
    ASSUME NEW s \in Specs, NEW task, TaskSound(s, task), task.running,
           NEW a \in Acts(s), NEW j \in Slots(s, a),
           NEW cost, cost \in OptCosts(Subs(s, a)[j])
    PROVE  LET after == Resolve(s, task, a, j, cost)
           IN  /\ \A c \in Acts(s) : \A i \in Slots(s, c) :
                     /\ (c # a \/ i # j) /\ OpenIn(task, c, i) => OpenIn(after, c, i)
                     /\ MissingIn(after, c, i) => MissingIn(task, c, i) /\ (c # a \/ i # j)
                     /\ c # a /\ MissingIn(task, c, i) => MissingIn(after, c, i)
                     /\ j <= task.batches /\ UnaskedIn(task, c, i) => UnaskedIn(after, c, i)
<1> DEFINE after  == Resolve(s, task, a, j, cost)
           filled == [task.costs[a] EXCEPT ![j] = cost]
           new    == [action |-> a, cost |-> ImplCost(s, a, filled)]
           full   == \A i \in Slots(s, a) : filled[i] # None
<1> SUFFICES \A c \in Acts(s) : \A i \in Slots(s, c) :
               /\ (c # a \/ i # j) /\ OpenIn(task, c, i) => OpenIn(after, c, i)
               /\ MissingIn(after, c, i) => MissingIn(task, c, i) /\ (c # a \/ i # j)
               /\ c # a /\ MissingIn(task, c, i) => MissingIn(after, c, i)
               /\ j <= task.batches /\ UnaskedIn(task, c, i) => UnaskedIn(after, c, i)
  OBVIOUS
<1>1. /\ task.parts \in [Acts(s) -> PartStates] /\ task \in TaskOf(s)
      /\ task.costs \in [Acts(s) -> Seq(Nat \cup {None})]
      /\ \A c \in Acts(s) : PartSound(s, c, task)
  BY Counted DEF TaskSound
<1>2. CASE task.parts[a] # "Constructing"
  <2>1. after = task
    BY <1>2 DEF Resolve
  <2> QED
    BY <1>2, <2>1 DEF MissingIn
<1>3. CASE task.parts[a] = "Constructing"
  <2>1. task.costs[a] \in [Slots(s, a) -> Nat \cup {None}]
    BY <1>1, <1>3 DEF PartSound
  <2>2. /\ filled[j] = cost /\ \A i \in Slots(s, a) : i # j => filled[i] = task.costs[a][i]
    BY <2>1
  \* FinishPart of a task whose part a is over.
  <2>3. ASSUME NEW st \in {"Sat", "Unsat"}, NEW t2 \in TaskOf(s),
               t2.running, t2.batches = task.batches, t2.incomplete = task.incomplete,
               t2.parts = [task.parts EXCEPT ![a] = st],
               \A c \in Acts(s) : c # a => t2.costs[c] = task.costs[c],
               after = FinishPart(s, t2),
               st = "Sat" => full
        PROVE  \A c \in Acts(s) : \A i \in Slots(s, c) :
                     /\ (c # a \/ i # j) /\ OpenIn(task, c, i) => OpenIn(after, c, i)
                     /\ MissingIn(after, c, i) => MissingIn(task, c, i) /\ (c # a \/ i # j)
                     /\ c # a /\ MissingIn(task, c, i) => MissingIn(after, c, i)
                     /\ j <= task.batches /\ UnaskedIn(task, c, i) => UnaskedIn(after, c, i)
    <3> SUFFICES ASSUME NEW c \in Acts(s), NEW i \in Slots(s, c)
                 PROVE  /\ (c # a \/ i # j) /\ OpenIn(task, c, i) => OpenIn(after, c, i)
                        /\ MissingIn(after, c, i) => MissingIn(task, c, i) /\ (c # a \/ i # j)
                        /\ c # a /\ MissingIn(task, c, i) => MissingIn(after, c, i)
                        /\ j <= task.batches /\ UnaskedIn(task, c, i) => UnaskedIn(after, c, i)
      OBVIOUS
    <3> HIDE DEF after, full, filled
    <3>1. CASE t2.incomplete = 1
      <4>1. after = Complete(s, t2.best, FALSE)
        BY <2>3, <3>1 DEF FinishPart
      <4>2. ~after.running
        BY <4>1 DEF Complete
      <4>3. c # a => ~MissingIn(task, c, i)
        BY <1>3, <2>3, <3>1, NotTheLast DEF MissingIn
      <4> QED
        BY <4>2, <4>3 DEF OpenIn, MissingIn, UnaskedIn
    <3>2. CASE t2.incomplete # 1
      <4>1. after = [t2 EXCEPT !.incomplete = @ - 1]
        BY <2>3, <3>2 DEF FinishPart
      <4>2. after.running /\ after.parts = t2.parts /\ after.costs = t2.costs /\ after.batches = task.batches
        BY <2>3, <4>1 DEF TaskOf
      <4>3. after.parts[a] = st /\ (c # a => after.parts[c] = task.parts[c])
        BY <1>1, <2>3, <4>2
      <4>4. c # a => after.costs[c] = task.costs[c]
        BY <2>3, <4>2
      <4>5. c = a /\ i # j /\ OpenIn(task, c, i) => st # "Sat"
        BY <1>3, <2>2, <2>3 DEF OpenIn, full
      <4> QED
        BY <1>3, <2>3, <4>2, <4>3, <4>4, <4>5 DEF OpenIn, MissingIn, UnaskedIn
    <3> QED
      BY <3>1, <3>2
  <2>4. Subs(s, a)[j] \in Specs /\ cost \in Nat \cup {None}
    BY ConstantTypes, OptCost
  <2>5. CASE cost = None
    <3> DEFINE t2 == [task EXCEPT !.parts[a] = "Unsat"]
    <3>1. after = FinishPart(s, t2)
      <4>1. ~full
        BY <2>2, <2>5
      <4> QED
        BY <1>3, <2>5, <4>1 DEF Resolve
    <3>2. /\ t2 \in TaskOf(s) /\ t2.running /\ t2.batches = task.batches
          /\ t2.incomplete = task.incomplete
          /\ t2.parts = [task.parts EXCEPT ![a] = "Unsat"] /\ t2.costs = task.costs
      BY <1>1 DEF TaskOf, PartStates
    <3> HIDE DEF t2, after, full
    <3> QED
      BY <2>3, <3>1, <3>2
  <2>6. CASE cost # None /\ full
    <3> DEFINE best == Insert(task.best, new)
               t2   == [task EXCEPT !.parts[a] = "Sat", !.costs[a] = filled, !.best = best]
    <3>1. after = FinishPart(s, t2)
      BY <1>3, <2>6 DEF Resolve
    <3>2. filled \in Seq(Nat \cup {None})
      <4>1. task.costs[a] \in Seq(Nat \cup {None}) /\ DOMAIN task.costs[a] = Slots(s, a)
        BY <1>1, <2>1
      <4>2. j \in 1..Len(task.costs[a])
        BY <4>1
      <4> QED
        BY <2>4, <4>1, <4>2, ExceptSeq
    <3>3. SlotsSound(s, a, filled)
      BY <1>1, <1>3, <2>1, <2>4 DEF PartSound, SlotsSound
    <3>4. best \in Results
      <4>1. new = Impl(s, a, filled) /\ \A i \in Slots(s, a) : filled[i] # None
        BY <2>6 DEF Impl
      <4> HIDE DEF filled, new
      <4>2. new \in Pairs
        BY <3>3, <4>1, FilledSound, ImplType
      <4> QED
        BY <1>1, <4>2 DEF Insert, TaskOf, Results, Pairs
    <3> HIDE DEF filled, best
    <3>5. /\ t2 \in TaskOf(s) /\ t2.running /\ t2.batches = task.batches
          /\ t2.incomplete = task.incomplete
          /\ t2.parts = [task.parts EXCEPT ![a] = "Sat"]
          /\ \A c \in Acts(s) : c # a => t2.costs[c] = task.costs[c]
      BY <1>1, <3>2, <3>4 DEF TaskOf, PartStates
    <3> HIDE DEF t2, after, full
    <3> QED
      BY <2>3, <2>6, <3>1, <3>5
  <2>7. CASE cost # None /\ ~full
    <3>1. after = [task EXCEPT !.costs[a] = filled]
      BY <1>3, <2>7 DEF Resolve
    <3> HIDE DEF filled
    <3> HIDE DEF after
    <3>2. /\ after.running = task.running /\ after.parts = task.parts /\ after.batches = task.batches
          /\ after.costs[a] = filled /\ \A c \in Acts(s) : c # a => after.costs[c] = task.costs[c]
      <4>1. PICK costs \in [Acts(s) -> Seq(Nat \cup {None})] : costs = task.costs
        BY <1>1 DEF TaskOf
      <4>2. after = [task EXCEPT !.costs = [costs EXCEPT ![a] = filled]]
        BY <3>1, <4>1
      <4>3. DOMAIN task = {"running", "best", "parts", "costs", "incomplete", "batches", "fromDb"}
        BY <1>1 DEF TaskOf
      <4>4. /\ after.running = task.running /\ after.parts = task.parts
            /\ after.batches = task.batches /\ after.costs = [costs EXCEPT ![a] = filled]
        BY <4>2, <4>3
      <4> QED
        BY <4>1, <4>4
    <3>3. j \in Int /\ task.batches \in Int
      BY <1>1, ConstantTypes DEF TaskOf, Slots
    <3>4. ASSUME NEW c \in Acts(s), NEW i \in Slots(s, c), j <= task.batches,
                 UnaskedIn(task, c, i)
          PROVE  UnaskedIn(after, c, i)
      <4>1. i \in Int
        BY ConstantTypes DEF Slots
      <4> QED
        BY <2>2, <3>2, <3>3, <3>4, <4>1 DEF UnaskedIn
    <3> QED
      BY <2>2, <2>7, <3>2, <3>4 DEF OpenIn, MissingIn
  <2> QED
    BY <2>5, <2>6, <2>7
<1> QED
  BY <1>2, <1>3
-----------------------------------------------------------------------------
(* Blocks.                                                                 *)

LEMMA SameHandle ==
    ASSUME NEW g \in SoundHandles, NEW h \in SoundHandles,
           g.spec = h.spec, g.action = h.action, g.child = h.child
    PROVE  g = h
BY DEF SoundHandles, Handles

\* A finite set of running tasks stays counted when a task stops or starts.
LEMMA CountLess ==
    ASSUME NEW b, NEW c, CountOK(b), NEW s \in RunningTasks(b), b.running \in Int,
           RunningTasks(c) = RunningTasks(b) \ {s}, c.running = b.running - 1
    PROVE  CountOK(c)
<1>1. IsFiniteSet(RunningTasks(b)) /\ b.running = Cardinality(RunningTasks(b))
  BY DEF CountOK
<1>2. /\ IsFiniteSet(RunningTasks(b) \ {s})
      /\ Cardinality(RunningTasks(b) \ {s}) = Cardinality(RunningTasks(b)) - 1
  BY <1>1, FS_RemoveElement
<1> QED
  BY <1>1, <1>2 DEF CountOK

LEMMA CountMore ==
    ASSUME NEW b, NEW c, CountOK(b), NEW s, s \notin RunningTasks(b), b.running \in Int,
           RunningTasks(c) = RunningTasks(b) \cup {s}, c.running = b.running + 1
    PROVE  CountOK(c)
<1>1. IsFiniteSet(RunningTasks(b)) /\ b.running = Cardinality(RunningTasks(b))
  BY DEF CountOK
<1>2. /\ IsFiniteSet(RunningTasks(b) \cup {s})
      /\ Cardinality(RunningTasks(b) \cup {s}) = Cardinality(RunningTasks(b)) + 1
  BY <1>1, FS_AddElement
<1> QED
  BY <1>1, <1>2 DEF CountOK

\* Everything but the working set and its count is as in another block.
SameBut(new, b) ==
    /\ new.pc = b.pc /\ new.goals = b.goals /\ new.todo = b.todo
    /\ new.internal = b.internal /\ new.external = b.external
    /\ new.visited = b.visited /\ new.outbox = b.outbox /\ new.frames = b.frames
    /\ new.deliv = b.deliv /\ new.cells = b.cells /\ new.res = b.res

\* What resolving a handle does to the requests of its block.
LEMMA ResolveBlock ==
    ASSUME NEW b \in SoundBlocks, CountOK(b), UnaskedEmpty(b),
           NEW h \in SoundHandles, Open(b, h),
           h.spec \in RunningTasks(b), NEW cost, cost \in OptCosts(SubOf(h))
    PROVE  LET new == ResolveHandle(b, h, cost)
           IN  /\ new \in SoundBlocks /\ SameBut(new, b) /\ CountOK(new)
               /\ UnaskedEmpty(new)
               /\ DOMAIN new.ws = DOMAIN b.ws /\ h.spec \in DOMAIN new.ws
               /\ RunningTasks(new) = IF new.ws[h.spec].running THEN RunningTasks(b)
                                      ELSE RunningTasks(b) \ {h.spec}
               /\ \A g \in SoundHandles :
                     /\ g # h /\ Open(b, g) => Open(new, g)
                     /\ Missing(new, g) => Missing(b, g) /\ g # h
                     /\ Missing(b, g) /\ (g.spec # h.spec \/ g.action # h.action) => Missing(new, g)
<1> DEFINE s    == h.spec
           task == Resolve(s, b.ws[s], h.action, h.child, cost)
           ws   == [b.ws EXCEPT ![s] = task]
           run  == IF task.running THEN b.running ELSE b.running - 1
           new  == [b EXCEPT !.ws = ws, !.running = run]
<1>1. ResolveHandle(b, h, cost) = new
  BY DEF ResolveHandle
<1>2. s \in DOMAIN b.ws /\ b.ws[s].running
  BY DEF RunningTasks
<1>3. b \in BlockType /\ b.ws \in WorkingSets /\ b.running \in Int
  BY DEF SoundBlocks, BlockType
<1>4. /\ s \in Specs /\ TaskSound(s, b.ws[s])
      /\ h.action \in Acts(s) /\ h.child \in Slots(s, h.action)
      /\ cost \in OptCosts(Subs(s, h.action)[h.child])
  BY <1>2, TaskFacts, HandleFacts DEF SubOf
<1>5. TaskSound(s, task)
  BY <1>2, <1>4, ResolveSound
<1>6. \A c \in Acts(s) : \A i \in Slots(s, c) :
         /\ (c # h.action \/ i # h.child) /\ OpenIn(b.ws[s], c, i) => OpenIn(task, c, i)
         /\ MissingIn(task, c, i) => MissingIn(b.ws[s], c, i) /\ (c # h.action \/ i # h.child)
         /\ c # h.action /\ MissingIn(b.ws[s], c, i) => MissingIn(task, c, i)
         /\ h.child <= b.ws[s].batches /\ UnaskedIn(b.ws[s], c, i) => UnaskedIn(task, c, i)
  BY <1>2, <1>4, ResolveFlow
<1>7. new \in SoundBlocks
  BY <1>1, ResolveHandleSound
<1> HIDE DEF task
<1>8. /\ DOMAIN ws = DOMAIN b.ws
      /\ \A u \in DOMAIN b.ws : ws[u] = IF u = s THEN task ELSE b.ws[u]
  BY <1>2, <1>3, <1>5, ReplaceSound
<1> HIDE DEF ws, run
<1>9. SameBut(new, b) /\ new.ws = ws /\ new.running = run
  BY <1>3 DEF SameBut, BlockType
<1> HIDE DEF new
<1>10. RunningTasks(new) = IF new.ws[s].running THEN RunningTasks(b) ELSE RunningTasks(b) \ {s}
  BY <1>2, <1>8, <1>9 DEF RunningTasks
<1>11. CountOK(new)
  <2>1. CASE task.running
    BY <1>2, <1>8, <1>9, <1>10, <2>1 DEF CountOK, run
  <2>2. CASE ~task.running
    <3>1. RunningTasks(new) = RunningTasks(b) \ {s} /\ new.running = b.running - 1
      BY <1>2, <1>8, <1>9, <1>10, <2>2 DEF run
    <3> QED
      BY <1>3, <3>1, CountLess
  <2> QED
    BY <2>1, <2>2
<1>12. ASSUME NEW g \in SoundHandles
       PROVE  /\ g # h /\ Open(b, g) => Open(new, g)
              /\ Missing(new, g) => Missing(b, g) /\ g # h
              /\ Missing(b, g) /\ (g.spec # s \/ g.action # h.action) => Missing(new, g)
  <2>1. CASE g.spec = s
    <3>1. g.action \in Acts(s) /\ g.child \in Slots(s, g.action)
      BY <2>1, HandleFacts
    <3>2. g # h => g.action # h.action \/ g.child # h.child
      BY <2>1, SameHandle
    <3> QED
      BY <1>2, <1>6, <1>8, <1>9, <2>1, <3>1, <3>2 DEF Open, Missing
  <2>2. CASE g.spec # s
    BY <1>8, <1>9, <2>2 DEF Open, Missing
  <2> QED
    BY <2>1, <2>2
<1>13. UnaskedEmpty(new)
  <2> SUFFICES ASSUME NEW g \in SoundHandles, g.spec \in DOMAIN new.ws
               PROVE  UnaskedIn(new.ws[g.spec], g.action, g.child)
    BY DEF UnaskedEmpty
  <2>1. UnaskedIn(b.ws[g.spec], g.action, g.child)
    BY <1>8, <1>9 DEF UnaskedEmpty
  <2>2. CASE g.spec = s
    <3>1. g.action \in Acts(s) /\ g.child \in Slots(s, g.action)
      BY <2>2, HandleFacts
    <3>2. h.child <= b.ws[s].batches
      BY <1>2 DEF Open, OpenIn
    <3> QED
      BY <1>2, <1>6, <1>8, <1>9, <2>1, <2>2, <3>1, <3>2
  <2>3. CASE g.spec # s
    BY <1>8, <1>9, <2>1, <2>3
  <2> QED
    BY <2>2, <2>3
<1> QED
  BY <1>1, <1>2, <1>7, <1>8, <1>9, <1>10, <1>11, <1>12, <1>13
\* As FlowOK, but for a request that has just been taken out of where it was.
FlowBut(b, h) ==
    /\ CountOK(b) /\ PhaseOK(b) /\ QueuesOK(b) /\ UnaskedEmpty(b) /\ FramesOK(b)
    /\ \A g \in SoundHandles : g # h /\ Missing(b, g) => Waiting(b, g)
    /\ Open(b, h) /\ ~Queued(b, h)

\* A task that is answered and does not complete: nothing else changes.
LEMMA ResolveKeeps ==
    ASSUME NEW b \in SoundBlocks, NEW h \in SoundHandles, FlowBut(b, h),
           h.spec \in RunningTasks(b), NEW cost, cost \in OptCosts(SubOf(h)),
           \A i \in 1..Len(b.frames) : \A a \in b.frames[i].left :
              LET g == FrameHandle(b.frames[i], a)
              IN  g \in SoundHandles /\ (g.spec # h.spec \/ g.action # h.action),
           NEW new, new = ResolveHandle(b, h, cost),
           new.ws[h.spec].running
    PROVE  FlowOK(new)
<1>1. /\ new \in SoundBlocks /\ SameBut(new, b) /\ CountOK(new) /\ UnaskedEmpty(new)
      /\ DOMAIN new.ws = DOMAIN b.ws
      /\ RunningTasks(new) = RunningTasks(b)
      /\ \A g \in SoundHandles :
            /\ g # h /\ Open(b, g) => Open(new, g)
            /\ Missing(new, g) => Missing(b, g) /\ g # h
            /\ Missing(b, g) /\ (g.spec # h.spec \/ g.action # h.action) => Missing(new, g)
  BY ResolveBlock DEF FlowBut
<1>2. \A g : (Queued(new, g) <=> Queued(b, g)) /\ (Waiting(new, g) <=> Waiting(b, g))
             /\ (Delivered(new, g) <=> Delivered(b, g))
  BY <1>1 DEF Queued, Waiting, Delivered, SameBut
<1>3. PhaseOK(new)
  BY <1>1 DEF PhaseOK, FlowBut, SameBut
<1>4. QueuesOK(new)
  BY <1>1, <1>2 DEF QueuesOK, OneAnswer, FlowBut, SameBut
<1>5. FramesOK(new)
  <2>1. \A i \in 1..Len(b.frames) : \A a \in b.frames[i].left :
          LET g == FrameHandle(b.frames[i], a) IN Missing(new, g) /\ ~Queued(new, g)
    BY <1>1, <1>2 DEF FramesOK, FlowBut
  <2> QED
    BY <1>1, <2>1 DEF FramesOK, FlowBut, SameBut
<1>6. NothingLost(new)
  BY <1>1, <1>2 DEF NothingLost, FlowBut
<1> QED
  BY <1>1, <1>3, <1>4, <1>5, <1>6 DEF FlowOK

\* The handles that are answered.
LEMMA DeliveriesTo ==
    ASSUME NEW hs, NEW cost
    PROVE  \A g : g \in hs <=> \E d \in Deliveries(hs, cost) : d.h = g
<1>1. \A g : g \in hs => [h |-> g, cost |-> cost] \in Deliveries(hs, cost)
  BY DEF Deliveries
<1>2. \A d \in Deliveries(hs, cost) : d.h \in hs
  BY DEF Deliveries
<1>3. \A g : [h |-> g, cost |-> cost].h = g
  OBVIOUS
<1> QED
  BY <1>1, <1>2, <1>3

LEMMA OneCost ==
    ASSUME NEW hs, NEW cost
    PROVE  \A d, e \in Deliveries(hs, cost) : d.h = e.h => d = e
BY DEF Deliveries

\* inner_resolve_request.
LEMMA DeliverToFlow ==
    ASSUME NEW b \in SoundBlocks, NEW h \in SoundHandles, FlowBut(b, h),
           b.pc \in {"drain", "sub"}, NEW cost, cost \in OptCosts(SubOf(h))
    PROVE  FlowOK(DeliverTo(b, h, cost))
<1> DEFINE s     == h.spec
           after == ResolveHandle(b, h, cost)
           more  == Deliveries(b.internal[s], after.ws[s].best.cost)
           new   == [after EXCEPT !.deliv = @ \cup more, !.internal[s] = {}]
<1>0. b.frames = <<>>
  BY DEF FlowBut, PhaseOK
<1>1. CASE s \notin RunningTasks(b)
  <2>1. DeliverTo(b, h, cost) = b
    BY <1>1 DEF DeliverTo
  <2>2. ~Missing(b, h)
    BY <1>1 DEF Missing, MissingIn, RunningTasks
  <2> QED
    BY <2>1, <2>2 DEF FlowBut, FlowOK, NothingLost
<1>2. CASE s \in RunningTasks(b) /\ after.ws[s].running
  <2>1. DeliverTo(b, h, cost) = after
    BY <1>2 DEF DeliverTo
  <2> HIDE DEF after
  <2>2. FlowOK(after)
    BY <1>0, <1>2, ResolveKeeps DEF after
  <2> QED
    BY <2>1, <2>2
<1>3. CASE s \in RunningTasks(b) /\ ~after.ws[s].running
  <2>1. DeliverTo(b, h, cost) = new
    BY <1>3 DEF DeliverTo
  <2>2. /\ after \in SoundBlocks /\ SameBut(after, b) /\ CountOK(after) /\ UnaskedEmpty(after)
        /\ DOMAIN after.ws = DOMAIN b.ws
        /\ RunningTasks(after) = RunningTasks(b) \ {s}
        /\ \A g \in SoundHandles :
              /\ g # h /\ Open(b, g) => Open(after, g)
              /\ Missing(after, g) => Missing(b, g) /\ g # h
    BY <1>3, ResolveBlock DEF FlowBut
  <2> HIDE DEF after
  <2>3. /\ new.pc = b.pc /\ new.frames = <<>> /\ new.ws = after.ws /\ new.running = after.running
        /\ new.outbox = b.outbox /\ new.visited = b.visited /\ new.external = b.external
        /\ new.deliv = b.deliv \cup more
        /\ new.internal = [b.internal EXCEPT ![s] = {}]
    BY <1>0, <2>2 DEF SoundBlocks, BlockType, SameBut
  <2>4. b.internal \in SoundRequests /\ s \in Specs
    BY HandleFacts DEF SoundBlocks, BlockType
  <2>5. \A u \in Specs : new.internal[u] = IF u = s THEN {} ELSE b.internal[u]
    BY <2>3, <2>4 DEF SoundRequests
  <2> HIDE DEF new
  <2>6. RunningTasks(new) = RunningTasks(b) \ {s}
    BY <2>2, <2>3 DEF RunningTasks
  <2>7. CountOK(new)
    BY <2>2, <2>3, <2>6 DEF CountOK
  <2>8. PhaseOK(new)
    BY <2>2, <2>3, <2>6 DEF PhaseOK, FlowBut
  <2>9. \A g \in SoundHandles :
           /\ SubOf(g) \in Specs
           /\ Delivered(new, g) <=> Delivered(b, g) \/ g \in b.internal[s]
           /\ g \in b.internal[s] => SubOf(g) = s
           /\ Open(after, g) => Open(new, g)
           /\ Missing(new, g) => Missing(after, g)
    <3>1. \A g : Delivered(new, g) <=> Delivered(b, g) \/ g \in b.internal[s]
      <4>1. \A g : g \in b.internal[s] <=> \E d \in more : d.h = g
        BY DeliveriesTo DEF more
      <4> HIDE DEF more
      <4> QED
        BY <2>3, <4>1 DEF Delivered
    <3> QED
      BY <2>3, <2>4, <3>1, HandleFacts DEF SoundRequests, Open, Missing
  <2>10. \A g \in SoundHandles : Queued(new, g) => Queued(b, g)
    BY <2>3, <2>5, <2>9 DEF Queued
  <2>11. QueuesOK(new)
    <3>1. \A u \in Specs : new.internal[u] # {} => u \in RunningTasks(new) \cup new.outbox
      BY <2>3, <2>5, <2>6 DEF QueuesOK, FlowBut
    <3>2. ASSUME NEW g \in SoundHandles
          PROVE  /\ g \in new.internal[SubOf(g)] => IsInternal(g)
                 /\ g \in new.external[SubOf(g)] => ~IsInternal(g)
                 /\ Delivered(new, g) => g \notin new.internal[SubOf(g)] /\ g \notin new.external[SubOf(g)]
                 /\ Queued(new, g) => Open(new, g)
      <4>1. /\ g \in b.internal[SubOf(g)] => IsInternal(g)
            /\ g \in b.external[SubOf(g)] => ~IsInternal(g)
            /\ Delivered(b, g) => g \notin b.internal[SubOf(g)] /\ g \notin b.external[SubOf(g)]
            /\ Queued(b, g) => Open(b, g) /\ g # h
        BY DEF QueuesOK, FlowBut
      <4> QED
        BY <2>2, <2>3, <2>5, <2>9, <2>10, <4>1
    <3>3. OneAnswer(new)
      <4>1. PICK c : more = Deliveries(b.internal[s], c)
        BY DEF more
      <4>2. \A d, e \in more : d.h = e.h => d = e
        BY <4>1, OneCost
      <4>3. ASSUME NEW d \in more, NEW e \in b.deliv PROVE d.h # e.h
        <5>1. d.h \in b.internal[s]
          BY <4>1 DEF Deliveries
        <5>2. d.h \in SoundHandles /\ SubOf(d.h) = s
          BY <2>4, <5>1 DEF SoundRequests
        <5>3. ~Delivered(b, d.h)
          BY <5>1, <5>2 DEF QueuesOK, FlowBut
        <5> QED
          BY <5>3 DEF Delivered
      <4>4. \A d, e \in b.deliv : d.h = e.h => d = e
        BY DEF QueuesOK, OneAnswer, FlowBut
      <4> HIDE DEF more
      <4> QED
        BY <2>3, <4>2, <4>3, <4>4 DEF OneAnswer
    <3> QED
      BY <3>1, <3>2, <3>3 DEF QueuesOK
  <2>12. FramesOK(new)
    BY <2>3 DEF FramesOK
  <2>13. NothingLost(new)
    <3> SUFFICES ASSUME NEW g \in SoundHandles, Missing(new, g) PROVE Waiting(new, g)
      BY DEF NothingLost
    <3>1. g # h /\ Waiting(b, g)
      BY <2>2, <2>9 DEF FlowBut
    <3>2. CASE g \in b.internal[SubOf(g)] /\ SubOf(g) \in RunningTasks(b) \cup b.outbox
      BY <2>3, <2>5, <2>6, <2>9, <3>2 DEF Waiting, Delivered
    <3>3. CASE g \in b.external[SubOf(g)] \/ Delivered(b, g)
      BY <2>3, <2>9, <3>3 DEF Waiting, Delivered
    <3> QED
      BY <1>0, <3>1, <3>2, <3>3 DEF Waiting, Delivered
  <2>14. UnaskedEmpty(new)
    BY <2>2, <2>3 DEF UnaskedEmpty
  <2> QED
    BY <2>1, <2>7, <2>8, <2>11, <2>12, <2>13, <2>14 DEF FlowOK
<1> QED
  BY <1>1, <1>2, <1>3
\* The frames of a sound block: their handles exist, and they are for Specs that
\* differ from the last one's.
LEMMA FrameHandles ==
    ASSUME NEW b \in SoundBlocks, FramesOK(b), NEW i \in 1..Len(b.frames)
    PROVE  /\ b.frames[i].spec \in Specs
           /\ \A a \in b.frames[i].left :
                 /\ FrameHandle(b.frames[i], a) \in SoundHandles
                 /\ FrameHandle(b.frames[i], a).spec = b.frames[i].spec
                 /\ FrameHandle(b.frames[i], a).action = a
           /\ i # Len(b.frames) => b.frames[i].spec # b.frames[Len(b.frames)].spec
<1>1. b.frames \in Seq(SoundFrames)
  BY DEF SoundBlocks, BlockType
<1>2. Len(b.frames) \in Nat /\ (\A k \in 1..Len(b.frames) : b.frames[k] \in SoundFrames)
  BY <1>1, SeqElement
<1>3. \A k \in 1..Len(b.frames) : b.frames[k].spec \in Specs
  BY <1>2 DEF SoundFrames
<1>4. \A a \in b.frames[i].left :
         /\ FrameHandle(b.frames[i], a) \in SoundHandles
         /\ FrameHandle(b.frames[i], a).spec = b.frames[i].spec
         /\ FrameHandle(b.frames[i], a).action = a
  BY <1>2 DEF SoundFrames, FrameHandle, SoundHandles, Handles
<1>5. \A k \in 1..Len(b.frames) - 1 : b.frames[k].spec # b.frames[Len(b.frames)].spec
  <2> DEFINE f == [k \in 1..Len(b.frames) |-> b.frames[k].spec]
  <2>1. /\ \A k \in 1..Len(b.frames) : f[k] \in Specs
        /\ \A k \in 1..Len(b.frames) - 1 : DependsOn(f[k], f[k + 1])
    BY <1>2, <1>3 DEF FramesOK
  <2>2. \A k \in 1..Len(b.frames) : f[k] = b.frames[k].spec
    OBVIOUS
  <2> HIDE DEF f
  <2>3. \A k \in 1..Len(b.frames) - 1 : f[k] # f[Len(b.frames)]
    BY <1>2, <2>1, FramesDistinct
  <2> QED
    BY <1>2, <2>2, <2>3
<1> QED
  BY <1>2, <1>3, <1>4, <1>5

\* The answer of a sub-Spec that is complete, when its frame asks.
LEMMA AnswerFlow ==
    ASSUME NEW b \in SoundBlocks, NEW h \in SoundHandles, FlowBut(b, h),
           h.spec \in RunningTasks(b), NEW cost, cost \in OptCosts(SubOf(h)),
           b.frames # <<>>, b.frames[Len(b.frames)].spec = h.spec,
           h.action \notin b.frames[Len(b.frames)].left,
           NEW r, r = ResolveHandle(b, h, cost)
    PROVE  FlowOK([r EXCEPT !.outbox = IF r.ws[h.spec].running THEN @ ELSE @ \cup {h.spec}])
<1> DEFINE s   == h.spec
           new == [r EXCEPT !.outbox = IF r.ws[s].running THEN @ ELSE @ \cup {s}]
<1>a. CountOK(b) /\ UnaskedEmpty(b) /\ Open(b, h)
  BY DEF FlowBut
<1>b. h.spec \in RunningTasks(b) /\ cost \in OptCosts(SubOf(h))
  OBVIOUS
<1>1. /\ r \in SoundBlocks /\ SameBut(r, b) /\ CountOK(r) /\ UnaskedEmpty(r)
      /\ DOMAIN r.ws = DOMAIN b.ws /\ s \in DOMAIN r.ws
      /\ RunningTasks(r) = IF r.ws[s].running THEN RunningTasks(b) ELSE RunningTasks(b) \ {s}
      /\ \A g \in SoundHandles :
            /\ g # h /\ Open(b, g) => Open(r, g)
            /\ Missing(r, g) => Missing(b, g) /\ g # h
            /\ Missing(b, g) /\ (g.spec # s \/ g.action # h.action) => Missing(r, g)
  BY <1>a, <1>b, ResolveBlock, Zenon
<1> SUFFICES FlowOK(new)
  OBVIOUS
<1>2. \A i \in 1..Len(b.frames) : \A a \in b.frames[i].left :
         LET g == FrameHandle(b.frames[i], a)
         IN  g \in SoundHandles /\ (g.spec # s \/ g.action # h.action)
  BY FrameHandles DEF FlowBut
<1>3. CASE r.ws[s].running
  <2>1. new = r
    BY <1>1, <1>3 DEF SoundBlocks, BlockType
  <2> QED
    BY <1>2, <1>3, <2>1, ResolveKeeps
<1>4. CASE ~r.ws[s].running
  <2>1. /\ SameBut(r, b) /\ new.pc = b.pc /\ new.frames = b.frames /\ new.ws = r.ws
        /\ new.running = r.running /\ new.outbox = b.outbox \cup {s} /\ new.visited = b.visited
        /\ new.external = b.external /\ new.internal = b.internal /\ new.deliv = b.deliv
    BY <1>1, <1>4 DEF SoundBlocks, BlockType, SameBut
  <2> HIDE DEF new
  <2>2. RunningTasks(new) = RunningTasks(b) \ {s}
    BY <1>1, <1>4, <2>1 DEF RunningTasks
  <2>3. RunningTasks(b) \cup b.outbox \subseteq RunningTasks(new) \cup new.outbox
    BY <2>1, <2>2
  <2>4. CountOK(new)
    BY <1>1, <1>4, <2>1, <2>2 DEF CountOK
  <2>5. b.pc \in {"goals", "stage"}
    BY DEF FlowBut, PhaseOK
  <2>6. PhaseOK(new)
    BY <1>1, <2>1, <2>2, <2>5 DEF PhaseOK, FlowBut
  <2>7. \A g : /\ Queued(new, g) <=> Queued(b, g)
               /\ Delivered(new, g) <=> Delivered(b, g)
               /\ Open(new, g) <=> Open(r, g)
               /\ Missing(new, g) <=> Missing(r, g)
               /\ Waiting(b, g) => Waiting(new, g)
    BY <2>1, <2>3 DEF Queued, Delivered, Open, Missing, Waiting
  <2>8. QueuesOK(new)
    <3>1. \A u \in Specs : new.internal[u] # {} => u \in RunningTasks(new) \cup new.outbox
      BY <2>1, <2>3 DEF QueuesOK, FlowBut
    <3> QED
      BY <1>1, <2>1, <2>7, <3>1 DEF QueuesOK, OneAnswer, FlowBut
  <2>9. FramesOK(new)
    <3>1. \A i \in 1..Len(b.frames) : \A a \in b.frames[i].left :
             LET g == FrameHandle(b.frames[i], a) IN Missing(new, g) /\ ~Queued(new, g)
      BY <1>1, <1>2, <2>7 DEF FramesOK, FlowBut
    <3> QED
      BY <2>1, <3>1 DEF FramesOK, FlowBut
  <2>10. NothingLost(new)
    BY <1>1, <2>7 DEF NothingLost, FlowBut
  <2>11. UnaskedEmpty(new)
    BY <1>1, <2>1 DEF UnaskedEmpty
  <2> QED
    BY <2>4, <2>6, <2>8, <2>9, <2>10, <2>11 DEF FlowOK
<1> QED
  BY <1>3, <1>4

\* get_task_internal, of a block that still visits Specs: a new task has not asked
\* for anything.
LEMMA GetTaskFlow ==
    ASSUME NEW b \in SoundBlocks, FlowOK(b), b.pc \in {"goals", "stage"}, NEW s \in Specs
    PROVE  LET new == GetTask(b, s)
           IN  /\ FlowOK(new) /\ new.pc = b.pc /\ new.frames = b.frames
               /\ new.visited = b.visited
<1> DEFINE task == IF s \in DOMAIN db THEN Complete(s, db[s], TRUE) ELSE Start(s)
           ws   == Extend(b.ws, s, task)
           run  == IF task.running THEN b.running + 1 ELSE b.running
           new  == [b EXCEPT !.ws = ws, !.running = run]
<1>1. CASE s \in DOMAIN b.ws
  BY <1>1 DEF GetTask
<1>2. CASE s \notin DOMAIN b.ws
  <2>1. GetTask(b, s) = new
    BY <1>2 DEF GetTask
  <2>2. task.batches = 0 /\ task.running \in BOOLEAN
    BY DEF Complete, Start
  <2> HIDE DEF task
  <2>3. DOMAIN ws = DOMAIN b.ws \cup {s} /\ (\A u \in DOMAIN ws : ws[u] = IF u = s THEN task ELSE b.ws[u])
    BY DEF Extend
  <2> HIDE DEF ws, run
  <2>4. SameBut(new, b) /\ new.ws = ws /\ new.running = run /\ b.running \in Int
    BY DEF SoundBlocks, BlockType, SameBut
  <2> HIDE DEF new
  <2>5. RunningTasks(new) = IF task.running THEN RunningTasks(b) \cup {s} ELSE RunningTasks(b)
    BY <1>2, <2>3, <2>4 DEF RunningTasks
  <2>6. CountOK(new)
    <3>1. CASE task.running
      <4>1. s \notin RunningTasks(b) /\ new.running = b.running + 1
        BY <1>2, <2>4, <3>1 DEF RunningTasks, run
      <4> QED
        BY <2>4, <2>5, <3>1, <4>1, CountMore DEF FlowOK
    <3>2. CASE ~task.running
      BY <2>4, <2>5, <3>2 DEF CountOK, FlowOK, run
    <3> QED
      BY <3>1, <3>2
  <2>7. PhaseOK(new)
    BY <2>3, <2>4 DEF PhaseOK, FlowOK, SameBut
  <2>8. RunningTasks(b) \cup b.outbox \subseteq RunningTasks(new) \cup new.outbox
    BY <2>4, <2>5 DEF SameBut
  <2>9. \A g : /\ Queued(new, g) <=> Queued(b, g)
               /\ Delivered(new, g) <=> Delivered(b, g)
               /\ Waiting(b, g) => Waiting(new, g)
    BY <2>4, <2>8 DEF Queued, Delivered, Waiting, SameBut
  <2>10. \A g \in SoundHandles :
            /\ Open(b, g) => Open(new, g)
            /\ Missing(new, g) <=> Missing(b, g)
    <3> SUFFICES ASSUME NEW g \in SoundHandles
                 PROVE  /\ Open(b, g) => Open(new, g)
                        /\ Missing(new, g) <=> Missing(b, g)
      OBVIOUS
    <3>1. CASE g.spec = s
      <4>1. g.child \in Nat /\ g.child > 0
        BY HandleFacts, ConstantTypes DEF Slots
      <4>2. ~Missing(new, g)
        BY <2>2, <2>3, <2>4, <3>1, <4>1 DEF Missing, MissingIn
      <4> QED
        BY <1>2, <3>1, <4>2 DEF Open, Missing
    <3>2. CASE g.spec # s
      BY <2>3, <2>4, <3>2 DEF Open, Missing
    <3> QED
      BY <3>1, <3>2
  <2>11. QueuesOK(new)
    <3>1. \A u \in Specs : new.internal[u] # {} => u \in RunningTasks(new) \cup new.outbox
      BY <2>4, <2>8 DEF QueuesOK, FlowOK, SameBut
    <3> QED
      BY <2>4, <2>9, <2>10, <3>1 DEF QueuesOK, OneAnswer, FlowOK, SameBut
  <2>12. FramesOK(new)
    <3>1. \A i \in 1..Len(b.frames) : \A a \in b.frames[i].left :
             LET g == FrameHandle(b.frames[i], a) IN Missing(new, g) /\ ~Queued(new, g)
      BY <2>9, <2>10, FrameHandles DEF FramesOK, FlowOK
    <3> QED
      BY <2>4, <3>1 DEF FramesOK, FlowOK, SameBut
  <2>13. NothingLost(new)
    BY <2>9, <2>10 DEF NothingLost, FlowOK
  <2>14. UnaskedEmpty(new)
    <3> SUFFICES ASSUME NEW g \in SoundHandles, g.spec \in DOMAIN new.ws
                 PROVE  UnaskedIn(new.ws[g.spec], g.action, g.child)
      BY DEF UnaskedEmpty
    <3>1. CASE g.spec = s
      <4>1. ws[s] = task
        BY <2>3
      <4>2. task.running => task = Start(s)
        BY DEF task, Complete
      <4>3. task.running => task.costs = [a \in Acts(s) |-> [j \in Slots(s, a) |-> None]]
        BY <4>2 DEF Start, Complete
      <4>4. g.action \in Acts(s) /\ g.child \in Slots(s, g.action)
        BY <3>1, HandleFacts
      <4> QED
        BY <2>4, <3>1, <4>1, <4>3, <4>4 DEF UnaskedIn
    <3>2. CASE g.spec # s
      BY <2>3, <2>4, <3>2 DEF UnaskedEmpty, FlowOK
    <3> QED
      BY <3>1, <3>2
  <2> QED
    BY <2>1, <2>4, <2>6, <2>7, <2>11, <2>12, <2>13, <2>14 DEF FlowOK, SameBut
<1> QED
  BY <1>1, <1>2
\* visit_next_request_batch: the batch asks for slots that were not asked for before.
LEMMA PushBatchFlow ==
    ASSUME NEW b \in SoundBlocks, FlowOK(b), b.pc \in {"goals", "stage"},
           NEW s \in DOMAIN b.ws,
           b.frames # <<>> => DependsOn(b.frames[Len(b.frames)].spec, s)
    PROVE  FlowOK(PushBatch(b, s))
<1> DEFINE k     == b.ws[s].batches + 1
           left  == BatchActions(s, b.ws[s], k)
           frame == [spec |-> s, child |-> k, left |-> left]
           task  == [b.ws[s] EXCEPT !.batches = k]
           ws    == [b.ws EXCEPT ![s] = task]
           new   == [b EXCEPT !.ws = ws, !.frames = Append(@, frame)]
<1>1. CASE ~HasNextBatch(s, b.ws[s])
  BY <1>1 DEF PushBatch
<1>2. CASE HasNextBatch(s, b.ws[s])
  <2>1. PushBatch(b, s) = new
    BY <1>2 DEF PushBatch
  <2>2. s \in Specs /\ b.ws[s] \in TaskOf(s) /\ b.ws[s].running
    BY <1>2, TaskFacts DEF HasNextBatch
  <2>3. b.ws[s].batches \in Nat /\ k \in Nat /\ k > 0
    BY <2>2 DEF TaskOf
  <2>4. /\ task.running /\ task.batches = k /\ task.parts = b.ws[s].parts
        /\ task.costs = b.ws[s].costs
    BY <2>2 DEF TaskOf
  <2>5. b \in BlockType /\ b.frames \in Seq(SoundFrames) /\ b.ws \in WorkingSets
    BY DEF SoundBlocks, BlockType
  <2>6. \A a \in left : /\ a \in Acts(s) /\ k \in Slots(s, a)
                        /\ b.ws[s].parts[a] = "Constructing"
    <3>1. \A a \in Acts(s) : Len(Subs(s, a)) \in Nat
      BY <2>2, ConstantTypes
    <3> QED
      BY <2>3, <3>1 DEF BatchActions, Constructing, Slots
  <2>7. \A a \in Acts(s) : k \in Slots(s, a) /\ b.ws[s].parts[a] = "Constructing" => a \in left
    BY DEF BatchActions, Constructing, Slots
  <2>8. /\ DOMAIN ws = DOMAIN b.ws
        /\ \A u \in DOMAIN b.ws : ws[u] = IF u = s THEN task ELSE b.ws[u]
    BY <2>5 DEF WorkingSets
  <2>9. frame.spec = s /\ frame.child = k /\ frame.left = left
    OBVIOUS
  <2> HIDE DEF task, left
  <2>10. /\ new.pc = b.pc /\ new.ws = ws /\ new.running = b.running /\ new.internal = b.internal
         /\ new.external = b.external /\ new.visited = b.visited /\ new.outbox = b.outbox
         /\ new.deliv = b.deliv /\ new.frames = Append(b.frames, frame)
    BY <2>5 DEF BlockType
  <2> HIDE DEF ws, new, frame
  <2>11. /\ Len(new.frames) = Len(b.frames) + 1 /\ Len(b.frames) \in Nat
         /\ \A i \in 1..Len(b.frames) : new.frames[i] = b.frames[i]
         /\ new.frames[Len(b.frames) + 1] = frame
    BY <2>5, <2>10
  <2>12. RunningTasks(new) = RunningTasks(b)
    BY <2>2, <2>4, <2>8, <2>10 DEF RunningTasks
  <2>13. CountOK(new)
    BY <2>10, <2>12 DEF CountOK, FlowOK
  <2>14. PhaseOK(new)
    BY <2>8, <2>10, <2>12 DEF PhaseOK, FlowOK
  <2>15. \A g : /\ Queued(new, g) <=> Queued(b, g)
                /\ Delivered(new, g) <=> Delivered(b, g)
                /\ Waiting(b, g) => Waiting(new, g)
    BY <2>10, <2>11, <2>12 DEF Queued, Delivered, Waiting
  <2>16. ASSUME NEW g \in SoundHandles
         PROVE  /\ Open(b, g) => Open(new, g)
                /\ Missing(b, g) => Missing(new, g)
                /\ g.spec # s /\ Missing(new, g) => Missing(b, g)
                /\ Missing(new, g) => \/ Missing(b, g)
                                      \/ g.spec = s /\ g.child = k /\ g.action \in left
    <3>1. CASE g.spec = s
      <4>1. g.action \in Acts(s) /\ g.child \in Slots(s, g.action) /\ g.child \in Int
        BY <3>1, HandleFacts, ConstantTypes DEF Slots
      <4>2. g.child <= k <=> g.child <= b.ws[s].batches \/ g.child = k
        BY <2>3, <4>1
      <4> HIDE DEF k
      <4> QED
        BY <2>2, <2>4, <2>7, <2>8, <2>10, <3>1, <4>1, <4>2 DEF Open, OpenIn, Missing, MissingIn
    <3>2. CASE g.spec # s
      BY <2>8, <2>10, <3>2 DEF Open, Missing
    <3> QED
      BY <3>1, <3>2
  <2>17. QueuesOK(new)
    BY <2>10, <2>12, <2>15, <2>16 DEF QueuesOK, OneAnswer, FlowOK
  <2>18. UnaskedEmpty(new)
    <3> SUFFICES ASSUME NEW g \in SoundHandles, g.spec \in DOMAIN new.ws
                 PROVE  UnaskedIn(new.ws[g.spec], g.action, g.child)
      BY DEF UnaskedEmpty
    <3>1. UnaskedIn(b.ws[g.spec], g.action, g.child)
      BY <2>8, <2>10 DEF UnaskedEmpty, FlowOK
    <3>2. g.spec = s => g.child \in Int
      BY HandleFacts, ConstantTypes DEF Slots
    <3> QED
      BY <2>2, <2>3, <2>4, <2>8, <2>10, <3>1, <3>2 DEF UnaskedIn
  <2>19. ASSUME NEW a \in left
         PROVE  Missing(new, FrameHandle(frame, a)) /\ ~Queued(new, FrameHandle(frame, a))
    <3> DEFINE h == FrameHandle(frame, a)
    <3>1. h \in SoundHandles /\ h.spec = s /\ h.action = a /\ h.child = k
      <4>1. a \in Acts(s) /\ k \in Slots(s, a) /\ a \in Nat
        BY <2>2, <2>6, ConstantTypes
      <4>2. h = [spec |-> s, action |-> a, child |-> k]
        BY <2>9 DEF FrameHandle
      <4> HIDE DEF h, k
      <4> QED
        BY <2>2, <2>3, <4>1, <4>2 DEF SoundHandles, Handles
    <3> HIDE DEF h, k
    <3>2. b.ws[s].costs[a][k] = None
      <4>1. UnaskedIn(b.ws[s], a, k)
        BY <3>1 DEF UnaskedEmpty, FlowOK
      <4> QED
        BY <2>2, <2>3, <2>6, <4>1 DEF UnaskedIn, k
    <3>3. ~Queued(b, h)
      <4>1. ~Open(b, h)
        BY <2>2, <2>3, <3>1 DEF Open, OpenIn, k
      <4> QED
        BY <3>1, <4>1 DEF QueuesOK, FlowOK
    <3>4. Missing(new, h)
      BY <2>3, <2>4, <2>6, <2>8, <2>10, <3>1, <3>2 DEF Missing, MissingIn
    <3> QED
      BY <2>15, <3>3, <3>4 DEF h
  <2>20. FramesOK(new)
    <3> DEFINE n == Len(b.frames)
    <3>1. n = 0 => b.frames = <<>>
      BY <2>5, EmptySeq
    <3>2. n > 0 => DependsOn(b.frames[n].spec, s)
      BY <2>11
    <3>3. \A i \in 1..n : b.frames[i].spec # s
      <4> DEFINE f == [i \in 1..n |-> b.frames[i].spec]
      <4>1. /\ \A i \in 1..n : f[i] \in Specs
            /\ \A i \in 1..n - 1 : DependsOn(f[i], f[i + 1])
            /\ n > 0 => DependsOn(f[n], s)
        BY <2>11, <3>2, FrameHandles DEF FramesOK, FlowOK
      <4>2. \A i \in 1..n : f[i] = b.frames[i].spec
        OBVIOUS
      <4>3. n > 0 => \A i \in 1..n : f[i] # s
        <5> HIDE DEF f
        <5>1. n \in Nat
          BY <2>11
        <5> HIDE DEF n
        <5> QED
          BY <2>2, <4>1, <5>1, FramesApart
      <4> HIDE DEF f
      <4> QED
        BY <2>11, <4>2, <4>3
    <3>4. ASSUME NEW i \in 1..n, NEW a \in b.frames[i].left
          PROVE  Missing(new, FrameHandle(b.frames[i], a)) /\ ~Queued(new, FrameHandle(b.frames[i], a))
      <4>1. FrameHandle(b.frames[i], a) \in SoundHandles
        BY FrameHandles DEF FlowOK
      <4>2. Missing(b, FrameHandle(b.frames[i], a)) /\ ~Queued(b, FrameHandle(b.frames[i], a))
        BY DEF FramesOK, FlowOK
      <4> QED
        BY <2>15, <2>16, <4>1, <4>2
    <3>5. \A i \in 1..n + 1 : \A a \in new.frames[i].left :
            LET h == FrameHandle(new.frames[i], a) IN Missing(new, h) /\ ~Queued(new, h)
      BY <2>9, <2>11, <2>19, <3>4
    <3>6. \A i \in 1..n : DependsOn(new.frames[i].spec, new.frames[i + 1].spec)
      <4> SUFFICES ASSUME NEW i \in 1..n PROVE DependsOn(new.frames[i].spec, new.frames[i + 1].spec)
        OBVIOUS
      <4>1. CASE i = n
        BY <2>9, <2>11, <3>2, <4>1
      <4>2. CASE i # n
        BY <2>11, <4>2 DEF FramesOK, FlowOK
      <4> QED
        BY <4>1, <4>2
    <3> QED
      BY <2>11, <3>5, <3>6 DEF FramesOK
  <2>21. NothingLost(new)
    <3> SUFFICES ASSUME NEW g \in SoundHandles, Missing(new, g) PROVE Waiting(new, g)
      BY DEF NothingLost
    <3>1. CASE Missing(b, g)
      BY <2>15, <3>1 DEF NothingLost, FlowOK
    <3>2. CASE g.spec = s /\ g.child = k /\ g.action \in left
      <4>1. Len(b.frames) + 1 \in DOMAIN new.frames
        BY <2>5, <2>10, <2>11
      <4> QED
        BY <2>9, <2>11, <3>2, <4>1 DEF Waiting
    <3> QED
      BY <2>16, <3>1, <3>2
  <2> QED
    BY <2>1, <2>13, <2>14, <2>17, <2>18, <2>20, <2>21 DEF FlowOK
<1> QED
  BY <1>1, <1>2

\* visit_spec_internal.
LEMMA VisitSpecFlow ==
    ASSUME NEW b \in SoundBlocks, FlowOK(b), b.pc \in {"goals", "stage"}, DbSound,
           NEW s \in Specs,
           b.frames # <<>> => DependsOn(b.frames[Len(b.frames)].spec, s)
    PROVE  FlowOK(VisitSpec(b, s))
<1>1. CASE s \in b.visited
  BY <1>1, GetTaskFlow DEF VisitSpec
<1>2. CASE s \notin b.visited
  <2> DEFINE got == GetTask(b, s)
             new == [got EXCEPT !.visited = @ \cup {s}]
  <2>1. got \in SoundBlocks /\ s \in DOMAIN got.ws
    BY GetTaskSound
  <2>2. FlowOK(got) /\ got.pc = b.pc /\ got.frames = b.frames /\ got.visited = b.visited
    BY GetTaskFlow
  <2>3. VisitSpec(b, s) = PushBatch(new, s)
    BY <1>2 DEF VisitSpec
  <2> HIDE DEF got
  <2>4. /\ new \in SoundBlocks /\ new.ws = got.ws /\ new.pc = got.pc /\ new.frames = got.frames
        /\ new.running = got.running /\ new.internal = got.internal /\ new.external = got.external
        /\ new.outbox = got.outbox /\ new.deliv = got.deliv /\ new.visited = got.visited \cup {s}
    BY <2>1 DEF SoundBlocks, BlockType, BlockSound
  <2> HIDE DEF new
  <2>5. RunningTasks(new) = RunningTasks(got)
    BY <2>4 DEF RunningTasks
  <2>6. \A g : /\ Queued(new, g) <=> Queued(got, g)
               /\ Delivered(new, g) <=> Delivered(got, g)
               /\ Waiting(got, g) => Waiting(new, g)
               /\ Missing(new, g) <=> Missing(got, g)
               /\ Open(new, g) <=> Open(got, g)
    BY <2>4, <2>5 DEF Queued, Delivered, Waiting, Missing, Open
  <2>7. FlowOK(new)
    <3>1. CountOK(new) /\ PhaseOK(new)
      BY <2>1, <2>2, <2>4, <2>5 DEF FlowOK, CountOK, PhaseOK
    <3>2. QueuesOK(new)
      BY <2>2, <2>4, <2>5, <2>6 DEF FlowOK, QueuesOK, OneAnswer
    <3>3. FramesOK(new) /\ NothingLost(new) /\ UnaskedEmpty(new)
      BY <2>2, <2>4, <2>6 DEF FlowOK, FramesOK, NothingLost, UnaskedEmpty
    <3> QED
      BY <3>1, <3>2, <3>3 DEF FlowOK
  <2> QED
    BY <2>1, <2>2, <2>3, <2>4, <2>7, PushBatchFlow
<1> QED
  BY <1>1, <1>2
\* The last frame of a block that is in a batch.
LEMMA LastFrame ==
    ASSUME NEW b \in SoundBlocks, b.frames # <<>>
    PROVE  /\ Len(b.frames) \in 1..Len(b.frames) /\ Len(b.frames) \in Nat
           /\ b.frames[Len(b.frames)] \in SoundFrames
           /\ \A i \in 1..Len(b.frames) : b.frames[i] \in SoundFrames
<1>1. b.frames \in Seq(SoundFrames)
  BY DEF SoundBlocks, BlockType
<1>2. Len(b.frames) \in Nat \ {0} /\ b.frames[Len(b.frames)] \in SoundFrames
  BY <1>1, FrontProperties
<1> QED
  BY <1>1, <1>2, SeqElement

\* The block whose last frame has taken up its request of action a.
TakenUp(b, a) == [b EXCEPT !.frames[Len(b.frames)].left = @ \ {a}]

LEMMA HandledFlow ==
    ASSUME NEW b \in SoundBlocks, FlowOK(b), b.frames # <<>>,
           NEW f, f = b.frames[Len(b.frames)], NEW a \in f.left, NEW h, h = FrameHandle(f, a),
           NEW new, new = TakenUp(b, a)
    PROVE  /\ h \in SoundHandles /\ FlowBut(new, h) /\ h.spec \in RunningTasks(b)
           /\ b.pc \in {"goals", "stage"} /\ DependsOn(f.spec, SubOf(h))
           /\ new.ws = b.ws /\ RunningTasks(new) = RunningTasks(b)
           /\ new.frames # <<>> /\ Len(new.frames) = Len(b.frames)
           /\ new.frames[Len(new.frames)].spec = h.spec
           /\ h.action \notin new.frames[Len(new.frames)].left
<1> DEFINE n == Len(b.frames)
           g == [f EXCEPT !.left = @ \ {a}]
<1>1. n \in 1..n /\ n \in Nat /\ f \in SoundFrames /\ b.frames \in Seq(SoundFrames)
  BY LastFrame DEF SoundBlocks, BlockType
<1>2. h \in SoundHandles /\ h.spec = f.spec /\ h.action = a /\ h.child = f.child
  <2>1. h = [spec |-> f.spec, action |-> a, child |-> f.child]
    BY DEF FrameHandle
  <2>2. f.spec \in Specs /\ f.child \in Nat /\ a \in Nat /\ a \in Acts(f.spec) /\ f.child \in Slots(f.spec, a)
    BY <1>1 DEF SoundFrames
  <2> QED
    BY <2>1, <2>2 DEF SoundHandles, Handles
<1>3. g.spec = f.spec /\ g.child = f.child /\ g.left = f.left \ {a} /\ g \in SoundFrames
  BY <1>1 DEF SoundFrames
<1>4. /\ new.frames = [b.frames EXCEPT ![n] = g]
      /\ new.pc = b.pc /\ new.ws = b.ws /\ new.running = b.running /\ new.internal = b.internal
      /\ new.external = b.external /\ new.visited = b.visited /\ new.outbox = b.outbox
      /\ new.deliv = b.deliv
  BY <1>1 DEF SoundBlocks, BlockType, TakenUp
<1> HIDE DEF g
<1>5. /\ Len(new.frames) = n /\ DOMAIN new.frames = 1..n /\ DOMAIN b.frames = 1..n
      /\ \A i \in 1..n : new.frames[i] = IF i = n THEN g ELSE b.frames[i]
  <2> DEFINE frames == [b.frames EXCEPT ![n] = g]
  <2>1. frames \in Seq(SoundFrames) /\ Len(frames) = n
    BY <1>1, <1>3, ExceptSeq
  <2>2. \A i \in 1..n : frames[i] = IF i = n THEN g ELSE b.frames[i]
    BY <1>1, <1>3, ExceptSeq
  <2> HIDE DEF frames, n
  <2>3. DOMAIN frames = 1..n
    BY <2>1
  <2>4. DOMAIN b.frames = 1..n
    BY <1>1 DEF n
  <2> QED
    BY <1>4, <2>1, <2>2, <2>3, <2>4 DEF frames
<1>6. RunningTasks(new) = RunningTasks(b)
  BY <1>4 DEF RunningTasks
<1>7. \A x : /\ Queued(new, x) <=> Queued(b, x)
             /\ Delivered(new, x) <=> Delivered(b, x)
             /\ Open(new, x) <=> Open(b, x)
             /\ Missing(new, x) <=> Missing(b, x)
  BY <1>4 DEF Queued, Delivered, Open, Missing
<1>8. Missing(b, h) /\ ~Queued(b, h)
  BY <1>1 DEF FlowOK, FramesOK
<1>9. Open(b, h) /\ h.spec \in RunningTasks(b)
  BY <1>8 DEF Missing, MissingIn, Open, OpenIn, RunningTasks
<1>10. CountOK(new) /\ UnaskedEmpty(new) /\ QueuesOK(new)
  BY <1>4, <1>6, <1>7 DEF FlowOK, CountOK, UnaskedEmpty, QueuesOK, OneAnswer
<1>11. b.pc \in {"goals", "stage"}
  BY DEF FlowOK, PhaseOK
<1>12. PhaseOK(new)
  BY <1>4, <1>6, <1>11 DEF FlowOK, PhaseOK
<1>13. \A i \in 1..n : new.frames[i].spec = b.frames[i].spec /\ new.frames[i].child = b.frames[i].child
                       /\ new.frames[i].left \subseteq b.frames[i].left
  BY <1>3, <1>5
<1>14. FramesOK(new)
  <2>1. ASSUME NEW i \in 1..n, NEW c \in new.frames[i].left
        PROVE  LET x == FrameHandle(new.frames[i], c) IN Missing(new, x) /\ ~Queued(new, x)
    <3>1. FrameHandle(new.frames[i], c) = FrameHandle(b.frames[i], c) /\ c \in b.frames[i].left
      BY <1>13 DEF FrameHandle
    <3> QED
      BY <1>7, <3>1 DEF FlowOK, FramesOK
  <2>2. \A i \in 1..n - 1 : DependsOn(new.frames[i].spec, new.frames[i + 1].spec)
    BY <1>1, <1>13 DEF FlowOK, FramesOK
  <2> QED
    BY <1>5, <2>1, <2>2 DEF FramesOK
<1>15. ASSUME NEW x \in SoundHandles, x # h, Missing(new, x)
       PROVE  Waiting(new, x)
  <2>1. Waiting(b, x)
    BY <1>7, <1>15 DEF FlowOK, NothingLost
  <2>2. ASSUME NEW i \in 1..n, b.frames[i].spec = x.spec, b.frames[i].child = x.child,
               x.action \in b.frames[i].left
        PROVE  x.action \in new.frames[i].left
    <3>1. CASE i = n
      <4>1. x.action # a
        BY <1>2, <1>15, <2>2, <3>1, SameHandle
      <4> QED
        BY <1>3, <1>5, <2>2, <3>1, <4>1
    <3>2. CASE i # n
      BY <1>5, <2>2, <3>2
    <3> QED
      BY <3>1, <3>2
  <2> QED
    BY <1>4, <1>5, <1>6, <1>13, <2>1, <2>2 DEF Waiting
<1>16. FlowBut(new, h)
  BY <1>7, <1>8, <1>9, <1>10, <1>12, <1>14, <1>15 DEF FlowBut
<1>17. DependsOn(f.spec, SubOf(h))
  BY <1>2, HandleFacts DEF DependsOn, SubOf
<1>18. new.frames # <<>>
  BY <1>1, <1>5
<1> QED
  BY <1>2, <1>3, <1>4, <1>5, <1>6, <1>9, <1>11, <1>16, <1>17, <1>18

\* A request is put into a queue: add_request_mapping_external and _internal.
LEMMA RequestFlow ==
    ASSUME NEW b \in SoundBlocks, NEW h \in SoundHandles, FlowBut(b, h), b.frames # <<>>,
           b.frames[Len(b.frames)].spec = h.spec, h.action \notin b.frames[Len(b.frames)].left,
           NEW new \in SoundBlocks,
           new.pc = b.pc, new.ws = b.ws, new.running = b.running, new.visited = b.visited,
           new.outbox = b.outbox, new.deliv = b.deliv, new.frames = b.frames,
           \A s \in Specs : /\ new.internal[s] = b.internal[s] \/ new.internal[s] = b.internal[s] \cup {h}
                            /\ new.external[s] = b.external[s] \/ new.external[s] = b.external[s] \cup {h},
           \/ /\ IsInternal(h) /\ SubOf(h) \in RunningTasks(b) /\ new.external = b.external
              /\ h \in new.internal[SubOf(h)]
              /\ \A s \in Specs : s # SubOf(h) => new.internal[s] = b.internal[s]
           \/ ~IsInternal(h) /\ new.internal = b.internal /\ h \in new.external[SubOf(h)]
    PROVE  FlowOK(new)
<1>1. RunningTasks(new) = RunningTasks(b)
  BY DEF RunningTasks
<1>2. SubOf(h) \in Specs /\ \A g \in SoundHandles : SubOf(g) \in Specs
  BY HandleFacts
<1>3. ASSUME NEW g \in SoundHandles, g # h
      PROVE  /\ g \in new.internal[SubOf(g)] <=> g \in b.internal[SubOf(g)]
             /\ g \in new.external[SubOf(g)] <=> g \in b.external[SubOf(g)]
  BY <1>2, <1>3
<1>4. \A g : /\ Delivered(new, g) <=> Delivered(b, g)
             /\ Open(new, g) <=> Open(b, g)
             /\ Missing(new, g) <=> Missing(b, g)
  BY DEF Delivered, Open, Missing
<1>5. ~Queued(b, h) /\ Open(b, h) /\ QueuesOK(b)
  BY DEF FlowBut
<1>6. CountOK(new) /\ UnaskedEmpty(new)
  BY <1>1 DEF FlowBut, CountOK, UnaskedEmpty
<1>7. PhaseOK(new)
  BY <1>1 DEF FlowBut, PhaseOK
<1>8. QueuesOK(new)
  <2>1. \A s \in Specs : new.internal[s] # {} => s \in RunningTasks(new) \cup new.outbox
    BY <1>1, <1>5 DEF QueuesOK
  <2>2. ASSUME NEW g \in SoundHandles
        PROVE  /\ g \in new.internal[SubOf(g)] => IsInternal(g)
               /\ g \in new.external[SubOf(g)] => ~IsInternal(g)
               /\ Delivered(new, g) => g \notin new.internal[SubOf(g)] /\ g \notin new.external[SubOf(g)]
               /\ Queued(new, g) => Open(new, g)
    <3>1. CASE g = h
      BY <1>2, <1>4, <1>5, <3>1 DEF Queued
    <3>2. CASE g # h
      BY <1>3, <1>4, <1>5, <3>2 DEF Queued, QueuesOK
    <3> QED
      BY <3>1, <3>2
  <2>3. OneAnswer(new)
    BY <1>5 DEF QueuesOK, OneAnswer
  <2> QED
    BY <2>1, <2>2, <2>3 DEF QueuesOK
<1>9. FramesOK(new)
  <2>1. ASSUME NEW i \in 1..Len(b.frames), NEW a \in b.frames[i].left
        PROVE  LET g == FrameHandle(b.frames[i], a) IN Missing(new, g) /\ ~Queued(new, g)
    <3> DEFINE g == FrameHandle(b.frames[i], a)
    <3>1. g \in SoundHandles /\ g # h
      BY FrameHandles DEF FlowBut
    <3>2. Missing(b, g) /\ ~Queued(b, g)
      BY DEF FlowBut, FramesOK
    <3> HIDE DEF g
    <3>3. Missing(new, g) /\ ~Queued(new, g)
      BY <1>3, <1>4, <3>1, <3>2 DEF Queued
    <3> QED
      BY <3>3 DEF g
  <2> QED
    BY <2>1 DEF FlowBut, FramesOK
<1>10. NothingLost(new)
  <2> SUFFICES ASSUME NEW g \in SoundHandles, Missing(new, g) PROVE Waiting(new, g)
    BY DEF NothingLost
  <2>1. CASE g = h
    BY <1>1, <2>1 DEF Waiting
  <2>2. CASE g # h
    <3>1. Waiting(b, g)
      BY <1>4, <2>2 DEF FlowBut
    <3> QED
      BY <1>1, <1>3, <2>2, <3>1 DEF Waiting
  <2> QED
    BY <2>1, <2>2
<1> QED
  BY <1>6, <1>7, <1>8, <1>9, <1>10 DEF FlowOK

\* The batch is done.
LEMMA EndBatchFlow ==
    ASSUME NEW b \in SoundBlocks, FlowOK(b), b.frames # <<>>,
           b.frames[Len(b.frames)].left = {},
           NEW front, front = Front(b.frames), NEW new, new = [b EXCEPT !.frames = front]
    PROVE  FlowOK(new)
<1> DEFINE n == Len(b.frames)
<1>1. b.frames \in Seq(SoundFrames)
  BY DEF SoundBlocks, BlockType
<1>2. n \in Nat \ {0} /\ Len(front) = n - 1 /\ front \in Seq(SoundFrames)
  BY <1>1, FrontProperties
<1>3. \A i \in 1..n - 1 : front[i] = b.frames[i]
  BY <1>1, FrontElement
<1>4. /\ new.pc = b.pc /\ new.ws = b.ws /\ new.running = b.running /\ new.internal = b.internal
      /\ new.external = b.external /\ new.visited = b.visited /\ new.outbox = b.outbox
      /\ new.deliv = b.deliv /\ new.frames = front
  BY DEF SoundBlocks, BlockType
<1>5. DOMAIN b.frames = 1..n /\ DOMAIN front = 1..n - 1
  BY <1>1, <1>2
<1>6. RunningTasks(new) = RunningTasks(b)
  BY <1>4 DEF RunningTasks
<1>7. \A x : /\ Queued(new, x) <=> Queued(b, x)
             /\ Delivered(new, x) <=> Delivered(b, x)
             /\ Open(new, x) <=> Open(b, x)
             /\ Missing(new, x) <=> Missing(b, x)
  BY <1>4 DEF Queued, Delivered, Open, Missing
<1>8. CountOK(new) /\ UnaskedEmpty(new) /\ QueuesOK(new)
  BY <1>4, <1>6, <1>7 DEF FlowOK, CountOK, UnaskedEmpty, QueuesOK, OneAnswer
<1>9. PhaseOK(new)
  BY <1>4, <1>6 DEF FlowOK, PhaseOK
<1>10. FramesOK(new)
  <2>1. \A i \in 1..n - 1 : \A a \in front[i].left :
           LET x == FrameHandle(front[i], a) IN Missing(new, x) /\ ~Queued(new, x)
    <3>1. \A i \in 1..n - 1 : i \in 1..n
      BY <1>2
    <3>2. \A i \in 1..n : \A a \in b.frames[i].left :
             LET x == FrameHandle(b.frames[i], a) IN Missing(b, x) /\ ~Queued(b, x)
      BY DEF FlowOK, FramesOK
    <3> HIDE DEF n
    <3> QED
      BY <1>3, <1>7, <3>1, <3>2
  <2>2. \A i \in 1..(n - 1) - 1 : DependsOn(front[i].spec, front[i + 1].spec)
    <3>1. \A i \in 1..n - 1 : DependsOn(b.frames[i].spec, b.frames[i + 1].spec)
      BY DEF FlowOK, FramesOK
    <3>2. ASSUME NEW i \in 1..(n - 1) - 1
          PROVE  i \in 1..n - 1 /\ i + 1 \in 1..n - 1
      BY <1>2
    <3> HIDE DEF n
    <3> QED
      BY <1>3, <3>1, <3>2
  <2> QED
    BY <1>2, <1>4, <2>1, <2>2 DEF FramesOK
<1>11. \A x : Waiting(b, x) => Waiting(new, x)
  <2>1. \A i \in 1..n : b.frames[i].left # {} => i \in 1..n - 1
    BY <1>2
  <2> QED
    BY <1>3, <1>4, <1>5, <1>6, <2>1 DEF Waiting
<1>12. NothingLost(new)
  BY <1>7, <1>11 DEF FlowOK, NothingLost
<1> QED
  BY <1>8, <1>9, <1>10, <1>12 DEF FlowOK
\* Steps that leave the tasks and the requests alone.
LEMMA KeepFlow ==
    ASSUME NEW b, FlowOK(b), NEW new, PhaseOK(new),
           new.ws = b.ws, new.running = b.running, new.internal = b.internal,
           new.external = b.external, new.outbox = b.outbox, new.deliv = b.deliv,
           new.frames = b.frames
    PROVE  FlowOK(new)
<1>1. RunningTasks(new) = RunningTasks(b)
  BY DEF RunningTasks
<1>2. \A x : /\ Queued(new, x) <=> Queued(b, x)
             /\ Delivered(new, x) <=> Delivered(b, x)
             /\ Open(new, x) <=> Open(b, x)
             /\ Missing(new, x) <=> Missing(b, x)
             /\ Waiting(new, x) <=> Waiting(b, x)
  BY <1>1 DEF Queued, Delivered, Open, Missing, Waiting
<1>3. CountOK(new) /\ UnaskedEmpty(new) /\ QueuesOK(new)
  BY <1>1, <1>2 DEF FlowOK, CountOK, UnaskedEmpty, QueuesOK, OneAnswer
<1>4. FramesOK(new) /\ NothingLost(new)
  BY <1>2 DEF FlowOK, FramesOK, NothingLost
<1> QED
  BY <1>3, <1>4 DEF FlowOK

\* A block just begun has no task and no request.
LEMMA NewBlockFlow ==
    ASSUME NEW goals
    PROVE  FlowOK(NewBlock(goals))
<1> DEFINE b == NewBlock(goals)
<1>1. /\ b.pc = "goals" /\ b.running = 0 /\ b.internal = NoRequests /\ b.external = NoRequests
      /\ b.visited = {} /\ b.outbox = {} /\ b.deliv = {} /\ b.frames = <<>> /\ DOMAIN b.ws = {}
  BY DEF NewBlock, EmptyFunction
<1> HIDE DEF b
<1>2. RunningTasks(b) = {}
  BY <1>1 DEF RunningTasks
<1>3. CountOK(b)
  BY <1>1, <1>2, FS_EmptySet DEF CountOK
<1>4. \A s \in Specs : b.internal[s] = {} /\ b.external[s] = {}
  BY <1>1 DEF NoRequests
<1>5. \A h \in SoundHandles : ~Queued(b, h) /\ ~Missing(b, h) /\ ~Delivered(b, h)
  BY <1>1, <1>4, HandleFacts DEF Queued, Missing, Delivered
<1>6. PhaseOK(b) /\ UnaskedEmpty(b) /\ FramesOK(b) /\ NothingLost(b)
  BY <1>1, <1>5 DEF PhaseOK, UnaskedEmpty, FramesOK, NothingLost
<1>7. QueuesOK(b)
  BY <1>1, <1>4, <1>5 DEF QueuesOK, OneAnswer, Queued
<1> QED
  BY <1>3, <1>6, <1>7 DEF FlowOK, b

\* The handles of one queue become deliveries: the queue's sub-Specs are done.
LEMMA HandOutFlow ==
    ASSUME NEW b \in SoundBlocks, FlowOK(b), b.deliv = {}, b.pc \in {"drain", "sub"},
           NEW done \in SUBSET Specs, NEW new, new.pc = b.pc, new.ws = b.ws,
           new.running = b.running, new.visited = b.visited, new.frames = b.frames,
           new.outbox \subseteq b.outbox,
           \A h : Delivered(new, h) <=>
                     \E s \in done : h \in b.internal[s] \ new.internal[s]
                                     \/ h \in b.external[s] \ new.external[s],
           \A s \in Specs : /\ new.internal[s] # b.internal[s] => s \in done /\ new.internal[s] = {}
                            /\ new.external[s] # b.external[s] => s \in done /\ new.external[s] = {},
           \A s \in Specs : s \in b.outbox \ new.outbox => new.internal[s] = {},
           OneAnswer(new)
    PROVE  FlowOK(new)
<1>1. RunningTasks(new) = RunningTasks(b) /\ b.frames = <<>>
  BY DEF RunningTasks, FlowOK, PhaseOK
<1>2. \A s \in Specs : \A h \in b.internal[s] \cup b.external[s] : SubOf(h) = s /\ h \in SoundHandles
  BY DEF SoundBlocks, BlockType, SoundRequests
<1>3. ASSUME NEW h \in SoundHandles
      PROVE  /\ SubOf(h) \in Specs
             /\ h \in new.internal[SubOf(h)] => h \in b.internal[SubOf(h)]
             /\ h \in new.external[SubOf(h)] => h \in b.external[SubOf(h)]
             /\ Delivered(new, h) <=> \/ h \in b.internal[SubOf(h)] \ new.internal[SubOf(h)]
                                      \/ h \in b.external[SubOf(h)] \ new.external[SubOf(h)]
  <2>1. SubOf(h) \in Specs
    BY HandleFacts
  <2>2. \A s \in done : h \in b.internal[s] \/ h \in b.external[s] => s = SubOf(h)
    BY <1>2
  <2> QED
    BY <2>1, <2>2
<1>4. \A h : /\ Open(new, h) <=> Open(b, h)
             /\ Missing(new, h) <=> Missing(b, h)
  BY DEF Open, Missing
<1>5. \A h : ~Delivered(b, h)
  BY DEF Delivered
<1>6. CountOK(new) /\ UnaskedEmpty(new)
  BY <1>1 DEF FlowOK, CountOK, UnaskedEmpty
<1>7. PhaseOK(new)
  BY <1>1 DEF FlowOK, PhaseOK
<1>8. QueuesOK(new)
  <2>1. \A s \in Specs : new.internal[s] # {} => s \in RunningTasks(new) \cup new.outbox
    BY <1>1 DEF FlowOK, QueuesOK
  <2>2. ASSUME NEW h \in SoundHandles
        PROVE  /\ h \in new.internal[SubOf(h)] => IsInternal(h)
               /\ h \in new.external[SubOf(h)] => ~IsInternal(h)
               /\ Delivered(new, h) => h \notin new.internal[SubOf(h)] /\ h \notin new.external[SubOf(h)]
               /\ Queued(new, h) => Open(new, h)
    <3>1. /\ h \in b.internal[SubOf(h)] => IsInternal(h)
          /\ h \in b.external[SubOf(h)] => ~IsInternal(h)
          /\ Queued(b, h) => Open(b, h)
      BY DEF FlowOK, QueuesOK
    <3> QED
      BY <1>3, <1>4, <3>1 DEF Queued
  <2> QED
    BY <2>1, <2>2 DEF QueuesOK
<1>9. FramesOK(new)
  BY <1>1 DEF FramesOK
<1>10. NothingLost(new)
  <2> SUFFICES ASSUME NEW h \in SoundHandles, Missing(new, h) PROVE Waiting(new, h)
    BY DEF NothingLost
  <2>1. Waiting(b, h)
    BY <1>4 DEF FlowOK, NothingLost
  <2>2. \/ h \in b.internal[SubOf(h)] /\ SubOf(h) \in RunningTasks(b) \cup b.outbox
        \/ h \in b.external[SubOf(h)]
    BY <1>1, <1>5, <2>1 DEF Waiting, Delivered
  <2>3. CASE Delivered(new, h)
    BY <2>3 DEF Waiting, Delivered
  <2>4. CASE ~Delivered(new, h)
    BY <1>1, <1>3, <2>2, <2>4 DEF Waiting
  <2> QED
    BY <2>3, <2>4
<1> QED
  BY <1>6, <1>7, <1>8, <1>9, <1>10 DEF FlowOK

\* One answer is taken from the Vec.
LEMMA TakeFlow ==
    ASSUME NEW b \in SoundBlocks, FlowOK(b), NEW d \in b.deliv,
           NEW new, new = [b EXCEPT !.deliv = @ \ {d}]
    PROVE  /\ d.h \in SoundHandles /\ d.cost \in OptCosts(SubOf(d.h))
           /\ FlowBut(new, d.h) /\ new.pc \in {"drain", "sub"}
<1>1. b.deliv \subseteq SoundDeliveries
  BY DEF SoundBlocks, BlockType
<1>2. d.h \in SoundHandles /\ d.cost \in OptCosts(SubOf(d.h))
  BY <1>1 DEF SoundDeliveries
<1>3. /\ new.pc = b.pc /\ new.ws = b.ws /\ new.running = b.running /\ new.internal = b.internal
      /\ new.external = b.external /\ new.visited = b.visited /\ new.outbox = b.outbox
      /\ new.deliv = b.deliv \ {d} /\ new.frames = b.frames
  BY DEF SoundBlocks, BlockType
<1>4. \A e \in b.deliv : e.h = d.h => e = d
  BY DEF FlowOK, QueuesOK, OneAnswer
<1>5. RunningTasks(new) = RunningTasks(b)
  BY <1>3 DEF RunningTasks
<1>6. /\ \A x : Delivered(new, x) <=> Delivered(b, x) /\ x # d.h
      /\ \A x : Open(new, x) <=> Open(b, x)
      /\ \A x : Missing(new, x) <=> Missing(b, x)
  BY <1>3, <1>4 DEF Delivered, Open, Missing
<1>7. Delivered(b, d.h)
  BY DEF Delivered
<1>8. \A x : Queued(new, x) => Queued(b, x)
  BY <1>3, <1>6 DEF Queued
<1>9. b.pc \in {"drain", "sub"} /\ b.frames = <<>>
  BY DEF FlowOK, PhaseOK
<1>10. CountOK(new) /\ UnaskedEmpty(new)
  BY <1>3, <1>5 DEF FlowOK, CountOK, UnaskedEmpty
<1>11. PhaseOK(new) /\ FramesOK(new)
  BY <1>3, <1>5, <1>9 DEF FlowOK, PhaseOK, FramesOK
<1>12. QueuesOK(new)
  BY <1>3, <1>5, <1>6, <1>8 DEF FlowOK, QueuesOK, OneAnswer
<1>13. Open(new, d.h) /\ ~Queued(new, d.h)
  BY <1>2, <1>3, <1>6, <1>7 DEF FlowOK, QueuesOK, Queued
<1>14. \A x : x # d.h /\ Waiting(b, x) => Waiting(new, x)
  BY <1>3, <1>5 DEF Waiting
<1>15. \A x \in SoundHandles : x # d.h /\ Missing(new, x) => Waiting(new, x)
  BY <1>6, <1>14 DEF FlowOK, NothingLost
<1> QED
  BY <1>2, <1>3, <1>9, <1>10, <1>11, <1>12, <1>13, <1>15 DEF FlowBut
-----------------------------------------------------------------------------
(* The actions.                                                            *)

LEMMA TopFlow ==
    ASSUME FInv, NEW t \in Threads, Busy(t)
    PROVE  /\ Top(t) \in SoundBlocks /\ FlowOK(Top(t))
           /\ stack[t] \in Seq(SoundBlocks) /\ stack[t] # <<>>
           /\ Len(stack[t]) \in 1..Len(stack[t]) /\ Len(stack[t]) \in Nat
           /\ \A i \in 1..Len(stack[t]) : stack[t][i] \in SoundBlocks /\ FlowOK(stack[t][i])
           /\ \A i \in 1..Len(stack[t]) - 1 : Suspended(stack[t][i])
<1>1. stack[t] \in Seq(SoundBlocks) /\ stack[t] # <<>>
  BY DEF FInv, IInv, Busy
<1>2. Len(stack[t]) \in Nat \ {0}
  BY <1>1, FrontProperties
<1>3. \A i \in 1..Len(stack[t]) : stack[t][i] \in SoundBlocks
  BY <1>1, SeqElement
<1>4. \A i \in 1..Len(stack[t]) : FlowOK(stack[t][i])
  BY DEF FInv, FlowInv
<1>5. \A i \in 1..Len(stack[t]) - 1 : Suspended(stack[t][i])
  BY <1>2 DEF FInv, FlowInv
<1> QED
  BY <1>1, <1>2, <1>3, <1>4, <1>5 DEF Top

\* A thread that replaces its active block by one whose bookkeeping is right.
LEMMA StepFlow ==
    ASSUME FInv, NEW t \in Threads, Busy(t), NEW b, FlowOK(b), SetTop(t, b)
    PROVE  FlowInv'
<1>1. /\ stack[t] \in Seq(SoundBlocks) /\ stack[t] # <<>> /\ Len(stack[t]) \in Nat
      /\ \A i \in 1..Len(stack[t]) : FlowOK(stack[t][i])
      /\ \A i \in 1..Len(stack[t]) - 1 : Suspended(stack[t][i])
      /\ stack \in [Threads -> Seq(SoundBlocks)]
  BY TopFlow DEF FInv, IInv
<1>2. PICK front \in Seq(SoundBlocks) : front = Front(stack[t])
  BY <1>1, FrontProperties
<1>3. Len(front) = Len(stack[t]) - 1 /\ \A i \in 1..Len(front) : front[i] = stack[t][i]
  <2>1. Len(front) = Len(stack[t]) - 1
    BY <1>1, <1>2, FrontProperties
  <2>2. \A i \in 1..Len(stack[t]) - 1 : front[i] = stack[t][i]
    BY <1>1, <1>2, FrontElement
  <2> QED
    BY <2>1, <2>2
<1>4. stack' = [stack EXCEPT ![t] = Append(front, b)]
  BY <1>2 DEF SetTop
<1>5. /\ Len(Append(front, b)) = Len(front) + 1
      /\ \A i \in 1..Len(front) : Append(front, b)[i] = front[i]
      /\ Append(front, b)[Len(front) + 1] = b
  BY <1>2
<1>6. /\ stack'[t] = Append(front, b)
      /\ \A u \in Threads : u # t => stack'[u] = stack[u]
  BY <1>1, <1>4
<1>7. ASSUME NEW u \in Threads, NEW i \in 1..Len(stack'[u])
      PROVE  FlowOK(stack'[u][i]) /\ (i < Len(stack'[u]) => Suspended(stack'[u][i]))
  <2>1. CASE u # t
    BY <1>6, <2>1 DEF FInv, FlowInv
  <2>2. CASE u = t
    <3>1. Len(stack'[u]) = Len(stack[t])
      BY <1>1, <1>3, <1>5, <1>6, <2>2
    <3>2. CASE i = Len(stack[t])
      BY <1>1, <1>3, <1>5, <1>6, <2>2, <3>1, <3>2
    <3>3. CASE i # Len(stack[t])
      <4>1. i \in 1..Len(stack[t]) - 1 /\ i \in 1..Len(front) /\ i \in 1..Len(stack[t])
        BY <1>1, <1>3, <3>1, <3>3
      <4>2. stack'[u][i] = stack[t][i]
        BY <1>3, <1>5, <1>6, <2>2, <4>1
      <4> QED
        BY <1>1, <4>1, <4>2
    <3> QED
      BY <3>2, <3>3
  <2> QED
    BY <2>1, <2>2
<1> QED
  BY <1>7 DEF FlowInv

\* The steps of visit_next_request_batch.
LEMMA BatchStepFlow ==
    ASSUME FInv, NEW t \in Threads,
           \/ RequestExternal(t) \/ VisitSubspec(t) \/ AwaitInternal(t)
           \/ AnswerInternal(t) \/ EndBatch(t)
    PROVE  FlowInv'
<1>0. InBatch(t) /\ Busy(t) /\ IInv
  <2>1. InBatch(t)
    BY DEF RequestExternal, VisitSubspec, AwaitInternal, AnswerInternal, EndBatch
  <2> QED
    BY <2>1 DEF InBatch, FInv
<1>1. PICK b \in SoundBlocks : b = Top(t) /\ FlowOK(b) /\ b.frames # <<>>
  BY <1>0, TopFlow DEF InBatch
<1>2. PICK f : f = b.frames[Len(b.frames)] /\ f = Frame(t)
  BY <1>1 DEF Frame
<1>3. ASSUME NEW a \in f.left
      PROVE  /\ HandleAt(t, a) = FrameHandle(f, a) /\ HandleAt(t, a) \in SoundHandles
             /\ Handled(t, a) = [b EXCEPT !.frames[Len(b.frames)].left = @ \ {a}]
             /\ Handled(t, a) \in SoundBlocks
             /\ SubOf(HandleAt(t, a)) \in Specs
  BY <1>0, <1>1, <1>2, FrameSound DEF HandleAt, FrameHandle, Handled
<1>9. ASSUME NEW a \in f.left, NEW h, h = HandleAt(t, a), NEW c, c = Handled(t, a)
      PROVE  /\ FlowBut(c, h) /\ c.frames # <<>> /\ RunningTasks(c) = RunningTasks(b)
             /\ h.spec \in RunningTasks(b) /\ DependsOn(f.spec, SubOf(h))
             /\ b.pc \in {"goals", "stage"}
             /\ c.frames[Len(c.frames)].spec = h.spec
             /\ h.action \notin c.frames[Len(c.frames)].left
  <2>1. b \in SoundBlocks /\ FlowOK(b) /\ b.frames # <<>> /\ f = b.frames[Len(b.frames)]
    BY <1>1, <1>2
  <2>2. h = FrameHandle(f, a) /\ c = TakenUp(b, a)
    BY <1>3, <1>9 DEF TakenUp
  <2> QED
    BY <2>1, <2>2, HandledFlow
<1>4. CASE RequestExternal(t)
  <2>1. PICK a \in f.left :
           /\ ~IsInternal(HandleAt(t, a))
           /\ SetTop(t, [Handled(t, a) EXCEPT
                        !.external[SubOf(HandleAt(t, a))] = @ \cup {HandleAt(t, a)}])
    BY <1>2, <1>4 DEF RequestExternal
  <2>2. PICK h \in SoundHandles, c \in SoundBlocks : h = HandleAt(t, a) /\ c = Handled(t, a)
    BY <1>3
  <2>3. /\ FlowBut(c, h) /\ c.frames # <<>>
        /\ c.frames[Len(c.frames)].spec = h.spec /\ h.action \notin c.frames[Len(c.frames)].left
    BY <1>9, <2>2
  <2> DEFINE new == [c EXCEPT !.external[SubOf(h)] = @ \cup {h}]
  <2>4. c \in BlockType /\ BlockSound(c) /\ c.external \in SoundRequests /\ SubOf(h) \in Specs
    BY HandleFacts DEF SoundBlocks, BlockType
  <2>5. [c.external EXCEPT ![SubOf(h)] = @ \cup {h}] \in SoundRequests
    BY <2>4, RequestsSound
  <2>6. new \in SoundBlocks
    BY <2>4, <2>5 DEF SoundBlocks, BlockType, BlockSound
  <2>7. /\ new.pc = c.pc /\ new.ws = c.ws /\ new.running = c.running /\ new.visited = c.visited
        /\ new.outbox = c.outbox /\ new.deliv = c.deliv /\ new.frames = c.frames
        /\ new.internal = c.internal
        /\ new.external = [c.external EXCEPT ![SubOf(h)] = @ \cup {h}]
    BY <2>4 DEF BlockType
  <2>8. /\ \A s \in Specs : s # SubOf(h) => new.external[s] = c.external[s]
        /\ new.external[SubOf(h)] = c.external[SubOf(h)] \cup {h}
    BY <2>4, <2>7 DEF SoundRequests
  <2>9. SetTop(t, new)
    BY <2>1, <2>2
  <2> HIDE DEF new
  <2>10. \A s \in Specs :
            /\ new.internal[s] = c.internal[s] \/ new.internal[s] = c.internal[s] \cup {h}
            /\ new.external[s] = c.external[s] \/ new.external[s] = c.external[s] \cup {h}
    BY <2>7, <2>8
  <2>11. ~IsInternal(h) /\ new.internal = c.internal /\ h \in new.external[SubOf(h)]
    BY <2>1, <2>2, <2>7, <2>8
  <2>12. FlowOK(new)
    BY <2>3, <2>6, <2>7, <2>10, <2>11, RequestFlow, Zenon
  <2> QED
    BY <1>0, <2>6, <2>9, <2>12, StepFlow
<1>5. CASE VisitSubspec(t)
  <2>1. PICK a \in f.left : SetTop(t, VisitSpec(b, SubOf(HandleAt(t, a))))
    BY <1>1, <1>2, <1>5 DEF VisitSubspec
  <2>2. PICK s \in Specs : s = SubOf(HandleAt(t, a))
    BY <1>3
  <2>3. DependsOn(f.spec, s) /\ b.pc \in {"goals", "stage"}
    BY <1>9, <2>2
  <2>4. VisitSpec(b, s) \in SoundBlocks
    BY <1>0, VisitSpecSound DEF IInv
  <2>5. FlowOK(VisitSpec(b, s))
    BY <1>0, <1>1, <1>2, <2>3, VisitSpecFlow DEF IInv
  <2> QED
    BY <1>0, <2>1, <2>2, <2>4, <2>5, StepFlow
<1>6. CASE AwaitInternal(t)
  <2>1. PICK a \in f.left :
           /\ IsInternal(HandleAt(t, a))
           /\ SubOf(HandleAt(t, a)) \in RunningTasks(b)
           /\ SetTop(t, [Handled(t, a) EXCEPT
                        !.internal[SubOf(HandleAt(t, a))] = @ \cup {HandleAt(t, a)}])
    BY <1>1, <1>2, <1>6 DEF AwaitInternal
  <2>2. PICK h \in SoundHandles, c \in SoundBlocks : h = HandleAt(t, a) /\ c = Handled(t, a)
    BY <1>3
  <2>3. /\ FlowBut(c, h) /\ c.frames # <<>> /\ RunningTasks(c) = RunningTasks(b)
        /\ c.frames[Len(c.frames)].spec = h.spec /\ h.action \notin c.frames[Len(c.frames)].left
    BY <1>9, <2>2
  <2> DEFINE new == [c EXCEPT !.internal[SubOf(h)] = @ \cup {h}]
  <2>4. c \in BlockType /\ BlockSound(c) /\ c.internal \in SoundRequests /\ SubOf(h) \in Specs
    BY HandleFacts DEF SoundBlocks, BlockType
  <2>5. [c.internal EXCEPT ![SubOf(h)] = @ \cup {h}] \in SoundRequests
    BY <2>4, RequestsSound
  <2>6. new \in SoundBlocks
    BY <2>4, <2>5 DEF SoundBlocks, BlockType, BlockSound
  <2>7. /\ new.pc = c.pc /\ new.ws = c.ws /\ new.running = c.running /\ new.visited = c.visited
        /\ new.outbox = c.outbox /\ new.deliv = c.deliv /\ new.frames = c.frames
        /\ new.external = c.external
        /\ new.internal = [c.internal EXCEPT ![SubOf(h)] = @ \cup {h}]
    BY <2>4 DEF BlockType
  <2>8. /\ \A s \in Specs : s # SubOf(h) => new.internal[s] = c.internal[s]
        /\ new.internal[SubOf(h)] = c.internal[SubOf(h)] \cup {h}
    BY <2>4, <2>7 DEF SoundRequests
  <2>9. SetTop(t, new)
    BY <2>1, <2>2
  <2> HIDE DEF new
  <2>10. \A s \in Specs :
            /\ new.internal[s] = c.internal[s] \/ new.internal[s] = c.internal[s] \cup {h}
            /\ new.external[s] = c.external[s] \/ new.external[s] = c.external[s] \cup {h}
    BY <2>7, <2>8
  <2>11. /\ IsInternal(h) /\ SubOf(h) \in RunningTasks(c) /\ new.external = c.external
         /\ h \in new.internal[SubOf(h)]
         /\ \A s \in Specs : s # SubOf(h) => new.internal[s] = c.internal[s]
    BY <2>1, <2>2, <2>3, <2>7, <2>8
  <2>12. FlowOK(new)
    BY <2>3, <2>6, <2>7, <2>10, <2>11, RequestFlow, Zenon
  <2> QED
    BY <1>0, <2>6, <2>9, <2>12, StepFlow
<1>7. CASE AnswerInternal(t)
  <2>1. PICK a \in f.left :
           LET h == HandleAt(t, a)
               r == ResolveHandle(Handled(t, a), h, b.ws[SubOf(h)].best.cost)
           IN  /\ SubOf(h) \in DOMAIN b.ws \ RunningTasks(b)
               /\ SetTop(t, [r EXCEPT !.outbox = IF r.ws[h.spec].running
                                                 THEN @ ELSE @ \cup {h.spec}])
    BY <1>1, <1>2, <1>7 DEF AnswerInternal
  <2>2. PICK h \in SoundHandles, c \in SoundBlocks : h = HandleAt(t, a) /\ c = Handled(t, a)
    BY <1>3
  <2>3. /\ FlowBut(c, h) /\ c.frames # <<>> /\ RunningTasks(c) = RunningTasks(b)
        /\ h.spec \in RunningTasks(b)
        /\ c.frames[Len(c.frames)].spec = h.spec /\ h.action \notin c.frames[Len(c.frames)].left
    BY <1>9, <2>2
  <2>4. PICK cost : cost = b.ws[SubOf(h)].best.cost
    OBVIOUS
  <2>5. cost \in OptCosts(SubOf(h))
    <3>1. SubOf(h) \in DOMAIN b.ws /\ ~b.ws[SubOf(h)].running
      BY <2>1, <2>2 DEF RunningTasks
    <3> QED
      BY <2>4, <3>1, TaskFacts
  <2>6. PICK r : r = ResolveHandle(c, h, cost)
    OBVIOUS
  <2> DEFINE new == [r EXCEPT !.outbox = IF r.ws[h.spec].running THEN @ ELSE @ \cup {h.spec}]
  <2>7. SetTop(t, new)
    BY <2>1, <2>2, <2>4, <2>6
  <2>8. h.spec \in RunningTasks(c)
    BY <2>3
  <2>9. FlowOK(new)
    BY <2>3, <2>5, <2>6, <2>8, AnswerFlow, Zenon
  <2>10. new \in SoundBlocks
    <3>1. r \in SoundBlocks /\ h.spec \in DOMAIN r.ws
      BY <2>5, <2>6, <2>8, ResolveHandleSound
    <3>2. r \in BlockType /\ BlockSound(r) /\ h.spec \in Specs
      BY <3>1, HandleFacts DEF SoundBlocks
    <3> QED
      BY <3>1, <3>2 DEF SoundBlocks, BlockType, BlockSound
  <2> HIDE DEF new
  <2> QED
    BY <1>0, <2>7, <2>9, <2>10, StepFlow
<1>8. CASE EndBatch(t)
  <2>1. PICK front : front = Front(b.frames)
    OBVIOUS
  <2> DEFINE new == [b EXCEPT !.frames = front]
  <2>2. SetTop(t, new) /\ f.left = {}
    BY <1>1, <1>2, <1>8, <2>1 DEF EndBatch
  <2>3. FlowOK(new)
    BY <1>1, <1>2, <2>1, <2>2, EndBatchFlow
  <2>4. new \in SoundBlocks
    <3>1. b \in BlockType /\ BlockSound(b) /\ b.frames \in Seq(SoundFrames)
      BY DEF SoundBlocks, BlockType
    <3>2. front \in Seq(SoundFrames) /\ Len(front) = Len(b.frames) - 1 /\ Len(b.frames) \in Nat
      BY <1>1, <2>1, <3>1, FrontProperties
    <3>3. ASSUME NEW i \in 1..Len(front) PROVE front[i].spec \in DOMAIN b.ws
      <4>1. front[i] = b.frames[i] /\ i \in 1..Len(b.frames)
        BY <1>1, <2>1, <3>1, <3>2, FrontElement
      <4> QED
        BY <3>1, <4>1 DEF BlockSound
    <3> QED
      BY <3>1, <3>2, <3>3 DEF SoundBlocks, BlockType, BlockSound
  <2> HIDE DEF new
  <2> QED
    BY <1>0, <2>2, <2>3, <2>4, StepFlow
<1> QED
  BY <1>4, <1>5, <1>6, <1>7, <1>8
\* The steps of synthesize's main loop.
LEMMA LoopStepFlow ==
    ASSUME FInv, NEW t \in Threads, Busy(t),
           \/ VisitGoal(t) \/ GoalsVisited(t) \/ DrainOutbox(t) \/ ResolveRequest(t)
           \/ OutboxDrained(t) \/ BeginStage(t) \/ StageVisit(t) \/ EndStage(t)
           \/ BeginPut(t) \/ PutTask(t) \/ WriteBlock(t)
    PROVE  FlowInv'
<1>1. PICK b \in SoundBlocks : b = Top(t) /\ FlowOK(b)
  BY TopFlow
<1>2. b \in BlockType /\ BlockSound(b) /\ DbSound /\ PhaseOK(b) /\ FlowOK(b)
  BY <1>1 DEF SoundBlocks, FInv, IInv, FlowOK
\* Steps that change neither tasks nor requests.
<1>3. ASSUME NEW new \in BlockType, SetTop(t, new), PhaseOK(new),
             new.ws = b.ws, new.running = b.running, new.internal = b.internal,
             new.external = b.external, new.outbox = b.outbox, new.deliv = b.deliv,
             new.frames = b.frames
      PROVE  FlowInv'
  BY <1>2, <1>3, KeepFlow, StepFlow
<1>4. CASE VisitGoal(t)
  <2>1. PICK g \in b.todo : SetTop(t, VisitSpec([b EXCEPT !.todo = @ \ {g}], g))
    BY <1>1, <1>4 DEF VisitGoal
  <2>2. b.pc = "goals" /\ b.frames = <<>>
    BY <1>1, <1>4 DEF VisitGoal, At
  <2> DEFINE new == [b EXCEPT !.todo = @ \ {g}]
  <2>3. new \in SoundBlocks /\ g \in Specs
    BY <1>2 DEF SoundBlocks, BlockType, BlockSound
  <2>4. /\ new.pc = b.pc /\ new.ws = b.ws /\ new.running = b.running /\ new.internal = b.internal
        /\ new.external = b.external /\ new.outbox = b.outbox /\ new.deliv = b.deliv
        /\ new.frames = b.frames /\ new.visited = b.visited
    BY <1>2 DEF BlockType
  <2> HIDE DEF new
  <2>5. PhaseOK(new)
    BY <1>2, <2>4 DEF PhaseOK, RunningTasks
  <2>6. FlowOK(new)
    BY <1>2, <2>4, <2>5, KeepFlow
  <2>7. FlowOK(VisitSpec(new, g))
    BY <1>2, <2>2, <2>3, <2>4, <2>6, VisitSpecFlow
  <2> QED
    BY <2>1, <2>7, StepFlow DEF new
<1>5. CASE GoalsVisited(t) \/ EndStage(t)
  <2> DEFINE new == [b EXCEPT !.pc = "drain"]
  <2>1. SetTop(t, new) /\ b.pc \in {"goals", "stage"} /\ b.frames = <<>>
    BY <1>1, <1>5 DEF GoalsVisited, EndStage, At
  <2>2. /\ new.pc = "drain" /\ new.ws = b.ws /\ new.running = b.running /\ new.internal = b.internal
        /\ new.external = b.external /\ new.outbox = b.outbox /\ new.deliv = b.deliv
        /\ new.frames = b.frames /\ new.visited = b.visited /\ new \in BlockType
    BY <1>2 DEF BlockType
  <2> HIDE DEF new
  <2>3. PhaseOK(new)
    BY <1>2, <2>1, <2>2 DEF PhaseOK
  <2> QED
    BY <1>3, <2>1, <2>2, <2>3
<1>6. CASE DrainOutbox(t)
  <2>1. PICK s \in b.outbox :
           SetTop(t, [b EXCEPT !.outbox = @ \ {s}, !.internal[s] = {},
                               !.deliv = Deliveries(b.internal[s], b.ws[s].best.cost)])
    BY <1>1, <1>6 DEF DrainOutbox
  <2>2. s \in Specs /\ b.internal \in SoundRequests /\ b.pc = "drain" /\ b.deliv = {}
    BY <1>1, <1>2, <1>6 DEF BlockType, DrainOutbox, At
  <2> DEFINE now == Deliveries(b.internal[s], b.ws[s].best.cost)
             new == [b EXCEPT !.outbox = @ \ {s}, !.internal[s] = {}, !.deliv = now]
  <2>3. SetTop(t, new)
    BY <2>1
  <2>4. /\ \A g : g \in b.internal[s] <=> \E d \in now : d.h = g
        /\ \A d, e \in now : d.h = e.h => d = e
    BY DeliveriesTo, OneCost
  <2> HIDE DEF now
  <2>5. /\ new.pc = b.pc /\ new.ws = b.ws /\ new.running = b.running
        /\ new.internal = [b.internal EXCEPT ![s] = {}] /\ new.deliv = now
        /\ new.external = b.external /\ new.outbox = b.outbox \ {s}
        /\ new.frames = b.frames /\ new.visited = b.visited
    BY <1>2 DEF BlockType
  <2> HIDE DEF new
  <2>6. \A u \in Specs : new.internal[u] = IF u = s THEN {} ELSE b.internal[u]
    BY <2>2, <2>5 DEF SoundRequests
  <2>7. \A g : Delivered(new, g) <=>
                  \E u \in {s} : g \in b.internal[u] \ new.internal[u]
                                 \/ g \in b.external[u] \ new.external[u]
    BY <2>2, <2>4, <2>5, <2>6 DEF Delivered
  <2>8. {s} \in SUBSET Specs /\ b.pc \in {"drain", "sub"} /\ new.outbox \subseteq b.outbox
    BY <2>2, <2>5
  <2>9. \A u \in Specs : /\ new.internal[u] # b.internal[u] => u \in {s} /\ new.internal[u] = {}
                         /\ new.external[u] # b.external[u] => u \in {s} /\ new.external[u] = {}
    <3>1. \A u \in Specs : new.external[u] = b.external[u]
      BY <2>5
    <3>2. \A u \in Specs : u = s => u \in {s} /\ new.internal[u] = {}
      BY <2>6
    <3>3. \A u \in Specs : u # s => new.internal[u] = b.internal[u]
      BY <2>6
    <3> QED
      BY <3>1, <3>2, <3>3
  <2>10. \A u \in Specs : u \in b.outbox \ new.outbox => new.internal[u] = {}
    BY <2>5, <2>6
  <2>11. FlowOK(new)
    <3>1. OneAnswer(new)
      BY <2>4, <2>5 DEF OneAnswer
    <3> QED
      BY <1>2, <2>2, <2>5, <2>7, <2>8, <2>9, <2>10, <3>1, HandOutFlow, Zenon
  <2> QED
    BY <2>3, <2>11, StepFlow
<1>7. CASE ResolveRequest(t)
  <2>1. PICK d \in b.deliv : SetTop(t, DeliverTo([b EXCEPT !.deliv = @ \ {d}], d.h, d.cost))
    BY <1>1, <1>7 DEF ResolveRequest
  <2>2. PICK new : new = [b EXCEPT !.deliv = @ \ {d}]
    OBVIOUS
  <2>3. new \in SoundBlocks
    BY <1>2, <2>2 DEF SoundBlocks, BlockType, BlockSound
  <2>4. /\ d.h \in SoundHandles /\ d.cost \in OptCosts(SubOf(d.h))
        /\ FlowBut(new, d.h) /\ new.pc \in {"drain", "sub"}
    BY <1>2, <2>2, TakeFlow
  <2>5. FlowOK(DeliverTo(new, d.h, d.cost))
    BY <2>3, <2>4, DeliverToFlow
  <2> QED
    BY <2>1, <2>2, <2>5, StepFlow
<1>8. CASE OutboxDrained(t)
  <2> DEFINE new == [b EXCEPT !.pc = "sub"]
  <2>1. SetTop(t, new) /\ b.outbox = {} /\ b.frames = <<>>
    BY <1>1, <1>8 DEF OutboxDrained, At
  <2>2. /\ new.pc = "sub" /\ new.ws = b.ws /\ new.running = b.running /\ new.internal = b.internal
        /\ new.external = b.external /\ new.outbox = b.outbox /\ new.deliv = b.deliv
        /\ new.frames = b.frames /\ new.visited = b.visited /\ new \in BlockType
    BY <1>2 DEF BlockType
  <2> HIDE DEF new
  <2>3. PhaseOK(new)
    BY <1>2, <2>1, <2>2 DEF PhaseOK
  <2> QED
    BY <1>3, <2>1, <2>2, <2>3
<1>9. CASE BeginStage(t)
  <2> DEFINE new == [b EXCEPT !.pc = "stage", !.visited = {}, !.todo = RunningTasks(b)]
  <2>1. SetTop(t, new) /\ b.deliv = {} /\ b.frames = <<>>
    BY <1>1, <1>9 DEF BeginStage, SubblocksDone, At
  <2>2. RunningTasks(b) \subseteq Specs
    BY TaskFacts DEF RunningTasks
  <2>3. /\ new.pc = "stage" /\ new.ws = b.ws /\ new.running = b.running /\ new.internal = b.internal
        /\ new.external = b.external /\ new.outbox = b.outbox /\ new.deliv = b.deliv
        /\ new.frames = b.frames /\ new.visited = {} /\ new \in BlockType
    BY <1>2, <2>2 DEF BlockType
  <2> HIDE DEF new
  <2>4. PhaseOK(new)
    BY <2>1, <2>3 DEF PhaseOK
  <2> QED
    BY <1>3, <2>1, <2>3, <2>4
<1>10. CASE StageVisit(t)
  <2>1. PICK s \in b.todo : SetTop(t, PushBatch([b EXCEPT !.todo = @ \ {s}], s))
    BY <1>1, <1>10 DEF StageVisit
  <2>2. b.pc = "stage" /\ b.frames = <<>>
    BY <1>1, <1>10 DEF StageVisit, At
  <2> DEFINE new == [b EXCEPT !.todo = @ \ {s}]
  <2>3. new \in SoundBlocks /\ s \in DOMAIN new.ws
    BY <1>2, <2>2 DEF SoundBlocks, BlockType, BlockSound
  <2>4. /\ new.pc = b.pc /\ new.ws = b.ws /\ new.running = b.running /\ new.internal = b.internal
        /\ new.external = b.external /\ new.outbox = b.outbox /\ new.deliv = b.deliv
        /\ new.frames = b.frames /\ new.visited = b.visited
    BY <1>2 DEF BlockType
  <2> HIDE DEF new
  <2>5. PhaseOK(new)
    BY <1>2, <2>4 DEF PhaseOK, RunningTasks
  <2>6. FlowOK(new)
    BY <1>2, <2>4, <2>5, KeepFlow
  <2>7. FlowOK(PushBatch(new, s))
    BY <2>2, <2>3, <2>4, <2>6, PushBatchFlow
  <2> QED
    BY <2>1, <2>7, StepFlow DEF new
<1>11. CASE BeginPut(t)
  <2> DEFINE new == [b EXCEPT !.pc = "put", !.todo = DOMAIN b.ws]
  <2>1. /\ SetTop(t, new) /\ b.deliv = {} /\ b.frames = <<>> /\ b.pc = "sub" /\ b.running = 0
        /\ Requested(b) = {}
    BY <1>1, <1>11 DEF BeginPut, SubblocksDone, At
  <2>2. DOMAIN b.ws \subseteq Specs
    BY TaskFacts
  <2>3. /\ new.pc = "put" /\ new.ws = b.ws /\ new.running = b.running /\ new.internal = b.internal
        /\ new.external = b.external /\ new.outbox = b.outbox /\ new.deliv = b.deliv
        /\ new.frames = b.frames /\ new.visited = b.visited /\ new \in BlockType
    BY <1>2, <2>2 DEF BlockType
  <2> HIDE DEF new
  <2>4. RunningTasks(new) = {}
    <3>1. IsFiniteSet(RunningTasks(b)) /\ Cardinality(RunningTasks(b)) = 0
      BY <1>2, <2>1 DEF FlowOK, CountOK
    <3>2. RunningTasks(b) = {}
      BY <3>1, FS_EmptySet
    <3> QED
      BY <2>3, <3>2 DEF RunningTasks
  <2>5. \A s \in Specs : new.external[s] = {}
    BY <2>1, <2>3 DEF Requested
  <2>6. PhaseOK(new)
    BY <1>2, <2>1, <2>3, <2>4, <2>5 DEF PhaseOK
  <2> QED
    BY <1>3, <2>1, <2>3, <2>6
<1>12. CASE PutTask(t) \/ WriteBlock(t)
  <2>1. PICK todo, res, cells : SetTop(t, [b EXCEPT !.todo = todo, !.res = res, !.cells = cells])
    <3>1. CASE PutTask(t)
      <4>1. PICK s \in b.todo :
               SetTop(t, [b EXCEPT !.todo = @ \ {s}, !.res = b.ws[s].best,
                                   !.cells = IF b.ws[s].fromDb THEN {} ELSE Fill(s, b.ws[s].best.cost)])
        BY <1>1, <3>1 DEF PutTask
      <4> QED
        BY <4>1
    <3>2. CASE WriteBlock(t)
      <4>1. PICK cells : SetTop(t, [b EXCEPT !.cells = cells])
        BY <1>1, <3>2 DEF WriteBlock
      <4>2. [b EXCEPT !.cells = cells] = [b EXCEPT !.todo = b.todo, !.res = b.res, !.cells = cells]
        BY <1>2 DEF BlockType
      <4> QED
        BY <4>1, <4>2
    <3> QED
      BY <1>12, <3>1, <3>2
  <2> DEFINE new == [b EXCEPT !.todo = todo, !.res = res, !.cells = cells]
  <2>2. /\ new.pc = b.pc /\ new.ws = b.ws /\ new.running = b.running /\ new.internal = b.internal
        /\ new.external = b.external /\ new.outbox = b.outbox /\ new.deliv = b.deliv
        /\ new.frames = b.frames /\ new.visited = b.visited
    BY <1>2 DEF BlockType
  <2>3. SetTop(t, new)
    BY <2>1
  <2> HIDE DEF new
  <2>4. PhaseOK(new)
    BY <1>2, <2>2 DEF PhaseOK, RunningTasks
  <2>5. FlowOK(new)
    BY <1>2, <2>2, <2>4, KeepFlow
  <2> QED
    BY <2>3, <2>5, StepFlow
<1> QED
  BY <1>4, <1>5, <1>6, <1>7, <1>8, <1>9, <1>10, <1>11, <1>12
\* Calls of synthesize and its returns.
LEMMA CallStepFlow ==
    ASSUME FInv, NEW t \in Threads,
           SynthesizeSubblock(t) \/ ReturnSubblock(t) \/ ReturnThread(t)
    PROVE  FlowInv'
<1> DEFINE n == Len(stack[t])
<1>0. Busy(t) /\ stack \in [Threads -> Seq(SoundBlocks)]
  BY DEF SynthesizeSubblock, ReturnSubblock, ReturnThread, At, FInv, IInv
<1>1. /\ stack[t] \in Seq(SoundBlocks) /\ stack[t] # <<>> /\ n \in 1..n /\ n \in Nat
      /\ Top(t) = stack[t][n]
      /\ \A i \in 1..n : stack[t][i] \in SoundBlocks /\ FlowOK(stack[t][i])
      /\ \A i \in 1..n - 1 : Suspended(stack[t][i])
  BY <1>0, TopFlow DEF Top
<1>2. ASSUME NEW q, stack' = [stack EXCEPT ![t] = q],
             \A i \in 1..Len(q) : FlowOK(q[i]) /\ (i < Len(q) => Suspended(q[i]))
      PROVE  FlowInv'
  <2>1. \A u \in Threads : stack'[u] = IF u = t THEN q ELSE stack[u]
    BY <1>0, <1>2
  <2> QED
    BY <1>2, <2>1 DEF FInv, FlowInv
<1>3. CASE SynthesizeSubblock(t)
  <2>1. PICK keys \in SUBSET Specs : stack' = [stack EXCEPT ![t] = Append(@, NewBlock(keys))]
    BY <1>3 DEF SynthesizeSubblock, Requested
  <2>2. PICK new \in SoundBlocks : new = NewBlock(keys) /\ FlowOK(new)
    BY NewBlockSound, NewBlockFlow
  <2> DEFINE q == Append(stack[t], new)
  <2>3. /\ Len(q) = n + 1 /\ q[n + 1] = new /\ \A i \in 1..n : q[i] = stack[t][i]
    BY <1>1
  <2>4. Suspended(stack[t][n])
    BY <1>1, <1>3 DEF SynthesizeSubblock, At, Suspended
  <2>5. ASSUME NEW i \in 1..Len(q) PROVE FlowOK(q[i]) /\ (i < Len(q) => Suspended(q[i]))
    <3> HIDE DEF q, n
    <3>1. CASE i = n + 1
      BY <1>1, <2>2, <2>3, <3>1
    <3>2. CASE i \in 1..n
      <4>1. i = n \/ i \in 1..n - 1
        BY <1>1, <3>2
      <4> QED
        BY <1>1, <2>3, <2>4, <3>2, <4>1
    <3> QED
      BY <1>1, <2>3, <3>1, <3>2
  <2>6. stack' = [stack EXCEPT ![t] = q]
    BY <2>1, <2>2
  <2> HIDE DEF q
  <2> QED
    BY <1>2, <2>5, <2>6
<1>4. CASE ReturnSubblock(t)
  <2>1. n > 1 /\ n - 1 \in 1..n - 1 /\ n - 1 \in 1..n
    BY <1>1, <1>4 DEF ReturnSubblock
  <2>2. PICK child \in SoundBlocks, parent \in SoundBlocks :
           child = Top(t) /\ parent = stack[t][n - 1] /\ FlowOK(parent) /\ Suspended(parent)
    BY <1>1, <2>1
  <2> DEFINE ext   == [s \in Specs |-> IF s \in child.goals THEN {} ELSE parent.external[s]]
             now   == UNION {Deliveries(parent.external[g], child.ws[g].best.cost) :
                             g \in child.goals}
             after == [parent EXCEPT !.external = ext, !.deliv = now]
  <2>3. stack' = [stack EXCEPT ![t] = Append(Front(Front(@)), after)]
    BY <1>4, <2>2 DEF ReturnSubblock
  <2>4. FlowOK(after)
    <3>1. /\ after.pc = parent.pc /\ after.ws = parent.ws /\ after.running = parent.running
          /\ after.internal = parent.internal /\ after.external = ext /\ after.deliv = now
          /\ after.outbox = parent.outbox /\ after.frames = parent.frames
          /\ after.visited = parent.visited
      BY DEF SoundBlocks, BlockType
    <3>2. \A s \in Specs : ext[s] = IF s \in child.goals THEN {} ELSE parent.external[s]
      OBVIOUS
    <3>3. child.goals \in SUBSET Specs
      BY DEF SoundBlocks, BlockType
    <3>4. \A h : (\E d \in now : d.h = h) <=> \E g \in child.goals : h \in parent.external[g]
      <4>1. \A h : \A g \in child.goals :
               h \in parent.external[g] <=>
                  \E d \in Deliveries(parent.external[g], child.ws[g].best.cost) : d.h = h
        BY DeliveriesTo
      <4>2. \A d : d \in now <=> \E g \in child.goals :
                      d \in Deliveries(parent.external[g], child.ws[g].best.cost)
        OBVIOUS
      <4> HIDE DEF now
      <4> QED
        BY <4>1, <4>2
    <3>9. OneAnswer(after)
      <4> SUFFICES ASSUME NEW d \in now, NEW e \in now, d.h = e.h PROVE d = e
        BY <3>1 DEF OneAnswer
      <4>1. PICK g \in child.goals : d \in Deliveries(parent.external[g], child.ws[g].best.cost)
        OBVIOUS
      <4>2. PICK k \in child.goals : e \in Deliveries(parent.external[k], child.ws[k].best.cost)
        OBVIOUS
      <4>3. d.h \in parent.external[g] /\ e.h \in parent.external[k] /\ g \in Specs /\ k \in Specs
        BY <3>3, <4>1, <4>2 DEF Deliveries
      <4>4. SubOf(d.h) = g /\ SubOf(e.h) = k
        BY <4>3 DEF SoundBlocks, BlockType, SoundRequests
      <4> QED
        BY <4>1, <4>2, <4>4, OneCost
    <3> HIDE DEF after, ext, now
    <3>5. \A h : Delivered(after, h) <=>
                    \E s \in child.goals : h \in parent.internal[s] \ after.internal[s]
                                           \/ h \in parent.external[s] \ after.external[s]
      <4>1. \A s \in child.goals : after.internal[s] = parent.internal[s] /\ after.external[s] = {}
        BY <3>1, <3>2, <3>3
      <4> QED
        BY <3>1, <3>4, <4>1 DEF Delivered
    <3>6. \A s \in Specs : /\ after.internal[s] # parent.internal[s] => s \in child.goals /\ after.internal[s] = {}
                           /\ after.external[s] # parent.external[s] => s \in child.goals /\ after.external[s] = {}
      BY <3>1, <3>2
    <3>7. /\ parent.deliv = {} /\ parent.pc \in {"drain", "sub"}
          /\ after.outbox \subseteq parent.outbox
      BY <2>2, <3>1 DEF Suspended
    <3>8. \A s \in Specs : s \in parent.outbox \ after.outbox => after.internal[s] = {}
      BY <3>1
    <3> QED
      BY <2>2, <3>1, <3>3, <3>5, <3>6, <3>7, <3>8, <3>9, HandOutFlow, Zenon
  <2>5. PICK front \in Seq(SoundBlocks) : front = Front(stack[t])
    BY <1>1, FrontProperties
  <2>6. Len(front) = n - 1 /\ front # <<>> /\ \A i \in 1..n - 1 : front[i] = stack[t][i]
    BY <1>1, <2>1, <2>5, FrontProperties, FrontElement
  <2>7. PICK base \in Seq(SoundBlocks) : base = Front(front)
    BY <2>6, FrontProperties
  <2>8. Len(base) = n - 2 /\ \A i \in 1..n - 2 : base[i] = front[i]
    <3>1. Len(base) = Len(front) - 1
      BY <2>6, <2>7, FrontProperties
    <3>2. \A i \in 1..Len(front) - 1 : base[i] = front[i]
      BY <2>6, <2>7, FrontElement
    <3> QED
      BY <1>1, <2>6, <3>1, <3>2
  <2> HIDE DEF after, n
  <2> DEFINE q == Append(base, after)
  <2>9. Len(q) = n - 1 /\ q[n - 1] = after /\ \A i \in 1..n - 2 : q[i] = base[i]
    BY <1>1, <2>1, <2>8
  <2>10. stack' = [stack EXCEPT ![t] = q]
    BY <2>3, <2>5, <2>7
  <2> HIDE DEF q
  <2>11. ASSUME NEW i \in 1..Len(q) PROVE FlowOK(q[i]) /\ (i < Len(q) => Suspended(q[i]))
    <3>1. CASE i = n - 1
      BY <1>1, <2>1, <2>4, <2>9, <3>1
    <3>2. CASE i \in 1..n - 2
      <4>1. i \in 1..n - 1 /\ i \in 1..n
        BY <1>1, <3>2
      <4>2. q[i] = stack[t][i]
        BY <2>6, <2>8, <2>9, <3>2, <4>1
      <4> QED
        BY <1>1, <4>1, <4>2
    <3> QED
      BY <1>1, <2>1, <2>9, <3>1, <3>2
  <2> QED
    BY <1>2, <2>10, <2>11
<1>5. CASE ReturnThread(t)
  <2>1. PICK q : q = <<>> /\ Len(q) = 0
    OBVIOUS
  <2>2. stack' = [stack EXCEPT ![t] = q]
    BY <1>5, <2>1 DEF ReturnThread
  <2>3. \A i \in 1..Len(q) : FlowOK(q[i]) /\ (i < Len(q) => Suspended(q[i]))
    BY <2>1
  <2> QED
    BY <1>2, <2>2, <2>3
<1> QED
  BY <1>3, <1>4, <1>5

LEMMA InitFlow == Init => FInv
<1> SUFFICES ASSUME Init PROVE FInv
  OBVIOUS
<1>1. \A t \in Threads : Len(stack[t]) = 0
  BY DEF Init
<1> QED
  BY <1>1, InitSound DEF FInv, FlowInv

\* Every step keeps the bookkeeping.
LEMMA NextFlow == FInv /\ [Next \/ Terminating]_vars => FInv'
<1> SUFFICES ASSUME FInv, [Next \/ Terminating]_vars PROVE FlowInv'
  BY NextSound DEF FInv
<1>1. CASE StartGroup
  <2>1. PICK p : stack' = [t \in Threads |-> <<NewBlock(GoalsGiven(p))>>]
    BY <1>1 DEF StartGroup
  <2>2. PICK new : new = NewBlock(GoalsGiven(p)) /\ FlowOK(new)
    BY NewBlockFlow
  <2>3. \A t \in Threads : stack'[t] = <<new>>
    BY <2>1, <2>2
  <2>4. ASSUME NEW t \in Threads, NEW i \in 1..Len(stack'[t])
        PROVE  FlowOK(stack'[t][i]) /\ ~(i < Len(stack'[t]))
    <3>1. stack'[t] = <<new>> /\ Len(<<new>>) = 1 /\ <<new>>[1] = new
      BY <2>3
    <3>2. i = 1
      BY <3>1
    <3> QED
      BY <2>2, <3>1, <3>2
  <2> QED
    BY <2>4 DEF FlowInv
<1>2. CASE EndGroup
  BY <1>2 DEF EndGroup, FInv, FlowInv
<1>3. ASSUME NEW t \in Threads, ThreadStep(t) PROVE FlowInv'
  <2>1. CASE \/ RequestExternal(t) \/ VisitSubspec(t) \/ AwaitInternal(t)
             \/ AnswerInternal(t) \/ EndBatch(t)
    BY <2>1, BatchStepFlow
  <2>2. CASE \/ VisitGoal(t) \/ GoalsVisited(t) \/ DrainOutbox(t) \/ ResolveRequest(t)
             \/ OutboxDrained(t) \/ BeginStage(t) \/ StageVisit(t) \/ EndStage(t)
             \/ BeginPut(t) \/ PutTask(t) \/ WriteBlock(t)
    <3>1. Busy(t)
      BY <2>2 DEF VisitGoal, GoalsVisited, DrainOutbox, ResolveRequest, OutboxDrained,
                  BeginStage, StageVisit, EndStage, BeginPut, PutTask, WriteBlock,
                  SubblocksDone, At
    <3> QED
      BY <2>2, <3>1, LoopStepFlow
  <2>3. CASE SynthesizeSubblock(t) \/ ReturnSubblock(t) \/ ReturnThread(t)
    BY <2>3, CallStepFlow
  <2> QED
    BY <1>3, <2>1, <2>2, <2>3 DEF ThreadStep
<1>4. CASE UNCHANGED vars
  BY <1>4 DEF vars, FInv, FlowInv
<1> QED
  BY <1>1, <1>2, <1>3, <1>4 DEF Next, Driver, Terminating

-----------------------------------------------------------------------------
(* What follows.                                                           *)

\* The bookkeeping of every block is right in every reachable state.
THEOREM FlowInvariant == Spec => []FInv
<1> QED
  BY InitFlow, NextFlow, PTL DEF Spec

\* The blocks of all threads, by their places on the stacks.
LEMMA BlockFlow ==
    ASSUME FInv, NEW b \in AllBlocks
    PROVE  b \in SoundBlocks /\ FlowOK(b)
<1>0. PICK t \in Threads : b \in Blocks(t)
  BY DEF AllBlocks
<1>1. PICK i \in DOMAIN stack[t] : b = stack[t][i]
  BY <1>0 DEF Blocks
<1>2. stack[t] \in Seq(SoundBlocks)
  BY DEF FInv, IInv
<1>3. i \in 1..Len(stack[t])
  BY <1>1, <1>2
<1> QED
  BY <1>1, <1>2, <1>3, SeqElement DEF FInv, FlowInv

\* working_set_running is the number of running tasks, for any Specs, any number
\* of threads and any interleaving: the debug_assert_eq of synthesize holds.
THEOREM CountRight == Spec => []RunningCount
<1>1. FInv => RunningCount
  BY BlockFlow DEF RunningCount, FlowOK, CountOK
<1> QED
  BY <1>1, FlowInvariant, PTL

\* An unfilled slot that was asked for always has its request in a queue that is
\* going to be answered: no task waits for an answer that nobody owes it.
THEOREM RequestsKept == Spec => []NoLostRequest
<1>1. FInv => NoLostRequest
  <2> SUFFICES ASSUME FInv, NEW b \in AllBlocks, NEW s \in RunningTasks(b),
                      NEW a \in Constructing(s, b.ws[s].parts), NEW j \in Slots(s, a),
                      j <= b.ws[s].batches, b.ws[s].costs[a][j] = None
               PROVE  Waiting(b, [spec |-> s, action |-> a, child |-> j])
    BY DEF NoLostRequest
  <2> DEFINE h == [spec |-> s, action |-> a, child |-> j]
  <2>1. b \in SoundBlocks /\ FlowOK(b)
    BY BlockFlow
  <2>2. s \in DOMAIN b.ws /\ b.ws[s].running /\ s \in Specs
    BY <2>1, TaskFacts DEF RunningTasks
  <2>3. a \in Acts(s) /\ b.ws[s].parts[a] = "Constructing" /\ a \in Nat /\ j \in Nat
    BY <2>2, ConstantTypes DEF Constructing, Slots
  <2>4. h \in SoundHandles /\ h.spec = s /\ h.action = a /\ h.child = j
    BY <2>2, <2>3 DEF SoundHandles, Handles
  <2> HIDE DEF h
  <2>5. Missing(b, h)
    BY <2>2, <2>3, <2>4 DEF Missing, MissingIn
  <2>6. Waiting(b, h)
    BY <2>1, <2>4, <2>5 DEF FlowOK, NothingLost
  <2> QED
    BY <2>6 DEF h
<1> QED
  BY <1>1, FlowInvariant, PTL

\* synthesize owes nobody an answer when it starts to put its results: its two
\* debug_asserts that the request maps are empty hold.
THEOREM QueuesDrained == Spec => []DrainedAtEnd
<1>1. FInv => DrainedAtEnd
  <2> SUFFICES ASSUME FInv, NEW b \in AllBlocks, b.pc = "put"
               PROVE  /\ b.internal = NoRequests /\ b.external = NoRequests
                      /\ b.outbox = {} /\ b.deliv = {}
    BY DEF DrainedAtEnd
  <2>1. b \in SoundBlocks /\ PhaseOK(b) /\ QueuesOK(b)
    BY BlockFlow DEF FlowOK
  <2>2. b.outbox = {} /\ b.deliv = {} /\ RunningTasks(b) = {} /\ \A s \in Specs : b.external[s] = {}
    BY <2>1 DEF PhaseOK
  <2>3. \A s \in Specs : b.internal[s] = {}
    BY <2>1, <2>2 DEF QueuesOK
  <2>4. b.internal \in [Specs -> SUBSET SoundHandles] /\ b.external \in [Specs -> SUBSET SoundHandles]
    BY <2>1 DEF SoundBlocks, BlockType, SoundRequests
  <2>5. b.internal = NoRequests
    BY <2>3, <2>4 DEF NoRequests
  <2>6. b.external = NoRequests
    BY <2>2, <2>4 DEF NoRequests
  <2> QED
    BY <2>2, <2>5, <2>6
<1> QED
  BY <1>1, FlowInvariant, PTL

\* No thread is about to panic: an answer always finds its slot empty, a visit
\* never meets a task that is borrowed further up the call stack.
THEOREM SearchNeverPanics == Spec => []NoPanic
<1>1. FInv => NoPanic
  <2> SUFFICES ASSUME FInv, NEW t \in Threads, Busy(t), NEW b, b = Top(t)
               PROVE  /\ \A d \in b.deliv :
                           d.h.spec \in RunningTasks(b) =>
                              ~ResolvePanics(b.ws[d.h.spec], d.h.action, d.h.child, d.cost)
                      /\ InBatch(t) => \A a \in Frame(t).left :
                           LET h == HandleAt(t, a) IN IsInternal(h) =>
                             /\ SubOf(h) \in b.visited => SubOf(h) \in DOMAIN b.ws
                             /\ \A i \in DOMAIN b.frames : b.frames[i].spec # SubOf(h)
                             /\ SubOf(h) \in DOMAIN b.ws \ RunningTasks(b) =>
                                  ~ResolvePanics(b.ws[h.spec], h.action, h.child,
                                                 b.ws[SubOf(h)].best.cost)
                      /\ b.pc = "put" => b.todo \cap RunningTasks(b) = {}
    BY DEF NoPanic
  <2>1. b \in SoundBlocks /\ FlowOK(b)
    BY TopFlow
  <2>2. \A h \in SoundHandles : \A cost :
           Open(b, h) /\ h.spec \in RunningTasks(b)
              => ~ResolvePanics(b.ws[h.spec], h.action, h.child, cost)
    BY DEF Open, OpenIn, ResolvePanics, RunningTasks
  <2>3. \A d \in b.deliv : d.h \in SoundHandles /\ Open(b, d.h)
    <3>1. b.deliv \subseteq SoundDeliveries
      BY <2>1 DEF SoundBlocks, BlockType
    <3>2. \A d \in b.deliv : d.h \in SoundHandles /\ Delivered(b, d.h)
      BY <3>1 DEF SoundDeliveries, Delivered
    <3> QED
      BY <2>1, <3>2 DEF FlowOK, QueuesOK, Queued
  <2>4. ASSUME InBatch(t), NEW a \in Frame(t).left, NEW h, h = HandleAt(t, a)
        PROVE  /\ SubOf(h) \in b.visited => SubOf(h) \in DOMAIN b.ws
               /\ \A i \in DOMAIN b.frames : b.frames[i].spec # SubOf(h)
               /\ ~ResolvePanics(b.ws[h.spec], h.action, h.child, b.ws[SubOf(h)].best.cost)
    <3>1. PICK f : f = b.frames[Len(b.frames)] /\ f = Frame(t) /\ b.frames # <<>> /\ a \in f.left
      BY <2>4 DEF Frame, InBatch
    <3>2. h = FrameHandle(f, a)
      BY <2>4, <3>1 DEF HandleAt, FrameHandle
    <3>3. PICK c : c = TakenUp(b, a)
      OBVIOUS
    <3>4. h \in SoundHandles /\ h.spec \in RunningTasks(b) /\ DependsOn(f.spec, SubOf(h)) /\ FlowBut(c, h)
          /\ c.ws = b.ws
      <4>1. b \in SoundBlocks /\ FlowOK(b) /\ b.frames # <<>> /\ f = b.frames[Len(b.frames)]
        BY <2>1, <3>1
      <4>2. a \in f.left /\ h = FrameHandle(f, a) /\ c = TakenUp(b, a)
        BY <3>1, <3>2, <3>3
      <4> QED
        BY <4>1, <4>2, HandledFlow
    <3>5. Open(b, h)
      BY <3>4 DEF FlowBut, Open
    <3>6. b.visited \subseteq DOMAIN b.ws
      BY <2>1 DEF FlowOK, PhaseOK
    <3>7. \A i \in DOMAIN b.frames : b.frames[i].spec # SubOf(h)
      <4> DEFINE n == Len(b.frames)
                 g == [i \in 1..n |-> b.frames[i].spec]
      <4>1. b.frames \in Seq(SoundFrames) /\ n \in Nat /\ n > 0
        BY <2>1, <3>1, LastFrame DEF SoundBlocks, BlockType
      <4>2. /\ \A i \in 1..n : g[i] \in Specs
            /\ \A i \in 1..n - 1 : DependsOn(g[i], g[i + 1])
            /\ DependsOn(g[n], SubOf(h))
        <5>1. FramesOK(b) /\ n \in 1..n
          BY <2>1, <4>1 DEF FlowOK
        <5>2. \A i \in 1..n : b.frames[i].spec \in Specs
          BY <2>1, <5>1, FrameHandles
        <5>3. \A i \in 1..n - 1 : i \in 1..n /\ i + 1 \in 1..n
          BY <4>1
        <5>4. b.frames[n].spec = f.spec
          BY <3>1
        <5> QED
          BY <3>4, <5>1, <5>2, <5>3, <5>4 DEF FramesOK
      <4>3. \A i \in 1..n : g[i] = b.frames[i].spec
        OBVIOUS
      <4>4. DOMAIN b.frames = 1..n /\ SubOf(h) \in Specs
        BY <3>4, <4>1, HandleFacts
      <4> HIDE DEF g, n
      <4>5. \A i \in 1..n : g[i] # SubOf(h)
        BY <4>1, <4>2, <4>4, FramesApart
      <4> QED
        BY <4>3, <4>4, <4>5
    <3> QED
      BY <2>2, <3>4, <3>5, <3>6, <3>7
  <2>5. b.pc = "put" => b.todo \cap RunningTasks(b) = {}
    BY <2>1 DEF FlowOK, PhaseOK
  <2> QED
    BY <2>2, <2>3, <2>4, <2>5
<1> QED
  BY <1>1, FlowInvariant, PTL


-----------------------------------------------------------------------------
(***************************************************************************)
(* Every sub-Spec of an implementation that the database records is        *)
(* recorded too, or about to be: what get_impl expects.                    *)
(*                                                                         *)
(* The invariant that carries it looks at the cells that are recorded or   *)
(* are going to be by a put that has begun.  No step loses one of them.    *)
(* With each entry they contain all that a put of its cost fills, and the  *)
(* sub-Specs of its action; and whatever cost a task has been given is     *)
(* either of a result whose cells are all among them, or of a complete     *)
(* task of its block, which is going to be put.                            *)
(***************************************************************************)

\* The cells that thread t is going to write.
Writing(t) == IF Busy(t) /\ Top(t).pc = "put" THEN Unwritten(Top(t)) ELSE {}

Recorded == DOMAIN db \cup UNION {Writing(t) : t \in Threads}

Needs(s, a) == {Subs(s, a)[j] : j \in Slots(s, a)}

\* What an entry r for c stands on is in R; and so for all that put(s, r) fills.
Fits(c, r, R) == /\ Fill(c, r.cost) \subseteq R
                 /\ r # NoImpl => Needs(c, r.action) \subseteq R
Covers(s, r, R) == \A c \in Fill(s, r.cost) : Fits(c, r, R)

DbClosed(R) == \A s \in DOMAIN db : Fits(s, db[s], R)

\* r is what one of s's actions yields for costs that K has of its sub-Specs.
Founded(s, r, K) ==
    \E a \in Acts(s) : \E f \in Choices(s, a) :
        r = Impl(s, a, f) /\ \A j \in Slots(s, a) : <<Subs(s, a)[j], f[j]>> \in K

\* Each cost that s's task has been given, and each that its best Impl was made of,
\* is in K, a set of pairs of a Spec and a cost.
TaskBacked(s, task, K) ==
    /\ task.running =>
         /\ ~task.fromDb
         /\ \A a \in Acts(s) : task.parts[a] = "Constructing" =>
               \A j \in Slots(s, a) : task.costs[a][j] # None =>
                   <<Subs(s, a)[j], task.costs[a][j]>> \in K
    /\ task.best # NoImpl /\ ~task.fromDb => Founded(s, task.best, K)

\* The Specs and costs that block b may rely on.
Answered(b, R) ==
    {p \in Specs \X Nat : Fill(p[1], p[2]) \subseteq R}
      \cup {<<s, b.ws[s].best.cost>> : s \in DOMAIN b.ws \ RunningTasks(b)}

PutBacked(b, R) ==
    /\ DOMAIN b.ws \subseteq R
    /\ \A s \in DOMAIN b.ws : ~b.ws[s].fromDb => Covers(s, b.ws[s].best, R)
    /\ \A c \in b.cells : Fits(c, b.res, R)

Backed(b, R) ==
    /\ \A s \in DOMAIN b.ws :
          /\ TaskBacked(s, b.ws[s], Answered(b, R))
          /\ b.ws[s].fromDb => Fill(s, b.ws[s].best.cost) \subseteq R
    /\ \A d \in b.deliv : d.cost # None => <<SubOf(d.h), d.cost>> \in Answered(b, R)
    /\ IF b.pc = "put" THEN PutBacked(b, R) ELSE b.cells = {}

AllBacked(R) ==
    \A t \in Threads : \A i \in 1..Len(stack[t]) : Backed(stack[t][i], R)

\* The inductive invariant; between two groups no thread is searching.
DInv ==
    /\ FInv
    /\ Recorded \subseteq Specs /\ DbClosed(Recorded)
    /\ AllBacked(Recorded)
    /\ group = {} => \A t \in Threads : ~Busy(t)

\* What every step does: it keeps the invariant, and loses no cell.
DepsKept == DInv' /\ Recorded \subseteq Recorded'
-----------------------------------------------------------------------------
(* Tasks.                                                                  *)

\* What is known stays known.
LEMMA TaskMonotone ==
    ASSUME NEW s, NEW task, NEW K, TaskBacked(s, task, K), NEW L, K \subseteq L
    PROVE  TaskBacked(s, task, L)
BY DEF TaskBacked, Founded

LEMMA BlockMonotone ==
    ASSUME NEW b, NEW R, Backed(b, R), NEW S, R \subseteq S
    PROVE  Backed(b, S)
<1>1. Answered(b, R) \subseteq Answered(b, S)
  BY DEF Answered
<1>2. PutBacked(b, R) => PutBacked(b, S)
  BY DEF PutBacked, Covers, Fits
<1> QED
  BY <1>1, <1>2, TaskMonotone DEF Backed

\* A pair that a block may rely on, and why.
LEMMA AnsweredPair ==
    ASSUME NEW b, NEW R, NEW u, NEW x
    PROVE  <<u, x>> \in Answered(b, R) <=>
              \/ u \in Specs /\ x \in Nat /\ Fill(u, x) \subseteq R
              \/ u \in DOMAIN b.ws /\ ~b.ws[u].running /\ x = b.ws[u].best.cost
BY DEF Answered, RunningTasks

\* A new task has been given nothing, and its best Impl is a leaf.
LEMMA StartBacked ==
    ASSUME NEW s \in Specs, NEW K
    PROVE  TaskBacked(s, Start(s), K) /\ ~Start(s).fromDb
<1> DEFINE partial == {a \in Acts(s) : IsPartial(s, a)}
           best    == BestOf(Leaves(s))
<1>1. best # NoImpl => Founded(s, best, K)
  <2>1. Leaves(s) \in SUBSET Pairs
    BY LeafImpls
  <2>2. IsBest(best, Leaves(s))
    BY <2>1, BestExists
  <2>3. SUFFICES ASSUME best \in Leaves(s) PROVE Founded(s, best, K)
    BY <2>2 DEF IsBest
  <2>4. PICK a \in Acts(s) : IsLeaf(s, a) /\ best \in Impls(s, a)
    BY <2>3 DEF Leaves
  <2>5. PICK f \in Choices(s, a) : best = Impl(s, a, f)
    BY <2>4 DEF Impls
  <2>6. Slots(s, a) = {}
    BY <2>4 DEF IsLeaf, Slots
  <2> QED
    BY <2>5, <2>6 DEF Founded
<1> HIDE DEF best
<1>2. CASE partial = {}
  <2>1. Start(s) = Complete(s, best, FALSE)
    BY <1>2 DEF Start, best
  <2> QED
    BY <1>1, <2>1 DEF TaskBacked, Complete
<1>3. CASE partial # {}
  <2> DEFINE parts == [a \in Acts(s) |-> IF a \in partial THEN "Constructing" ELSE "None"]
             costs == [a \in Acts(s) |-> [j \in Slots(s, a) |-> None]]
  <2>1. Start(s) = [running |-> TRUE, best |-> best, parts |-> parts, costs |-> costs,
                    incomplete |-> Cardinality(partial), batches |-> 0, fromDb |-> FALSE]
    BY <1>3 DEF Start, best
  <2>2. \A a \in Acts(s) : \A j \in Slots(s, a) : costs[a][j] = None
    OBVIOUS
  <2> HIDE DEF parts, costs
  <2>3. Start(s).best = best /\ Start(s).costs = costs /\ ~Start(s).fromDb
    BY <2>1
  <2> QED
    BY <1>1, <2>2, <2>3 DEF TaskBacked
<1> QED
  BY <1>2, <1>3
\* resolve_request with the cost of a known sub-Spec: when the partial Impl is Sat,
\* all its slots were filled with costs of known ones.
LEMMA ResolveBacked ==
    ASSUME NEW s \in Specs, NEW task, TaskSound(s, task), task.running, NEW K,
           TaskBacked(s, task, K), NEW a \in Acts(s), NEW j \in Slots(s, a),
           NEW cost, cost \in OptCosts(Subs(s, a)[j]), cost # None => <<Subs(s, a)[j], cost>> \in K
    PROVE  TaskBacked(s, Resolve(s, task, a, j, cost), K) /\ ~Resolve(s, task, a, j, cost).fromDb
<1> DEFINE filled == [task.costs[a] EXCEPT ![j] = cost]
           new    == [action |-> a, cost |-> ImplCost(s, a, filled)]
           full   == \A i \in Slots(s, a) : filled[i] # None
<1>0. ~task.fromDb
  BY DEF TaskBacked
<1>1. /\ task.parts \in [Acts(s) -> PartStates] /\ task \in TaskOf(s)
      /\ task.costs \in [Acts(s) -> Seq(Nat \cup {None})]
      /\ \A c \in Acts(s) : PartSound(s, c, task)
  BY Counted DEF TaskSound
\* The end of resolve_request.
<1>2. ASSUME NEW t2, ~t2.fromDb, t2.best # NoImpl => Founded(s, t2.best, K),
             \A c \in Acts(s) : t2.parts[c] = "Constructing" =>
                \A i \in Slots(s, c) : t2.costs[c][i] # None => <<Subs(s, c)[i], t2.costs[c][i]>> \in K,
             t2 \in TaskOf(s)
      PROVE  TaskBacked(s, FinishPart(s, t2), K) /\ ~FinishPart(s, t2).fromDb
  <2>1. CASE t2.incomplete = 1
    <3>1. FinishPart(s, t2) = Complete(s, t2.best, FALSE)
      BY <2>1 DEF FinishPart
    <3> QED
      BY <1>2, <3>1 DEF TaskBacked, Complete
  <2>2. CASE t2.incomplete # 1
    <3> DEFINE t3 == [t2 EXCEPT !.incomplete = @ - 1]
    <3>1. FinishPart(s, t2) = t3
      BY <2>2 DEF FinishPart
    <3>2. t3.best = t2.best /\ t3.parts = t2.parts /\ t3.costs = t2.costs /\ t3.fromDb = t2.fromDb
      BY <1>2 DEF TaskOf
    <3> HIDE DEF t3
    <3> QED
      BY <1>2, <3>1, <3>2 DEF TaskBacked
  <2> QED
    BY <2>1, <2>2
<1>3. CASE task.parts[a] # "Constructing"
  BY <1>0, <1>3 DEF Resolve
<1>4. CASE task.parts[a] = "Constructing"
  <2>1. task.costs[a] \in [Slots(s, a) -> Nat \cup {None}]
    BY <1>1, <1>4 DEF PartSound
  <2>2. ASSUME NEW i \in Slots(s, a), filled[i] # None PROVE <<Subs(s, a)[i], filled[i]>> \in K
    <3>1. filled[i] = IF i = j THEN cost ELSE task.costs[a][i]
      BY <2>1
    <3> HIDE DEF filled
    <3> QED
      BY <1>4, <2>2, <3>1 DEF TaskBacked
  <2>6. filled \in Seq(Nat \cup {None}) /\ SlotsSound(s, a, filled)
    <3>1. Subs(s, a)[j] \in Specs /\ cost \in Nat \cup {None}
      BY ConstantTypes, OptCost
    <3>2. task.costs[a] \in Seq(Nat \cup {None}) /\ j \in 1..Len(task.costs[a])
      BY <1>1, <2>1
    <3>3. filled \in Seq(Nat \cup {None})
      BY <3>1, <3>2, ExceptSeq
    <3> QED
      BY <1>1, <1>4, <2>1, <3>1, <3>3 DEF PartSound, SlotsSound
  <2>3. CASE cost = None
    <3> DEFINE t2 == [task EXCEPT !.parts[a] = "Unsat"]
    <3>1. Resolve(s, task, a, j, cost) = FinishPart(s, t2)
      BY <1>4, <2>1, <2>3 DEF Resolve
    <3>2. /\ t2.best = task.best /\ t2.costs = task.costs /\ t2.fromDb = task.fromDb
          /\ t2.parts = [task.parts EXCEPT ![a] = "Unsat"] /\ t2 \in TaskOf(s)
      BY <1>1 DEF TaskOf, PartStates
    <3> HIDE DEF t2
    <3>3. \A c \in Acts(s) : t2.parts[c] = "Constructing" => task.parts[c] = "Constructing"
      BY <1>1, <3>2
    <3>4. t2.best # NoImpl => Founded(s, t2.best, K)
      BY <1>0, <3>2 DEF TaskBacked
    <3>5. \A c \in Acts(s) : t2.parts[c] = "Constructing" =>
             \A i \in Slots(s, c) : t2.costs[c][i] # None => <<Subs(s, c)[i], t2.costs[c][i]>> \in K
      BY <1>0, <3>2, <3>3 DEF TaskBacked
    <3> QED
      BY <1>0, <1>2, <3>1, <3>2, <3>4, <3>5
  <2>4. CASE cost # None /\ full
    <3> DEFINE t2 == [task EXCEPT !.parts[a] = "Sat", !.costs[a] = filled,
                                  !.best = Insert(@, new)]
    <3>1. Resolve(s, task, a, j, cost) = FinishPart(s, t2)
      BY <1>4, <2>4 DEF Resolve
    <3>2. Founded(s, new, K)
      <4>1. filled \in Choices(s, a) /\ \A i \in Slots(s, a) : <<Subs(s, a)[i], filled[i]>> \in K
        <5>1. \A i \in Slots(s, a) : filled[i] # None
          BY <2>4
        <5> HIDE DEF filled
        <5> QED
          BY <2>2, <2>6, <5>1, FilledSound
      <4>2. new = Impl(s, a, filled)
        BY DEF Impl
      <4> HIDE DEF filled, new
      <4> QED
        BY <4>1, <4>2 DEF Founded
    <3>3. Insert(task.best, new) \in {task.best, new}
      BY DEF Insert
    <3>4. \A x \in {task.best, new} : x # NoImpl => Founded(s, x, K)
      BY <1>0, <3>2, <3>3 DEF TaskBacked
    <3>6. Insert(task.best, new) \in Results
      <4>1. new = Impl(s, a, filled) /\ \A i \in Slots(s, a) : filled[i] # None
        BY <2>4 DEF Impl
      <4> HIDE DEF filled, new
      <4>2. new \in Pairs
        BY <2>6, <4>1, FilledSound, ImplType
      <4> QED
        BY <1>1, <4>2 DEF Insert, TaskOf, Results, Pairs
    <3> HIDE DEF filled, new
    <3>5. /\ t2.best = Insert(task.best, new) /\ t2.fromDb = task.fromDb
          /\ t2.parts = [task.parts EXCEPT ![a] = "Sat"] /\ t2 \in TaskOf(s)
          /\ t2.costs = [task.costs EXCEPT ![a] = filled]
      BY <1>1, <2>6, <3>6 DEF TaskOf, PartStates
    <3> HIDE DEF t2
    <3>7. \A c \in Acts(s) : t2.parts[c] = "Constructing" =>
             task.parts[c] = "Constructing" /\ t2.costs[c] = task.costs[c]
      BY <1>1, <3>5
    <3>8. \A c \in Acts(s) : t2.parts[c] = "Constructing" =>
             \A i \in Slots(s, c) : t2.costs[c][i] # None => <<Subs(s, c)[i], t2.costs[c][i]>> \in K
      BY <3>7 DEF TaskBacked
    <3>9. t2.best # NoImpl => Founded(s, t2.best, K)
      BY <3>3, <3>4, <3>5
    <3> QED
      BY <1>0, <1>2, <3>1, <3>5, <3>8, <3>9
  <2>5. CASE cost # None /\ ~full
    <3> DEFINE t2 == [task EXCEPT !.costs[a] = filled]
    <3>1. Resolve(s, task, a, j, cost) = t2
      BY <1>4, <2>5 DEF Resolve
    <3> HIDE DEF filled
    <3>2. /\ t2.best = task.best /\ t2.fromDb = task.fromDb /\ t2.parts = task.parts
          /\ t2.costs = [task.costs EXCEPT ![a] = filled] /\ t2.running = task.running
      BY <1>1 DEF TaskOf
    <3> HIDE DEF t2
    <3>3. \A c \in Acts(s) : t2.costs[c] = IF c = a THEN filled ELSE task.costs[c]
      BY <1>1, <3>2
    <3>4. \A c \in Acts(s) : t2.parts[c] = "Constructing" =>
             \A i \in Slots(s, c) : t2.costs[c][i] # None => <<Subs(s, c)[i], t2.costs[c][i]>> \in K
      BY <2>2, <3>2, <3>3 DEF TaskBacked
    <3> QED
      BY <1>0, <3>1, <3>2, <3>4 DEF TaskBacked
  <2> QED
    BY <2>3, <2>4, <2>5
<1> QED
  BY <1>3, <1>4
-----------------------------------------------------------------------------
(* Blocks.                                                                 *)

\* Tasks that are put into the working set or replaced, none of which stops being
\* complete, and answers on their way that are known.
LEMMA NewTasksBacked ==
    ASSUME NEW b, NEW R, Backed(b, R), b.pc # "put",
           NEW new, new.pc # "put", new.cells = b.cells,
           DOMAIN b.ws \subseteq DOMAIN new.ws,
           \A s \in DOMAIN b.ws :
              ~b.ws[s].running => ~new.ws[s].running /\ new.ws[s].best = b.ws[s].best,
           \A s \in DOMAIN new.ws :
              \/ s \in DOMAIN b.ws /\ new.ws[s] = b.ws[s]
              \/ /\ TaskBacked(s, new.ws[s], Answered(new, R))
                 /\ new.ws[s].fromDb => Fill(s, new.ws[s].best.cost) \subseteq R,
           \A d \in new.deliv : d \in b.deliv \/ <<SubOf(d.h), d.cost>> \in Answered(new, R)
    PROVE  Backed(new, R)
<1>1. Answered(b, R) \subseteq Answered(new, R)
  BY DEF Answered, RunningTasks
<1>2. ASSUME NEW s \in DOMAIN new.ws
      PROVE  /\ TaskBacked(s, new.ws[s], Answered(new, R))
             /\ new.ws[s].fromDb => Fill(s, new.ws[s].best.cost) \subseteq R
  <2>1. CASE s \in DOMAIN b.ws /\ new.ws[s] = b.ws[s]
    BY <1>1, <2>1, TaskMonotone DEF Backed
  <2> QED
    BY <2>1
<1>3. \A d \in new.deliv : d.cost # None => <<SubOf(d.h), d.cost>> \in Answered(new, R)
  BY <1>1 DEF Backed
<1> QED
  BY <1>2, <1>3 DEF Backed

\* Steps that leave the tasks alone.
LEMMA SameTasksBacked ==
    ASSUME NEW b, NEW R, Backed(b, R), NEW new, new.ws = b.ws, new.cells = b.cells,
           new.pc # "put", b.pc # "put",
           \A d \in new.deliv :
              d \in b.deliv \/ (d.cost # None => <<SubOf(d.h), d.cost>> \in Answered(b, R))
    PROVE  Backed(new, R)
<1>1. Answered(b, R) = Answered(new, R)
  BY DEF Answered, RunningTasks
<1> QED
  BY <1>1 DEF Backed

\* get_task_internal: a task from the database is for a Spec that is recorded.
LEMMA GetTaskBacked ==
    ASSUME NEW b \in SoundBlocks, NEW s \in Specs, NEW R, DbClosed(R),
           Backed(b, R), b.pc # "put"
    PROVE  Backed(GetTask(b, s), R) /\ GetTask(b, s).pc = b.pc
<1> DEFINE task == IF s \in DOMAIN db THEN Complete(s, db[s], TRUE) ELSE Start(s)
           ws   == Extend(b.ws, s, task)
           run  == IF task.running THEN b.running + 1 ELSE b.running
           new  == [b EXCEPT !.ws = ws, !.running = run]
<1>1. CASE s \in DOMAIN b.ws
  BY <1>1 DEF GetTask
<1>2. CASE s \notin DOMAIN b.ws
  <2>1. GetTask(b, s) = new
    BY <1>2 DEF GetTask
  <2>2. \A K : TaskBacked(s, task, K) /\ (task.fromDb => Fill(s, task.best.cost) \subseteq R)
    <3>1. CASE s \in DOMAIN db
      BY <3>1 DEF TaskBacked, Complete, DbClosed, Fits
    <3>2. CASE s \notin DOMAIN db
      BY <3>2, StartBacked
    <3> QED
      BY <3>1, <3>2
  <2> HIDE DEF task
  <2>3. /\ DOMAIN ws = DOMAIN b.ws \cup {s} /\ ws[s] = task
        /\ \A u \in DOMAIN b.ws : ws[u] = b.ws[u]
    BY <1>2 DEF Extend
  <2> HIDE DEF ws, run
  <2>4. new.ws = ws /\ new.pc = b.pc /\ new.deliv = b.deliv /\ new.cells = b.cells
    BY DEF SoundBlocks, BlockType
  <2> HIDE DEF new
  <2>5. Backed(new, R)
    <3>1. \A u \in DOMAIN b.ws :
             ~b.ws[u].running => ~new.ws[u].running /\ new.ws[u].best = b.ws[u].best
      BY <2>3, <2>4
    <3>2. \A u \in DOMAIN new.ws :
             \/ u \in DOMAIN b.ws /\ new.ws[u] = b.ws[u]
             \/ /\ TaskBacked(u, new.ws[u], Answered(new, R))
                /\ new.ws[u].fromDb => Fill(u, new.ws[u].best.cost) \subseteq R
      BY <2>2, <2>3, <2>4
    <3> QED
      BY <2>3, <2>4, <3>1, <3>2, NewTasksBacked
  <2> QED
    BY <2>1, <2>4, <2>5
<1> QED
  BY <1>1, <1>2

\* visit_next_request_batch gives no task anything.
LEMMA PushBatchBacked ==
    ASSUME NEW b \in SoundBlocks, NEW s \in DOMAIN b.ws, NEW R, Backed(b, R), b.pc # "put"
    PROVE  Backed(PushBatch(b, s), R) /\ PushBatch(b, s).pc = b.pc
<1> DEFINE k     == b.ws[s].batches + 1
           left  == BatchActions(s, b.ws[s], k)
           frame == [spec |-> s, child |-> k, left |-> left]
           task  == [b.ws[s] EXCEPT !.batches = k]
           ws    == [b.ws EXCEPT ![s] = task]
           new   == [b EXCEPT !.ws = ws, !.frames = Append(@, frame)]
<1>1. CASE ~HasNextBatch(s, b.ws[s])
  BY <1>1 DEF PushBatch
<1>2. CASE HasNextBatch(s, b.ws[s])
  <2>1. PushBatch(b, s) = new
    BY <1>2 DEF PushBatch
  <2>2. /\ task.running = b.ws[s].running /\ task.parts = b.ws[s].parts
        /\ task.costs = b.ws[s].costs /\ task.best = b.ws[s].best
        /\ task.fromDb = b.ws[s].fromDb
    BY TaskFacts DEF TaskOf
  <2>3. \A K : TaskBacked(s, b.ws[s], K) => TaskBacked(s, task, K)
    BY <2>2 DEF TaskBacked
  <2>4. b.ws \in WorkingSets
    BY DEF SoundBlocks, BlockType
  <2> HIDE DEF task
  <2>5. /\ DOMAIN ws = DOMAIN b.ws
        /\ \A u \in DOMAIN b.ws : ws[u] = IF u = s THEN task ELSE b.ws[u]
    BY <2>4 DEF WorkingSets
  <2> HIDE DEF ws, frame
  <2>6. new.ws = ws /\ new.pc = b.pc /\ new.deliv = b.deliv /\ new.cells = b.cells
    BY DEF SoundBlocks, BlockType
  <2> HIDE DEF new
  <2>7. RunningTasks(new) = RunningTasks(b)
    BY <2>2, <2>5, <2>6 DEF RunningTasks
  <2>8. Answered(new, R) = Answered(b, R)
    <3>1. \A u \in DOMAIN b.ws : new.ws[u].best = b.ws[u].best
      BY <2>2, <2>5, <2>6
    <3> QED
      BY <2>5, <2>6, <2>7, <3>1 DEF Answered
  <2>9. Backed(new, R)
    BY <2>2, <2>3, <2>5, <2>6, <2>8 DEF Backed
  <2> QED
    BY <2>1, <2>6, <2>9
<1> QED
  BY <1>1, <1>2

LEMMA VisitSpecBacked ==
    ASSUME NEW b \in SoundBlocks, NEW s \in Specs, NEW R, DbClosed(R), DbSound,
           Backed(b, R), b.pc # "put"
    PROVE  Backed(VisitSpec(b, s), R) /\ VisitSpec(b, s).pc = b.pc
<1>1. CASE s \in b.visited
  BY <1>1, GetTaskBacked DEF VisitSpec
<1>2. CASE s \notin b.visited
  <2> DEFINE got == GetTask(b, s)
             new == [got EXCEPT !.visited = @ \cup {s}]
  <2>1. got \in SoundBlocks /\ s \in DOMAIN got.ws
    BY GetTaskSound
  <2>2. Backed(got, R) /\ got.pc = b.pc
    BY GetTaskBacked
  <2>3. VisitSpec(b, s) = PushBatch(new, s)
    BY <1>2 DEF VisitSpec
  <2> HIDE DEF got
  <2>4. /\ new \in SoundBlocks /\ new.ws = got.ws /\ new.pc = got.pc
        /\ new.deliv = got.deliv /\ new.cells = got.cells
    BY <2>1 DEF SoundBlocks, BlockType, BlockSound
  <2> HIDE DEF new
  <2>5. Backed(new, R)
    BY <2>2, <2>4, SameTasksBacked
  <2> QED
    BY <2>1, <2>2, <2>3, <2>4, <2>5, PushBatchBacked
<1> QED
  BY <1>1, <1>2

\* Resolving a handle with the cost of a Spec that the block may rely on.
LEMMA ResolveHandleBacked ==
    ASSUME NEW b \in SoundBlocks, NEW R, Backed(b, R), b.pc # "put",
           NEW h \in SoundHandles, h.spec \in RunningTasks(b),
           NEW cost, cost \in OptCosts(SubOf(h)), cost # None => <<SubOf(h), cost>> \in Answered(b, R)
    PROVE  LET new == ResolveHandle(b, h, cost)
           IN  /\ Backed(new, R) /\ new.pc = b.pc /\ new.deliv = b.deliv
               /\ Answered(b, R) \subseteq Answered(new, R)
<1> DEFINE s    == h.spec
           task == Resolve(s, b.ws[s], h.action, h.child, cost)
           ws   == [b.ws EXCEPT ![s] = task]
           run  == IF task.running THEN b.running ELSE b.running - 1
           new  == [b EXCEPT !.ws = ws, !.running = run]
<1>1. ResolveHandle(b, h, cost) = new
  BY DEF ResolveHandle
<1>2. s \in DOMAIN b.ws /\ b.ws[s].running /\ s \in Specs /\ TaskSound(s, b.ws[s])
  BY TaskFacts DEF RunningTasks
<1>3. TaskBacked(s, task, Answered(b, R)) /\ ~task.fromDb
  <2>1. h.action \in Acts(s) /\ h.child \in Slots(s, h.action)
    BY HandleFacts
  <2>2. cost \in OptCosts(Subs(s, h.action)[h.child])
    BY DEF SubOf
  <2>3. cost # None => <<Subs(s, h.action)[h.child], cost>> \in Answered(b, R)
    BY DEF SubOf
  <2>4. TaskBacked(s, b.ws[s], Answered(b, R))
    BY <1>2 DEF Backed
  <2> QED
    BY <1>2, <2>1, <2>2, <2>3, <2>4, ResolveBacked
<1>4. b.ws \in WorkingSets
  BY DEF SoundBlocks, BlockType
<1> HIDE DEF task
<1>5. /\ DOMAIN ws = DOMAIN b.ws
      /\ \A u \in DOMAIN b.ws : ws[u] = IF u = s THEN task ELSE b.ws[u]
  BY <1>4 DEF WorkingSets
<1> HIDE DEF ws, run
<1>6. new.ws = ws /\ new.pc = b.pc /\ new.deliv = b.deliv /\ new.cells = b.cells
  BY DEF SoundBlocks, BlockType
<1> HIDE DEF new
<1>7. Answered(b, R) \subseteq Answered(new, R)
  BY <1>2, <1>5, <1>6 DEF Answered, RunningTasks
<1>8. \A u \in DOMAIN new.ws :
         \/ u \in DOMAIN b.ws /\ new.ws[u] = b.ws[u]
         \/ /\ TaskBacked(u, new.ws[u], Answered(new, R))
            /\ new.ws[u].fromDb => Fill(u, new.ws[u].best.cost) \subseteq R
  <2>1. TaskBacked(s, task, Answered(new, R))
    BY <1>3, <1>7, TaskMonotone
  <2> QED
    BY <1>3, <1>5, <1>6, <2>1
<1>9. \A u \in DOMAIN b.ws :
         ~b.ws[u].running => ~new.ws[u].running /\ new.ws[u].best = b.ws[u].best
  BY <1>2, <1>5, <1>6
<1>10. Backed(new, R)
  BY <1>5, <1>6, <1>8, <1>9, NewTasksBacked
<1> HIDE DEF s
<1> QED
  BY <1>1, <1>6, <1>7, <1>10

\* inner_resolve_request: what a requester that completes hands on is its own cost.
LEMMA DeliverToBacked ==
    ASSUME NEW b \in SoundBlocks, NEW R, Backed(b, R), b.pc # "put",
           NEW h \in SoundHandles, NEW cost, cost \in OptCosts(SubOf(h)),
           cost # None => <<SubOf(h), cost>> \in Answered(b, R)
    PROVE  Backed(DeliverTo(b, h, cost), R) /\ DeliverTo(b, h, cost).pc = b.pc
<1> DEFINE after == ResolveHandle(b, h, cost)
           s     == h.spec
           more  == Deliveries(b.internal[s], after.ws[s].best.cost)
           new   == [after EXCEPT !.deliv = @ \cup more, !.internal[s] = {}]
<1>1. CASE s \notin RunningTasks(b)
  BY <1>1 DEF DeliverTo
<1>2. CASE s \in RunningTasks(b)
  <2>1. after \in SoundBlocks /\ after.internal = b.internal /\ s \in DOMAIN after.ws
    BY <1>2, ResolveHandleSound
  <2>2. Backed(after, R) /\ after.pc = b.pc
    BY <1>2, ResolveHandleBacked
  <2>3. CASE after.ws[s].running
    <3>1. DeliverTo(b, h, cost) = after
      BY <1>2, <2>3 DEF DeliverTo
    <3> QED
      BY <2>2, <3>1
  <2>4. CASE ~after.ws[s].running
    <3>1. DeliverTo(b, h, cost) = new
      BY <1>2, <2>4 DEF DeliverTo
    <3> HIDE DEF after
    <3>2. b.internal \in SoundRequests /\ s \in Specs
      BY HandleFacts DEF SoundBlocks, BlockType
    <3>3. \A d \in more : SubOf(d.h) = s /\ d.cost = after.ws[s].best.cost
      BY <3>2 DEF Deliveries, SoundRequests
    <3> HIDE DEF more
    <3>4. /\ new.ws = after.ws /\ new.pc = after.pc
          /\ new.deliv = after.deliv \cup more /\ new.cells = after.cells
      BY <2>1 DEF SoundBlocks, BlockType
    <3> HIDE DEF new
    <3>5. <<s, after.ws[s].best.cost>> \in Answered(after, R)
      BY <2>1, <2>4, AnsweredPair
    <3>6. Backed(new, R)
      BY <2>2, <3>3, <3>4, <3>5, SameTasksBacked
    <3> QED
      BY <2>2, <3>1, <3>4, <3>6
  <2> QED
    BY <2>3, <2>4
<1> QED
  BY <1>1, <1>2
-----------------------------------------------------------------------------
(* The cells recorded, and the steps of one thread.                        *)

LEMMA TopAfter ==
    ASSUME FInv, NEW t \in Threads, Busy(t), NEW b, SetTop(t, b)
    PROVE  /\ stack'[t] # <<>> /\ stack'[t][Len(stack'[t])] = b
           /\ Len(stack'[t]) = Len(stack[t])
           /\ \A i \in 1..Len(stack[t]) - 1 : stack'[t][i] = stack[t][i]
           /\ \A u \in Threads : u # t => stack'[u] = stack[u]
<1>1. /\ stack[t] \in Seq(SoundBlocks) /\ stack[t] # <<>> /\ Len(stack[t]) \in Nat
      /\ stack \in [Threads -> Seq(SoundBlocks)]
  BY TopFlow DEF FInv, IInv
<1>2. PICK front \in Seq(SoundBlocks) : front = Front(stack[t])
  BY <1>1, FrontProperties
<1>3. Len(front) = Len(stack[t]) - 1 /\ \A i \in 1..Len(front) : front[i] = stack[t][i]
  <2>1. PICK q \in Seq(SoundBlocks) : q = stack[t] /\ q # <<>> /\ front = Front(q)
    BY <1>1, <1>2
  <2>2. Len(front) = Len(q) - 1
    BY <2>1, FrontProperties
  <2>3. \A i \in 1..(Len(q) - 1) : front[i] = q[i]
    BY <2>1, FrontElement
  <2> QED
    BY <2>1, <2>2, <2>3
<1>4. stack' = [stack EXCEPT ![t] = Append(front, b)]
  BY <1>2 DEF SetTop
<1>5. /\ Len(Append(front, b)) = Len(front) + 1 /\ Append(front, b) # <<>>
      /\ \A i \in 1..Len(front) : Append(front, b)[i] = front[i]
      /\ Append(front, b)[Len(front) + 1] = b
  BY <1>2
<1>6. /\ stack'[t] = Append(front, b)
      /\ \A u \in Threads : u # t => stack'[u] = stack[u]
  BY <1>1, <1>4
<1>7. Len(stack'[t]) = Len(front) + 1 /\ Len(front) + 1 = Len(stack[t])
  BY <1>1, <1>3, <1>5, <1>6
<1>8. stack'[t][Len(stack'[t])] = b /\ stack'[t] # <<>>
  BY <1>5, <1>6, <1>7
<1>9. \A i \in 1..Len(stack[t]) - 1 : stack'[t][i] = stack[t][i]
  BY <1>3, <1>5, <1>6
<1> QED
  BY <1>6, <1>7, <1>8, <1>9

\* What a block is going to write.
ToWrite(b) == IF b.pc = "put" THEN Unwritten(b) ELSE {}

LEMMA WritingAfter ==
    ASSUME FInv, NEW t \in Threads, Busy(t), NEW b, SetTop(t, b)
    PROVE  /\ Writing(t) = ToWrite(Top(t)) /\ Writing(t)' = ToWrite(b)
           /\ \A u \in Threads : u # t => Writing(u)' = Writing(u)
<1>1. /\ stack'[t] # <<>> /\ stack'[t][Len(stack'[t])] = b
      /\ \A u \in Threads : u # t => stack'[u] = stack[u]
  BY TopAfter
<1>2. Writing(t) = ToWrite(Top(t))
  BY DEF Writing, ToWrite
<1>3. Writing(t)' = ToWrite(b)
  BY <1>1 DEF Writing, ToWrite, Busy, Top, Unwritten
<1>4. \A u \in Threads : u # t => Writing(u)' = Writing(u)
  BY <1>1 DEF Writing, Busy, Top, Unwritten
<1> QED
  BY <1>2, <1>3, <1>4

\* A step that does not touch what is to be written.
LEMMA RecordedSame ==
    ASSUME FInv, NEW t \in Threads, Busy(t), NEW b, SetTop(t, b),
           ToWrite(b) = ToWrite(Top(t)), UNCHANGED db
    PROVE  Recorded' = Recorded
<1>1. \A u \in Threads : Writing(u)' = Writing(u)
  BY WritingAfter
<1> QED
  BY <1>1 DEF Recorded

\* A thread that replaces its active block by one that may rely on its answers.
LEMMA StepBacked ==
    ASSUME DInv, NEW t \in Threads, Busy(t), NEW b, SetTop(t, b),
           Recorded \subseteq Recorded', Backed(b, Recorded')
    PROVE  AllBacked(Recorded)' /\ (group = {} => \A u \in Threads : ~Busy(u))'
<1>1. /\ stack'[t] # <<>> /\ stack'[t][Len(stack'[t])] = b
      /\ Len(stack'[t]) = Len(stack[t]) /\ Len(stack[t]) \in Nat
      /\ \A i \in 1..Len(stack[t]) - 1 : stack'[t][i] = stack[t][i]
      /\ \A u \in Threads : u # t => stack'[u] = stack[u]
  BY TopAfter, TopFlow DEF DInv
<1>2. \A u \in Threads : \A i \in 1..Len(stack[u]) : Backed(stack[u][i], Recorded')
  BY BlockMonotone DEF DInv, AllBacked
<1>3. ASSUME NEW u \in Threads, NEW i \in 1..Len(stack'[u])
      PROVE  Backed(stack'[u][i], Recorded')
  <2>1. CASE u # t
    BY <1>1, <1>2, <2>1
  <2>2. CASE u = t /\ i = Len(stack[t])
    BY <1>1, <2>2
  <2>3. CASE u = t /\ i # Len(stack[t])
    <3>1. i \in 1..Len(stack[t]) - 1 /\ i \in 1..Len(stack[t])
      BY <1>1, <2>3
    <3> QED
      BY <1>1, <1>2, <2>3, <3>1
  <2> QED
    BY <2>1, <2>2, <2>3
<1>4. group' = group /\ group # {}
  BY DEF SetTop, DInv
<1> QED
  BY <1>3, <1>4 DEF AllBacked

\* A step within a search, before its results are put.
LEMMA SearchStep ==
    ASSUME DInv, NEW t \in Threads, Busy(t), NEW b, SetTop(t, b), UNCHANGED db,
           Top(t).pc # "put", b.pc # "put", Backed(b, Recorded), FInv'
    PROVE  DepsKept
<1>1. Recorded' = Recorded
  BY RecordedSame DEF DInv, ToWrite
<1>2. AllBacked(Recorded)' /\ (group = {} => \A u \in Threads : ~Busy(u))'
  BY <1>1, StepBacked
<1>3. (Recorded \subseteq Specs)' /\ DbClosed(Recorded)'
  BY <1>1 DEF DInv, DbClosed
<1> QED
  BY <1>1, <1>2, <1>3 DEF DInv, DepsKept

\* The active block of a thread.
LEMMA TopBacked ==
    ASSUME DInv, NEW t \in Threads, Busy(t)
    PROVE  /\ Top(t) \in SoundBlocks /\ FlowOK(Top(t)) /\ Backed(Top(t), Recorded)
           /\ DOMAIN db \subseteq Recorded /\ DbSound /\ Recorded \subseteq Specs
           /\ DbClosed(Recorded) /\ FInv /\ IInv
<1>1. FInv /\ IInv
  BY DEF DInv, FInv
<1>2. Len(stack[t]) \in 1..Len(stack[t])
  BY <1>1, TopFlow
<1> QED
  BY <1>1, <1>2, TopFlow DEF DInv, AllBacked, Recorded, IInv, Top
\* A step that leaves the tasks alone and hands out nothing.
LEMMA QuietStep ==
    ASSUME DInv, NEW t \in Threads, Busy(t), NEW b, SetTop(t, b), UNCHANGED db,
           Top(t).pc # "put", b.pc # "put", b.ws = Top(t).ws, b.deliv = Top(t).deliv,
           b.cells = Top(t).cells, FInv'
    PROVE  DepsKept
<1>1. Backed(b, Recorded)
  BY TopBacked, SameTasksBacked
<1> QED
  BY <1>1, SearchStep

LEMMA BatchStepDeps ==
    ASSUME DInv, NEW t \in Threads, FInv',
           \/ RequestExternal(t) \/ VisitSubspec(t) \/ AwaitInternal(t)
           \/ AnswerInternal(t) \/ EndBatch(t)
    PROVE  DepsKept
<1>0. InBatch(t) /\ Busy(t) /\ IInv /\ UNCHANGED db
  <2>1. InBatch(t) /\ UNCHANGED db
    BY DEF RequestExternal, VisitSubspec, AwaitInternal, AnswerInternal, EndBatch
  <2> QED
    BY <2>1 DEF InBatch, DInv, FInv
<1>1. PICK b \in SoundBlocks : b = Top(t) /\ FlowOK(b) /\ b.frames # <<>> /\ Backed(b, Recorded)
  BY <1>0, TopBacked DEF InBatch
<1>2. b.pc # "put" /\ Top(t).pc # "put"
  BY <1>1 DEF FlowOK, PhaseOK
<1>3. ASSUME NEW a \in Frame(t).left
      PROVE  /\ HandleAt(t, a) \in SoundHandles /\ SubOf(HandleAt(t, a)) \in Specs
             /\ Handled(t, a) \in SoundBlocks /\ Handled(t, a).ws = b.ws
             /\ Handled(t, a).pc = b.pc /\ Handled(t, a).deliv = b.deliv
             /\ Handled(t, a).cells = b.cells
  <2>1. b \in BlockType
    BY DEF SoundBlocks
  <2>2. /\ Handled(t, a).pc = b.pc /\ Handled(t, a).deliv = b.deliv
        /\ Handled(t, a).cells = b.cells
    BY <1>1, <2>1 DEF Handled, BlockType
  <2> QED
    BY <1>0, <1>1, <2>2, FrameSound
<1>4. CASE RequestExternal(t)
  <2>1. PICK a \in Frame(t).left : SetTop(t, [Handled(t, a) EXCEPT
             !.external[SubOf(HandleAt(t, a))] = @ \cup {HandleAt(t, a)}])
    BY <1>4 DEF RequestExternal
  <2>2. PICK c \in SoundBlocks, h \in SoundHandles : c = Handled(t, a) /\ h = HandleAt(t, a)
    BY <1>3
  <2> DEFINE new == [c EXCEPT !.external[SubOf(h)] = @ \cup {h}]
  <2>3. new.pc = c.pc /\ new.ws = c.ws /\ new.deliv = c.deliv /\ new.cells = c.cells
    BY DEF SoundBlocks, BlockType
  <2>4. SetTop(t, new)
    BY <2>1, <2>2
  <2> HIDE DEF new
  <2>5. /\ new.pc # "put" /\ new.ws = Top(t).ws /\ new.deliv = Top(t).deliv
        /\ new.cells = Top(t).cells
    BY <1>1, <1>2, <1>3, <2>2, <2>3
  <2> QED
    BY <1>0, <1>2, <2>4, <2>5, QuietStep
<1>5. CASE VisitSubspec(t)
  <2>1. PICK a \in Frame(t).left : SetTop(t, VisitSpec(b, SubOf(HandleAt(t, a))))
    BY <1>1, <1>5 DEF VisitSubspec
  <2>2. PICK s \in Specs : s = SubOf(HandleAt(t, a))
    BY <1>3
  <2>3. DbClosed(Recorded) /\ DbSound
    BY <1>0 DEF IInv, DInv
  <2>4. Backed(VisitSpec(b, s), Recorded) /\ VisitSpec(b, s).pc = b.pc
    BY <1>1, <1>2, <2>3, VisitSpecBacked
  <2>5. SetTop(t, VisitSpec(b, s)) /\ VisitSpec(b, s).pc # "put"
    BY <1>2, <2>1, <2>2, <2>4
  <2> QED
    BY <1>0, <1>2, <2>4, <2>5, SearchStep
<1>6. CASE AwaitInternal(t)
  <2>1. PICK a \in Frame(t).left : SetTop(t, [Handled(t, a) EXCEPT
             !.internal[SubOf(HandleAt(t, a))] = @ \cup {HandleAt(t, a)}])
    BY <1>6 DEF AwaitInternal
  <2>2. PICK c \in SoundBlocks, h \in SoundHandles : c = Handled(t, a) /\ h = HandleAt(t, a)
    BY <1>3
  <2> DEFINE new == [c EXCEPT !.internal[SubOf(h)] = @ \cup {h}]
  <2>3. new.pc = c.pc /\ new.ws = c.ws /\ new.deliv = c.deliv /\ new.cells = c.cells
    BY DEF SoundBlocks, BlockType
  <2>4. SetTop(t, new)
    BY <2>1, <2>2
  <2> HIDE DEF new
  <2>5. /\ new.pc # "put" /\ new.ws = Top(t).ws /\ new.deliv = Top(t).deliv
        /\ new.cells = Top(t).cells
    BY <1>1, <1>2, <1>3, <2>2, <2>3
  <2> QED
    BY <1>0, <1>2, <2>4, <2>5, QuietStep
<1>7. CASE AnswerInternal(t)
  <2>1. PICK a \in Frame(t).left :
           LET h == HandleAt(t, a)
               r == ResolveHandle(Handled(t, a), h, b.ws[SubOf(h)].best.cost)
           IN  /\ SubOf(h) \in DOMAIN b.ws \ RunningTasks(b) /\ h.spec \in RunningTasks(b)
               /\ SetTop(t, [r EXCEPT !.outbox = IF r.ws[h.spec].running THEN @
                                                 ELSE @ \cup {h.spec}])
    BY <1>1, <1>7 DEF AnswerInternal
  <2>2. PICK c \in SoundBlocks, h \in SoundHandles : c = Handled(t, a) /\ h = HandleAt(t, a)
    BY <1>3
  <2>3. PICK cost : cost = b.ws[SubOf(h)].best.cost
    OBVIOUS
  <2>4. PICK r : r = ResolveHandle(c, h, cost)
    OBVIOUS
  <2> DEFINE new == [r EXCEPT !.outbox = IF r.ws[h.spec].running THEN @ ELSE @ \cup {h.spec}]
  <2>5. SetTop(t, new)
    BY <2>1, <2>2, <2>3, <2>4
  <2>6. c.ws = b.ws /\ c.pc = b.pc /\ c.deliv = b.deliv /\ c.cells = b.cells
    BY <1>3, <2>2
  <2>7. /\ SubOf(h) \in DOMAIN c.ws /\ ~c.ws[SubOf(h)].running
        /\ h.spec \in RunningTasks(c) /\ cost \in OptCosts(SubOf(h))
    BY <2>1, <2>2, <2>3, <2>6, TaskFacts DEF RunningTasks
  <2>8. Backed(c, Recorded) /\ c.pc # "put"
    BY <1>1, <1>2, <2>6, SameTasksBacked
  <2>9. <<SubOf(h), cost>> \in Answered(c, Recorded)
    BY <2>3, <2>6, <2>7, AnsweredPair
  <2>10. Backed(r, Recorded) /\ r.pc = c.pc /\ r \in SoundBlocks
    BY <2>4, <2>7, <2>8, <2>9, ResolveHandleBacked, ResolveHandleSound
  <2>11. new.ws = r.ws /\ new.pc = r.pc /\ new.deliv = r.deliv /\ new.cells = r.cells
    BY <2>10 DEF SoundBlocks, BlockType
  <2> HIDE DEF new
  <2>12. Backed(new, Recorded) /\ new.pc # "put"
    BY <2>8, <2>10, <2>11, SameTasksBacked
  <2> QED
    BY <1>0, <1>2, <2>5, <2>12, SearchStep
<1>8. CASE EndBatch(t)
  <2> DEFINE new == [b EXCEPT !.frames = Front(@)]
  <2>1. SetTop(t, new)
    BY <1>1, <1>8 DEF EndBatch
  <2>2. new.pc = b.pc /\ new.ws = b.ws /\ new.deliv = b.deliv /\ new.cells = b.cells
    BY DEF SoundBlocks, BlockType
  <2> HIDE DEF new
  <2> QED
    BY <1>0, <1>1, <1>2, <2>1, <2>2, QuietStep
<1> QED
  BY <1>4, <1>5, <1>6, <1>7, <1>8

\* The main loop of synthesize up to its puts.
LEMMA LoopStepDeps ==
    ASSUME DInv, NEW t \in Threads, Busy(t), FInv',
           \/ VisitGoal(t) \/ GoalsVisited(t) \/ DrainOutbox(t) \/ ResolveRequest(t)
           \/ OutboxDrained(t) \/ BeginStage(t) \/ StageVisit(t) \/ EndStage(t)
    PROVE  DepsKept
<1>0. /\ UNCHANGED db /\ DbClosed(Recorded) /\ DbSound /\ IInv
  BY TopBacked DEF VisitGoal, GoalsVisited, DrainOutbox, ResolveRequest, OutboxDrained,
     BeginStage, StageVisit, EndStage
<1>1. PICK b \in SoundBlocks : b = Top(t) /\ FlowOK(b) /\ Backed(b, Recorded)
  BY TopBacked
<1>2. b \in BlockType /\ BlockSound(b)
  BY DEF SoundBlocks
\* Blocks that differ from b in pc, todo, visited, outbox, internal and deliv only.
<1>3. CASE VisitGoal(t)
  <2>1. PICK g \in b.todo : SetTop(t, VisitSpec([b EXCEPT !.todo = @ \ {g}], g))
    BY <1>1, <1>3 DEF VisitGoal
  <2>2. PICK c : c = [b EXCEPT !.todo = @ \ {g}]
    OBVIOUS
  <2>3. b.pc = "goals" /\ g \in Specs
    BY <1>1, <1>2, <1>3 DEF VisitGoal, At, BlockType
  <2>4. /\ c \in SoundBlocks /\ c.ws = b.ws /\ c.pc = b.pc /\ c.deliv = b.deliv /\ c.cells = b.cells
    BY <1>2, <2>2, <2>3 DEF SoundBlocks, BlockType, BlockSound
  <2>5. Backed(c, Recorded) /\ c.pc # "put"
    BY <1>1, <2>3, <2>4, SameTasksBacked
  <2>6. Backed(VisitSpec(c, g), Recorded) /\ VisitSpec(c, g).pc = c.pc
    BY <1>0, <2>3, <2>4, <2>5, VisitSpecBacked
  <2>7. SetTop(t, VisitSpec(c, g))
    BY <2>1, <2>2
  <2> QED
    BY <1>0, <1>1, <2>3, <2>5, <2>6, <2>7, SearchStep
<1>4. CASE GoalsVisited(t) \/ OutboxDrained(t) \/ EndStage(t)
  <2>1. PICK pc \in {"drain", "sub"} : SetTop(t, [b EXCEPT !.pc = pc]) /\ b.pc # "put"
    BY <1>1, <1>4 DEF GoalsVisited, OutboxDrained, EndStage, At
  <2> DEFINE new == [b EXCEPT !.pc = pc]
  <2>2. new.pc # "put" /\ new.ws = b.ws /\ new.deliv = b.deliv /\ new.cells = b.cells
    BY <1>2 DEF BlockType
  <2> HIDE DEF new
  <2>3. SetTop(t, new)
    BY <2>1 DEF new
  <2> QED
    BY <1>0, <1>1, <2>1, <2>2, <2>3, QuietStep
<1>5. CASE BeginStage(t)
  <2> DEFINE new == [b EXCEPT !.pc = "stage", !.visited = {}, !.todo = RunningTasks(b)]
  <2>1. SetTop(t, new) /\ b.pc # "put"
    BY <1>1, <1>5 DEF BeginStage, SubblocksDone, At
  <2>2. new.pc # "put" /\ new.ws = b.ws /\ new.deliv = b.deliv /\ new.cells = b.cells
    BY <1>2 DEF BlockType
  <2> HIDE DEF new
  <2> QED
    BY <1>0, <1>1, <2>1, <2>2, QuietStep
<1>6. CASE StageVisit(t)
  <2>1. PICK s \in b.todo : SetTop(t, PushBatch([b EXCEPT !.todo = @ \ {s}], s))
    BY <1>1, <1>6 DEF StageVisit
  <2>2. PICK c : c = [b EXCEPT !.todo = @ \ {s}]
    OBVIOUS
  <2>3. b.pc = "stage"
    BY <1>1, <1>6 DEF StageVisit, At
  <2>4. s \in DOMAIN b.ws
    BY <1>2, <2>3 DEF BlockSound
  <2>5. /\ c \in SoundBlocks /\ c.ws = b.ws /\ c.pc = b.pc /\ c.deliv = b.deliv /\ c.cells = b.cells
    BY <1>2, <2>2, <2>3 DEF SoundBlocks, BlockType, BlockSound
  <2>6. Backed(c, Recorded) /\ c.pc # "put"
    BY <1>1, <2>3, <2>5, SameTasksBacked
  <2>7. Backed(PushBatch(c, s), Recorded) /\ PushBatch(c, s).pc = c.pc
    BY <2>4, <2>5, <2>6, PushBatchBacked
  <2>8. SetTop(t, PushBatch(c, s))
    BY <2>1, <2>2
  <2> QED
    BY <1>0, <1>1, <2>3, <2>6, <2>7, <2>8, SearchStep
<1>7. CASE DrainOutbox(t)
  <2>1. PICK s \in b.outbox :
           SetTop(t, [b EXCEPT !.outbox = @ \ {s}, !.internal[s] = {},
                               !.deliv = Deliveries(b.internal[s], b.ws[s].best.cost)])
    BY <1>1, <1>7 DEF DrainOutbox
  <2>2. PICK hs : hs = Deliveries(b.internal[s], b.ws[s].best.cost)
    OBVIOUS
  <2> DEFINE new == [b EXCEPT !.outbox = @ \ {s}, !.internal[s] = {}, !.deliv = hs]
  <2>3. SetTop(t, new)
    BY <2>1, <2>2
  <2>4. new.pc = b.pc /\ new.ws = b.ws /\ new.deliv = hs /\ new.cells = b.cells
    BY <1>2 DEF BlockType
  <2> HIDE DEF new
  <2>5. b.pc = "drain" /\ s \in DOMAIN b.ws /\ ~b.ws[s].running /\ s \in Specs
    BY <1>1, <1>2, <1>7, TaskFacts DEF DrainOutbox, At, BlockSound
  <2>6. <<s, b.ws[s].best.cost>> \in Answered(b, Recorded)
    BY <2>5, AnsweredPair
  <2>7. \A d \in hs : SubOf(d.h) = s /\ d.cost = b.ws[s].best.cost
    BY <1>2, <2>2, <2>5 DEF Deliveries, BlockType, SoundRequests
  <2>8. Backed(new, Recorded) /\ new.pc # "put"
    BY <1>1, <2>4, <2>5, <2>6, <2>7, SameTasksBacked
  <2> QED
    BY <1>0, <1>1, <2>3, <2>5, <2>8, SearchStep
<1>8. CASE ResolveRequest(t)
  <2>1. PICK d \in b.deliv : SetTop(t, DeliverTo([b EXCEPT !.deliv = @ \ {d}], d.h, d.cost))
    BY <1>1, <1>8 DEF ResolveRequest
  <2>2. PICK c : c = [b EXCEPT !.deliv = @ \ {d}]
    OBVIOUS
  <2>3. d.h \in SoundHandles /\ d.cost \in OptCosts(SubOf(d.h)) /\ b.pc # "put"
    BY <1>1, <2>1, <2>2, TakeFlow DEF FlowOK, PhaseOK
  <2>4. /\ c \in SoundBlocks /\ c.ws = b.ws /\ c.pc = b.pc /\ c.deliv = b.deliv \ {d} /\ c.cells = b.cells
    BY <1>2, <2>2 DEF SoundBlocks, BlockType, BlockSound
  <2>5. Backed(c, Recorded) /\ c.pc # "put"
    BY <1>1, <2>3, <2>4, SameTasksBacked
  <2>6. d.cost # None => <<SubOf(d.h), d.cost>> \in Answered(c, Recorded)
    BY <1>1, <2>1, <2>4 DEF Backed, Answered, RunningTasks
  <2>7. Backed(DeliverTo(c, d.h, d.cost), Recorded) /\ DeliverTo(c, d.h, d.cost).pc = c.pc
    BY <2>3, <2>4, <2>5, <2>6, DeliverToBacked
  <2>8. SetTop(t, DeliverTo(c, d.h, d.cost))
    BY <2>1, <2>2
  <2> QED
    BY <1>0, <1>1, <2>3, <2>5, <2>7, <2>8, SearchStep
<1> QED
  BY <1>3, <1>4, <1>5, <1>6, <1>7, <1>8
-----------------------------------------------------------------------------
(* The puts.                                                               *)

\* What the put of block b is going to fill.
OwnFills(b) == UNION {Fill(s, b.ws[s].best.cost) : s \in {u \in DOMAIN b.ws : ~b.ws[u].fromDb}}

\* The put of a finished block fills a closed set: what its tasks rely on was
\* recorded, or is the result of another of its tasks.
LEMMA PutClosed ==
    ASSUME NEW b \in SoundBlocks, RunningTasks(b) = {}, NEW R, Backed(b, R),
           R \subseteq Specs, NEW U, U = OwnFills(b)
    PROVE  /\ R \cup U \subseteq Specs /\ DOMAIN b.ws \subseteq R \cup U
           /\ \A s \in DOMAIN b.ws : ~b.ws[s].fromDb => Covers(s, b.ws[s].best, R \cup U)
<1> DEFINE own == {u \in DOMAIN b.ws : ~b.ws[u].fromDb}
<1>1. \A s \in DOMAIN b.ws : s \in Specs /\ b.ws[s].best \in Opt[s]
  BY TaskFacts DEF RunningTasks
<1>2. \A c : c \in U <=> \E s \in own : c \in Fill(s, b.ws[s].best.cost)
  BY DEF OwnFills
<1>3. \A s \in DOMAIN b.ws : /\ s \in Fill(s, b.ws[s].best.cost)
                             /\ Fill(s, b.ws[s].best.cost) \subseteq Specs
  BY <1>1, FillAssumption
<1>4. \A s \in DOMAIN b.ws : Fill(s, b.ws[s].best.cost) \subseteq R \cup U
  BY <1>2 DEF Backed
<1>5. R \cup U \subseteq Specs /\ DOMAIN b.ws \subseteq R \cup U
  BY <1>2, <1>3, <1>4
\* A result the block may rely on is recorded with all that its put fills.
<1>6. ASSUME NEW u, NEW x, <<u, x>> \in Answered(b, R)
      PROVE  Fill(u, x) \subseteq R \cup U
  <2>1. CASE u \in Specs /\ x \in Nat /\ Fill(u, x) \subseteq R
    BY <2>1
  <2>2. CASE u \in DOMAIN b.ws /\ x = b.ws[u].best.cost
    BY <1>4, <2>2
  <2> QED
    BY <1>6, <2>1, <2>2, AnsweredPair
<1>7. ASSUME NEW s \in own, NEW c \in Fill(s, b.ws[s].best.cost)
      PROVE  Fits(c, b.ws[s].best, R \cup U)
  <2>1. PICK best : best = b.ws[s].best
    OBVIOUS
  <2>2. s \in Specs /\ s \in DOMAIN b.ws /\ best \in Opt[s] /\ c \in Fill(s, best.cost)
    BY <1>1, <1>7, <2>1
  <2>3. Fill(c, best.cost) \subseteq Fill(s, best.cost)
    BY <2>2, FillClosedAssumption
  <2>4. Fill(s, best.cost) \subseteq R \cup U
    BY <1>4, <2>1, <2>2
  <2>5. ASSUME best # NoImpl PROVE Needs(c, best.action) \subseteq R \cup U
    <3>1. Founded(s, best, Answered(b, R))
      BY <2>1, <2>2, <2>5 DEF Backed, TaskBacked
    <3>0. PICK a \in Acts(s) : \E g \in Choices(s, a) :
             best = Impl(s, a, g) /\ \A j \in Slots(s, a) : <<Subs(s, a)[j], g[j]>> \in Answered(b, R)
      BY <3>1 DEF Founded
    <3>2. PICK f \in Choices(s, a) :
             best = Impl(s, a, f) /\ \A j \in Slots(s, a) : <<Subs(s, a)[j], f[j]>> \in Answered(b, R)
      BY <3>0
    <3>3. best.action = a /\ best.cost = ImplCost(s, a, f) /\ Impl(s, a, f) \in Opt[s]
      BY <2>2, <3>2, ImplType
    <3>4. /\ Slots(c, a) = Slots(s, a)
          /\ \A j \in Slots(s, a) : Subs(c, a)[j] \in Fill(Subs(s, a)[j], f[j])
      BY <2>2, <3>3, FillClosedAssumption
    <3>5. \A j \in Slots(c, a) : Subs(c, a)[j] \in R \cup U
      BY <1>6, <3>2, <3>4
    <3> QED
      BY <3>3, <3>5 DEF Needs
  <2> QED
    BY <2>1, <2>3, <2>4, <2>5 DEF Fits
<1>8. \A s \in DOMAIN b.ws : ~b.ws[s].fromDb => Covers(s, b.ws[s].best, R \cup U)
  BY <1>7 DEF Covers
<1> QED
  BY <1>5, <1>8

LEMMA BeginPutDeps ==
    ASSUME DInv, NEW t \in Threads, BeginPut(t), FInv'
    PROVE  DepsKept
<1>0. Busy(t) /\ UNCHANGED db
  BY DEF BeginPut, SubblocksDone, At
<1>1. PICK b \in SoundBlocks : b = Top(t) /\ FlowOK(b) /\ Backed(b, Recorded)
  BY <1>0, TopBacked
<1> DEFINE new == [b EXCEPT !.pc = "put", !.todo = DOMAIN b.ws]
<1>2. SetTop(t, new) /\ b.pc = "sub" /\ b.running = 0
  BY <1>1 DEF BeginPut, SubblocksDone, At
<1>3. RunningTasks(b) = {}
  <2>1. IsFiniteSet(RunningTasks(b)) /\ Cardinality(RunningTasks(b)) = 0
    BY <1>1, <1>2 DEF FlowOK, CountOK
  <2> QED
    BY <2>1, FS_EmptySet
<1>4. /\ new.pc = "put" /\ new.todo = DOMAIN b.ws /\ new.ws = b.ws
      /\ new.deliv = b.deliv /\ new.cells = b.cells
  BY DEF SoundBlocks, BlockType
<1> HIDE DEF new
<1>5. b.cells = {}
  BY <1>1, <1>2 DEF Backed
<1>6. ToWrite(new) = OwnFills(b) /\ ToWrite(b) = {}
  BY <1>2, <1>4, <1>5 DEF ToWrite, Unwritten, OwnFills
<1>7. PICK V : V = OwnFills(b)
  OBVIOUS
<1>8. /\ Recorded \cup V \subseteq Specs /\ DOMAIN b.ws \subseteq Recorded \cup V
      /\ \A s \in DOMAIN b.ws : ~b.ws[s].fromDb => Covers(s, b.ws[s].best, Recorded \cup V)
  <2>1. PICK R : R = Recorded
    OBVIOUS
  <2>2. Backed(b, R) /\ R \subseteq Specs
    BY <1>0, <1>1, <2>1, TopBacked
  <2>3. /\ R \cup V \subseteq Specs /\ DOMAIN b.ws \subseteq R \cup V
        /\ \A s \in DOMAIN b.ws : ~b.ws[s].fromDb => Covers(s, b.ws[s].best, R \cup V)
    BY <1>3, <1>7, <2>2, PutClosed
  <2> QED
    BY <2>1, <2>3
<1>9. Recorded' = Recorded \cup V
  <2>1. /\ Writing(t) = {} /\ Writing(t)' = V
        /\ \A u \in Threads : u # t => Writing(u)' = Writing(u)
    BY <1>0, <1>1, <1>2, <1>6, <1>7, WritingAfter DEF DInv
  <2> QED
    BY <1>0, <2>1 DEF Recorded
<1>10. Backed(new, Recorded')
  <2>1. Backed(b, Recorded')
    BY <1>1, <1>9, BlockMonotone
  <2>2. Answered(new, Recorded') = Answered(b, Recorded')
    BY <1>4 DEF Answered, RunningTasks
  <2>3. PutBacked(new, Recorded')
    BY <1>4, <1>5, <1>8, <1>9 DEF PutBacked
  <2> QED
    BY <1>4, <2>1, <2>2, <2>3 DEF Backed
<1>11. AllBacked(Recorded)' /\ (group = {} => \A u \in Threads : ~Busy(u))'
  BY <1>0, <1>2, <1>9, <1>10, StepBacked
<1>12. (Recorded \subseteq Specs)' /\ DbClosed(Recorded)'
  <2>1. DbClosed(Recorded) /\ Recorded \subseteq Recorded'
    BY <1>9 DEF DInv
  <2> QED
    BY <1>0, <1>8, <1>9, <2>1 DEF DbClosed, Fits
<1> QED
  BY <1>9, <1>11, <1>12 DEF DInv, DepsKept

\* A step of a put under way: what it takes up it writes, or is still to write.
LEMMA PutStep ==
    ASSUME DInv, NEW t \in Threads, Busy(t), NEW b, SetTop(t, b), Top(t).pc = "put",
           b.pc = "put", b.ws = Top(t).ws, b.deliv = Top(t).deliv,
           DOMAIN db' \cup ToWrite(b) = DOMAIN db \cup ToWrite(Top(t)),
           \A c \in b.cells : Fits(c, b.res, Recorded),
           \A s \in DOMAIN db' : Fits(s, db'[s], Recorded), FInv'
    PROVE  DepsKept
<1>1. Recorded' = Recorded
  <2>1. /\ Writing(t) = ToWrite(Top(t)) /\ Writing(t)' = ToWrite(b)
        /\ \A u \in Threads : u # t => Writing(u)' = Writing(u)
    BY WritingAfter DEF DInv
  <2> QED
    BY <2>1 DEF Recorded
<1>2. Backed(b, Recorded)
  <2>1. Backed(Top(t), Recorded)
    BY TopBacked
  <2>2. Answered(b, Recorded) = Answered(Top(t), Recorded)
    BY DEF Answered, RunningTasks
  <2>3. PutBacked(b, Recorded)
    BY <2>1 DEF Backed, PutBacked
  <2> QED
    BY <2>1, <2>2, <2>3 DEF Backed
<1>3. AllBacked(Recorded)' /\ (group = {} => \A u \in Threads : ~Busy(u))'
  BY <1>1, <1>2, StepBacked
<1>4. (Recorded \subseteq Specs)' /\ DbClosed(Recorded)'
  BY <1>1 DEF DInv, DbClosed
<1> QED
  BY <1>1, <1>3, <1>4 DEF DInv, DepsKept

LEMMA PutStepDeps ==
    ASSUME DInv, NEW t \in Threads, PutTask(t) \/ WriteBlock(t), FInv'
    PROVE  DepsKept
<1>0. Busy(t) /\ Top(t).pc = "put"
  BY DEF PutTask, WriteBlock, At
<1>1. PICK b \in SoundBlocks : /\ b = Top(t) /\ FlowOK(b) /\ b.pc = "put"
                               /\ PutBacked(b, Recorded) /\ BlockSound(b)
  BY <1>0, TopBacked DEF Backed, SoundBlocks
<1>a. \A s \in DOMAIN db : Fits(s, db[s], Recorded)
  BY DEF DInv, DbClosed
<1>2. CASE PutTask(t)
  <2>1. PICK s \in b.todo :
           /\ b.cells = {} /\ UNCHANGED db
           /\ SetTop(t, [b EXCEPT !.todo = @ \ {s}, !.res = b.ws[s].best,
                           !.cells = IF b.ws[s].fromDb THEN {} ELSE Fill(s, b.ws[s].best.cost)])
    BY <1>1, <1>2 DEF PutTask
  <2>2. PICK cells : cells = IF b.ws[s].fromDb THEN {} ELSE Fill(s, b.ws[s].best.cost)
    OBVIOUS
  <2> DEFINE new == [b EXCEPT !.todo = @ \ {s}, !.res = b.ws[s].best, !.cells = cells]
  <2>3. SetTop(t, new)
    BY <2>1, <2>2
  <2>4. /\ new.pc = "put" /\ new.ws = b.ws /\ new.deliv = b.deliv /\ new.cells = cells
        /\ new.todo = b.todo \ {s} /\ new.res = b.ws[s].best
    BY <1>1 DEF SoundBlocks, BlockType
  <2> HIDE DEF new
  <2>5. ToWrite(new) = ToWrite(b)
    BY <1>1, <2>1, <2>2, <2>4 DEF ToWrite, Unwritten
  <2>6. \A c \in new.cells : Fits(c, new.res, Recorded)
    BY <1>1, <2>1, <2>2, <2>4 DEF PutBacked, Covers, BlockSound
  <2>7. \A u \in DOMAIN db' : Fits(u, db'[u], Recorded)
    BY <1>a, <2>1
  <2> QED
    BY <1>0, <1>1, <2>1, <2>3, <2>4, <2>5, <2>6, <2>7, PutStep
<1>3. CASE WriteBlock(t)
  <2>1. PICK now \in SUBSET b.cells :
           /\ db' = [s \in DOMAIN db \cup now |-> IF s \in now THEN b.res ELSE db[s]]
           /\ SetTop(t, [b EXCEPT !.cells = @ \ now])
    BY <1>1, <1>3 DEF WriteBlock
  <2> DEFINE new == [b EXCEPT !.cells = @ \ now]
  <2>2. /\ new.pc = "put" /\ new.ws = b.ws /\ new.deliv = b.deliv
        /\ new.cells = b.cells \ now /\ new.todo = b.todo /\ new.res = b.res
    BY <1>1 DEF SoundBlocks, BlockType
  <2>3. SetTop(t, new)
    BY <2>1
  <2> HIDE DEF new
  <2>4. DOMAIN db' = DOMAIN db \cup now
    BY <2>1
  <2>5. ToWrite(new) \cup now = ToWrite(b)
    BY <1>1, <2>1, <2>2 DEF ToWrite, Unwritten
  <2>6. DOMAIN db' \cup ToWrite(new) = DOMAIN db \cup ToWrite(b)
    BY <2>4, <2>5
  <2>7. \A c \in new.cells : Fits(c, new.res, Recorded)
    BY <1>1, <2>2 DEF PutBacked
  <2>8. \A u \in DOMAIN db' : Fits(u, db'[u], Recorded)
    <3>1. \A u \in DOMAIN db' : db'[u] = IF u \in now THEN b.res ELSE db[u]
      BY <2>1
    <3> QED
      BY <1>1, <1>a, <2>1, <2>4, <3>1 DEF PutBacked
  <2> QED
    BY <1>0, <1>1, <2>2, <2>3, <2>6, <2>7, <2>8, PutStep
<1> QED
  BY <1>2, <1>3
-----------------------------------------------------------------------------
(* Calls, returns and the driver.                                          *)

\* A call or a return, at which nothing is to be written.
LEMMA StackStep ==
    ASSUME DInv, NEW t \in Threads, Busy(t), UNCHANGED <<db, group>>, FInv',
           NEW q, stack' = [stack EXCEPT ![t] = q],
           ToWrite(Top(t)) = {}, q # <<>> => q[Len(q)].pc # "put",
           \A i \in 1..Len(q) : Backed(q[i], Recorded)
    PROVE  DepsKept
<1>1. stack \in [Threads -> Seq(SoundBlocks)]
  BY DEF DInv, FInv, IInv
<1>2. stack'[t] = q /\ \A u \in Threads : u # t => stack'[u] = stack[u]
  BY <1>1
<1>3. Recorded' = Recorded
  <2>1. Writing(t) = {}
    BY DEF Writing, ToWrite
  <2>2. Writing(t)' = {}
    BY <1>2 DEF Writing, Busy, Top
  <2>3. \A u \in Threads : u # t => Writing(u)' = Writing(u)
    BY <1>2 DEF Writing, Busy, Top, Unwritten
  <2> QED
    BY <2>1, <2>2, <2>3 DEF Recorded
<1>4. ASSUME NEW u \in Threads, NEW i \in 1..Len(stack'[u])
      PROVE  Backed(stack'[u][i], Recorded)
  <2>1. CASE u = t
    BY <1>2, <2>1
  <2>2. CASE u # t
    BY <1>2, <2>2 DEF DInv, AllBacked
  <2> QED
    BY <2>1, <2>2
<1>5. AllBacked(Recorded)'
  BY <1>3, <1>4 DEF AllBacked
<1>6. (Recorded \subseteq Specs)' /\ DbClosed(Recorded)'
  BY <1>3 DEF DInv, DbClosed
<1>7. (group = {} => \A u \in Threads : ~Busy(u))'
  BY DEF DInv
<1> QED
  BY <1>3, <1>5, <1>6, <1>7 DEF DInv, DepsKept

LEMMA NewBlockBacked ==
    ASSUME NEW goals, NEW R
    PROVE  Backed(NewBlock(goals), R) /\ NewBlock(goals).pc # "put"
BY DEF NewBlock, Backed, EmptyFunction

LEMMA CallStepDeps ==
    ASSUME DInv, NEW t \in Threads, FInv',
           SynthesizeSubblock(t) \/ ReturnSubblock(t) \/ ReturnThread(t)
    PROVE  DepsKept
<1> DEFINE n == Len(stack[t])
<1>0. /\ Busy(t) /\ UNCHANGED <<db, group>> /\ FInv
      /\ stack \in [Threads -> Seq(SoundBlocks)]
  BY DEF SynthesizeSubblock, ReturnSubblock, ReturnThread, At, DInv, FInv, IInv
<1>1. /\ stack[t] \in Seq(SoundBlocks) /\ stack[t] # <<>> /\ n \in 1..n /\ n \in Nat
      /\ Top(t) = stack[t][n]
      /\ \A i \in 1..n : stack[t][i] \in SoundBlocks /\ Backed(stack[t][i], Recorded)
      /\ \A i \in 1..n - 1 : Suspended(stack[t][i])
  BY <1>0, TopFlow DEF Top, DInv, AllBacked
<1>2. ASSUME Finished(t) PROVE ToWrite(Top(t)) = {}
  BY <1>2 DEF Finished, At, ToWrite, Unwritten
<1>3. CASE SynthesizeSubblock(t)
  <2>1. PICK keys \in SUBSET Specs : stack' = [stack EXCEPT ![t] = Append(@, NewBlock(keys))]
    BY <1>3 DEF SynthesizeSubblock, Requested
  <2>2. PICK new \in SoundBlocks : new = NewBlock(keys)
    BY NewBlockSound
  <2>3. Backed(new, Recorded) /\ new.pc # "put"
    BY <2>2, NewBlockBacked
  <2>4. ToWrite(Top(t)) = {}
    BY <1>3 DEF SynthesizeSubblock, At, ToWrite
  <2> DEFINE q == Append(stack[t], new)
  <2>5. Len(q) = n + 1 /\ q[n + 1] = new /\ \A i \in 1..n : q[i] = stack[t][i]
    BY <1>1
  <2>6. stack' = [stack EXCEPT ![t] = q]
    BY <2>1, <2>2
  <2> HIDE DEF q, n
  <2>7. \A i \in 1..Len(q) : Backed(q[i], Recorded)
    BY <1>1, <2>3, <2>5
  <2>8. q[Len(q)].pc # "put"
    BY <2>3, <2>5
  <2> QED
    BY <1>0, <2>4, <2>6, <2>7, <2>8, StackStep
<1>4. CASE ReturnThread(t)
  <2>1. PICK q : q = <<>>
    OBVIOUS
  <2>2. stack' = [stack EXCEPT ![t] = q] /\ Finished(t)
    BY <1>4, <2>1 DEF ReturnThread
  <2>3. \A i \in 1..Len(q) : Backed(q[i], Recorded)
    BY <2>1
  <2> QED
    BY <1>0, <1>2, <2>1, <2>2, <2>3, StackStep
<1>5. CASE ReturnSubblock(t)
  <2>1. n > 1 /\ n - 1 \in 1..n - 1 /\ n - 1 \in 1..n /\ Finished(t)
    BY <1>1, <1>5 DEF ReturnSubblock
  <2>2. PICK child \in SoundBlocks, parent \in SoundBlocks :
           /\ child = Top(t) /\ parent = stack[t][n - 1] /\ Suspended(parent)
           /\ Backed(child, Recorded) /\ Backed(parent, Recorded)
    BY <1>1, <2>1
  <2> DEFINE ext   == [s \in Specs |-> IF s \in child.goals THEN {} ELSE parent.external[s]]
             now   == UNION {Deliveries(parent.external[g], child.ws[g].best.cost) :
                             g \in child.goals}
             after == [parent EXCEPT !.external = ext, !.deliv = now]
  <2>3. stack' = [stack EXCEPT ![t] = Append(Front(Front(@)), after)]
    BY <1>5, <2>2 DEF ReturnSubblock
  <2>4. Backed(after, Recorded) /\ after.pc # "put"
    <3>1. /\ after.pc = parent.pc /\ after.ws = parent.ws /\ after.cells = parent.cells
          /\ after.deliv = now /\ child.goals \in SUBSET Specs
          /\ parent.external \in SoundRequests
      BY DEF SoundBlocks, BlockType
    <3>2. ASSUME NEW g \in child.goals
          PROVE  LET x == child.ws[g].best.cost
                 IN  g \in Specs /\ x \in Nat \cup {None} /\ Fill(g, x) \subseteq Recorded
      <4>1. g \in DOMAIN child.ws /\ ~child.ws[g].running /\ PutBacked(child, Recorded)
        BY <2>1, <2>2 DEF Finished, At, Backed
      <4>2. g \in Specs /\ child.ws[g].best \in Opt[g] /\ child.ws[g].best \in Results
        BY <4>1, TaskFacts, OptCost
      <4>3. CASE child.ws[g].fromDb
        BY <2>2, <4>1, <4>2, <4>3 DEF Backed, Results
      <4>4. CASE ~child.ws[g].fromDb
        BY <4>1, <4>2, <4>4, FillAssumption DEF PutBacked, Covers, Fits, Results
      <4> QED
        BY <4>3, <4>4
    <3>3. \A d \in now : \E g \in child.goals : SubOf(d.h) = g /\ d.cost = child.ws[g].best.cost
      BY <3>1 DEF Deliveries, SoundRequests
    <3> HIDE DEF after, ext, now
    <3>4. ASSUME NEW d \in after.deliv, d.cost # None
          PROVE  <<SubOf(d.h), d.cost>> \in Answered(parent, Recorded)
      <4>1. PICK g \in child.goals : SubOf(d.h) = g /\ d.cost = child.ws[g].best.cost
        BY <3>1, <3>3
      <4>2. g \in Specs /\ d.cost \in Nat /\ Fill(g, d.cost) \subseteq Recorded
        BY <3>2, <3>4, <4>1
      <4> QED
        BY <4>1, <4>2, AnsweredPair
    <3>5. parent.pc # "put" /\ after.pc # "put"
      BY <2>2, <3>1 DEF Suspended
    <3> QED
      BY <2>2, <3>1, <3>4, <3>5, SameTasksBacked
  <2>5. PICK front \in Seq(SoundBlocks) : front = Front(stack[t])
    BY <1>1, FrontProperties
  <2>6. Len(front) = n - 1 /\ front # <<>> /\ \A i \in 1..n - 1 : front[i] = stack[t][i]
    BY <1>1, <2>1, <2>5, FrontProperties, FrontElement
  <2>7. PICK base \in Seq(SoundBlocks) : base = Front(front)
    BY <2>6, FrontProperties
  <2>8. Len(base) = n - 2 /\ \A i \in 1..n - 2 : base[i] = front[i]
    <3>1. Len(base) = Len(front) - 1
      BY <2>6, <2>7, FrontProperties
    <3>2. \A i \in 1..Len(front) - 1 : base[i] = front[i]
      BY <2>6, <2>7, FrontElement
    <3> QED
      BY <1>1, <2>6, <3>1, <3>2
  <2> HIDE DEF after, n
  <2> DEFINE q == Append(base, after)
  <2>9. Len(q) = n - 1 /\ q[n - 1] = after /\ \A i \in 1..n - 2 : q[i] = base[i]
    BY <1>1, <2>8
  <2>10. stack' = [stack EXCEPT ![t] = q]
    BY <2>3, <2>5, <2>7
  <2> HIDE DEF q
  <2>11. \A i \in 1..n - 2 : i \in 1..n - 1 /\ i \in 1..n
    BY <1>1
  <2>12. ASSUME NEW i \in 1..Len(q) PROVE Backed(q[i], Recorded)
    <3>1. CASE i = n - 1
      BY <2>4, <2>9, <3>1
    <3>2. CASE i # n - 1
      <4>1. i \in 1..n - 2
        BY <1>1, <2>9, <3>2
      <4>2. q[i] = stack[t][i]
        BY <2>6, <2>8, <2>9, <2>11, <4>1
      <4> QED
        BY <1>1, <2>11, <4>1, <4>2
    <3> QED
      BY <3>1, <3>2
  <2>13. q[Len(q)].pc # "put"
    BY <2>4, <2>9
  <2>14. ToWrite(Top(t)) = {}
    BY <1>2, <2>1
  <2> QED
    BY <1>0, <2>10, <2>12, <2>13, <2>14, StackStep
<1> QED
  BY <1>3, <1>4, <1>5
LEMMA DriverDeps ==
    ASSUME DInv, Driver, FInv'
    PROVE  DepsKept
<1>0. stack \in [Threads -> Seq(SoundBlocks)]
  BY DEF DInv, FInv, IInv
<1>1. CASE StartGroup
  <2>1. PICK p : /\ group' = {p} /\ UNCHANGED db /\ group = {}
                 /\ stack' = [t \in Threads |-> <<NewBlock(GoalsGiven(p))>>]
    BY <1>1 DEF StartGroup
  <2>2. PICK new : new = NewBlock(GoalsGiven(p)) /\ new.pc # "put" /\ \A R : Backed(new, R)
    BY NewBlockBacked
  <2>3. \A t \in Threads : stack'[t] = <<new>>
    BY <2>1, <2>2
  <2>4. ASSUME NEW t \in Threads
        PROVE  /\ Len(stack'[t]) = 1 /\ stack'[t][Len(stack'[t])] = new
               /\ \A i \in 1..Len(stack'[t]) : stack'[t][i] = new
    <3>1. stack'[t] = <<new>> /\ Len(<<new>>) = 1 /\ <<new>>[1] = new
      BY <2>3
    <3> QED
      BY <3>1
  <2>5. \A t \in Threads : Writing(t) = {} /\ Writing(t)' = {}
    BY <2>1, <2>2, <2>4 DEF DInv, Writing, Top
  <2>6. Recorded' = Recorded
    BY <2>1, <2>5 DEF Recorded
  <2>7. AllBacked(Recorded)'
    BY <2>2, <2>4 DEF AllBacked
  <2>8. (group = {} => \A t \in Threads : ~Busy(t))'
    BY <2>1
  <2>9. (Recorded \subseteq Specs)' /\ DbClosed(Recorded)'
    BY <2>1, <2>6 DEF DInv, DbClosed
  <2> QED
    BY <2>6, <2>7, <2>8, <2>9 DEF DInv, DepsKept
<1>2. CASE EndGroup
  <2>1. UNCHANGED <<db, stack>> /\ \A t \in Threads : ~Busy(t)
    BY <1>2 DEF EndGroup
  <2>2. Recorded' = Recorded
    BY <2>1 DEF Recorded, Writing, Busy, Top, Unwritten
  <2>3. AllBacked(Recorded)'
    BY <2>1, <2>2 DEF DInv, AllBacked
  <2>4. (\A t \in Threads : ~Busy(t))'
    BY <2>1 DEF Busy
  <2>5. (Recorded \subseteq Specs)' /\ DbClosed(Recorded)'
    BY <2>1, <2>2 DEF DInv, DbClosed
  <2> QED
    BY <2>2, <2>3, <2>4, <2>5 DEF DInv, DepsKept
<1> QED
  BY <1>1, <1>2 DEF Driver

LEMMA InitDeps == Init => DInv
<1> SUFFICES ASSUME Init PROVE DInv
  OBVIOUS
<1>1. \A t \in Threads : ~Busy(t) /\ Len(stack[t]) = 0
  BY DEF Init, Busy
<1>2. Recorded = {}
  BY <1>1 DEF Init, Recorded, Writing, EmptyFunction
<1> QED
  BY <1>1, <1>2, InitFlow DEF Init, EmptyFunction, DInv, DbClosed, AllBacked

\* Every step keeps what is recorded closed.
LEMMA NextDeps == DInv /\ [Next \/ Terminating]_vars => DepsKept
<1> SUFFICES ASSUME DInv, [Next \/ Terminating]_vars PROVE DepsKept
  OBVIOUS
<1>0. FInv'
  BY NextFlow DEF DInv
<1>1. CASE Driver
  BY <1>0, <1>1, DriverDeps
<1>2. ASSUME NEW t \in Threads, ThreadStep(t) PROVE DepsKept
  <2>1. CASE \/ RequestExternal(t) \/ VisitSubspec(t) \/ AwaitInternal(t)
             \/ AnswerInternal(t) \/ EndBatch(t)
    BY <1>0, <2>1, BatchStepDeps
  <2>2. CASE \/ VisitGoal(t) \/ GoalsVisited(t) \/ DrainOutbox(t) \/ ResolveRequest(t)
             \/ OutboxDrained(t) \/ BeginStage(t) \/ StageVisit(t) \/ EndStage(t)
    <3>1. Busy(t)
      BY <2>2 DEF VisitGoal, GoalsVisited, DrainOutbox, ResolveRequest, OutboxDrained,
                  BeginStage, StageVisit, EndStage, SubblocksDone, At
    <3> QED
      BY <1>0, <2>2, <3>1, LoopStepDeps
  <2>3. CASE BeginPut(t)
    BY <1>0, <2>3, BeginPutDeps
  <2>4. CASE PutTask(t) \/ WriteBlock(t)
    BY <1>0, <2>4, PutStepDeps
  <2>5. CASE SynthesizeSubblock(t) \/ ReturnSubblock(t) \/ ReturnThread(t)
    BY <1>0, <2>5, CallStepDeps
  <2> QED
    BY <1>2, <2>1, <2>2, <2>3, <2>4, <2>5 DEF ThreadStep
<1>3. CASE UNCHANGED vars
  <2>1. \A t \in Threads : Writing(t)' = Writing(t)
    BY <1>3 DEF vars, Writing, Busy, Top, Unwritten
  <2>2. Recorded' = Recorded
    BY <1>3, <2>1 DEF vars, Recorded
  <2>3. AllBacked(Recorded)' /\ (group = {} => \A t \in Threads : ~Busy(t))'
    BY <1>3, <2>2 DEF vars, DInv, AllBacked, Busy
  <2>4. (Recorded \subseteq Specs)' /\ DbClosed(Recorded)'
    BY <1>3, <2>2 DEF vars, DInv, DbClosed
  <2> QED
    BY <1>0, <2>2, <2>3, <2>4 DEF DInv, DepsKept
<1> QED
  BY <1>1, <1>2, <1>3 DEF Next, Terminating

-----------------------------------------------------------------------------
(* What follows.                                                           *)

\* What is recorded, or about to be by a put under way, always contains the sub-Specs
\* of what is recorded: the threads' puts never leave a gap that no put fills.
THEOREM DependencyInvariant == Spec => []DInv
<1>1. DInv /\ [Next \/ Terminating]_vars => DInv'
  BY NextDeps DEF DepsKept
<1> QED
  BY <1>1, InitDeps, PTL DEF Spec

LEMMA RecordedSubSpecs ==
    ASSUME DInv, NEW s \in DOMAIN db, db[s] # NoImpl, NEW j \in Slots(s, db[s].action),
           NEW c, c = Subs(s, db[s].action)[j]
    PROVE  \/ c \in DOMAIN db /\ db[c] # NoImpl
           \/ \E b \in AllBlocks : b.pc = "put" /\ c \in Unwritten(b)
<1>1. s \in Specs /\ db[s] \in Opt[s]
  BY DEF DInv, FInv, IInv, DbSound
<1>2. c \in Recorded
  BY DEF DInv, DbClosed, Fits, Needs
<1>3. None \notin OptCosts(c)
  <2>1. db[s] \in Candidates(s)
    BY <1>1, OptCost
  <2>2. PICK a \in Acts(s) : db[s] \in Impls(s, a)
    BY <2>1 DEF Candidates
  <2>3. PICK f \in Choices(s, a) : db[s] = Impl(s, a, f)
    BY <2>2 DEF Impls
  <2>4. db[s].action = a /\ Satisfiable(s, a)
    BY <1>1, <2>3, ImplType, ChoicesExist
  <2> QED
    BY <2>4 DEF Satisfiable
<1>4. CASE c \in DOMAIN db
  <2>1. db[c] \in Opt[c]
    BY <1>4 DEF DInv, FInv, IInv, DbSound
  <2> QED
    BY <1>3, <1>4, <2>1 DEF OptCosts, NoImpl
<1>5. CASE c \notin DOMAIN db
  <2>1. PICK t \in Threads : c \in Writing(t)
    BY <1>2, <1>5 DEF Recorded
  <2>2. Busy(t) /\ Top(t).pc = "put" /\ c \in Unwritten(Top(t))
    BY <2>1 DEF Writing
  <2>3. Len(stack[t]) \in 1..Len(stack[t]) /\ stack[t] \in Seq(SoundBlocks)
    BY <2>2, TopFlow DEF DInv
  <2>4. Top(t) \in Blocks(t)
    BY <2>3 DEF Top, Blocks
  <2>5. Top(t) \in AllBlocks
    BY <2>4 DEF AllBlocks
  <2> QED
    BY <2>2, <2>5
<1> QED
  BY <1>4, <1>5

\* Whatever the threads' interleaving and however far their puts have got, a
\* recorded implementation's sub-Specs are recorded too, or about to be by a put
\* under way (db.rs:1061, get_impl).
THEOREM DependenciesKept == Spec => []DependenciesRecorded
<1>1. DInv => DependenciesRecorded
  BY RecordedSubSpecs DEF DependenciesRecorded
<1> QED
  BY <1>1, DependencyInvariant, PTL

-----------------------------------------------------------------------------
(***************************************************************************)
(* Types, answers, and the contract.                                       *)
(***************************************************************************)

\* When top_down_many pairs results with the indices of their own goals.
Paired == ThreadCount = 1 \/ \A i, k \in DOMAIN Goals : PageOf[Goals[i]] = PageOf[Goals[k]]

\* Every thread that is busy was given the goals of the group that is being
\* searched; every thread that has returned has returned results of least
\* main cost for them.
GivenInv ==
    \A t \in Threads :
        /\ Busy(t) => \E p \in group : stack[t][1].goals = GoalsGiven(p)
        /\ ~Busy(t) => \A p \in group :
              /\ DOMAIN returned[t] = GoalsGiven(p)
              /\ \A g \in GoalsGiven(p) : returned[t][g] \in Opt[g]

\* The goals of the pages that have been searched are answered.
AnsweredInv ==
    Paired => \A i \in DOMAIN Goals :
                 PageOf[Goals[i]] \notin groups \cup group => combined[i] \in Opt[Goals[i]]

AInv ==
    /\ IInv
    /\ groups \subseteq Pages /\ group \subseteq Pages
    /\ \A p, q \in group : p = q
    /\ DOMAIN returned = Threads
    /\ combined \in [DOMAIN Goals -> Results]
    /\ GivenInv
    /\ AnsweredInv
-----------------------------------------------------------------------------
(* The pairing of results and indices.                                     *)

LEMMA GoalFacts ==
    /\ DOMAIN Goals = 1..Len(Goals) /\ Len(Goals) \in Nat
    /\ \A i \in DOMAIN Goals : Goals[i] \in Specs /\ PageOf[Goals[i]] \in Pages
<1>1. DOMAIN Goals = 1..Len(Goals) /\ Len(Goals) \in Nat
  BY GoalsAssumption
<1>2. \A i \in DOMAIN Goals : Goals[i] \in Specs
  BY <1>1, GoalsAssumption, SeqElement
<1> QED
  BY <1>1, <1>2, PagesAssumption

\* An index is paired with a result that the search has returned, and with that
\* of its own goal when Paired holds.
LEMMA ZippedGiven ==
    ASSUME NEW i \in DOMAIN Goals, NEW p, p = PageOf[Goals[i]]
    PROVE  /\ ZippedGoal(p, i) \in GoalsGiven(p)
           /\ Paired => ZippedGoal(p, i) = Goals[i]
<1> DEFINE before == {j \in DOMAIN Goals : j <= i /\ PageOf[Goals[j]] = p}
<1>1. Goals[i] \in GoalSet
  BY DEF GoalSet
<1>2. CASE ThreadCount = 1
  BY <1>1, <1>2 DEF ZippedGoal, GoalsGiven
<1>3. CASE ThreadCount # 1
  <2>1. i \in Nat /\ i >= 1 /\ i <= Len(Goals)
    BY GoalFacts
  <2>2. IsFiniteSet(1..i) /\ Cardinality(1..i) = i
    BY <2>1, FS_Interval
  <2>3. before \in SUBSET (1..i) /\ i \in before
    BY <2>1, GoalFacts
  <2>4. IsFiniteSet(before) /\ Cardinality(before) \in Nat /\ Cardinality(before) <= i
    BY <2>2, <2>3, FS_Subset, FS_CardinalityType
  <2>5. Cardinality(before) # 0
    BY <2>3, <2>4, FS_EmptySet
  <2>6. ZippedGoal(p, i) = Goals[Cardinality(before)] /\ GoalsGiven(p) = GoalSet
    BY <1>3 DEF ZippedGoal, GoalsGiven
  <2> HIDE DEF before
  <2>7. Cardinality(before) \in DOMAIN Goals
    BY <2>1, <2>4, <2>5, GoalFacts
  <2>8. ZippedGoal(p, i) \in GoalsGiven(p)
    BY <2>6, <2>7 DEF GoalSet
  <2>9. ASSUME Paired PROVE ZippedGoal(p, i) = Goals[i]
    <3>1. \A j \in 1..i : j \in DOMAIN Goals /\ PageOf[Goals[j]] = p
      BY <1>3, <2>1, <2>9, GoalFacts DEF Paired
    <3>2. before = 1..i
      BY <2>1, <3>1, GoalFacts DEF before
    <3> QED
      BY <2>2, <2>6, <3>2
  <2> QED
    BY <2>8, <2>9
<1> QED
  BY <1>2, <1>3
-----------------------------------------------------------------------------
(* No step changes what a block was called for.                            *)

LEMMA GetTaskGoals ==
    ASSUME NEW b \in SoundBlocks, NEW s \in Specs
    PROVE  GetTask(b, s).goals = b.goals
BY DEF GetTask, SoundBlocks, BlockType

LEMMA PushBatchGoals ==
    ASSUME NEW b \in SoundBlocks, NEW s
    PROVE  PushBatch(b, s).goals = b.goals
BY DEF PushBatch, SoundBlocks, BlockType

LEMMA VisitSpecGoals ==
    ASSUME NEW b \in SoundBlocks, NEW s \in Specs, DbSound
    PROVE  VisitSpec(b, s).goals = b.goals
<1>1. CASE s \in b.visited
  BY <1>1, GetTaskGoals DEF VisitSpec
<1>2. CASE s \notin b.visited
  <2> DEFINE got == GetTask(b, s)
             new == [got EXCEPT !.visited = @ \cup {s}]
  <2>1. got \in SoundBlocks /\ got.goals = b.goals
    BY GetTaskSound, GetTaskGoals
  <2>2. VisitSpec(b, s) = PushBatch(new, s)
    BY <1>2 DEF VisitSpec
  <2> HIDE DEF got
  <2>3. new \in SoundBlocks /\ new.goals = got.goals
    BY <2>1 DEF SoundBlocks, BlockType, BlockSound
  <2> HIDE DEF new
  <2> QED
    BY <2>1, <2>2, <2>3, PushBatchGoals
<1> QED
  BY <1>1, <1>2

LEMMA ResolveHandleGoals ==
    ASSUME NEW b \in SoundBlocks, NEW h, NEW cost
    PROVE  ResolveHandle(b, h, cost).goals = b.goals
BY DEF ResolveHandle, SoundBlocks, BlockType

LEMMA DeliverToGoals ==
    ASSUME NEW b \in SoundBlocks, NEW h \in SoundHandles,
           NEW cost, cost \in OptCosts(SubOf(h))
    PROVE  DeliverTo(b, h, cost).goals = b.goals
<1> DEFINE after == ResolveHandle(b, h, cost)
           more  == Deliveries(b.internal[h.spec], after.ws[h.spec].best.cost)
           new   == [after EXCEPT !.deliv = @ \cup more, !.internal[h.spec] = {}]
<1>1. CASE h.spec \notin RunningTasks(b)
  BY <1>1 DEF DeliverTo
<1>2. CASE h.spec \in RunningTasks(b)
  <2>1. after \in SoundBlocks /\ after.goals = b.goals
    BY <1>2, ResolveHandleSound, ResolveHandleGoals
  <2>2. DeliverTo(b, h, cost) \in {after, new}
    BY <1>2 DEF DeliverTo
  <2> HIDE DEF after
  <2>3. new.goals = after.goals
    BY <2>1 DEF SoundBlocks, BlockType
  <2> QED
    BY <2>1, <2>2, <2>3
<1> QED
  BY <1>1, <1>2
-----------------------------------------------------------------------------
(* The outermost block of a thread.                                        *)

\* Replacing the last block of a stack by one with the same goals leaves the
\* first block's goals as they are.
LEMMA FirstGoals ==
    ASSUME NEW S, NEW q \in Seq(S), q # <<>>, NEW b \in S,
           b.goals = q[Len(q)].goals, NEW new, new = Append(Front(q), b)
    PROVE  new # <<>> /\ new[1].goals = q[1].goals
<1>1. PICK front : front = Front(q) /\ new = Append(front, b)
  OBVIOUS
<1>2. front \in Seq(S) /\ Len(front) = Len(q) - 1 /\ Len(q) \in Nat \ {0}
  BY <1>1, FrontProperties
<1>3. new \in Seq(S) /\ Len(new) = Len(front) + 1 /\ new # <<>>
  BY <1>1, <1>2, AppendProperties
<1>4. CASE Len(q) = 1
  <2>1. new[1] = b
    BY <1>1, <1>2, <1>4
  <2> QED
    BY <1>3, <1>4, <2>1
<1>5. CASE Len(q) # 1
  <2>1. 1 \in 1..(Len(q) - 1)
    BY <1>2, <1>5
  <2>2. front[1] = q[1]
    BY <1>1, <2>1, FrontElement
  <2>3. new[1] = front[1]
    BY <1>1, <1>2, <2>1
  <2> QED
    BY <1>3, <2>2, <2>3
<1> QED
  BY <1>4, <1>5

\* The thread's stack is not emptied, its first block keeps its goals, and
\* nothing else of what AInv speaks of changes.
GoalsKept(t) ==
    /\ \A u \in Threads \ {t} : stack'[u] = stack[u]
    /\ stack'[t] # <<>> /\ stack'[t][1].goals = stack[t][1].goals
    /\ UNCHANGED <<returned, groups, group, combined>>

LEMMA SetTopKeeps ==
    ASSUME IInv, NEW t \in Threads, Busy(t), NEW b, SetTop(t, b),
           b.goals = Top(t).goals
    PROVE  GoalsKept(t)
<1> DEFINE S == SoundBlocks \cup {b}
<1>1. stack[t] \in Seq(SoundBlocks) /\ stack[t] # <<>> /\ stack \in [Threads -> Seq(SoundBlocks)]
  BY DEF IInv, Busy
<1>2. stack' = [stack EXCEPT ![t] = Append(Front(stack[t]), b)]
  BY DEF SetTop
<1>3. stack'[t] = Append(Front(stack[t]), b) /\ (\A u \in Threads \ {t} : stack'[u] = stack[u])
  BY <1>1, <1>2
<1>4. b.goals = stack[t][Len(stack[t])].goals
  BY DEF Top
<1>6. stack[t] \in Seq(S) /\ b \in S
  BY <1>1, SeqMonotonic
<1> HIDE DEF S
<1>5. stack'[t] # <<>> /\ stack'[t][1].goals = stack[t][1].goals
  <2>1. PICK q \in Seq(S) : q = stack[t] /\ q # <<>> /\ b.goals = q[Len(q)].goals
    BY <1>1, <1>4, <1>6
  <2>2. PICK new : new = stack'[t] /\ new = Append(Front(q), b)
    BY <1>3, <2>1
  <2>3. new # <<>> /\ new[1].goals = q[1].goals
    BY <1>6, <2>1, <2>2, FirstGoals
  <2> QED
    BY <2>1, <2>2, <2>3
<1> QED
  BY <1>3, <1>5 DEF GoalsKept, SetTop

LEMMA CallKeeps ==
    ASSUME IInv, NEW t \in Threads, SynthesizeSubblock(t) \/ ReturnSubblock(t)
    PROVE  GoalsKept(t)
<1>1. Busy(t) /\ stack[t] \in Seq(SoundBlocks) /\ stack[t] # <<>> /\ Len(stack[t]) \in Nat \ {0}
  BY EmptySeq DEF SynthesizeSubblock, ReturnSubblock, At, IInv, Busy
<1>2. UNCHANGED <<returned, groups, group, combined>>
  BY DEF SynthesizeSubblock, ReturnSubblock
<1>3. ASSUME NEW q, stack' = [stack EXCEPT ![t] = q], q # <<>>,
             q[1].goals = stack[t][1].goals
      PROVE  GoalsKept(t)
  BY <1>2, <1>3 DEF IInv, GoalsKept
<1>4. CASE SynthesizeSubblock(t)
  <2>1. PICK keys \in SUBSET Specs : stack' = [stack EXCEPT ![t] = Append(@, NewBlock(keys))]
    BY <1>4 DEF SynthesizeSubblock, Requested
  <2>2. NewBlock(keys) \in SoundBlocks
    BY NewBlockSound
  <2>4. PICK q : q = Append(stack[t], NewBlock(keys))
    OBVIOUS
  <2>3. q # <<>> /\ q[1] = stack[t][1]
    <3>1. 1 \in 1..Len(stack[t])
      BY <1>1
    <3> QED
      BY <1>1, <2>2, <2>4, <3>1, AppendProperties
  <2> QED
    BY <1>3, <2>1, <2>3, <2>4
<1>5. CASE ReturnSubblock(t)
  <2>1. PICK front : front = Front(stack[t])
    OBVIOUS
  <2>2. Len(stack[t]) > 1
    BY <1>5 DEF ReturnSubblock
  <2>3. /\ front \in Seq(SoundBlocks) /\ Len(front) = Len(stack[t]) - 1 /\ front # <<>>
        /\ front[Len(front)] = stack[t][Len(stack[t]) - 1] /\ front[1] = stack[t][1]
    <3>1. front \in Seq(SoundBlocks) /\ Len(front) = Len(stack[t]) - 1
      BY <1>1, <2>1, FrontProperties
    <3>2. Len(front) \in 1..(Len(stack[t]) - 1) /\ 1 \in 1..(Len(stack[t]) - 1) /\ front # <<>>
      BY <1>1, <2>2, <3>1, EmptySeq
    <3>3. \A i \in 1..(Len(stack[t]) - 1) : front[i] = stack[t][i]
      BY <1>1, <2>1, FrontElement
    <3> QED
      BY <3>1, <3>2, <3>3
  <2>4. PICK child, parent : child = Top(t) /\ parent = front[Len(front)]
    OBVIOUS
  <2>5. parent \in SoundBlocks
    BY <2>3, <2>4, FrontProperties
  <2> DEFINE ext   == [s \in Specs |-> IF s \in child.goals THEN {} ELSE parent.external[s]]
             now   == UNION {Deliveries(parent.external[g], child.ws[g].best.cost) :
                             g \in child.goals}
             after == [parent EXCEPT !.external = ext, !.deliv = now]
             new   == Append(Front(front), after)
             S     == SoundBlocks \cup {after}
  <2>6. stack' = [stack EXCEPT ![t] = new]
    BY <1>5, <2>1, <2>3, <2>4 DEF ReturnSubblock
  <2>7. after.goals = front[Len(front)].goals
    BY <2>4, <2>5 DEF SoundBlocks, BlockType
  <2> HIDE DEF after
  <2>8. front \in Seq(S) /\ after \in S
    BY <2>3, SeqMonotonic
  <2> HIDE DEF S
  <2>9. new # <<>> /\ new[1].goals = front[1].goals
    BY <2>3, <2>7, <2>8, FirstGoals
  <2> HIDE DEF new
  <2> QED
    BY <1>3, <2>3, <2>6, <2>9
<1> QED
  BY <1>4, <1>5

LEMMA BatchStepKeeps ==
    ASSUME IInv, NEW t \in Threads,
           \/ RequestExternal(t) \/ VisitSubspec(t) \/ AwaitInternal(t)
           \/ AnswerInternal(t) \/ EndBatch(t)
    PROVE  GoalsKept(t)
<1>1. InBatch(t) /\ Busy(t) /\ DbSound
  BY DEF RequestExternal, VisitSubspec, AwaitInternal, AnswerInternal, EndBatch, InBatch, IInv
<1>2. PICK b \in SoundBlocks : b = Top(t)
  BY <1>1, TopSound
<1>3. b \in BlockType
  BY DEF SoundBlocks
<1>4. ASSUME NEW a \in Frame(t).left
      PROVE  /\ Handled(t, a) \in SoundBlocks /\ Handled(t, a).goals = b.goals
             /\ HandleAt(t, a) \in SoundHandles /\ SubOf(HandleAt(t, a)) \in Specs
  BY <1>1, <1>2, <1>3, FrameSound DEF Handled, BlockType
<1>5. CASE RequestExternal(t)
  <2>1. PICK a \in Frame(t).left :
           SetTop(t, [Handled(t, a) EXCEPT
                        !.external[SubOf(HandleAt(t, a))] = @ \cup {HandleAt(t, a)}])
    BY <1>5 DEF RequestExternal
  <2>2. PICK h \in SoundHandles, c \in SoundBlocks : h = HandleAt(t, a) /\ c = Handled(t, a) /\ c.goals = b.goals
    BY <1>4
  <2>3. [c EXCEPT !.external[SubOf(h)] = @ \cup {h}].goals = b.goals
    BY <2>2 DEF SoundBlocks, BlockType
  <2> QED
    BY <1>1, <1>2, <2>1, <2>2, <2>3, SetTopKeeps
<1>6. CASE VisitSubspec(t)
  <2>1. PICK a \in Frame(t).left : SetTop(t, VisitSpec(b, SubOf(HandleAt(t, a))))
    BY <1>2, <1>6 DEF VisitSubspec
  <2>2. VisitSpec(b, SubOf(HandleAt(t, a))).goals = b.goals
    BY <1>1, <1>4, VisitSpecGoals
  <2> QED
    BY <1>1, <1>2, <2>1, <2>2, SetTopKeeps
<1>7. CASE AwaitInternal(t)
  <2>1. PICK a \in Frame(t).left :
           SetTop(t, [Handled(t, a) EXCEPT
                        !.internal[SubOf(HandleAt(t, a))] = @ \cup {HandleAt(t, a)}])
    BY <1>7 DEF AwaitInternal
  <2>2. PICK h \in SoundHandles, c \in SoundBlocks : h = HandleAt(t, a) /\ c = Handled(t, a) /\ c.goals = b.goals
    BY <1>4
  <2>3. [c EXCEPT !.internal[SubOf(h)] = @ \cup {h}].goals = b.goals
    BY <2>2 DEF SoundBlocks, BlockType
  <2> QED
    BY <1>1, <1>2, <2>1, <2>2, <2>3, SetTopKeeps
<1>8. CASE AnswerInternal(t)
  <2>1. PICK a \in Frame(t).left :
           LET h == HandleAt(t, a)
               r == ResolveHandle(Handled(t, a), h, Top(t).ws[SubOf(h)].best.cost)
           IN  SetTop(t, [r EXCEPT !.outbox = IF r.ws[h.spec].running
                                              THEN @ ELSE @ \cup {h.spec}])
    BY <1>8 DEF AnswerInternal
  <2>2. PICK h, c, cost : /\ h = HandleAt(t, a) /\ c = Handled(t, a)
                          /\ cost = Top(t).ws[SubOf(h)].best.cost
    OBVIOUS
  <2>3. c \in SoundBlocks /\ c.goals = b.goals
    BY <1>4, <2>2
  <2> DEFINE r == ResolveHandle(c, h, cost)
  <2>4. PICK after : after = r
    OBVIOUS
  <2>5. DOMAIN after = DOMAIN c /\ after.goals = b.goals
    BY <2>3, <2>4 DEF ResolveHandle, SoundBlocks, BlockType
  <2>6. PICK out : SetTop(t, [after EXCEPT !.outbox = out])
    BY <2>1, <2>2, <2>4
  <2>7. [after EXCEPT !.outbox = out].goals = b.goals
    BY <2>3, <2>5 DEF SoundBlocks, BlockType
  <2> QED
    BY <1>1, <1>2, <2>6, <2>7, SetTopKeeps
<1>9. CASE EndBatch(t)
  <2>1. SetTop(t, [b EXCEPT !.frames = Front(@)])
    BY <1>2, <1>9 DEF EndBatch
  <2>2. [b EXCEPT !.frames = Front(@)].goals = b.goals
    BY <1>3 DEF BlockType
  <2> QED
    BY <1>1, <1>2, <2>1, <2>2, SetTopKeeps
<1> QED
  BY <1>5, <1>6, <1>7, <1>8, <1>9

LEMMA LoopStepKeeps ==
    ASSUME IInv, NEW t \in Threads,
           \/ VisitGoal(t) \/ GoalsVisited(t) \/ DrainOutbox(t) \/ ResolveRequest(t)
           \/ OutboxDrained(t) \/ BeginStage(t) \/ StageVisit(t) \/ EndStage(t)
           \/ BeginPut(t) \/ PutTask(t) \/ WriteBlock(t)
    PROVE  GoalsKept(t)
<1>1. Busy(t) /\ DbSound
  BY DEF VisitGoal, GoalsVisited, DrainOutbox, ResolveRequest, OutboxDrained, BeginStage,
         StageVisit, EndStage, BeginPut, PutTask, WriteBlock, SubblocksDone, At, IInv
<1>2. PICK b \in SoundBlocks : b = Top(t)
  BY <1>1, TopSound
<1>3. b \in BlockType /\ BlockSound(b)
  BY DEF SoundBlocks
<1>4. ASSUME NEW c, SetTop(t, c), c.goals = b.goals PROVE GoalsKept(t)
  BY <1>1, <1>2, <1>4, SetTopKeeps
<1>5. CASE VisitGoal(t)
  <2>1. PICK g \in b.todo : SetTop(t, VisitSpec([b EXCEPT !.todo = @ \ {g}], g))
    BY <1>2, <1>5 DEF VisitGoal
  <2>2. PICK c : c = [b EXCEPT !.todo = @ \ {g}]
    OBVIOUS
  <2>3. g \in Specs /\ c \in SoundBlocks /\ c.goals = b.goals
    BY <1>3, <2>2 DEF SoundBlocks, BlockType, BlockSound
  <2>4. VisitSpec(c, g).goals = b.goals
    BY <1>1, <2>3, VisitSpecGoals
  <2> QED
    BY <1>4, <2>1, <2>2, <2>4
<1>6. CASE GoalsVisited(t) \/ OutboxDrained(t) \/ EndStage(t)
  <2>1. \E pc : SetTop(t, [b EXCEPT !.pc = pc])
    BY <1>2, <1>6 DEF GoalsVisited, OutboxDrained, EndStage
  <2>2. PICK pc : SetTop(t, [b EXCEPT !.pc = pc])
    BY <2>1
  <2>3. [b EXCEPT !.pc = pc].goals = b.goals
    BY <1>3 DEF BlockType
  <2> QED
    BY <1>4, <2>2, <2>3
<1>7. CASE DrainOutbox(t)
  <2>1. PICK s \in b.outbox :
           SetTop(t, [b EXCEPT !.outbox = @ \ {s}, !.internal[s] = {},
                               !.deliv = Deliveries(b.internal[s], b.ws[s].best.cost)])
    BY <1>2, <1>7 DEF DrainOutbox
  <2>2. [b EXCEPT !.outbox = @ \ {s}, !.internal[s] = {},
                  !.deliv = Deliveries(b.internal[s], b.ws[s].best.cost)].goals = b.goals
    BY <1>3 DEF BlockType
  <2> QED
    BY <1>4, <2>1, <2>2
<1>8. CASE ResolveRequest(t)
  <2>1. PICK d \in b.deliv : SetTop(t, DeliverTo([b EXCEPT !.deliv = @ \ {d}], d.h, d.cost))
    BY <1>2, <1>8 DEF ResolveRequest
  <2>2. PICK c : c = [b EXCEPT !.deliv = @ \ {d}]
    OBVIOUS
  <2>3. d \in SoundDeliveries /\ c \in SoundBlocks /\ c.goals = b.goals
    BY <1>3, <2>2 DEF SoundBlocks, BlockType, BlockSound
  <2>4. DeliverTo(c, d.h, d.cost).goals = b.goals
    BY <2>3, DeliverToGoals DEF SoundDeliveries
  <2> QED
    BY <1>4, <2>1, <2>2, <2>4
<1>9. CASE BeginStage(t)
  <2>1. SetTop(t, [b EXCEPT !.pc = "stage", !.visited = {}, !.todo = RunningTasks(b)])
    BY <1>2, <1>9 DEF BeginStage
  <2>2. [b EXCEPT !.pc = "stage", !.visited = {}, !.todo = RunningTasks(b)].goals = b.goals
    BY <1>3 DEF BlockType
  <2> QED
    BY <1>4, <2>1, <2>2
<1>10. CASE StageVisit(t)
  <2>1. PICK s \in b.todo : SetTop(t, PushBatch([b EXCEPT !.todo = @ \ {s}], s))
    BY <1>2, <1>10 DEF StageVisit
  <2>2. PICK c : c = [b EXCEPT !.todo = @ \ {s}]
    OBVIOUS
  <2>3. c \in SoundBlocks /\ c.goals = b.goals
    BY <1>3, <2>2 DEF SoundBlocks, BlockType, BlockSound
  <2>4. PushBatch(c, s).goals = b.goals
    BY <2>3, PushBatchGoals
  <2> QED
    BY <1>4, <2>1, <2>2, <2>4
<1>11. CASE BeginPut(t)
  <2>1. SetTop(t, [b EXCEPT !.pc = "put", !.todo = DOMAIN b.ws])
    BY <1>2, <1>11 DEF BeginPut
  <2>2. [b EXCEPT !.pc = "put", !.todo = DOMAIN b.ws].goals = b.goals
    BY <1>3 DEF BlockType
  <2> QED
    BY <1>4, <2>1, <2>2
<1>12. CASE PutTask(t)
  <2>1. PICK s \in b.todo :
           SetTop(t, [b EXCEPT !.todo = @ \ {s}, !.res = b.ws[s].best,
                               !.cells = IF b.ws[s].fromDb THEN {}
                                         ELSE Fill(s, b.ws[s].best.cost)])
    BY <1>2, <1>12 DEF PutTask
  <2>2. [b EXCEPT !.todo = @ \ {s}, !.res = b.ws[s].best,
                  !.cells = IF b.ws[s].fromDb THEN {}
                            ELSE Fill(s, b.ws[s].best.cost)].goals = b.goals
    BY <1>3 DEF BlockType
  <2> QED
    BY <1>4, <2>1, <2>2
<1>13. CASE WriteBlock(t)
  <2>1. PICK now : SetTop(t, [b EXCEPT !.cells = @ \ now])
    BY <1>2, <1>13 DEF WriteBlock
  <2>2. [b EXCEPT !.cells = @ \ now].goals = b.goals
    BY <1>3 DEF BlockType
  <2> QED
    BY <1>4, <2>1, <2>2
<1> QED
  BY <1>5, <1>6, <1>7, <1>8, <1>9, <1>10, <1>11, <1>12, <1>13
-----------------------------------------------------------------------------
(* Starting a group, returning from a thread, and combining the results.   *)

LEMMA KeptAnswers ==
    ASSUME AInv, IInv', NEW t \in Threads, Busy(t), GoalsKept(t)
    PROVE  AInv'
<1>1. \A u \in Threads : (Busy(u)' <=> Busy(u)) /\ (Busy(u) => stack'[u][1].goals = stack[u][1].goals)
  BY DEF GoalsKept, Busy
<1>2. UNCHANGED <<returned, groups, group, combined>>
  BY DEF GoalsKept
<1>3. GivenInv'
  BY <1>1, <1>2 DEF AInv, GivenInv
<1>4. AnsweredInv'
  BY <1>2 DEF AInv, AnsweredInv
<1> QED
  BY <1>2, <1>3, <1>4 DEF AInv

LEMMA ReturnAnswers ==
    ASSUME AInv, IInv', NEW t \in Threads, ReturnThread(t)
    PROVE  AInv'
<1>1. Busy(t) /\ IInv /\ Len(stack[t]) = 1 /\ Finished(t) /\ DOMAIN returned = Threads
  BY DEF ReturnThread, AInv
<1>2. PICK b \in SoundBlocks : b = Top(t)
  BY <1>1, TopSound
<1>3. b = stack[t][1]
  BY <1>1, <1>2 DEF Top
<1>4. PICK p \in group : b.goals = GoalsGiven(p)
  BY <1>1, <1>3 DEF AInv, GivenInv
<1>5. \A g \in b.goals : b.ws[g].best \in Opt[g]
  BY <1>1, <1>2, TaskFacts DEF Finished
<1>6. /\ returned' = [returned EXCEPT ![t] = [g \in b.goals |-> b.ws[g].best]]
      /\ stack' = [stack EXCEPT ![t] = <<>>]
      /\ UNCHANGED <<groups, group, combined>>
  BY <1>2 DEF ReturnThread
<1>7. /\ returned'[t] = [g \in b.goals |-> b.ws[g].best] /\ DOMAIN returned' = Threads
      /\ \A u \in Threads \ {t} : returned'[u] = returned[u] /\ stack'[u] = stack[u]
      /\ stack'[t] = <<>>
  BY <1>1, <1>6 DEF IInv
<1>8. DOMAIN returned'[t] = GoalsGiven(p) /\ \A g \in GoalsGiven(p) : returned'[t][g] \in Opt[g]
  BY <1>4, <1>5, <1>7
<1>9. GivenInv'
  <2> SUFFICES ASSUME NEW u \in Threads
               PROVE  /\ Busy(u)' => \E q \in group : stack'[u][1].goals = GoalsGiven(q)
                      /\ ~Busy(u)' => \A q \in group :
                            /\ DOMAIN returned'[u] = GoalsGiven(q)
                            /\ \A g \in GoalsGiven(q) : returned'[u][g] \in Opt[g]
    BY <1>6 DEF GivenInv
  <2>1. CASE u = t
    BY <1>7, <1>8, <2>1 DEF AInv, Busy
  <2>2. CASE u # t
    BY <1>7, <2>2 DEF AInv, GivenInv, Busy
  <2> QED
    BY <2>1, <2>2
<1>10. AnsweredInv'
  BY <1>6 DEF AInv, AnsweredInv
<1> QED
  BY <1>6, <1>7, <1>9, <1>10 DEF AInv

LEMMA StartAnswers ==
    ASSUME AInv, IInv', StartGroup
    PROVE  AInv'
<1>1. PICK p \in groups : /\ group' = {p} /\ groups' = groups \ {p}
                          /\ stack' = [t \in Threads |-> <<NewBlock(GoalsGiven(p))>>]
  BY DEF StartGroup
<1>2. group = {} /\ UNCHANGED <<returned, combined>>
  BY DEF StartGroup
<1>3. GivenInv'
  <2> SUFFICES ASSUME NEW u \in Threads
               PROVE  Busy(u)' /\ stack'[u][1].goals = GoalsGiven(p)
    BY <1>1 DEF GivenInv
  <2>1. stack'[u] = <<NewBlock(GoalsGiven(p))>>
    BY <1>1
  <2> QED
    BY <2>1 DEF Busy, NewBlock
<1>4. groups' \cup group' = groups \cup group
  BY <1>1, <1>2
<1>5. AnsweredInv'
  BY <1>2, <1>4 DEF AInv, AnsweredInv
<1> QED
  BY <1>1, <1>2, <1>3, <1>5 DEF AInv

LEMMA EndAnswers ==
    ASSUME AInv, IInv', EndGroup
    PROVE  AInv'
<1>1. PICK p \in group : combined' = [i \in DOMAIN Goals |->
                         IF PageOf[Goals[i]] = p
                         THEN returned[ThreadCount - 1][ZippedGoal(p, i)]
                         ELSE combined[i]]
  BY DEF EndGroup
<1>2. group' = {} /\ UNCHANGED <<stack, returned, groups>> /\ \A t \in Threads : ~Busy(t)
  BY DEF EndGroup
<1>3. group = {p}
  BY <1>1 DEF AInv
<1>4. ThreadCount - 1 \in Threads
  BY GoalsAssumption DEF Threads
<1>5. \A g \in GoalsGiven(p) : returned[ThreadCount - 1][g] \in Opt[g] /\ g \in Specs
  <2>1. GoalsGiven(p) \subseteq Specs
    BY GoalFacts DEF GoalsGiven, GoalSet
  <2> QED
    BY <1>1, <1>2, <1>4, <2>1 DEF AInv, GivenInv
<1>6. ASSUME NEW i \in DOMAIN Goals, PageOf[Goals[i]] = p
      PROVE  combined'[i] \in Results /\ (Paired => combined'[i] \in Opt[Goals[i]])
  <2>1. ZippedGoal(p, i) \in GoalsGiven(p) /\ (Paired => ZippedGoal(p, i) = Goals[i])
    BY <1>6, ZippedGiven
  <2>2. combined'[i] \in Opt[ZippedGoal(p, i)] /\ Opt[ZippedGoal(p, i)] \in SUBSET Results
    BY <1>1, <1>5, <1>6, <2>1, OptAssumption
  <2> QED
    BY <2>1, <2>2
<1>7. ASSUME NEW i \in DOMAIN Goals, PageOf[Goals[i]] # p
      PROVE  combined'[i] = combined[i]
  BY <1>1, <1>7
<1>8. combined' \in [DOMAIN Goals -> Results]
  BY <1>1, <1>6, <1>7 DEF AInv
<1>9. AnsweredInv'
  BY <1>2, <1>3, <1>6, <1>7 DEF AInv, AnsweredInv
<1>10. GivenInv'
  BY <1>2 DEF GivenInv, Busy
<1> QED
  BY <1>2, <1>8, <1>9, <1>10 DEF AInv
-----------------------------------------------------------------------------
(* The theorems.                                                           *)

LEMMA InitAnswers == Init => AInv
<1> SUFFICES ASSUME Init PROVE AInv
  OBVIOUS
<1>1. \A t \in Threads : ~Busy(t)
  BY DEF Init, Busy
<1>2. groups \subseteq Pages /\ group = {}
  BY GoalFacts DEF Init, GoalSet
<1>3. \A i \in DOMAIN Goals : PageOf[Goals[i]] \in groups
  BY DEF Init, GoalSet
<1>4. combined \in [DOMAIN Goals -> Results] /\ DOMAIN returned = Threads
  BY DEF Init, Results, NoImpl
<1> QED
  BY <1>1, <1>2, <1>3, <1>4, InitSound DEF AInv, GivenInv, AnsweredInv

LEMMA NextAnswers == AInv /\ [Next \/ Terminating]_vars => AInv'
<1> SUFFICES ASSUME AInv, [Next \/ Terminating]_vars PROVE AInv'
  OBVIOUS
<1>1. IInv /\ IInv'
  BY NextSound DEF AInv
<1>2. CASE Driver
  BY <1>1, <1>2, StartAnswers, EndAnswers DEF Driver
<1>3. ASSUME NEW t \in Threads, ThreadStep(t) PROVE AInv'
  <2>1. Busy(t)
    BY <1>3 DEF ThreadStep, RequestExternal, VisitSubspec, AwaitInternal,
             AnswerInternal, EndBatch, VisitGoal, GoalsVisited, DrainOutbox,
             ResolveRequest, OutboxDrained, SynthesizeSubblock, BeginStage, StageVisit,
             EndStage, BeginPut, PutTask, WriteBlock, ReturnSubblock, ReturnThread,
             SubblocksDone, At, InBatch
  <2>2. CASE ReturnThread(t)
    BY <1>1, <2>2, ReturnAnswers
  <2>3. CASE ~ReturnThread(t)
    <3>1. GoalsKept(t)
      BY <1>1, <1>3, <2>3, BatchStepKeeps, LoopStepKeeps, CallKeeps DEF ThreadStep
    <3> QED
      BY <1>1, <2>1, <3>1, KeptAnswers
  <2> QED
    BY <2>2, <2>3
<1>4. CASE UNCHANGED vars
  BY <1>1, <1>4 DEF vars, AInv, GivenInv, AnsweredInv, Busy
<1> QED
  BY <1>2, <1>3, <1>4 DEF Next, Terminating

THEOREM AnswerInvariant == Spec => []AInv
<1> QED
  BY InitAnswers, NextAnswers, PTL DEF Spec

\* Every variable, and every field of every active block, has its type; a
\* request is filed under the sub-Spec it asks for, only complete tasks are in an
\* outbox, and a batch is always one of a task of the working set.
THEOREM TypeCorrect == Spec => []TypeOK
<1>1. ASSUME AInv PROVE TypeOK
  <2>1. ASSUME NEW t \in Threads, NEW b \in Blocks(t) PROVE BlockOK(b)
    <3>1. b \in SoundBlocks
      BY <1>1, SeqElement DEF Blocks, AInv, IInv
    <3>2. b \in BlockType /\ BlockSound(b)
      BY <3>1 DEF SoundBlocks
    <3>3. DOMAIN b.ws \subseteq Specs /\ \A s \in DOMAIN b.ws : b.ws[s] \in TaskOf(s)
      BY <3>1, TaskFacts
    <3>4. \A s \in Specs : \A h \in b.internal[s] \cup b.external[s] : SubOf(h) = s
      BY <3>2 DEF BlockType, SoundRequests
    <3>5. b.outbox \subseteq DOMAIN b.ws \ RunningTasks(b)
      BY <3>2 DEF BlockSound, RunningTasks
    <3>6. \A d \in b.deliv : d.cost \in Nat \cup {None}
      BY <3>2 DEF BlockType, SoundDeliveries
    <3>7. \A i \in DOMAIN b.frames : b.frames[i].spec \in DOMAIN b.ws
      <4>1. b.frames \in Seq(SoundFrames)
        BY <3>2 DEF BlockType
      <4>2. DOMAIN b.frames = 1..Len(b.frames)
        BY <4>1
      <4> QED
        BY <3>2, <4>2 DEF BlockSound
    <3>8. /\ b.pc \in {"goals", "drain", "sub", "stage", "put"}
          /\ b.goals \subseteq Specs /\ b.todo \subseteq Specs /\ b.visited \subseteq Specs
          /\ b.cells \subseteq Specs /\ b.res \in Results /\ b.running \in Int
      BY <3>2 DEF BlockType
    <3> QED
      BY <3>3, <3>4, <3>5, <3>6, <3>7, <3>8 DEF BlockOK
  <2>2. DOMAIN db \subseteq Specs /\ \A s \in DOMAIN db : db[s] \in Results
    BY <1>1, OptAssumption DEF AInv, IInv, DbSound
  <2> QED
    BY <1>1, <2>1, <2>2 DEF TypeOK, AInv
<1> QED
  BY AnswerInvariant, <1>1, PTL

\* When top_down_many has returned, each goal's index holds a result of least
\* main cost of that goal, for any Specs, goals, pages and number of threads for which Paired holds.
THEOREM AnswersOptimal == ASSUME Paired PROVE Spec => []ResultsOptimal
<1>1. ASSUME AInv PROVE ResultsOptimal
  <2> SUFFICES ASSUME Done, NEW i \in DOMAIN Goals PROVE combined[i] \in Opt[Goals[i]]
    BY DEF ResultsOptimal
  <2>1. PageOf[Goals[i]] \notin groups \cup group
    BY DEF Done
  <2> QED
    BY <1>1, <2>1 DEF AInv, AnsweredInv
<1> QED
  BY AnswerInvariant, <1>1, PTL
-----------------------------------------------------------------------------
(* The refinement of SynthContract.                                        *)

\* Threads that have finished have left the goals of the group in the database,
\* or in cells that others are about to write.
GivenRecorded == \A t \in Threads : ~Busy(t) => \A p \in group : GoalsGiven(p) \subseteq Recorded

CInv ==
    /\ AInv /\ DInv
    /\ group \cap groups = {}
    /\ GivenRecorded

\* Contract's view of the state.
OpenGoals == {i \in DOMAIN Goals : PageOf[Goals[i]] \in groups \cup group}

\* A thread returns when nothing of its put is left to write.
LEMMA ReturnRecords ==
    ASSUME CInv, NEW t \in Threads, ReturnThread(t), DepsKept
    PROVE  GivenRecorded'
<1>1. PICK b \in SoundBlocks : b = stack[t][1] /\ b = Top(t) /\ Backed(b, Recorded)
  <2>1. Busy(t) /\ Len(stack[t]) = 1
    BY DEF ReturnThread
  <2> QED
    BY <2>1, TopBacked DEF CInv, Top
<1>2. Busy(t) /\ b.pc = "put" /\ b.goals \subseteq DOMAIN b.ws /\ UNCHANGED group
  BY <1>1 DEF ReturnThread, Finished, At
<1>3. b.goals \subseteq Recorded'
  BY <1>1, <1>2 DEF Backed, PutBacked, DepsKept
<1>4. \A p \in group : GoalsGiven(p) = b.goals
  BY <1>1, <1>2 DEF CInv, AInv, GivenInv
<1>5. stack' = [stack EXCEPT ![t] = <<>>] /\ stack \in [Threads -> Seq(SoundBlocks)]
  BY DEF ReturnThread, CInv, AInv, IInv
<1>6. \A u \in Threads \ {t} : Busy(u)' = Busy(u)
  BY <1>5 DEF Busy
<1> QED
  BY <1>2, <1>3, <1>4, <1>6 DEF CInv, GivenRecorded, DepsKept, GoalsGiven

\* No other step of a thread ends it, or changes the group.
LEMMA KeptRecords ==
    ASSUME CInv, NEW t \in Threads, Busy(t), GoalsKept(t), DepsKept
    PROVE  GivenRecorded'
<1>1. UNCHANGED group /\ \A u \in Threads : ~Busy(u)' => ~Busy(u)
  BY DEF GoalsKept, Busy
<1> QED
  BY <1>1 DEF CInv, GivenRecorded, DepsKept, GoalsGiven

LEMMA ThreadSteps ==
    ASSUME IInv, NEW t \in Threads, ThreadStep(t)
    PROVE  Busy(t) /\ (ReturnThread(t) \/ GoalsKept(t))
<1>1. Busy(t)
  BY DEF ThreadStep, RequestExternal, VisitSubspec, AwaitInternal,
         AnswerInternal, EndBatch, VisitGoal, GoalsVisited, DrainOutbox,
         ResolveRequest, OutboxDrained, SynthesizeSubblock, BeginStage, StageVisit,
         EndStage, BeginPut, PutTask, WriteBlock, ReturnSubblock, ReturnThread,
         SubblocksDone, At, InBatch
<1> QED
  BY <1>1, BatchStepKeeps, LoopStepKeeps, CallKeeps DEF ThreadStep

LEMMA InitContract == Init => CInv
<1> SUFFICES ASSUME Init PROVE CInv
  OBVIOUS
<1>1. group = {}
  BY DEF Init
<1> QED
  BY <1>1, InitAnswers, InitDeps DEF CInv, GivenRecorded

LEMMA NextContract == CInv /\ [Next \/ Terminating]_vars => CInv'
<1> SUFFICES ASSUME CInv, [Next \/ Terminating]_vars PROVE CInv'
  OBVIOUS
<1>1. AInv' /\ DepsKept /\ IInv
  BY NextAnswers, NextDeps DEF CInv, AInv
<1>2. CASE StartGroup
  <2>1. PICK p \in groups : /\ group' = {p} /\ groups' = groups \ {p}
                            /\ stack' = [t \in Threads |-> <<NewBlock(GoalsGiven(p))>>]
    BY <1>2 DEF StartGroup
  <2>2. \A t \in Threads : stack'[t] = <<NewBlock(GoalsGiven(p))>>
    BY <2>1
  <2>3. \A t \in Threads : Busy(t)'
    BY <2>2 DEF Busy
  <2> QED
    BY <1>1, <2>1, <2>3 DEF CInv, GivenRecorded, DepsKept
<1>3. CASE EndGroup
  <2>1. group' = {}
    BY <1>3 DEF EndGroup
  <2> QED
    BY <1>1, <2>1 DEF CInv, GivenRecorded, DepsKept
<1>4. ASSUME NEW t \in Threads, ThreadStep(t) PROVE CInv'
  <2>1. GivenRecorded' /\ UNCHANGED <<group, groups>>
    <3>1. Busy(t)
      BY <1>1, <1>4, ThreadSteps
    <3>2. CASE ReturnThread(t)
      BY <1>1, <3>2, ReturnRecords DEF ReturnThread
    <3>3. CASE GoalsKept(t)
      BY <1>1, <3>1, <3>3, KeptRecords DEF GoalsKept
    <3> QED
      BY <1>1, <1>4, <3>2, <3>3, ThreadSteps
  <2> QED
    BY <1>1, <2>1 DEF CInv, DepsKept
<1>5. CASE UNCHANGED vars
  <2>1. UNCHANGED <<group, groups>> /\ \A t \in Threads : Busy(t)' = Busy(t)
    BY <1>5 DEF vars, Busy
  <2>2. GivenRecorded'
    BY <1>1, <2>1 DEF CInv, GivenRecorded, DepsKept, GoalsGiven
  <2> QED
    BY <1>1, <2>1, <2>2 DEF CInv, DepsKept
<1> QED
  BY <1>2, <1>3, <1>4, <1>5 DEF Next, Driver, Terminating

\* A thread's step that answers no goal either leaves the database alone or is
\* one write of a put.
LEMMA ThreadContract ==
    ASSUME CInv, NEW t \in Threads, ThreadStep(t)
    PROVE  Contract!Record \/ UNCHANGED <<db, combined, OpenGoals>>
<1>1. UNCHANGED <<combined, group, groups>>
  <2>1. CASE ReturnThread(t)
    BY <2>1 DEF ReturnThread
  <2>2. CASE GoalsKept(t)
    BY <2>2 DEF GoalsKept
  <2> QED
    BY <2>1, <2>2, ThreadSteps DEF CInv, AInv
<1>2. UNCHANGED OpenGoals
  BY <1>1 DEF OpenGoals
<1>3. CASE WriteBlock(t)
  <2>1. PICK b \in SoundBlocks : b = Top(t)
    BY <1>3, TopSound DEF WriteBlock, At, CInv, AInv
  <2>2. PICK now \in SUBSET b.cells :
           /\ now # {}
           /\ db' = [s \in DOMAIN db \cup now |-> IF s \in now THEN b.res ELSE db[s]]
    BY <1>3, <2>1 DEF WriteBlock
  <2>3. b.cells \subseteq Specs /\ \A c \in b.cells : b.res \in Opt[c]
    BY DEF SoundBlocks, BlockType, BlockSound
  <2>4. b.res \in UNION {Opt[s] : s \in Specs}
    BY <2>2, <2>3
  <2>5. now \in SUBSET {s \in Specs : b.res \in Opt[s]}
    BY <2>3
  <2> QED
    BY <1>1, <1>2, <2>2, <2>4, <2>5 DEF Contract!Record, Contract!OptResults, OpenGoals
<1>4. CASE ~WriteBlock(t)
  <2>1. UNCHANGED db
    BY <1>4 DEF ThreadStep, RequestExternal, VisitSubspec, AwaitInternal,
         AnswerInternal, EndBatch, VisitGoal, GoalsVisited, DrainOutbox,
         ResolveRequest, OutboxDrained, SynthesizeSubblock, BeginStage, StageVisit,
         EndStage, BeginPut, PutTask, ReturnSubblock, ReturnThread
  <2> QED
    BY <1>1, <1>2, <2>1
<1> QED
  BY <1>3, <1>4

\* The end of a group answers its goals, all of which the database has recorded.
LEMMA EndContract ==
    ASSUME CInv, Paired, EndGroup
    PROVE  Contract!Answer
<1>1. PICK p \in group : combined' = [i \in DOMAIN Goals |->
                         IF PageOf[Goals[i]] = p
                         THEN returned[ThreadCount - 1][ZippedGoal(p, i)]
                         ELSE combined[i]]
  BY DEF EndGroup
<1>2. group' = {} /\ UNCHANGED <<db, groups>> /\ \A t \in Threads : ~Busy(t)
  BY DEF EndGroup
<1>3. group = {p} /\ p \notin groups
  BY <1>1 DEF CInv, AInv
<1>4. ThreadCount - 1 \in Threads
  BY GoalsAssumption DEF Threads
<1> DEFINE now == {i \in DOMAIN Goals : PageOf[Goals[i]] = p}
<1>5. Recorded = DOMAIN db
  BY <1>2 DEF Recorded, Writing
<1>6. ASSUME NEW i \in now PROVE Goals[i] \in DOMAIN db /\ combined'[i] \in Opt[Goals[i]]
  <2>1. ZippedGoal(p, i) = Goals[i] /\ Goals[i] \in GoalsGiven(p)
    BY <1>6, ZippedGiven
  <2>2. returned[ThreadCount - 1][Goals[i]] \in Opt[Goals[i]]
    BY <1>1, <1>2, <1>4, <2>1 DEF CInv, AInv, GivenInv
  <2>3. Goals[i] \in DOMAIN db
    BY <1>1, <1>2, <1>4, <1>5, <2>1 DEF CInv, GivenRecorded
  <2> QED
    BY <1>1, <1>6, <2>1, <2>2, <2>3
<1>8. now \in SUBSET OpenGoals /\ OpenGoals' = OpenGoals \ now
  BY <1>2, <1>3 DEF OpenGoals
\* What the other indices are given does not matter.
<1>9. PICK given : given = [i \in DOMAIN Goals |-> IF i \in now THEN combined'[i]
                                                 ELSE CHOOSE r \in Opt[Goals[i]] : TRUE]
  OBVIOUS
<1>10. \A i \in DOMAIN Goals : given[i] \in Opt[Goals[i]] /\ Goals[i] \in Specs
  BY <1>6, <1>9, GoalFacts, OptCost
<1>11. given \in [DOMAIN Goals -> UNION {Opt[s] : s \in Specs}]
  BY <1>9, <1>10
<1>12. combined' = [i \in DOMAIN Goals |-> IF i \in now THEN given[i] ELSE combined[i]]
  BY <1>1, <1>9
<1> HIDE DEF now
<1> QED
  BY <1>2, <1>6, <1>8, <1>10, <1>11, <1>12 DEF Contract!Answer, Contract!OptResults, OpenGoals

\* top_down_many keeps its contract: it only ever puts results of least main cost
\* into the database, and answers each goal once, with such a result, after the
\* database has recorded one.  (That every goal is answered in the end is left to TLC.)
THEOREM KeepsContract ==
    ASSUME Paired
    PROVE  Spec => Contract!Safety
<1>1. Init => Contract!Init
  <2> SUFFICES ASSUME Init PROVE Contract!Init
    OBVIOUS
  <2>1. DOMAIN db = {} /\ DOMAIN combined = DOMAIN Goals
    BY DEF Init, EmptyFunction
  <2>2. OpenGoals = DOMAIN Goals
    BY DEF Init, OpenGoals, GoalSet
  <2> QED
    BY <2>1, <2>2 DEF Contract!Init, OpenGoals
<1>2. CInv /\ [Next \/ Terminating]_vars => [Contract!Next]_<<db, combined, OpenGoals>>
  <2> SUFFICES ASSUME CInv, [Next \/ Terminating]_vars
               PROVE  Contract!Next \/ UNCHANGED <<db, combined, OpenGoals>>
    OBVIOUS
  <2>1. CASE StartGroup
    <3>1. groups' \cup group' = groups \cup group /\ UNCHANGED <<db, combined>>
      BY <2>1 DEF StartGroup
    <3> QED
      BY <3>1 DEF OpenGoals
  <2>2. CASE EndGroup
    BY <2>2, EndContract DEF Contract!Next
  <2>3. ASSUME NEW t \in Threads, ThreadStep(t)
        PROVE  Contract!Next \/ UNCHANGED <<db, combined, OpenGoals>>
    BY <2>3, ThreadContract DEF Contract!Next
  <2>4. CASE UNCHANGED vars
    BY <2>4 DEF vars, OpenGoals
  <2> QED
    BY <2>1, <2>2, <2>3, <2>4 DEF Next, Driver, Terminating
<1>3. CInv /\ [Next \/ Terminating]_vars =>
         [Contract!Next]_<<db, combined, {i \in DOMAIN Goals : PageOf[Goals[i]] \in groups \cup group}>>
  BY <1>2 DEF OpenGoals
<1> QED
  BY <1>1, <1>3, InitContract, NextContract, PTL DEF Spec, Contract!Safety
=============================================================================
