---------------------------- MODULE SynthSearch ----------------------------
(***************************************************************************)
(* The top-down search of morello/src/search.rs: top_down_many runs, for   *)
(* every group of goals, one call of BlockSearch::synthesize on each       *)
(* thread; all threads share one database.                                 *)
(*                                                                         *)
(* A thread's state is its stack of BlockSearches (synthesize calls itself *)
(* for the sub-Specs that live on another database page).  The only shared *)
(* state is `db`, here an atomic store: a get reads one cell, a put writes *)
(* the cells it fills one database block at a time.                        *)
(***************************************************************************)
EXTENDS SynthTask

CONSTANTS
    Pages, PageOf,      \* [Specs -> Pages]: (table key, superblock) of a Spec
    BlockOf,            \* [Specs -> block]: the unit one write of put covers
    Fill(_, _),         \* the Specs for which put(s, result), of this cost, records it
    Goals,              \* the sequence of goals of top_down_many
    ThreadCount

Threads == 0..ThreadCount - 1
GoalSet == {Goals[i] : i \in DOMAIN Goals}

ASSUME PagesAssumption == PageOf \in [Specs -> Pages]

\* What put assumes of the Specs between an Impl's peaks and the limits it was
\* searched with: no Impl of theirs has a lower main cost.
ASSUME FillAssumption ==
    \A s \in Specs : \A r \in Opt[s] :
        /\ s \in Fill(s, r.cost)
        /\ Fill(s, r.cost) \subseteq Specs
        /\ \A c \in Fill(s, r.cost) : r \in Opt[c]

\* The box of limits from those Specs' down to the Impl's peaks is part of the first,
\* and their sub-Specs are among those for which the put of the Impl's sub-Spec
\* recorded its own result (of memory limits, BoxOfSubSpecs in MemoryPlan).
ASSUME FillClosedAssumption ==
    \A s \in Specs :
        /\ \A r \in Opt[s] : \A c \in Fill(s, r.cost) : Fill(c, r.cost) \subseteq Fill(s, r.cost)
        /\ \A a \in Acts(s) : \A f \in Choices(s, a) : Impl(s, a, f) \in Opt[s] =>
              \A c \in Fill(s, ImplCost(s, a, f)) :
                  /\ Slots(c, a) = Slots(s, a)
                  /\ \A j \in Slots(s, a) : Subs(c, a)[j] \in Fill(Subs(s, a)[j], f[j])

ASSUME GoalsAssumption ==
    /\ ThreadCount \in Nat \ {0}
    /\ Goals \in Seq(Specs)
    /\ \A i, k \in DOMAIN Goals : Goals[i] = Goals[k] => i = k

VARIABLES
    db,         \* the cells filled so far: a function from some Specs to Results
    stack,      \* [Threads -> sequence of BlockSearches], the last one active
    returned,   \* [Threads -> what the thread's outermost synthesize returned]
    groups,     \* the pages whose goals have not been searched yet
    group,      \* {p} while the goals on page p are being searched, else {}
    combined    \* combined_results of top_down_many

vars == <<db, stack, returned, groups, group, combined>>

-----------------------------------------------------------------------------
(* Blocks.                                                                 *)

Handles == [spec : Specs, action : Nat, child : Nat]
SubOf(h) == Subs(h.spec, h.action)[h.child]

EmptyFunction == [x \in {} |-> NoImpl]
Extend(f, x, v) == [y \in DOMAIN f \cup {x} |-> IF y = x THEN v ELSE f[y]]
NoRequests == [s \in Specs |-> {}]

\* `internal` is working_block_requests, `external` is subblock_requests (its
\* maps are the restrictions of `external` to one page), `frames` the pending
\* visit_next_request_batch calls, `deliv` the handles inner_resolve_request
\* still has to resolve, `cells` and `res` the put in progress.
NewBlock(goals) ==
    [pc |-> "goals", goals |-> goals, todo |-> goals, ws |-> EmptyFunction,
     running |-> 0, internal |-> NoRequests, external |-> NoRequests,
     visited |-> {}, outbox |-> {}, frames |-> <<>>, deliv |-> {},
     cells |-> {}, res |-> NoImpl]

Busy(t) == stack[t] # <<>>
Top(t) == stack[t][Len(stack[t])]
Front(q) == SubSeq(q, 1, Len(q) - 1)
RunningTasks(b) == {s \in DOMAIN b.ws : b.ws[s].running}
Deliveries(hs, cost) == {[h |-> h, cost |-> cost] : h \in hs}

\* get_task_internal: the working set's task, or the database's answer, or a
\* new task.
GetTask(b, s) ==
    LET task == IF s \in DOMAIN db THEN Complete(s, db[s], TRUE) ELSE Start(s)
    IN  IF s \in DOMAIN b.ws THEN b
        ELSE [b EXCEPT !.ws = Extend(@, s, task),
                       !.running = IF task.running THEN @ + 1 ELSE @]

\* Faulty: the count of returned batches is not advanced.
PushBatchAgain(b, s) ==
    LET k == b.ws[s].batches + 1
    IN  IF ~HasNextBatch(s, b.ws[s]) THEN b
        ELSE [b EXCEPT !.frames = Append(@, [spec |-> s, child |-> k,
                                             left |-> BatchActions(s, b.ws[s], k)])]

\* visit_next_request_batch up to its loop, which the frame stands for.
PushBatch(b, s) ==
    LET k == b.ws[s].batches + 1
    IN  IF ~HasNextBatch(s, b.ws[s]) THEN b
        ELSE [b EXCEPT !.ws[s].batches = k,
                       !.frames = Append(@, [spec |-> s, child |-> k,
                                             left |-> BatchActions(s, b.ws[s], k)])]

\* visit_spec_internal.
VisitSpec(b, s) ==
    IF s \in b.visited THEN GetTask(b, s)
    ELSE PushBatch([GetTask(b, s) EXCEPT !.visited = @ \cup {s}], s)

\* The position of action a in thread t's order: start() begins at
\* initial_skip, a different action on each thread, and wraps around.
Turn(t, s, a) ==
    LET n == Len(ActionsOf[s]) IN (a - 1 + n - (t * n) \div ThreadCount) % n

\* Update b with the outcome of resolving handle h, whose requester is running.
\* A requester that becomes complete is announced as `announce` says.
ResolveHandle(b, h, cost) ==
    LET task == Resolve(h.spec, b.ws[h.spec], h.action, h.child, cost)
    IN  [b EXCEPT !.ws[h.spec] = task,
                  !.running = IF task.running THEN @ ELSE @ - 1]

\* Faulty: a requester that is already complete is resolved all the same.
DeliverToComplete(b, h, cost) ==
    LET after == ResolveHandle(b, h, cost)
    IN  IF h.spec \notin DOMAIN b.ws THEN b
        ELSE IF after.ws[h.spec].running THEN after
        ELSE [after EXCEPT !.deliv = @ \cup Deliveries(b.internal[h.spec],
                                                       after.ws[h.spec].best.cost),
                           !.internal[h.spec] = {}]

\* Faulty: the handles that wait for a completed requester are forgotten.
DeliverToOnly(b, h, cost) ==
    IF h.spec \notin RunningTasks(b) THEN b ELSE ResolveHandle(b, h, cost)

\* inner_resolve_request for one handle: a requester that is gone or already
\* complete is skipped; one that completes has its own handles resolved next.
DeliverTo(b, h, cost) ==
    LET after == ResolveHandle(b, h, cost)
    IN  IF h.spec \notin RunningTasks(b) THEN b
        ELSE IF after.ws[h.spec].running THEN after
        ELSE [after EXCEPT
                !.deliv = @ \cup Deliveries(b.internal[h.spec],
                                            after.ws[h.spec].best.cost),
                !.internal[h.spec] = {}]

-----------------------------------------------------------------------------
Init ==
    /\ db = EmptyFunction
    /\ stack = [t \in Threads |-> <<>>]
    /\ returned = [t \in Threads |-> EmptyFunction]
    /\ groups = {PageOf[g] : g \in GoalSet}
    /\ group = {}
    /\ combined = [i \in DOMAIN Goals |-> NoImpl]

\* Thread t replaces its active block and leaves the driver's state alone.
SetTop(t, b) ==
    /\ stack' = [stack EXCEPT ![t] = Append(Front(@), b)]
    /\ UNCHANGED <<returned, groups, group, combined>>

At(t, pc) == Busy(t) /\ Top(t).pc = pc /\ Top(t).frames = <<>>

\* The initial loop of synthesize over its goals.
VisitGoal(t) ==
    /\ At(t, "goals")
    /\ \E g \in Top(t).todo :
          SetTop(t, VisitSpec([Top(t) EXCEPT !.todo = @ \ {g}], g))
    /\ UNCHANGED db

GoalsVisited(t) ==
    /\ At(t, "goals") /\ Top(t).todo = {}
    /\ SetTop(t, [Top(t) EXCEPT !.pc = "drain"])
    /\ UNCHANGED db

-----------------------------------------------------------------------------
(* The loop of visit_next_request_batch: one request of the batch at a     *)
(* time, in thread t's order.                                              *)

Frame(t) == Top(t).frames[Len(Top(t).frames)]
InBatch(t) == Busy(t) /\ Top(t).frames # <<>>

IsNext(t, a) ==
    /\ a \in Frame(t).left
    /\ \A c \in Frame(t).left : Turn(t, Frame(t).spec, a) <= Turn(t, Frame(t).spec, c)

HandleAt(t, a) == [spec |-> Frame(t).spec, action |-> a, child |-> Frame(t).child]
IsInternal(h) == PageOf[SubOf(h)] = PageOf[h.spec]

\* The active block once action a's request has been dealt with.
Handled(t, a) == [Top(t) EXCEPT !.frames[Len(Top(t).frames)].left = @ \ {a}]

\* add_request_mapping_external.
RequestExternal(t) ==
    /\ InBatch(t)
    /\ \E a \in Frame(t).left : LET h == HandleAt(t, a) IN
          /\ IsNext(t, a) /\ ~IsInternal(h)
          /\ SetTop(t, [Handled(t, a) EXCEPT !.external[SubOf(h)] = @ \cup {h}])
    /\ UNCHANGED db

\* The recursive visit_spec_internal, before its result is looked at.  (When
\* the sub-Spec was visited in this stage already, the call changes nothing.)
VisitSubspec(t) ==
    /\ InBatch(t)
    /\ \E a \in Frame(t).left : LET h == HandleAt(t, a) IN
          /\ IsNext(t, a) /\ IsInternal(h) /\ SubOf(h) \notin Top(t).visited
          /\ SetTop(t, VisitSpec(Top(t), SubOf(h)))
    /\ UNCHANGED db

\* add_request_mapping_internal: the sub-Spec is still running.
AwaitInternal(t) ==
    /\ InBatch(t)
    /\ \E a \in Frame(t).left : LET h == HandleAt(t, a) IN
          /\ IsNext(t, a) /\ IsInternal(h)
          /\ SubOf(h) \in Top(t).visited \cap RunningTasks(Top(t))
          /\ SetTop(t, [Handled(t, a) EXCEPT !.internal[SubOf(h)] = @ \cup {h}])
    /\ UNCHANGED db

\* Faulty: every requester that is answered goes to the outbox.
AnswerInternalAnnounced(t) ==
    /\ InBatch(t)
    /\ \E a \in Frame(t).left :
          LET h == HandleAt(t, a)
              b == ResolveHandle(Handled(t, a), h, Top(t).ws[SubOf(h)].best.cost)
          IN  /\ IsNext(t, a) /\ IsInternal(h)
              /\ SubOf(h) \in (Top(t).visited \cap DOMAIN Top(t).ws) \ RunningTasks(Top(t))
              /\ h.spec \in RunningTasks(Top(t))
              /\ SetTop(t, [b EXCEPT !.outbox = @ \cup {h.spec}])
    /\ UNCHANGED db

\* The sub-Spec is complete: resolve at once; a requester that completes is
\* put in the outbox, since tasks further up the call stack are borrowed.
AnswerInternal(t) ==
    /\ InBatch(t)
    /\ \E a \in Frame(t).left :
          LET h == HandleAt(t, a)
              s == h.spec
              b == ResolveHandle(Handled(t, a), h, Top(t).ws[SubOf(h)].best.cost)
          IN  /\ IsNext(t, a) /\ IsInternal(h)
              /\ SubOf(h) \in (Top(t).visited \cap DOMAIN Top(t).ws) \ RunningTasks(Top(t))
              /\ s \in RunningTasks(Top(t))
              /\ SetTop(t, [b EXCEPT !.outbox = IF b.ws[s].running THEN @ ELSE @ \cup {s}])
    /\ UNCHANGED db

\* The batch is done: return to the caller.
EndBatch(t) ==
    /\ InBatch(t) /\ Frame(t).left = {}
    /\ SetTop(t, [Top(t) EXCEPT !.frames = Front(@)])
    /\ UNCHANGED db

-----------------------------------------------------------------------------
(* The main loop of synthesize.                                            *)

\* resolve_request_internal for an entry of the outbox.
DrainOutbox(t) ==
    /\ At(t, "drain") /\ Top(t).deliv = {}
    /\ \E s \in Top(t).outbox :
          SetTop(t, [Top(t) EXCEPT
                       !.outbox = @ \ {s},
                       !.internal[s] = {},
                       !.deliv = Deliveries(Top(t).internal[s], Top(t).ws[s].best.cost)])
    /\ UNCHANGED db

\* inner_resolve_request, one handle of the Vec at a time.
ResolveRequest(t) ==
    /\ Busy(t)
    /\ \E d \in Top(t).deliv :
          SetTop(t, DeliverTo([Top(t) EXCEPT !.deliv = @ \ {d}], d.h, d.cost))
    /\ UNCHANGED db

\* Faulty: the outbox is not emptied first.
OutboxSkipped(t) ==
    /\ At(t, "drain")
    /\ SetTop(t, [Top(t) EXCEPT !.pc = "sub"])
    /\ UNCHANGED db

\* The outbox is empty: look at the requests for other pages.
OutboxDrained(t) ==
    /\ At(t, "drain") /\ Top(t).outbox = {} /\ Top(t).deliv = {}
    /\ SetTop(t, [Top(t) EXCEPT !.pc = "sub"])
    /\ UNCHANGED db

Requested(b) == {s \in Specs : b.external[s] # {}}

\* synthesize calls itself for the requested sub-Specs of one other page.
SynthesizeSubblock(t) ==
    /\ At(t, "sub") /\ Top(t).deliv = {}
    /\ \E p \in Pages : LET keys == {s \in Requested(Top(t)) : PageOf[s] = p} IN
          /\ keys # {}
          /\ stack' = [stack EXCEPT ![t] = Append(@, NewBlock(keys))]
    /\ UNCHANGED <<db, returned, groups, group, combined>>

SubblocksDone(t) == At(t, "sub") /\ Top(t).deliv = {} /\ Requested(Top(t)) = {}

\* The next stage visits every task that is running when the stage begins.
BeginStage(t) ==
    /\ SubblocksDone(t) /\ Top(t).running # 0
    /\ SetTop(t, [Top(t) EXCEPT !.pc = "stage", !.visited = {},
                                !.todo = RunningTasks(Top(t))])
    /\ UNCHANGED db

StageVisit(t) ==
    /\ At(t, "stage")
    /\ \E s \in Top(t).todo : SetTop(t, PushBatch([Top(t) EXCEPT !.todo = @ \ {s}], s))
    /\ UNCHANGED db

EndStage(t) ==
    /\ At(t, "stage") /\ Top(t).todo = {}
    /\ SetTop(t, [Top(t) EXCEPT !.pc = "drain"])
    /\ UNCHANGED db

-----------------------------------------------------------------------------
(* The end of synthesize: put every result that is not from the database,  *)
(* the goals' first, and return the goals' results.                        *)

BeginPut(t) ==
    /\ SubblocksDone(t) /\ Top(t).running = 0
    /\ SetTop(t, [Top(t) EXCEPT !.pc = "put", !.todo = DOMAIN Top(t).ws])
    /\ UNCHANGED db

\* Faulty: what is left in the working set is not put.
PutGoalsOnly(t) ==
    /\ At(t, "put") /\ Top(t).cells = {}
    /\ \E s \in Top(t).todo : LET task == Top(t).ws[s] IN
          /\ ~task.running
          /\ SetTop(t, [Top(t) EXCEPT
                          !.todo = @ \ {s},
                          !.res = task.best,
                          !.cells = IF task.fromDb \/ s \notin Top(t).goals
                                    THEN {} ELSE Fill(s, task.best.cost)])
    /\ UNCHANGED db

\* Faulty: a put fills the limits below the Impl's peaks too.
PutBelowPeaks(t) ==
    /\ At(t, "put") /\ Top(t).cells = {}
    /\ \E s \in Top(t).todo : LET task == Top(t).ws[s] IN
          /\ s \in Top(t).goals \/ Top(t).todo \cap Top(t).goals = {}
          /\ ~task.running
          /\ SetTop(t, [Top(t) EXCEPT
                          !.todo = @ \ {s},
                          !.res = task.best,
                          !.cells = IF task.fromDb THEN {} ELSE Fill(s, None)])
    /\ UNCHANGED db

\* Put one task's result: the goals' tasks come first.
PutTask(t) ==
    /\ At(t, "put") /\ Top(t).cells = {}
    /\ \E s \in Top(t).todo : LET task == Top(t).ws[s] IN
          /\ s \in Top(t).goals \/ Top(t).todo \cap Top(t).goals = {}
          /\ ~task.running
          /\ SetTop(t, [Top(t) EXCEPT
                          !.todo = @ \ {s},
                          !.res = task.best,
                          !.cells = IF task.fromDb THEN {} ELSE Fill(s, task.best.cost)])
    /\ UNCHANGED db

\* Faulty: the block is made anew, with the cells of this put only.
WriteNewBlock(t) ==
    /\ At(t, "put")
    /\ \E c \in Top(t).cells :
          LET now  == {d \in Top(t).cells : BlockOf[d] = BlockOf[c]}
              rest == {s \in DOMAIN db : BlockOf[s] # BlockOf[c]} IN
          /\ db' = [s \in rest \cup now |-> IF s \in now THEN Top(t).res ELSE db[s]]
          /\ SetTop(t, [Top(t) EXCEPT !.cells = @ \ now])

\* put_range_to_fill locks and fills one database block at a time.
WriteBlock(t) ==
    /\ At(t, "put")
    /\ \E c \in Top(t).cells :
          LET now == {d \in Top(t).cells : BlockOf[d] = BlockOf[c]} IN
          /\ db' = [s \in DOMAIN db \cup now |-> IF s \in now THEN Top(t).res ELSE db[s]]
          /\ SetTop(t, [Top(t) EXCEPT !.cells = @ \ now])

Finished(t) ==
    /\ At(t, "put") /\ Top(t).todo = {} /\ Top(t).cells = {}
    /\ \A g \in Top(t).goals : g \in DOMAIN Top(t).ws /\ ~Top(t).ws[g].running

\* A nested synthesize returns: resolve_request_external for each of its goals.
ReturnSubblock(t) ==
    /\ Busy(t) /\ Len(stack[t]) > 1 /\ Finished(t)
    /\ LET child  == Top(t)
           parent == stack[t][Len(stack[t]) - 1]
           after  == [parent EXCEPT
                        !.external = [s \in Specs |-> IF s \in child.goals THEN {} ELSE @[s]],
                        !.deliv = UNION {Deliveries(parent.external[g], child.ws[g].best.cost) :
                                         g \in child.goals}]
       IN  stack' = [stack EXCEPT ![t] = Append(Front(Front(@)), after)]
    /\ UNCHANGED <<db, returned, groups, group, combined>>

\* The outermost synthesize returns to top_down_many.
ReturnThread(t) ==
    /\ Busy(t) /\ Len(stack[t]) = 1 /\ Finished(t)
    /\ returned' = [returned EXCEPT ![t] = [g \in Top(t).goals |-> Top(t).ws[g].best]]
    /\ stack' = [stack EXCEPT ![t] = <<>>]
    /\ UNCHANGED <<db, groups, group, combined>>

-----------------------------------------------------------------------------
(* top_down_many.                                                          *)

\* The goals one thread is given: the group when there is one thread, all the
\* canonical goals otherwise.
GoalsGiven(p) ==
    IF ThreadCount = 1 THEN {g \in GoalSet : PageOf[g] = p} ELSE GoalSet

\* The goal whose result `result.into_iter().zip(page_group)` pairs with index
\* i: the k-th of the goals given, i being the k-th index of page p's group.
ZippedGoal(p, i) ==
    LET k == Cardinality({j \in DOMAIN Goals : j <= i /\ PageOf[Goals[j]] = p})
    IN  IF ThreadCount = 1 THEN Goals[i] ELSE Goals[k]

StartGroup ==
    /\ group = {}
    /\ \E p \in groups :
          /\ group' = {p}
          /\ groups' = groups \ {p}
          /\ stack' = [t \in Threads |-> <<NewBlock(GoalsGiven(p))>>]
    /\ UNCHANGED <<db, returned, combined>>

\* The last thread's results are combined.
EndGroup ==
    /\ \A t \in Threads : ~Busy(t)
    /\ \E p \in group :
          combined' = [i \in DOMAIN Goals |->
                         IF PageOf[Goals[i]] = p
                         THEN returned[ThreadCount - 1][ZippedGoal(p, i)]
                         ELSE combined[i]]
    /\ group' = {}
    /\ UNCHANGED <<db, stack, returned, groups>>

ThreadStep(t) ==
    \/ VisitGoal(t) \/ GoalsVisited(t)
    \/ RequestExternal(t) \/ VisitSubspec(t) \/ AwaitInternal(t) \/ AnswerInternal(t)
    \/ EndBatch(t)
    \/ DrainOutbox(t) \/ ResolveRequest(t) \/ OutboxDrained(t)
    \/ SynthesizeSubblock(t) \/ BeginStage(t) \/ StageVisit(t) \/ EndStage(t)
    \/ BeginPut(t) \/ PutTask(t) \/ WriteBlock(t)
    \/ ReturnSubblock(t) \/ ReturnThread(t)

Driver == StartGroup \/ EndGroup

Next == Driver \/ \E t \in Threads : ThreadStep(t)

\* top_down_many has returned: nothing is left to do.
Done == groups = {} /\ group = {}

Terminating == Done /\ UNCHANGED vars

Spec == Init /\ [][Next \/ Terminating]_vars

\* The driver and every thread keep running: no thread waits for another.
Fairness == WF_vars(Driver) /\ \A t \in Threads : WF_vars(ThreadStep(t))
FairSpec == Spec /\ Fairness
-----------------------------------------------------------------------------
(* Properties.                                                             *)

Blocks(t) == {stack[t][i] : i \in DOMAIN stack[t]}
AllBlocks == UNION {Blocks(t) : t \in Threads}

BlockOK(b) ==
    /\ b.pc \in {"goals", "drain", "sub", "stage", "put"}
    /\ b.goals \subseteq Specs /\ b.todo \subseteq Specs /\ b.visited \subseteq Specs
    /\ b.cells \subseteq Specs /\ b.res \in Results /\ b.running \in Int
    /\ DOMAIN b.ws \subseteq Specs
    /\ \A s \in DOMAIN b.ws : b.ws[s] \in TaskOf(s)
    /\ \A s \in Specs : \A h \in b.internal[s] \cup b.external[s] : SubOf(h) = s
    /\ b.outbox \subseteq DOMAIN b.ws \ RunningTasks(b)
    /\ \A d \in b.deliv : d.cost \in Nat \cup {None}
    /\ \A i \in DOMAIN b.frames : b.frames[i].spec \in DOMAIN b.ws

\* Types of the state; in particular a handle is filed under the sub-Spec it
\* asks for, and only complete tasks are in an outbox.
TypeOK ==
    /\ DOMAIN db \subseteq Specs /\ \A s \in DOMAIN db : db[s] \in Results
    /\ groups \subseteq Pages /\ group \subseteq Pages
    /\ combined \in [DOMAIN Goals -> Results]
    /\ \A t \in Threads : \A b \in Blocks(t) : BlockOK(b)

\* Everything the database holds is of least main cost, whatever the threads'
\* interleaving and however far their puts have got (search.rs:85, "Computes an
\* optimal Impl for `goal` and stores it in `db`").
DbSound == \A s \in DOMAIN db : db[s] \in Opt[s]

\* No thread is about to panic: resolve_request is only called on a running
\* task, never for a Sat partial Impl nor for a slot that is filled; a task
\* borrowed by a visit is not visited again; synthesize's unreachable!s are.
NoPanic ==
    \A t \in Threads : Busy(t) => LET b == Top(t) IN
        /\ \A d \in b.deliv :
              d.h.spec \in RunningTasks(b) =>
                  ~ResolvePanics(b.ws[d.h.spec], d.h.action, d.h.child, d.cost)
        /\ InBatch(t) => \A a \in Frame(t).left :
              LET h == HandleAt(t, a) IN IsInternal(h) =>
                  /\ SubOf(h) \in b.visited => SubOf(h) \in DOMAIN b.ws
                  /\ \A i \in DOMAIN b.frames : b.frames[i].spec # SubOf(h)
                  /\ SubOf(h) \in DOMAIN b.ws \ RunningTasks(b) =>
                       ~ResolvePanics(b.ws[h.spec], h.action, h.child,
                                      b.ws[SubOf(h)].best.cost)
        /\ b.pc = "put" => b.todo \cap RunningTasks(b) = {}

\* working_set_running is the number of running tasks (the debug_assert_eq of
\* synthesize): the loop neither ends early nor spins.
RunningCount == \A b \in AllBlocks : b.running = Cardinality(RunningTasks(b))

\* Where the request h of block b waits for its answer.
Waiting(b, h) ==
    \/ h \in b.internal[SubOf(h)] /\ SubOf(h) \in RunningTasks(b) \cup b.outbox
    \/ h \in b.external[SubOf(h)]
    \/ \E d \in b.deliv : d.h = h
    \/ \E i \in DOMAIN b.frames : /\ b.frames[i].spec = h.spec
                                  /\ b.frames[i].child = h.child
                                  /\ h.action \in b.frames[i].left

\* No request is lost: every unfilled slot that a returned batch asked for is
\* on its way, in a queue whose sub-Spec is still being computed or whose
\* answer is being handed out.
NoLostRequest ==
    \A b \in AllBlocks : \A s \in RunningTasks(b) :
        \A a \in Constructing(s, b.ws[s].parts) : \A j \in Slots(s, a) :
            (j <= b.ws[s].batches /\ b.ws[s].costs[a][j] = None)
                => Waiting(b, [spec |-> s, action |-> a, child |-> j])

\* When synthesize starts to put its results it owes nobody an answer (its two
\* debug_asserts that the request maps are empty).
DrainedAtEnd ==
    \A b \in AllBlocks : b.pc = "put" =>
        /\ b.internal = NoRequests /\ b.external = NoRequests
        /\ b.outbox = {} /\ b.deliv = {}

\* The cells that the puts of block b have still to write.
Unwritten(b) ==
    b.cells \cup UNION {Fill(s, b.ws[s].best.cost) :
                          s \in {u \in b.todo : ~b.ws[u].fromDb}}

\* Every sub-Spec of an implementation the database records is recorded too,
\* or is about to be by a put under way: what FilesDatabase::get_impl expects
\* ("Database should have the sub-Spec entry").
DependenciesRecorded ==
    \A s \in DOMAIN db : db[s] # NoImpl =>
        \A j \in Slots(s, db[s].action) : LET c == Subs(s, db[s].action)[j] IN
            \/ c \in DOMAIN db /\ db[c] # NoImpl
            \/ \E b \in AllBlocks : b.pc = "put" /\ c \in Unwritten(b)

\* top_down_many returns a result of least main cost for each goal, at its index.
ResultsOptimal == Done => \A i \in DOMAIN Goals : combined[i] \in Opt[Goals[i]]

SameMain(x, y) == IF x = NoImpl THEN y = NoImpl
                  ELSE y # NoImpl /\ Main(x.cost) = Main(y.cost)

\* A filled cell is never emptied, and what it says of its Spec's main cost never
\* changes, although threads put the same Specs and a put for looser limits
\* overwrites cells of tighter ones (db.rs:1155), perhaps by another action.
MainCostsAreFinal ==
    [][\A s \in DOMAIN db : s \in DOMAIN db' /\ SameMain(db[s], db'[s])]_vars

\* The search ends: every stage answers or issues a request, no task waits for
\* an answer that never comes.
Terminates == <>Done

\* The search keeps its contract: see SynthContract.
Contract == INSTANCE SynthContract WITH
    answer <- combined,
    open <- {i \in DOMAIN Goals : PageOf[Goals[i]] \in groups \cup group}
ImplementsContract == Contract!Spec
=============================================================================
