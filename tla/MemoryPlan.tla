----------------------------- MODULE MemoryPlan -----------------------------
(***************************************************************************)
(* Memory limits, peaks and costs (morello/src/memorylimits.rs, cost.rs,   *)
(* imp/*.rs, and what scheduling.rs does with limits): which optimum a     *)
(* Spec has under each limit, given those of its sub-Specs.                *)
(*                                                                         *)
(* A Spec is its logical part and its limits.  The logical Specs are       *)
(* planned one after the other, in an order in which the sub-Specs of an   *)
(* Impl come before it; a Spec's Impls are any of the Impls on offer.  So  *)
(* the states are all the small programs there are, whatever the Specs are. *)
(*                                                                         *)
(* Limits and peaks are binary-scaled, as in a MemVec: 0 is 0 bytes and    *)
(* n > 0 is 2^(n-1) bytes.  Allocations are in bytes.                      *)
(***************************************************************************)
EXTENDS Integers, Sequences, FiniteSetsExt

CONSTANTS
    SizeBits,       \* the width of a size in bytes: 64, a u64's, in the code
    LevelMax,       \* sequence: the target's memory per level, binary-scaled
    Kernels,        \* the main costs of kernels
    Loops,          \* [steps, overhead] of loops; the overhead of a parallel loop
    Moves,          \* [level, bytes, main, subs] of moves: with how many sub-Specs
    Blocks,         \* whether Impls may be Blocks, of two stages as ToAccum's
    MaxSpecs,       \* bound on the number of logical Specs
    MaxImpls,       \* bound on the number of a Spec's Impls
    MainMax,        \* u32::MAX
    None            \* no Impl

Levels == 1..Len(LevelMax)
Scales == 0..SizeBits
Limits == {m \in [Levels -> Scales] : \A l \in Levels : m[l] <= LevelMax[l]}

\* MemVec's le.
Within(m, n) == \A l \in Levels : m[l] <= n[l]

PowerOfTwo[n \in Scales] == IF n = 0 THEN 1 ELSE 2 * PowerOfTwo[n - 1]
Bytes(bits) == IF bits = 0 THEN 0 ELSE PowerOfTwo[bits - 1]
PrevPowerOfTwo(bytes) == Max({n \in Scales : Bytes(n) <= bytes})
NextBinaryPower(bytes) == Min({n \in Scales : Bytes(n) >= bytes})

\* A cost, and what is kept of a solved Spec: the Impl chosen, and its cost.
Costs == [main : 0..MainMax, peaks : [Levels -> Scales], depth : 0..255]
Solutions == [impl : Nat, cost : Costs]

VARIABLES
    impls,      \* sequence: the Impls of each logical Spec
    solved      \* sequence: of each, [Limits -> the optimum or None]

vars == <<impls, solved>>

ASSUME MemoryPlanAssumption ==
    /\ SizeBits \in Nat /\ LevelMax \in Seq(Scales) /\ MainMax \in Nat
    /\ \A k \in Kernels : k \in 0..MainMax
    /\ \A lp \in Loops : lp.steps \in Nat \ {0} /\ lp.overhead \in Nat
    /\ \A mv \in Moves : /\ mv.level \in Levels /\ mv.bytes \in Nat \ {0}
                         /\ mv.main \in 0..MainMax /\ mv.subs \in Nat \ {0}
    /\ None \notin Solutions

-----------------------------------------------------------------------------
(* An Impl: its kind, its sub-Specs, its own main cost, the steps and the  *)
(* overhead of a loop, and the bytes it allocates per level.               *)

Nothing == [l \in Levels |-> 0]
Impl(kind, subs, main, steps, overhead, alloc) ==
    [kind |-> kind, subs |-> subs, main |-> main, steps |-> steps,
     overhead |-> overhead, alloc |-> alloc]

\* The Impls on offer for the next logical Spec, over those planned.
Offer(planned) ==
    {Impl("kernel", <<>>, k, 1, 0, Nothing) : k \in Kernels}
    \cup (UNION {{Impl("loop", <<s>>, 0, lp.steps, lp.overhead, Nothing) :
                     s \in planned} : lp \in Loops})
    \cup (UNION {{Impl("move", ss, mv.main, 1, 0, [Nothing EXCEPT ![mv.level] = mv.bytes]) :
                     ss \in [1..mv.subs -> planned]} : mv \in Moves})
    \cup {Impl("block", ss, 0, 1, 0, Nothing) : ss \in IF Blocks THEN [1..2 -> planned] ELSE {}}

SaturatingAdd(x, y) == Min({x + y, MainMax})
SaturatingMul(x, y) == Min({x * y, MainMax})

\* compute_main_cost.  A parallel loop's overhead is added with `+`, which wraps
\* in a build without overflow checks.
MainCost(impl, children) ==
    IF impl.kind = "loop"
    THEN (SaturatingMul(children[1], impl.steps) + impl.overhead) % (MainMax + 1)
    ELSE LET sum[i \in {0} \cup DOMAIN children] ==
                 IF i = 0 THEN impl.main ELSE SaturatingAdd(sum[i - 1], children[i])
         IN  sum[Len(children)]

\* Faulty: the children's peaks only.
PeaksOfChildren(impl, peaks) ==
    [l \in Levels |-> Max({0} \cup {peaks[i][l] : i \in DOMAIN peaks})]

\* peak_memory_from_child_peaks, for MemoryAllocation::Simple; zero without children.
Peaks(impl, peaks) ==
    [l \in Levels |-> Max({0} \cup {NextBinaryPower(impl.alloc[l] + Bytes(peaks[i][l])) :
                                    i \in DOMAIN peaks})]

\* Cost::from_child_costs.
CostOf(impl, children) ==
    [main  |-> MainCost(impl, [i \in DOMAIN children |-> children[i].main]),
     peaks |-> Peaks(impl, [i \in DOMAIN children |-> children[i].peaks]),
     depth |-> Min({255, 1 + Max({0} \cup {children[i].depth : i \in DOMAIN children})})]

\* The limits of an Impl's sub-Specs: a move's allocation is taken off and what is
\* left rounded down; loops and blocks pass the limits on.  (What canonicalize does
\* to them after a move or ToAccum is left out: it zeroes the levels that are slower
\* than all operands', where no Impl allocates.)
LowerLimits(impl, m) == [l \in Levels |-> PrevPowerOfTwo(Bytes(m[l]) - impl.alloc[l])]

\* apply's OutOfMemory.
Fits(impl, m) == \A l \in Levels : impl.alloc[l] <= Bytes(m[l])
-----------------------------------------------------------------------------
LexLess(p, q) == \E l \in Levels : p[l] < q[l] /\ \A k \in 1..l - 1 : p[k] = q[k]

\* Faulty: the peaks are compared first.
CheaperByPeaks(c, d) ==
    \/ LexLess(c.peaks, d.peaks)
    \/ c.peaks = d.peaks /\ c.main < d.main
    \/ c.peaks = d.peaks /\ c.main = d.main /\ c.depth < d.depth

\* Cost's order.
Cheaper(c, d) ==
    \/ c.main < d.main
    \/ c.main = d.main /\ LexLess(c.peaks, d.peaks)
    \/ c.main = d.main /\ c.peaks = d.peaks /\ c.depth < d.depth

\* The Impls whose sub-Specs all have one, with their costs.
Candidates(offered, m) ==
    {[impl |-> i,
      cost |-> CostOf(offered[i], [k \in DOMAIN offered[i].subs |->
                 solved[offered[i].subs[k]][LowerLimits(offered[i], m)].cost])] :
        i \in {i \in DOMAIN offered :
                 /\ Fits(offered[i], m)
                 /\ \A k \in DOMAIN offered[i].subs :
                       solved[offered[i].subs[k]][LowerLimits(offered[i], m)] # None}}

\* ImplReducer: the least by cost and then by index of the action.
Precedes(c, d) ==
    \/ Cheaper(c.cost, d.cost)
    \/ ~Cheaper(d.cost, c.cost) /\ c.impl < d.impl
Least(candidates) ==
    CHOOSE c \in candidates : \A d \in candidates \ {c} : Precedes(c, d)

Optimum(offered, m) ==
    IF Candidates(offered, m) = {} THEN None ELSE Least(Candidates(offered, m))

Init == impls = <<>> /\ solved = <<>>

\* Synthesize one more logical Spec under every limit.
Plan ==
    /\ Len(impls) < MaxSpecs
    /\ \E n \in 0..MaxImpls : \E offered \in [1..n -> Offer(DOMAIN impls)] :
          /\ \A i, j \in 1..n : offered[i] = offered[j] => i = j
          /\ impls' = Append(impls, offered)
          /\ solved' = Append(solved, [m \in Limits |-> Optimum(offered, m)])

Next == Plan

Spec == Init /\ [][Next]_vars
-----------------------------------------------------------------------------
(* Properties, each about the Spec planned last: the others were last once. *)

Newest == Len(solved)
Solved == Newest > 0

\* The limits of the box that a put fills (put_range_to_fill).
Box(m) ==
    {n \in Limits : /\ Within(n, m)
                    /\ solved[Newest][m] # None => Within(solved[Newest][m].cost.peaks, n)}

\* Under every limit of the box, the Spec has an Impl if and only if it has one
\* under the limits it was solved for, and its main cost is the same: what a put
\* writes there is no worse than what a search would find.
BoxHasOneMainCost ==
    Solved => \A m \in Limits : \A n \in Box(m) :
        /\ (solved[Newest][n] = None) = (solved[Newest][m] = None)
        /\ solved[Newest][m] # None => solved[Newest][n].cost.main = solved[Newest][m].cost.main

\* No solution's peaks exceed the limits it was found under (the debug_assert of
\* put, db.rs:342): limits are rounded down and peaks up, at every Impl.  And under
\* every limit between them, in the box, the solution's action applies, and each sub-Spec that
\* it then has is in the box that the put of the sub-Spec filled: what get_impl finds
\* written there it can follow ("Database should have the sub-Spec entry", db.rs:1061).
BoxOfSubSpecs ==
    Solved => \A m \in Limits : solved[Newest][m] # None =>
        LET impl == impls[Newest][solved[Newest][m].impl] IN
        /\ m \in Box(m)
        /\ \A n \in Box(m) :
            /\ Fits(impl, n)
            /\ Within(LowerLimits(impl, n), LowerLimits(impl, m))
            /\ \A k \in DOMAIN impl.subs :
                  Within(solved[impl.subs[k]][LowerLimits(impl, m)].cost.peaks,
                         LowerLimits(impl, n))

\* More memory never worsens a solution's main cost, nor loses it (the test at
\* search.rs:854).
MoreMemoryNeverWorsens ==
    Solved => \A m \in Limits : \A n \in Limits :
        Within(n, m) /\ solved[Newest][n] # None =>
            /\ solved[Newest][m] # None
            /\ solved[Newest][m].cost.main <= solved[Newest][n].cost.main
=============================================================================
