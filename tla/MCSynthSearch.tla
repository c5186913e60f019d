--------------------------- MODULE MCSynthSearch ---------------------------
(***************************************************************************)
(* Instances of SynthSearch.  The Specs m2 and m1 are one logical Spec     *)
(* under two memory limits, the second tighter, and so are k2 and k1, and  *)
(* v2 and v1; "P" and "Q" are two database pages whose Specs depend on     *)
(* each other.  u is unsatisfiable, by way of z; y learns that while it    *)
(* still waits for g; x's first and third action tie.                      *)
(*                                                                         *)
(* A cost is written main, peak, peak: 1022 is main cost 10 and peaks      *)
(* (2, 2).  m's two actions tie in main cost.  By peaks m1 prefers the     *)
(* first and m2 the second: the first, with k2's Impl, uses four of the    *)
(* second level, which k1 does not have.  And the second fits m1's limits  *)
(* too, so that m2's put overwrites what m1's own search found.            *)
(***************************************************************************)
EXTENDS SynthSearch

MCSpecs == {"y", "g", "m2", "m1", "w", "x", "u", "z", "k2", "k1", "v2", "v1"}

Fails == [ok |-> FALSE, subs |-> <<>>]
Leaf == [ok |-> TRUE, subs |-> <<>>]
On(subs) == [ok |-> TRUE, subs |-> subs]

MCActionsOf == [s \in MCSpecs |->
    CASE s = "y"  -> <<On(<<"g", "u">>)>>
      [] s = "g"  -> <<On(<<"u", "m2">>), On(<<"m2", "k2">>), Fails, On(<<"m1", "x", "v2">>)>>
      [] s = "m2" -> <<On(<<"w", "k2">>), Leaf>>
      [] s = "m1" -> <<On(<<"w", "k1">>), Leaf>>
      [] s = "k2" -> <<Leaf, On(<<"v2", "v2">>)>>
      [] s = "k1" -> <<Fails, On(<<"v1", "v1">>)>>
      [] s \in {"v2", "v1"} -> <<On(<<"w", "w">>), On(<<"w">>)>>
      [] s = "x"  -> <<On(<<"w", "m1">>), On(<<"z">>), On(<<"w", "m2">>)>>
      [] s = "u"  -> <<On(<<"z">>), On(<<"z", "v2">>)>>
      [] s = "z"  -> <<Fails, Fails>>
      [] s = "w"  -> <<Leaf, Leaf>>]

MCPages == {"P", "Q"}
MCPageOf == [s \in MCSpecs |-> IF s \in {"k2", "k1", "v2", "v1", "z"} THEN "Q" ELSE "P"]

\* m2 and m1 are in different database blocks; v2 and v1 share one.
MCBlockOf == [s \in MCSpecs |-> IF s \in {"v2", "v1"} THEN "v" ELSE s]

MCMain(cost) == cost \div 100
Peak(level, cost) == IF level = 1 THEN (cost \div 10) % 10 ELSE cost % 10

RECURSIVE SumMain(_)
SumMain(q) == IF q = <<>> THEN 0 ELSE MCMain(q[1]) + SumMain(Tail(q))
HighestPeak(level, q) ==
    LET peaks == {0} \cup {Peak(level, q[j]) : j \in DOMAIN q}
    IN  CHOOSE p \in peaks : \A o \in peaks : o <= p

\* w's two leaves tie.
MCImplCost(s, a, costs) ==
    CASE s = "w" -> 220
      [] s = "k2" /\ costs = <<>> -> 704
      [] s \in {"m2", "m1"} /\ costs = <<>> -> 1022
      [] OTHER -> 100 * (1 + SumMain(costs)) + 10 * HighestPeak(1, costs) + HighestPeak(2, costs)

\* The results of least main cost, as OptAssumption has it.
By(action, costs) == {[action |-> action, cost |-> c] : c \in costs}
MCOpt == [s \in MCSpecs |->
    CASE s \in {"z", "u", "y"} -> {NoImpl}
      [] s = "w"  -> By(1, {220}) \cup By(2, {220})
      [] s \in {"v2", "v1"} -> By(2, {320})
      [] s = "k1" -> By(2, {720})
      [] s = "k2" -> By(1, {704}) \cup By(2, {720})
      [] s = "m1" -> By(1, {1020}) \cup By(2, {1022})
      [] s = "m2" -> By(1, {1020, 1024}) \cup By(2, {1022})
      [] s = "x"  -> By(1, {1320, 1322}) \cup By(3, {1320, 1322, 1324})
      [] s = "g"  -> By(2, {1820, 1822, 1824})]

\* The box of put: the same logical Spec, under limits between the peaks and its own.
Logical(s) == CASE s \in {"m2", "m1"} -> "m" [] s \in {"k2", "k1"} -> "k"
                [] s \in {"v2", "v1"} -> "v" [] OTHER -> s
Limit(level, s) == IF s \in {"m1", "k1", "v1"} THEN IF level = 1 THEN 3 ELSE 2 ELSE 5

MCFill(s, cost) ==
    {c \in MCSpecs : /\ Logical(c) = Logical(s)
                     /\ \A level \in 1..2 :
                           /\ Limit(level, c) <= Limit(level, s)
                           /\ cost # None => Peak(level, cost) <= Limit(level, c)}

OneGoal == <<"x">>
SeveralGoals == <<"k1", "y", "v2">>
GoalsOnTwoPages == <<"v2", "m2", "k2">>
=============================================================================
