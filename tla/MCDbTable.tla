----------------------------- MODULE MCDbTable -----------------------------
(* Two neighbouring Specs, which share their blocks, under limits on two      *)
(* levels: three blocks of the first, the last one cut short, and two of the  *)
(* second.                                                                    *)
EXTENDS DbTable

CONSTANTS p1, p2, p3

TwoSpecs == {<<0>>, <<1>>}
TwoLevels == <<4, 1>>
Size(dim, rank) == IF dim = rank - 1 THEN 1 ELSE 2

Peaks == [v \in {p1, p2, p3} |->
             CASE v = p1 -> <<0, 1>> [] v = p2 -> <<1, 0>> [] v = p3 -> <<3, 1>>]

UpToTwo == {<<>>, <<p1>>, <<p3>>, <<p2, p3>>}
=============================================================================
