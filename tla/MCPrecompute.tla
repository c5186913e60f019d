---------------------------- MODULE MCPrecompute ----------------------------
(* Two levels of memory and two bounds, of two stages and of three; the middle *)
(* stage of the second has two tasks, of which one needs the other's Spec, and *)
(* others have none.                                                           *)
EXTENDS Precompute

CONSTANTS move, a21, a02

MCLevels == <<1, 2>>
MCBounds == <<<<2>>, <<2, 2>>>>

At(n, b, pt) == [name |-> n, bound |-> b, pt |-> pt]
Move2 == At(move, 1, <<2>>)
A21 == At(a21, 2, <<2, 1>>)
A02 == At(a02, 2, <<0, 2>>)
MCSpecs == {Move2, A21, A02}

MCSubs == [s \in MCSpecs |-> CASE s = A21 -> {A02} [] OTHER -> {}]

\* The peaks of a Spec's Impls, the best first; those in a set are equally good.
\* Under little memory there is none.
Impls(s) ==
    CASE s = Move2 -> <<{<<1, 1>>}>>
      [] s = A21 -> <<{<<0, 2>>}, {<<0, 0>>}>>
      [] s = A02 -> <<{<<1, 0>>, <<0, 2>>}>>

MCAnswers == [s \in MCSpecs |-> [m \in Limits |->
    LET Fitting(i) == {p \in Impls(s)[i] : Within(p, m)}
        able == {i \in DOMAIN Impls(s) : Fitting(i) # {}}
    IN  IF able = {} THEN {None} ELSE Fitting(CHOOSE i \in able : \A j \in able : i <= j)]]

\* A superblock has all of a kind of Specs.
MCPage(s, m) == s.bound

MCJobs == {<<1>>, <<2, 1>>}
=============================================================================
