---------------------------- MODULE MCMemoryPlan ----------------------------
(* Memories of up to four bytes, and allocations that are no powers of two.  *)
EXTENDS MemoryPlan

TwoLevels == <<4, 1>>

SerialLoops == {[steps |-> 2, overhead |-> 0]}
WithOverhead == {[steps |-> 2, overhead |-> 0], [steps |-> 1, overhead |-> 3]}

Move(level, bytes, main, subs) == [level |-> level, bytes |-> bytes, main |-> main, subs |-> subs]
PlainMoves == {Move(1, 1, 1, 1), Move(2, 1, 1, 1)}
TwoMoves == PlainMoves \cup {Move(1, 3, 1, 2), Move(2, 1, 1, 2)}
=============================================================================
