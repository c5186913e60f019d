---------------------------- MODULE AtomicStore ----------------------------
(***************************************************************************)
(* What FilesDatabase (morello/src/db.rs) promises of its pages: gets and  *)
(* puts that take effect at one instant, nothing lost while the process    *)
(* lives.  A page is abstracted to the number of puts that it reflects.    *)
(***************************************************************************)
EXTENDS Naturals

CONSTANTS Keys, MayLose

VARIABLES
    store,  \* [Keys -> Nat]: the puts each page reflects
    answer, \* what the last get read: a key and its page
    fresh   \* whether the process has done nothing yet

Init == store = [k \in Keys |-> 0]

Get(k) == answer' = [key |-> k, value |-> store[k]] /\ UNCHANGED store

Put(k) == store' = [store EXCEPT ![k] = @ + 1] /\ UNCHANGED answer

\* A crash of the process may take back the latest puts of any page, and leaves
\* a process that has just been started.
Lose ==
    /\ MayLose /\ fresh'
    /\ \A k \in Keys : store'[k] \in 0..store[k]
    /\ DOMAIN store' = Keys
    /\ UNCHANGED answer

Next == Lose \/ \E k \in Keys : Get(k) \/ Put(k)

Spec == Init /\ [][Next]_<<store, answer>>
=============================================================================
