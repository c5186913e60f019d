--------------------------- MODULE SynthContract ---------------------------
(***************************************************************************)
(* What top_down_many (morello/src/search.rs) promises: it only ever puts  *)
(* results of least main cost into the database, and answers each goal     *)
(* once, with such a result, after the database has recorded one.          *)
(***************************************************************************)
EXTENDS Integers, Sequences

CONSTANTS Specs, Opt, Goals

\* The results of least main cost, of whichever Spec.
OptResults == UNION {Opt[s] : s \in Specs}

VARIABLES
    db,     \* the entries recorded so far
    answer, \* the result at each goal's index
    open    \* the indices of the goals not answered yet

Init ==
    /\ DOMAIN db = {}
    /\ open = DOMAIN Goals
    /\ DOMAIN answer = DOMAIN Goals

\* One write of a put: some cells get a result that is as good as any for each.
Record ==
    /\ \E r \in OptResults : \E cells \in SUBSET {s \in Specs : r \in Opt[s]} :
          db' = [s \in DOMAIN db \cup cells |-> IF s \in cells THEN r ELSE db[s]]
    /\ UNCHANGED <<answer, open>>

\* One group of goals is answered.
Answer ==
    /\ \E now \in SUBSET open, given \in [DOMAIN Goals -> OptResults] :
          /\ \A i \in now : Goals[i] \in DOMAIN db /\ given[i] \in Opt[Goals[i]]
          /\ open' = open \ now
          /\ answer' = [i \in DOMAIN Goals |-> IF i \in now THEN given[i] ELSE answer[i]]
    /\ UNCHANGED db

Next == Record \/ Answer

Safety == Init /\ [][Next]_<<db, answer, open>>
Spec == Safety /\ <>(open = {})
=============================================================================
