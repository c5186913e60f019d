-------------------------- MODULE ShardStoreProofs --------------------------
(***************************************************************************)
(* For every set of superblocks, size of the cache and capacity of the     *)
(* channels, with or without crashes: the shard, with its background       *)
(* thread, implements an atomic store (AtomicStore), and the assertions of *)
(* db.rs about what is being loaded hold.                                  *)
(*                                                                         *)
(* That rests on the order of the command channel: a superblock is asked   *)
(* for only when it is neither cached nor being evicted, so that whatever  *)
(* was written to it before is ahead of the request in the channel.        *)
(***************************************************************************)
EXTENDS ShardStore, FiniteSetTheorems, TLAPS

-----------------------------------------------------------------------------
(* Channels.                                                               *)

LEMMA AppendAt ==
    ASSUME NEW S, NEW q \in Seq(S), NEW m \in S
    PROVE  /\ Append(q, m) \in Seq(S) /\ Len(Append(q, m)) = Len(q) + 1 /\ Len(q) \in Nat
           /\ DOMAIN q = 1..Len(q) /\ DOMAIN Append(q, m) = 1..Len(q) + 1
           /\ \A i \in DOMAIN q : Append(q, m)[i] = q[i]
           /\ Append(q, m)[Len(q) + 1] = m
OBVIOUS

LEMMA TailAt ==
    ASSUME NEW S, NEW q \in Seq(S), q # <<>>
    PROVE  /\ Tail(q) \in Seq(S) /\ Len(Tail(q)) = Len(q) - 1 /\ Len(q) \in Nat \ {0}
           /\ DOMAIN q = 1..Len(q) /\ DOMAIN Tail(q) = 1..Len(q) - 1
           /\ \A i \in DOMAIN Tail(q) : Tail(q)[i] = q[i + 1]
           /\ Head(q) = q[1] /\ Head(q) \in S
OBVIOUS

\* The puts of a superblock in a channel, and the last of them.
PutsIn(q, k) == {i \in DOMAIN q : q[i].type = "Put" /\ q[i].key = k}
IsLast(q, k, i) == i \in PutsIn(q, k) /\ \A j \in PutsIn(q, k) : j <= i
LastIn(q, k) == CHOOSE i \in PutsIn(q, k) : \A j \in PutsIn(q, k) : j <= i

LEMMA LastIsLast ==
    ASSUME NEW q \in Seq(Messages), NEW k, NEW i, IsLast(q, k, i)
    PROVE  LastIn(q, k) = i
<1>1. \A j \in PutsIn(q, k) : j \in Nat
  BY DEF PutsIn
<1>2. LastIn(q, k) \in PutsIn(q, k) /\ \A j \in PutsIn(q, k) : j <= LastIn(q, k)
  BY DEF LastIn, IsLast
<1>3. i <= LastIn(q, k) /\ LastIn(q, k) <= i
  BY <1>2 DEF IsLast
<1> QED
  BY <1>1, <1>2, <1>3 DEF IsLast

\* Of a superblock's puts in a channel, if there are any, one is last.
HasLast(q, k) == PutsIn(q, k) # {} => \E i : IsLast(q, k, i)

\* What is behind the cache: the last put under way, or else the file.
Behind(q, h, file, k) ==
    IF PutsIn(q, k) # {} THEN q[LastIn(q, k)].value
    ELSE IF h.type = "writing" /\ h.key = k THEN h.value
    ELSE Readable(file[k])

LEMMA AppendOther ==
    ASSUME NEW q \in Seq(Messages), NEW m \in Messages, NEW k, HasLast(q, k),
           ~(m.type = "Put" /\ m.key = k), NEW h, NEW file
    PROVE  /\ PutsIn(Append(q, m), k) = PutsIn(q, k) /\ HasLast(Append(q, m), k)
           /\ Behind(Append(q, m), h, file, k) = Behind(q, h, file, k)
<1> DEFINE r == Append(q, m)
<1>1. /\ r \in Seq(Messages) /\ Len(q) \in Nat /\ DOMAIN q = 1..Len(q) /\ DOMAIN r = 1..Len(q) + 1
      /\ \A i \in DOMAIN q : r[i] = q[i]
      /\ r[Len(q) + 1] = m
  BY AppendAt
<1> HIDE DEF r
<1>2. PutsIn(r, k) = PutsIn(q, k)
  BY <1>1 DEF PutsIn
<1>3. \A i : IsLast(r, k, i) <=> IsLast(q, k, i)
  BY <1>2 DEF IsLast
<1>4. HasLast(r, k)
  BY <1>2, <1>3 DEF HasLast
<1>5. CASE PutsIn(q, k) # {}
  <2>1. PICK i : IsLast(q, k, i)
    BY <1>5 DEF HasLast
  <2>2. LastIn(q, k) = i /\ LastIn(r, k) = i /\ i \in DOMAIN q
    BY <2>1, <1>1, <1>3, LastIsLast DEF IsLast, PutsIn
  <2> QED
    BY <1>5, <1>1, <1>2, <1>4, <2>2 DEF Behind, r
<1>6. CASE PutsIn(q, k) = {}
  BY <1>6, <1>2, <1>4 DEF Behind, r
<1> QED
  BY <1>5, <1>6

LEMMA AppendPut ==
    ASSUME NEW q \in Seq(Messages), NEW m \in Messages, m.type = "Put", NEW h, NEW file
    PROVE  /\ PutsIn(Append(q, m), m.key) = PutsIn(q, m.key) \cup {Len(q) + 1}
           /\ HasLast(Append(q, m), m.key)
           /\ Behind(Append(q, m), h, file, m.key) = m.value
<1> DEFINE k == m.key
<1> DEFINE r == Append(q, m)
<1>1. /\ r \in Seq(Messages) /\ Len(q) \in Nat /\ DOMAIN q = 1..Len(q) /\ DOMAIN r = 1..Len(q) + 1
      /\ \A i \in DOMAIN q : r[i] = q[i]
      /\ r[Len(q) + 1] = m
  BY AppendAt
<1> HIDE DEF r
<1>2. PutsIn(r, k) = PutsIn(q, k) \cup {Len(q) + 1}
  BY <1>1 DEF PutsIn
<1>3. IsLast(r, k, Len(q) + 1)
  BY <1>1, <1>2 DEF IsLast, PutsIn
<1>4. LastIn(r, k) = Len(q) + 1
  BY <1>1, <1>3, LastIsLast
<1> QED
  BY <1>1, <1>2, <1>3, <1>4 DEF Behind, HasLast, r, k

LEMMA TailOther ==
    ASSUME NEW q \in Seq(Messages), q # <<>>, NEW k, HasLast(q, k)
    PROVE  /\ HasLast(Tail(q), k)
           /\ PutsIn(Tail(q), k) # {} =>
                 PutsIn(q, k) # {} /\ Tail(q)[LastIn(Tail(q), k)] = q[LastIn(q, k)]
           /\ ~(Head(q).type = "Put" /\ Head(q).key = k) => (PutsIn(Tail(q), k) = {} <=> PutsIn(q, k) = {})
           /\ Head(q).type = "Put" /\ Head(q).key = k /\ PutsIn(Tail(q), k) = {}
                 => PutsIn(q, k) # {} /\ q[LastIn(q, k)] = Head(q)
<1> DEFINE t == Tail(q)
<1>1. /\ t \in Seq(Messages) /\ Len(q) \in Nat \ {0} /\ DOMAIN q = 1..Len(q) /\ DOMAIN t = 1..Len(q) - 1
      /\ \A i \in DOMAIN t : t[i] = q[i + 1]
      /\ Head(q) = q[1]
  BY TailAt
<1> HIDE DEF t
<1>2. \A i \in Nat \ {0} : i \in PutsIn(t, k) <=> i + 1 \in PutsIn(q, k)
  BY <1>1 DEF PutsIn
<1>3. PutsIn(t, k) \subseteq Nat \ {0} /\ PutsIn(q, k) \subseteq Nat \ {0}
  BY <1>1 DEF PutsIn
<1>4. 1 \in PutsIn(q, k) <=> Head(q).type = "Put" /\ Head(q).key = k
  BY <1>1 DEF PutsIn
<1>5. ASSUME PutsIn(t, k) # {}
      PROVE  /\ PutsIn(q, k) # {} /\ \E i : IsLast(t, k, i)
             /\ t[LastIn(t, k)] = q[LastIn(q, k)]
  <2>1. PutsIn(q, k) # {}
    BY <1>2, <1>3, <1>5
  <2>2. PICK i : IsLast(q, k, i)
    BY <2>1 DEF HasLast
  <2>3. i \in Nat \ {0} /\ i # 1
    BY <2>2, <1>2, <1>3, <1>5 DEF IsLast
  <2>4. i - 1 \in PutsIn(t, k)
    BY <2>2, <2>3, <1>2 DEF IsLast
  <2>5. \A j \in PutsIn(t, k) : j <= i - 1
    BY <2>2, <2>3, <1>2, <1>3 DEF IsLast
  <2>6. IsLast(t, k, i - 1)
    BY <2>4, <2>5 DEF IsLast
  <2>7. LastIn(t, k) = i - 1 /\ LastIn(q, k) = i
    BY <2>2, <2>6, <1>1, LastIsLast
  <2>8. t[i - 1] = q[i]
    BY <2>3, <2>4, <1>1 DEF PutsIn
  <2> QED
    BY <2>1, <2>6, <2>7, <2>8
<1>6. ASSUME PutsIn(t, k) = {}, 1 \in PutsIn(q, k)
      PROVE  q[LastIn(q, k)] = Head(q)
  <2>1. IsLast(q, k, 1)
    BY <1>2, <1>3, <1>6 DEF IsLast
  <2> QED
    BY <2>1, <1>1, LastIsLast
<1>7. ASSUME 1 \notin PutsIn(q, k), PutsIn(t, k) = {}
      PROVE  PutsIn(q, k) = {}
  <2>1. SUFFICES ASSUME NEW i \in PutsIn(q, k)
                 PROVE  FALSE
    OBVIOUS
  <2>2. i \in Nat \ {0} /\ i # 1
    BY <1>3, <1>7
  <2>3. i - 1 \in PutsIn(t, k)
    BY <2>2, <1>2
  <2> QED
    BY <2>3, <1>7
<1>8. HasLast(t, k)
  BY <1>5 DEF HasLast
<1> QED
  BY <1>4, <1>5, <1>6, <1>7, <1>8 DEF t

-----------------------------------------------------------------------------
(* The invariant.                                                          *)

Values == [key : Keys, value : Nat]
Puts == [type : {"Put"}, key : Keys, value : Nat]
Hands == [type : {"idle", "loaded", "writing", "exited"}, key : Keys \cup {NoKey}, value : Nat]

Types ==
    /\ disk \in [Keys -> Nat \cup {Torn}]
    /\ cache \in [DOMAIN cache -> Nat] /\ DOMAIN cache \subseteq Keys
    /\ IsFiniteSet(DOMAIN cache) /\ Cardinality(DOMAIN cache) <= CacheSize
    /\ outstanding \subseteq Keys /\ IsFiniteSet(outstanding)
    /\ evicted \in Seq(Puts) /\ Len(evicted) <= 1
    /\ cmdq \in Seq(Messages) /\ Len(cmdq) <= Cap
    /\ \A i \in DOMAIN cmdq : cmdq[i].type # "Exit" => cmdq[i].key \in Keys
    /\ respq \in Seq(Values) /\ Len(respq) <= Cap
    /\ hand \in Hands /\ (hand.type \in {"loaded", "writing"} => hand.key \in Keys)
    /\ call \in [kind : {"none", "get", "put", "prefetch"}, key : Keys \cup {NoKey},
                 pc : {"none", "drain", "send", "await", "use"}]
    /\ call.pc # "none" => call.key \in Keys
    /\ phase \in {"open", "dropping", "closing", "closed"}

\* A Get in the command channel at i.
IsGet(i) == i \in DOMAIN cmdq /\ cmdq[i].type = "Get"

\* What is in outstanding_gets is in one place on its way, and not in the cache.
LoadsOnce ==
    /\ \A i : IsGet(i) => cmdq[i].key \in outstanding
    /\ \A i, j : IsGet(i) /\ IsGet(j) /\ cmdq[i].key = cmdq[j].key => i = j
    /\ \A i \in DOMAIN respq : respq[i].key \in outstanding
    /\ \A i, j \in DOMAIN respq : respq[i].key = respq[j].key => i = j
    /\ \A i, j : IsGet(i) /\ j \in DOMAIN respq => cmdq[i].key # respq[j].key
    /\ hand.type = "loaded" =>
          /\ hand.key \in outstanding
          /\ \A i : IsGet(i) => cmdq[i].key # hand.key
          /\ \A j \in DOMAIN respq : respq[j].key # hand.key
    /\ \A k \in outstanding : \/ \E i : IsGet(i) /\ cmdq[i].key = k
                              \/ \E j \in DOMAIN respq : respq[j].key = k
                              \/ hand.type = "loaded" /\ hand.key = k
    /\ \A k \in outstanding : k \notin DOMAIN cache

\* The order of the command channel: a superblock's puts are ahead of the Get of it,
\* and nothing is behind an Exit.
Queued ==
    /\ \A k \in Keys : HasLast(cmdq, k)
    /\ \A i : IsGet(i) => \A j \in PutsIn(cmdq, cmdq[i].key) : j < i
    /\ \A i \in DOMAIN cmdq : cmdq[i].type = "Exit" => i = Len(cmdq) /\ phase = "closing"
    /\ hand.type = "exited" => cmdq = <<>> /\ phase \in {"closing", "closed"}

\* No write of k is under way.
Settled(k) == PutsIn(cmdq, k) = {} /\ ~(hand.type = "writing" /\ hand.key = k)

\* What was loaded is what is on disk.
LoadsFresh ==
    /\ hand.type = "loaded" => PutsIn(cmdq, hand.key) = {} /\ hand.value = Readable(disk[hand.key])
    /\ \A i \in DOMAIN respq : Settled(respq[i].key) /\ respq[i].value = Readable(disk[respq[i].key])

\* What is being evicted is not asked for before it is sent.
EvictedApart ==
    evicted # <<>> =>
        /\ evicted[1].key \notin DOMAIN cache /\ evicted[1].key \notin outstanding
        /\ phase = "open" /\ call.pc \in {"drain", "await", "use"}

\* The phases of the process.
Phases ==
    /\ phase # "open" => call = NoCall
    /\ call.pc = "use" => call.key \in DOMAIN cache
    /\ call.pc = "send" => call.key \notin DOMAIN cache
    /\ phase = "dropping" => Cardinality(outstanding) <= MaxUncollected
    /\ phase = "closing" =>
          /\ Cardinality(DOMAIN cache) + Cardinality(outstanding) <= MaxUncollected
          /\ \A k \in DOMAIN cache : Settled(k) /\ cache[k] = Readable(disk[k])
    /\ phase = "closed" =>
          DOMAIN cache = {} /\ outstanding = {} /\ cmdq = <<>> /\ respq = <<>> /\ hand.type = "exited"

\* Current, with the state as parameters.
Now(c, e, q, h, file, k) ==
    IF k \in DOMAIN c THEN c[k]
    ELSE IF e # <<>> /\ e[1].key = k THEN e[1].value
    ELSE Behind(q, h, file, k)

At(k) == Now(cache, evicted, cmdq, hand, disk, k)

\* Nothing on its way to the disk, or there, is later than the superblock.
Earlier ==
    \A k \in Keys :
        /\ Readable(disk[k]) <= At(k)
        /\ \A i \in DOMAIN cmdq : cmdq[i].type = "Put" /\ cmdq[i].key = k => cmdq[i].value <= At(k)
        /\ hand.type = "writing" /\ hand.key = k => hand.value <= At(k)

IInv ==
    /\ Types /\ LoadsOnce /\ Queued /\ LoadsFresh
    /\ EvictedApart /\ Phases /\ Earlier

LEMMA CurrentIsAt == \A k : Current(k) = At(k) /\ Current(k)' = At(k)'
  BY DEF Current, At, Now, Behind, PutsQueued, LastPut, PutsIn, LastIn

LEMMA NumbersAreNat ==
    ASSUME IInv
    PROVE  /\ \A k \in Keys : Readable(disk[k]) \in Nat
           /\ \A i \in DOMAIN cmdq : cmdq[i] \in Messages /\ cmdq[i].value \in Nat
           /\ hand.value \in Nat
<1>1. \A k \in Keys : disk[k] \in Nat \cup {Torn}
  BY DEF IInv, Types
<1>2. \A i \in DOMAIN cmdq : cmdq[i] \in Messages
  BY DEF IInv, Types
<1>3. hand.value \in Nat
  BY DEF IInv, Types, Hands
<1> QED
  BY <1>1, <1>2, <1>3 DEF Readable, Messages

LEMMA AtNat ==
    ASSUME IInv, NEW k \in Keys
    PROVE  At(k) \in Nat
<1>1. CASE k \in DOMAIN cache
  BY <1>1 DEF IInv, Types, At, Now
<1>2. CASE k \notin DOMAIN cache /\ evicted # <<>> /\ evicted[1].key = k
  <2>1. evicted[1] \in Puts
    BY <1>2 DEF IInv, Types
  <2> QED
    BY <1>2, <2>1 DEF At, Now, Puts
<1>3. CASE k \notin DOMAIN cache /\ ~(evicted # <<>> /\ evicted[1].key = k)
  <2>1. At(k) = Behind(cmdq, hand, disk, k)
    BY <1>3 DEF At, Now
  <2>2. CASE PutsIn(cmdq, k) # {}
    <3>1. PICK i : IsLast(cmdq, k, i)
      BY <2>2 DEF IInv, Queued, HasLast
    <3>2. LastIn(cmdq, k) = i /\ i \in DOMAIN cmdq
      BY <3>1, LastIsLast DEF IInv, Types, IsLast, PutsIn
    <3>3. cmdq[i] \in Messages
      BY <3>2 DEF IInv, Types
    <3> QED
      BY <2>1, <2>2, <3>2, <3>3 DEF Behind, Messages
  <2>3. CASE PutsIn(cmdq, k) = {}
    BY <2>1, <2>3 DEF Behind, IInv, Types, Hands, Readable
  <2> QED
    BY <2>2, <2>3
<1> QED
  BY <1>1, <1>2, <1>3

LEMMA InitIInv == Init => IInv
<1> SUFFICES ASSUME Init PROVE IInv
  OBVIOUS
<1> USE ShardAssumption DEF Init
<1>1. DOMAIN cache = {} /\ IsFiniteSet({}) /\ Cardinality({}) = 0
  BY FS_EmptySet DEF EmptyCache
<1>2. DOMAIN cmdq = {} /\ DOMAIN respq = {} /\ \A k : PutsIn(cmdq, k) = {}
  BY DEF PutsIn
<1>3. hand = [type |-> "idle", key |-> NoKey, value |-> 0]
  BY DEF Idle, Msg
<1>4. Types
  BY <1>1, <1>2, <1>3 DEF Types, EmptyCache, Torn, Hands, NoCall
<1>5. LoadsOnce
  BY <1>1, <1>2, <1>3 DEF LoadsOnce, IsGet
<1>6. Queued
  BY <1>2, <1>3 DEF Queued, IsGet, HasLast
<1>7. LoadsFresh
  BY <1>2, <1>3 DEF LoadsFresh
<1>8. EvictedApart /\ Phases
  BY <1>3 DEF EvictedApart, Phases, NoCall
<1>9. Earlier
  <2>1. \A k \in Keys : At(k) = 0
    BY <1>1, <1>2, <1>3 DEF At, Now, Behind, Readable, Torn
  <2> QED
    BY <2>1, <1>2, <1>3 DEF Earlier, Readable
<1> QED
  BY <1>4, <1>5, <1>6, <1>7, <1>8, <1>9 DEF IInv

-----------------------------------------------------------------------------
(* The steps of a call.                                                    *)

\* Every superblock is what it was.
Kept == \A k \in Keys : At(k)' = At(k)

\* A step that changes only the call, or the phase from open to dropping, keeps
\* whatever does not speak of them.
LEMMA CallKeeps ==
    ASSUME IInv, UNCHANGED <<disk, cache, outstanding, evicted, cmdq, respq, hand>>,
           phase' = phase \/ (phase = "open" /\ phase' = "dropping")
    PROVE  LoadsOnce' /\ Queued' /\ LoadsFresh' /\ Earlier' /\ Kept
<1>1. LoadsOnce'
  BY DEF IInv, LoadsOnce, IsGet
<1>2. Queued'
  BY DEF IInv, Queued, IsGet
<1>3. LoadsFresh'
  BY DEF IInv, LoadsFresh, Settled
<1>4. Earlier' /\ Kept
  BY DEF IInv, Earlier, Kept, At
<1> QED
  BY <1>1, <1>2, <1>3, <1>4

LEMMA BeginStep ==
    ASSUME IInv, Begin
    PROVE  IInv' /\ Kept
<1>1. LoadsOnce' /\ Queued' /\ LoadsFresh' /\ Earlier' /\ Kept
  BY CallKeeps DEF Begin
<1>2. Types'
  BY DEF Begin, IInv, Types
<1>3. EvictedApart' /\ Phases'
  BY DEF Begin, IInv, EvictedApart, Phases, NoCall
<1> QED
  BY <1>1, <1>2, <1>3 DEF IInv

LEMMA DrainEmptyStep ==
    ASSUME IInv, DrainEmpty
    PROVE  IInv' /\ Kept
<1>1. LoadsOnce' /\ Queued' /\ LoadsFresh' /\ Earlier' /\ Kept
  BY CallKeeps DEF DrainEmpty
<1>2. Types'
  BY DEF DrainEmpty, IInv, Types, NoCall
<1>3. call # NoCall /\ phase = "open"
  BY DEF DrainEmpty, IInv, Phases, NoCall
<1>4. call' = NoCall \/ (call' = [call EXCEPT !.pc = "send"] /\ call.key \notin DOMAIN cache)
                     \/ (call' = [call EXCEPT !.pc = "use"] /\ call.key \in DOMAIN cache)
  BY DEF DrainEmpty
<1>5. EvictedApart' /\ Phases'
  BY <1>3, <1>4 DEF DrainEmpty, IInv, Types, EvictedApart, Phases, NoCall
<1> QED
  BY <1>1, <1>2, <1>5 DEF IInv

LEMMA UseGetStep ==
    ASSUME IInv, UseGet
    PROVE  IInv' /\ Kept /\ call.key \in Keys /\ answer' = [key |-> call.key, value |-> At(call.key)]
<1>1. LoadsOnce' /\ Queued' /\ LoadsFresh' /\ Earlier' /\ Kept
  BY CallKeeps DEF UseGet
<1>2. Types'
  BY DEF UseGet, InUse, IInv, Types, NoCall
<1>3. EvictedApart' /\ Phases'
  BY DEF UseGet, InUse, IInv, EvictedApart, Phases, NoCall
<1>4. call.key \in Keys /\ answer' = [key |-> call.key, value |-> At(call.key)]
  BY DEF UseGet, InUse, IInv, Types, At, Now
<1> QED
  BY <1>1, <1>2, <1>3, <1>4 DEF IInv

LEMMA DropBeginStep ==
    ASSUME IInv, DropBegin
    PROVE  IInv' /\ Kept
<1>1. LoadsOnce' /\ Queued' /\ LoadsFresh' /\ Earlier' /\ Kept
  BY CallKeeps DEF DropBegin
<1>2. Types'
  BY DEF DropBegin, IInv, Types
<1>3. EvictedApart' /\ Phases'
  BY DEF DropBegin, IInv, EvictedApart, Phases, NoCall
<1> QED
  BY <1>1, <1>2, <1>3 DEF IInv

LEMMA UsePutStep ==
    ASSUME IInv, UsePut
    PROVE  /\ IInv' /\ call.key \in Keys
           /\ \A k \in Keys : At(k)' = IF k = call.key THEN At(k) + 1 ELSE At(k)
<1>1. /\ call.key \in DOMAIN cache /\ call.key \in Keys /\ phase = "open" /\ evicted = <<>>
      /\ call' = NoCall /\ cache' = [cache EXCEPT ![call.key] = @ + 1]
      /\ UNCHANGED <<disk, outstanding, evicted, cmdq, respq, hand, phase>>
  BY DEF UsePut, InUse, IInv, Phases, Types, NoCall
<1>2. DOMAIN cache' = DOMAIN cache
  BY <1>1
<1>3. Types'
  BY <1>1, <1>2 DEF IInv, Types, NoCall
<1>4. LoadsOnce'
  BY <1>1, <1>2 DEF IInv, LoadsOnce, IsGet
<1>5. Queued' /\ LoadsFresh'
  BY <1>1 DEF IInv, Queued, IsGet, LoadsFresh, Settled
<1>6. EvictedApart' /\ Phases'
  BY <1>1, <1>2 DEF IInv, EvictedApart, Phases, NoCall
<1>7. \A k \in Keys : At(k)' = IF k = call.key THEN At(k) + 1 ELSE At(k)
  BY <1>1, <1>2 DEF At, Now
<1>8. Earlier'
  <2>1. SUFFICES ASSUME NEW k \in Keys
                 PROVE  /\ Readable(disk[k]) <= At(k)'
                        /\ \A i \in DOMAIN cmdq : cmdq[i].type = "Put" /\ cmdq[i].key = k
                              => cmdq[i].value <= At(k)'
                        /\ hand.type = "writing" /\ hand.key = k => hand.value <= At(k)'
    BY <1>1 DEF Earlier
  <2>2. At(k) \in Nat /\ (At(k)' = At(k) \/ At(k)' = At(k) + 1)
    BY <1>7, AtNat
  <2>3. /\ Readable(disk[k]) \in Nat
        /\ \A i \in DOMAIN cmdq : cmdq[i].value \in Nat
        /\ hand.value \in Nat
    BY NumbersAreNat
  <2> QED
    BY <2>2, <2>3 DEF IInv, Earlier
<1> QED
  BY <1>1, <1>3, <1>4, <1>5, <1>6, <1>7, <1>8 DEF IInv

LEMMA LoadsKept ==
    ASSUME IInv, UNCHANGED <<outstanding, respq, hand>>, DOMAIN cache' \subseteq DOMAIN cache,
           \A i : IsGet(i)' <=> IsGet(i),
           \A i : IsGet(i) => cmdq'[i] = cmdq[i]
    PROVE  LoadsOnce'
<1>1. LoadsOnce
  BY DEF IInv
<1>2. \A i : IsGet(i)' => IsGet(i) /\ cmdq'[i].key = cmdq[i].key
  OBVIOUS
<1>3. /\ \A i : IsGet(i)' => cmdq'[i].key \in outstanding
      /\ \A i, j : IsGet(i)' /\ IsGet(j)' /\ cmdq'[i].key = cmdq'[j].key => i = j
      /\ \A i, j : IsGet(i)' /\ j \in DOMAIN respq => cmdq'[i].key # respq[j].key
  BY <1>1, <1>2 DEF LoadsOnce
<1>4. /\ \A i \in DOMAIN respq : respq[i].key \in outstanding
      /\ \A i, j \in DOMAIN respq : respq[i].key = respq[j].key => i = j
  BY <1>1 DEF LoadsOnce
<1>5. hand.type = "loaded" =>
         /\ hand.key \in outstanding
         /\ \A i : IsGet(i)' => cmdq'[i].key # hand.key
         /\ \A j \in DOMAIN respq : respq[j].key # hand.key
  BY <1>1, <1>2 DEF LoadsOnce
<1>6. ASSUME NEW k \in outstanding
      PROVE  \/ \E i : IsGet(i)' /\ cmdq'[i].key = k
             \/ \E j \in DOMAIN respq : respq[j].key = k
             \/ hand.type = "loaded" /\ hand.key = k
  BY <1>1 DEF LoadsOnce
<1>7. \A k \in outstanding : k \notin DOMAIN cache'
  BY <1>1 DEF LoadsOnce
<1> QED
  BY <1>3, <1>4, <1>5, <1>6, <1>7 DEF LoadsOnce

\* async_put: the superblock leaves the cache, or what is being evicted, for
\* the end of the command channel.
LEMMA PutSent ==
    ASSUME IInv, NEW m \in Puts, cmdq' = Append(cmdq, m), Len(cmdq) < Cap,
           m.key \notin outstanding, phase \in {"open", "dropping"}, evicted' = <<>>,
           UNCHANGED <<disk, outstanding, respq, hand, call, phase>>,
           cache' \in [DOMAIN cache' -> Nat], DOMAIN cache' = DOMAIN cache \ {m.key},
           \A k \in DOMAIN cache' : cache'[k] = cache[k],
           At(m.key) = m.value,
           evicted # <<>> => evicted[1].key = m.key
    PROVE  /\ LoadsOnce' /\ Queued' /\ LoadsFresh' /\ Earlier' /\ Kept
           /\ cmdq' \in Seq(Messages) /\ Len(cmdq') <= Cap
           /\ \A i \in DOMAIN cmdq' : cmdq'[i].type # "Exit" => cmdq'[i].key \in Keys
<1>1. m \in Messages /\ m.type = "Put" /\ m.key \in Keys /\ cmdq \in Seq(Messages)
  BY DEF IInv, Types, Puts, Messages
<1>2. /\ cmdq' \in Seq(Messages) /\ Len(cmdq') = Len(cmdq) + 1 /\ Len(cmdq) \in Nat
      /\ DOMAIN cmdq = 1..Len(cmdq) /\ DOMAIN cmdq' = 1..Len(cmdq) + 1
      /\ \A i \in DOMAIN cmdq : cmdq'[i] = cmdq[i]
      /\ cmdq'[Len(cmdq) + 1] = m
  BY <1>1, AppendAt
<1>3. \A i \in DOMAIN cmdq' : i \in DOMAIN cmdq \/ i = Len(cmdq) + 1
  BY <1>2
<1>4. /\ \A i : IsGet(i)' <=> IsGet(i)
      /\ \A i : IsGet(i) => cmdq'[i] = cmdq[i]
  BY <1>1, <1>2, <1>3 DEF IsGet
<1>5. \A k \in Keys : k # m.key =>
        /\ PutsIn(cmdq', k) = PutsIn(cmdq, k) /\ HasLast(cmdq', k)
        /\ Behind(cmdq', hand, disk, k) = Behind(cmdq, hand, disk, k)
  BY <1>1, AppendOther DEF IInv, Queued
<1>6. /\ HasLast(cmdq', m.key) /\ Behind(cmdq', hand, disk, m.key) = m.value
      /\ PutsIn(cmdq', m.key) = PutsIn(cmdq, m.key) \cup {Len(cmdq) + 1}
  <2>1. /\ HasLast(Append(cmdq, m), m.key) /\ Behind(Append(cmdq, m), hand, disk, m.key) = m.value
        /\ PutsIn(Append(cmdq, m), m.key) = PutsIn(cmdq, m.key) \cup {Len(cmdq) + 1}
    BY <1>1, AppendPut
  <2> QED
    BY <2>1
<1>7. LoadsOnce'
  BY <1>4, LoadsKept
<1>8. Queued'
  <2>1. \A k \in Keys : HasLast(cmdq', k)
    BY <1>5, <1>6
  <2>2. ASSUME NEW i, IsGet(i), NEW j \in PutsIn(cmdq', cmdq[i].key)
        PROVE  j < i
    <3>1. cmdq[i].key \in outstanding /\ cmdq[i].key \in Keys
      BY <2>2 DEF IInv, LoadsOnce, Types
    <3> QED
      BY <2>2, <3>1, <1>5 DEF IInv, Queued
  <2>3. \A i \in DOMAIN cmdq' : cmdq'[i].type # "Exit"
    BY <1>1, <1>2, <1>3 DEF IInv, Queued
  <2>4. hand.type # "exited"
    BY DEF IInv, Queued
  <2> QED
    BY <2>1, <2>2, <2>3, <2>4, <1>4 DEF Queued
<1>9. LoadsFresh'
  <2>1. hand.type = "loaded" => hand.key \in Keys /\ hand.key # m.key
    BY DEF IInv, LoadsOnce, Types
  <2>2. \A i \in DOMAIN respq : respq[i].key \in Keys /\ respq[i].key # m.key
    BY DEF IInv, LoadsOnce, Types
  <2> QED
    BY <2>1, <2>2, <1>5 DEF IInv, LoadsFresh, Settled
<1>10. Kept
  <2>1. SUFFICES ASSUME NEW k \in Keys
                 PROVE  At(k)' = At(k)
    BY DEF Kept
  <2>2. CASE k = m.key
    BY <2>2, <1>6 DEF At, Now
  <2>3. CASE k # m.key
    BY <2>3, <1>5 DEF At, Now
  <2> QED
    BY <2>2, <2>3
<1>11. Earlier'
  <2>1. SUFFICES ASSUME NEW k \in Keys
                 PROVE  /\ Readable(disk[k]) <= At(k)
                        /\ \A i \in DOMAIN cmdq' : cmdq'[i].type = "Put" /\ cmdq'[i].key = k
                              => cmdq'[i].value <= At(k)
                        /\ hand.type = "writing" /\ hand.key = k => hand.value <= At(k)
    BY <1>10 DEF Earlier, Kept
  <2>2. m.value <= m.value
    BY DEF Puts
  <2> QED
    BY <2>2, <1>2, <1>3 DEF IInv, Earlier
<1>12. \A i \in DOMAIN cmdq' : cmdq'[i].type # "Exit" => cmdq'[i].key \in Keys
  BY <1>1, <1>2, <1>3 DEF IInv, Types
<1> QED
  BY <1>2, <1>7, <1>8, <1>9, <1>10, <1>11, <1>12, ShardAssumption

LEMMA SendEvictedStep ==
    ASSUME IInv, SendEvicted
    PROVE  IInv' /\ Kept
<1> DEFINE m == evicted[1]
<1>1. m \in Puts
  BY DEF SendEvicted, IInv, Types
<1>2. /\ evicted # <<>> /\ cmdq' = Append(cmdq, m) /\ Len(cmdq) < Cap /\ evicted' = <<>>
      /\ UNCHANGED <<disk, cache, outstanding, respq, hand, call, phase>>
  BY DEF SendEvicted
<1>3. /\ m.key \notin outstanding /\ m.key \notin DOMAIN cache /\ phase = "open"
      /\ At(m.key) = m.value
  BY <1>2 DEF IInv, EvictedApart, At, Now
<1>4. cache' \in [DOMAIN cache' -> Nat] /\ DOMAIN cache' = DOMAIN cache \ {m.key}
  BY <1>2, <1>3 DEF IInv, Types
<1>5. /\ LoadsOnce' /\ Queued' /\ LoadsFresh' /\ Earlier' /\ Kept
      /\ cmdq' \in Seq(Messages) /\ Len(cmdq') <= Cap
      /\ \A i \in DOMAIN cmdq' : cmdq'[i].type # "Exit" => cmdq'[i].key \in Keys
  <2> HIDE DEF m
  <2> QED
    BY <1>1, <1>2, <1>3, <1>4, PutSent DEF m
<1>6. Types'
  BY <1>2, <1>5, ShardAssumption DEF IInv, Types
<1>7. EvictedApart' /\ Phases'
  BY <1>2, <1>3 DEF IInv, EvictedApart, Phases
<1> QED
  BY <1>5, <1>6, <1>7 DEF IInv

LEMMA DropPutStep ==
    ASSUME IInv, DropPut
    PROVE  IInv' /\ Kept
<1>1. PICK k \in DOMAIN cache : cmdq' = Append(cmdq, Msg("Put", k, cache[k])) /\ cache' = Without(cache, k)
  BY DEF DropPut
<1> DEFINE m == Msg("Put", k, cache[k])
<1>2. m \in Puts /\ m.key = k /\ m.value = cache[k]
  BY DEF IInv, Types, Msg, Puts
<1>3. /\ phase = "dropping" /\ Len(cmdq) < Cap
      /\ UNCHANGED <<disk, outstanding, evicted, respq, hand, call, phase>>
  BY DEF DropPut
<1>4. evicted = <<>> /\ k \notin outstanding /\ At(k) = cache[k]
  BY <1>3 DEF IInv, EvictedApart, LoadsOnce, At, Now
<1>5. /\ DOMAIN cache' = DOMAIN cache \ {k} /\ \A x \in DOMAIN cache' : cache'[x] = cache[x]
      /\ cache' \in [DOMAIN cache' -> Nat]
  BY <1>1 DEF Without, IInv, Types
<1>6. /\ LoadsOnce' /\ Queued' /\ LoadsFresh' /\ Earlier' /\ Kept
      /\ cmdq' \in Seq(Messages) /\ Len(cmdq') <= Cap
      /\ \A i \in DOMAIN cmdq' : cmdq'[i].type # "Exit" => cmdq'[i].key \in Keys
  <2> HIDE DEF m
  <2> QED
    BY <1>1, <1>2, <1>3, <1>4, <1>5, PutSent DEF m
<1>7. IsFiniteSet(DOMAIN cache') /\ Cardinality(DOMAIN cache') <= CacheSize
  <2>1. IsFiniteSet(DOMAIN cache) /\ Cardinality(DOMAIN cache) \in Nat /\ Cardinality(DOMAIN cache) <= CacheSize
    BY FS_CardinalityType DEF IInv, Types
  <2>2. /\ IsFiniteSet(DOMAIN cache \ {k})
        /\ Cardinality(DOMAIN cache \ {k}) = Cardinality(DOMAIN cache) - 1
    BY <2>1, FS_RemoveElement
  <2> QED
    BY <2>1, <2>2, <1>5, ShardAssumption
<1>8. Types'
  BY <1>3, <1>5, <1>6, <1>7 DEF IInv, Types
<1>9. EvictedApart' /\ Phases'
  BY <1>3, <1>4, <1>5 DEF IInv, EvictedApart, Phases, NoCall
<1> QED
  BY <1>6, <1>8, <1>9 DEF IInv

LEMMA DropExitStep ==
    ASSUME IInv, DropExit
    PROVE  IInv' /\ Kept
<1>1. /\ phase = "dropping" /\ phase' = "closing" /\ call = NoCall /\ evicted = <<>>
      /\ cache = EmptyCache /\ Len(cmdq) < Cap /\ cmdq' = Append(cmdq, Exit)
      /\ UNCHANGED <<disk, cache, outstanding, evicted, respq, hand, call>>
  BY DEF DropExit, IInv, Phases, EvictedApart
<1>2. Exit \in Messages /\ Exit.type = "Exit"
  BY DEF Exit, Msg, Messages
<1>3. /\ cmdq' \in Seq(Messages) /\ Len(cmdq') = Len(cmdq) + 1 /\ Len(cmdq) \in Nat
      /\ DOMAIN cmdq = 1..Len(cmdq) /\ DOMAIN cmdq' = 1..Len(cmdq) + 1
      /\ \A i \in DOMAIN cmdq : cmdq'[i] = cmdq[i]
      /\ cmdq'[Len(cmdq) + 1] = Exit
  BY <1>1, <1>2, AppendAt DEF IInv, Types
<1>4. \A i \in DOMAIN cmdq' : i \in DOMAIN cmdq \/ i = Len(cmdq) + 1
  BY <1>3
<1>5. /\ \A i : IsGet(i)' <=> IsGet(i)
      /\ \A i : IsGet(i) => cmdq'[i] = cmdq[i]
  BY <1>2, <1>3, <1>4 DEF IsGet
<1>6. \A k \in Keys : /\ PutsIn(cmdq', k) = PutsIn(cmdq, k) /\ HasLast(cmdq', k)
                      /\ Behind(cmdq', hand, disk, k) = Behind(cmdq, hand, disk, k)
  <2>1. cmdq \in Seq(Messages) /\ \A k \in Keys : HasLast(cmdq, k)
    BY DEF IInv, Types, Queued
  <2> QED
    BY <2>1, <1>1, <1>2, AppendOther
<1>7. LoadsOnce'
  BY <1>1, <1>5, LoadsKept
<1>8. Queued'
  <2>1. \A i : IsGet(i) => cmdq[i].key \in Keys
    BY DEF IInv, LoadsOnce, Types
  <2>2. \A i : IsGet(i)' => \A j \in PutsIn(cmdq', cmdq'[i].key) : j < i
    BY <2>1, <1>5, <1>6 DEF IInv, Queued
  <2>3. \A i \in DOMAIN cmdq' : cmdq'[i].type = "Exit" => i = Len(cmdq')
    BY <1>1, <1>3, <1>4 DEF IInv, Queued
  <2>4. hand.type # "exited"
    BY <1>1 DEF IInv, Queued
  <2> QED
    BY <1>1, <1>6, <2>2, <2>3, <2>4 DEF Queued
<1>9. LoadsFresh'
  BY <1>1, <1>6 DEF IInv, LoadsFresh, LoadsOnce, Types, Settled
<1>10. Kept
  BY <1>1, <1>6 DEF Kept, At, Now
<1>11. Earlier'
  <2>1. SUFFICES ASSUME NEW k \in Keys
                 PROVE  /\ Readable(disk[k]) <= At(k)
                        /\ \A i \in DOMAIN cmdq' : cmdq'[i].type = "Put" /\ cmdq'[i].key = k
                              => cmdq'[i].value <= At(k)
                        /\ hand.type = "writing" /\ hand.key = k => hand.value <= At(k)
    BY <1>1, <1>10 DEF Earlier, Kept
  <2> QED
    BY <1>2, <1>3, <1>4 DEF IInv, Earlier
<1>12. Types'
  <2>1. \A i \in DOMAIN cmdq' : cmdq'[i].type # "Exit" => cmdq'[i].key \in Keys
    BY <1>2, <1>3, <1>4 DEF IInv, Types
  <2> QED
    BY <1>1, <1>3, <2>1, ShardAssumption DEF IInv, Types
<1>13. EvictedApart'
  BY <1>1 DEF EvictedApart
<1>14. Phases'
  <2>1. DOMAIN cache = {} /\ Cardinality(DOMAIN cache) = 0
    BY <1>1, FS_EmptySet DEF EmptyCache
  <2>2. Cardinality(outstanding) \in Nat
    BY FS_CardinalityType DEF IInv, Types
  <2> QED
    BY <1>1, <2>1, <2>2 DEF IInv, Phases, NoCall
<1> QED
  BY <1>7, <1>8, <1>9, <1>10, <1>11, <1>12, <1>13, <1>14 DEF IInv

LEMMA SendGetStep ==
    ASSUME IInv, SendGet
    PROVE  IInv' /\ Kept
<1>1. /\ call.pc = "send" /\ phase = "open" /\ call.key \in Keys /\ call.key \notin DOMAIN cache
      /\ evicted = <<>>
      /\ UNCHANGED <<disk, cache, evicted, respq, hand, phase>>
  BY DEF SendGet, IInv, Phases, Types, EvictedApart, NoCall
<1>2. call' = NoCall \/ call' = [call EXCEPT !.pc = "await"]
  BY DEF SendGet
<1>3. EvictedApart' /\ Phases'
  BY <1>1, <1>2 DEF IInv, Types, EvictedApart, Phases, NoCall
<1>4. CASE call.key \in outstanding /\ UNCHANGED <<outstanding, cmdq>>
  <2>1. LoadsOnce' /\ Queued' /\ LoadsFresh' /\ Earlier' /\ Kept
    BY <1>1, <1>4, CallKeeps
  <2>2. Types'
    BY <1>1, <1>2, <1>4 DEF IInv, Types, NoCall
  <2> QED
    BY <2>1, <2>2, <1>3 DEF IInv
<1>5. CASE /\ call.key \notin outstanding /\ Len(cmdq) < Cap
           /\ outstanding' = outstanding \cup {call.key}
           /\ cmdq' = Append(cmdq, Msg("Get", call.key, 0))
  <2> DEFINE m == Msg("Get", call.key, 0)
  <2>1. m \in Messages /\ m.type = "Get" /\ m.key = call.key
    BY <1>1 DEF Msg, Messages
  <2>2. cmdq' = Append(cmdq, m)
    BY <1>5
  <2> HIDE DEF m
  <2>3. /\ cmdq' \in Seq(Messages) /\ Len(cmdq') = Len(cmdq) + 1 /\ Len(cmdq) \in Nat
        /\ DOMAIN cmdq = 1..Len(cmdq) /\ DOMAIN cmdq' = 1..Len(cmdq) + 1
        /\ \A i \in DOMAIN cmdq : cmdq'[i] = cmdq[i]
        /\ cmdq'[Len(cmdq) + 1] = m
    BY <2>1, <2>2, AppendAt DEF IInv, Types
  <2>4. \A i \in DOMAIN cmdq' : i \in DOMAIN cmdq \/ i = Len(cmdq) + 1
    BY <2>3
  <2>5. /\ \A i : IsGet(i)' <=> IsGet(i) \/ i = Len(cmdq) + 1
        /\ \A i : IsGet(i) => cmdq'[i] = cmdq[i]
        /\ ~IsGet(Len(cmdq) + 1)
    BY <2>1, <2>3, <2>4 DEF IsGet
  <2>6. \A k \in Keys : /\ PutsIn(cmdq', k) = PutsIn(cmdq, k) /\ HasLast(cmdq', k)
                        /\ Behind(cmdq', hand, disk, k) = Behind(cmdq, hand, disk, k)
    <3>1. cmdq \in Seq(Messages) /\ \A k \in Keys : HasLast(cmdq, k)
      BY DEF IInv, Types, Queued
    <3> QED
      BY <3>1, <2>1, <2>2, AppendOther
  <2>7. LoadsOnce'
    <3> DEFINE n == Len(cmdq) + 1
    <3>11. cmdq'[n].key = call.key /\ \A i : IsGet(i)' <=> IsGet(i) \/ i = n
      BY <2>1, <2>3, <2>5
    <3> HIDE DEF n
    <3>12. \A i : IsGet(i) => cmdq'[i] = cmdq[i] /\ cmdq[i].key \in outstanding
      BY <2>5 DEF IInv, LoadsOnce
    <3>13. \A i, j : IsGet(i) /\ IsGet(j) /\ cmdq[i].key = cmdq[j].key => i = j
      BY DEF IInv, LoadsOnce
    <3>1. /\ \A i : IsGet(i)' => cmdq'[i].key \in outstanding'
          /\ \A i, j : IsGet(i)' /\ IsGet(j)' /\ cmdq'[i].key = cmdq'[j].key => i = j
      BY <1>5, <3>11, <3>12, <3>13
    <3>14. \A i, j : IsGet(i)' /\ j \in DOMAIN respq => cmdq'[i].key # respq[j].key
      <4>1. SUFFICES ASSUME NEW i, IsGet(i)', NEW j \in DOMAIN respq
                     PROVE  cmdq'[i].key # respq[j].key
        OBVIOUS
      <4>2. respq[j].key \in outstanding /\ (IsGet(i) => cmdq[i].key # respq[j].key)
        BY DEF IInv, LoadsOnce
      <4> QED
        BY <4>1, <4>2, <1>5, <3>11, <3>12
    <3>2. /\ \A i \in DOMAIN respq : respq[i].key \in outstanding'
          /\ \A i, j \in DOMAIN respq : respq[i].key = respq[j].key => i = j
      BY <1>5 DEF IInv, LoadsOnce
    <3>3. hand.type = "loaded" =>
             /\ hand.key \in outstanding'
             /\ \A i : IsGet(i)' => cmdq'[i].key # hand.key
             /\ \A j \in DOMAIN respq : respq[j].key # hand.key
      <4>1. hand.type = "loaded" =>
              /\ hand.key \in outstanding
              /\ \A i : IsGet(i) => cmdq[i].key # hand.key
              /\ \A j \in DOMAIN respq : respq[j].key # hand.key
        BY DEF IInv, LoadsOnce
      <4> QED
        BY <4>1, <1>5, <3>11, <3>12
    <3>4. ASSUME NEW k \in outstanding'
          PROVE  \/ \E i : IsGet(i)' /\ cmdq'[i].key = k
                 \/ \E j \in DOMAIN respq : respq[j].key = k
                 \/ hand.type = "loaded" /\ hand.key = k
      <4>1. CASE k = call.key
        BY <4>1, <2>1, <2>3, <2>5
      <4>2. CASE k \in outstanding
        BY <4>2, <2>5 DEF IInv, LoadsOnce
      <4> QED
        BY <4>1, <4>2, <1>5
    <3>5. \A k \in outstanding' : k \notin DOMAIN cache
      BY <1>1, <1>5 DEF IInv, LoadsOnce
    <3> QED
      BY <1>1, <3>1, <3>14, <3>2, <3>3, <3>4, <3>5 DEF LoadsOnce
  <2>8. Queued'
    <3>1. \A i : IsGet(i) => cmdq[i].key \in Keys
      BY DEF IInv, LoadsOnce, Types
    <3>2. ASSUME NEW i, IsGet(i)', NEW j \in PutsIn(cmdq', cmdq'[i].key)
          PROVE  j < i
      <4>1. CASE IsGet(i)
        BY <4>1, <3>1, <3>2, <2>5, <2>6 DEF IInv, Queued
      <4>2. CASE i = Len(cmdq) + 1
        <5>1. j \in DOMAIN cmdq
          BY <4>2, <3>2, <2>1, <2>3, <2>6, <1>1 DEF PutsIn
        <5> QED
          BY <5>1, <4>2, <2>3
      <4> QED
        BY <4>1, <4>2, <3>2, <2>5
    <3>3. \A i \in DOMAIN cmdq' : cmdq'[i].type # "Exit"
      BY <1>1, <2>1, <2>3, <2>4 DEF IInv, Queued
    <3>4. hand.type # "exited"
      BY <1>1 DEF IInv, Queued
    <3> QED
      BY <1>1, <2>6, <3>2, <3>3, <3>4 DEF Queued
  <2>9. LoadsFresh'
    BY <1>1, <2>6 DEF IInv, LoadsFresh, LoadsOnce, Types, Settled
  <2>10. Kept
    BY <1>1, <2>6 DEF Kept, At, Now
  <2>11. Earlier'
    <3>1. SUFFICES ASSUME NEW k \in Keys
                   PROVE  /\ Readable(disk[k]) <= At(k)
                          /\ \A i \in DOMAIN cmdq' : cmdq'[i].type = "Put" /\ cmdq'[i].key = k
                                => cmdq'[i].value <= At(k)
                          /\ hand.type = "writing" /\ hand.key = k => hand.value <= At(k)
      BY <1>1, <2>10 DEF Earlier, Kept
    <3> QED
      BY <2>1, <2>3, <2>4 DEF IInv, Earlier
  <2>12. Types'
    <3>1. \A i \in DOMAIN cmdq' : cmdq'[i].type # "Exit" => cmdq'[i].key \in Keys
      BY <1>1, <2>1, <2>3, <2>4 DEF IInv, Types
    <3>2. outstanding' \subseteq Keys /\ IsFiniteSet(outstanding')
      BY <1>1, <1>5, FS_AddElement DEF IInv, Types
    <3> QED
      BY <1>1, <1>2, <1>5, <2>3, <3>1, <3>2, ShardAssumption DEF IInv, Types, NoCall
  <2> QED
    BY <1>3, <2>7, <2>8, <2>9, <2>10, <2>11, <2>12 DEF IInv
<1> QED
  BY <1>4, <1>5 DEF SendGet

\* The superblock that is received is current; it takes its place in the cache,
\* and another one, which is not being loaded, may leave it.
LEMMA ReceiveStep ==
    ASSUME IInv, Receive, UNCHANGED <<disk, cmdq, hand, phase>>,
           phase = "closing" \/ call.pc \in {"drain", "await"},
           \/ call' = call
           \/ Head(respq).key = call.key /\ call.pc = "await" /\ call' = [call EXCEPT !.pc = "use"]
    PROVE  IInv' /\ Kept
<1> DEFINE key == Head(respq).key
           value == Head(respq).value
<1>1. /\ respq # <<>> /\ evicted = <<>> /\ respq' = Tail(respq)
      /\ outstanding' = outstanding \ {key}
  BY DEF Receive
<1>2. \/ /\ Cardinality(DOMAIN cache) < CacheSize
         /\ cache' = With(cache, key, value) /\ evicted' = <<>>
      \/ /\ Cardinality(DOMAIN cache) >= CacheSize
         /\ \E k \in DOMAIN cache : /\ cache' = With(Without(cache, k), key, value)
                                    /\ evicted' = <<Msg("Put", k, cache[k])>>
  BY <1>1 DEF Receive
<1>3. /\ respq' \in Seq(Values) /\ Len(respq') = Len(respq) - 1 /\ Len(respq) \in Nat \ {0}
      /\ DOMAIN respq = 1..Len(respq) /\ DOMAIN respq' = 1..Len(respq) - 1
      /\ \A i \in DOMAIN respq' : respq'[i] = respq[i + 1]
      /\ Head(respq) = respq[1] /\ Head(respq) \in Values
  BY <1>1, TailAt DEF IInv, Types
<1>4. /\ 1 \in DOMAIN respq
      /\ \A i \in DOMAIN respq' : i + 1 \in DOMAIN respq /\ i + 1 # 1
  BY <1>3
<1>5. key \in Keys /\ value \in Nat /\ key = respq[1].key
  BY <1>3 DEF Values
<1>6. /\ key \in outstanding /\ key \notin DOMAIN cache
      /\ Settled(key) /\ value = Readable(disk[key])
  BY <1>3, <1>4 DEF IInv, LoadsOnce, LoadsFresh
<1>7. At(key) = value
  BY <1>1, <1>6 DEF At, Now, Behind, Settled
<1>8. /\ phase \in {"open", "closing"}
      /\ phase = "open" <=> call.pc \in {"drain", "await"}
  BY DEF IInv, Phases, NoCall
<1>9. call' = call \/ (call.pc = "await" /\ call.key = key /\ call' = [call EXCEPT !.pc = "use"])
  OBVIOUS
<1> HIDE DEF key, value
<1>10. LoadsOnce' /\ outstanding' \subseteq outstanding
         /\ IsFiniteSet(outstanding') /\ Cardinality(outstanding') = Cardinality(outstanding) - 1
         /\ Cardinality(outstanding) \in Nat
  <2>1. DOMAIN cache' \subseteq DOMAIN cache \cup {key}
    BY <1>2 DEF With, Without
  <2>2. \A i : (IsGet(i)' <=> IsGet(i)) /\ (IsGet(i) => cmdq[i].key # key)
    <3>1. \A i : IsGet(i)' <=> IsGet(i)
      BY DEF IsGet
    <3>2. \A i : IsGet(i) => cmdq[i].key # key
      BY <1>4, <1>5 DEF IInv, LoadsOnce
    <3> QED
      BY <3>1, <3>2
  <2>3. /\ \A i : IsGet(i) => cmdq[i].key \in outstanding'
        /\ \A i, j : IsGet(i) /\ IsGet(j) /\ cmdq[i].key = cmdq[j].key => i = j
    BY <1>1, <2>2 DEF IInv, LoadsOnce
  <2>4. \A i \in DOMAIN respq' : respq'[i].key # key /\ respq'[i].key \in outstanding'
    BY <1>1, <1>3, <1>4, <1>5 DEF IInv, LoadsOnce
  <2>5. ASSUME NEW i \in DOMAIN respq', NEW j \in DOMAIN respq', respq'[i].key = respq'[j].key
        PROVE  i = j
    <3>1. i + 1 = j + 1
      BY <2>5, <1>3, <1>4 DEF IInv, LoadsOnce
    <3> QED
      BY <3>1, <1>3
  <2>6. \A i, j : IsGet(i) /\ j \in DOMAIN respq' => cmdq[i].key # respq'[j].key
    BY <1>3, <1>4 DEF IInv, LoadsOnce
  <2>7. hand.type = "loaded" =>
           /\ hand.key # key /\ hand.key \in outstanding'
           /\ \A i : IsGet(i) => cmdq[i].key # hand.key
           /\ \A j \in DOMAIN respq' : respq'[j].key # hand.key
    BY <1>1, <1>3, <1>4, <1>5 DEF IInv, LoadsOnce
  <2>8. ASSUME NEW k \in outstanding'
        PROVE  \/ \E i : IsGet(i) /\ cmdq[i].key = k
               \/ \E j \in DOMAIN respq' : respq'[j].key = k
               \/ hand.type = "loaded" /\ hand.key = k
    <3>1. k \in outstanding /\ k # key
      BY <1>1
    <3>2. ASSUME NEW j \in DOMAIN respq, respq[j].key = k
          PROVE  j - 1 \in DOMAIN respq' /\ respq'[j - 1].key = k
      <4>1. j \in 1..Len(respq) /\ j # 1
        BY <3>1, <3>2, <1>3, <1>5
      <4>2. j - 1 \in DOMAIN respq' /\ (j - 1) + 1 = j
        BY <4>1, <1>3
      <4> QED
        BY <4>2, <3>2, <1>3
    <3> QED
      BY <3>1, <3>2 DEF IInv, LoadsOnce
  <2>9. \A k \in outstanding' : k \notin DOMAIN cache'
    BY <1>1, <2>1 DEF IInv, LoadsOnce
  <2>10. LoadsOnce'
    BY <2>2, <2>3, <2>4, <2>5, <2>6, <2>7, <2>8, <2>9 DEF LoadsOnce
  <2>11. /\ IsFiniteSet(outstanding') /\ Cardinality(outstanding') = Cardinality(outstanding) - 1
         /\ Cardinality(outstanding) \in Nat /\ outstanding' \subseteq outstanding
    BY <1>1, <1>6, FS_RemoveElement, FS_CardinalityType DEF IInv, Types
  <2> QED
    BY <2>10, <2>11
<1>11. Queued'
  BY DEF IInv, Queued, IsGet
<1>12. LoadsFresh'
  <2>1. \A i \in DOMAIN respq' : Settled(respq'[i].key) /\ respq'[i].value = Readable(disk[respq'[i].key])
    BY <1>3, <1>4 DEF IInv, LoadsFresh
  <2>2. hand.type = "loaded" => PutsIn(cmdq, hand.key) = {} /\ hand.value = Readable(disk[hand.key])
    BY DEF IInv, LoadsFresh
  <2> QED
    BY <2>1, <2>2 DEF LoadsFresh, Settled
<1>13. respq' \in Seq(Values) /\ Len(respq') <= Cap
  BY <1>3, ShardAssumption DEF IInv, Types
<1>14. IsFiniteSet(DOMAIN cache) /\ Cardinality(DOMAIN cache) \in Nat
  BY FS_CardinalityType DEF IInv, Types
<1>15. CASE /\ Cardinality(DOMAIN cache) < CacheSize
            /\ cache' = With(cache, key, value) /\ evicted' = <<>>
  <2>1. /\ DOMAIN cache' = DOMAIN cache \cup {key} /\ cache' \in [DOMAIN cache' -> Nat]
        /\ cache'[key] = value /\ \A k \in DOMAIN cache : cache'[k] = cache[k]
    BY <1>5, <1>6, <1>15 DEF With, IInv, Types
  <2>2. /\ IsFiniteSet(DOMAIN cache')
        /\ Cardinality(DOMAIN cache') = Cardinality(DOMAIN cache) + 1
    BY <2>1, <1>6, <1>14, FS_AddElement
  <2>3. Types'
    <3>1. Cardinality(DOMAIN cache') <= CacheSize
      BY <2>2, <1>14, <1>15, ShardAssumption
    <3>2. DOMAIN cache' \subseteq Keys
      BY <2>1, <1>5 DEF IInv, Types
    <3>3. evicted' \in Seq(Puts) /\ Len(evicted') <= 1
      BY <1>15
    <3> QED
      BY <2>1, <2>2, <3>1, <3>2, <3>3, <1>9, <1>10, <1>13 DEF IInv, Types
  <2>4. Kept
    BY <2>1, <1>1, <1>6, <1>7, <1>15 DEF Kept, At, Now
  <2>5. EvictedApart'
    BY <1>15 DEF EvictedApart
  <2>6. Phases'
    <3>1. call.pc = "none" \/ call.pc = "drain" \/ call.pc = "await"
      BY <1>8 DEF IInv, Phases, NoCall
    <3>2. ASSUME phase = "closing"
          PROVE  /\ call' = NoCall
                 /\ Cardinality(DOMAIN cache') + Cardinality(outstanding') <= MaxUncollected
                 /\ \A k \in DOMAIN cache' : Settled(k)' /\ cache'[k] = Readable(disk[k])
      <4>1. call' = NoCall
        BY <3>2, <1>9 DEF IInv, Phases, NoCall
      <4>2. Cardinality(DOMAIN cache') + Cardinality(outstanding') <= MaxUncollected
        BY <3>2, <2>2, <1>10, <1>14, ShardAssumption DEF IInv, Phases
      <4>3. \A k \in DOMAIN cache' : Settled(k) /\ cache'[k] = Readable(disk[k])
        BY <3>2, <2>1, <1>6 DEF IInv, Phases
      <4> QED
        BY <4>1, <4>2, <4>3 DEF Settled
    <3>3. call'.pc = "use" => call'.key \in DOMAIN cache'
      BY <3>1, <1>9, <2>1 DEF IInv, Types
    <3>4. call'.pc # "send"
      BY <3>1, <1>9 DEF IInv, Types
    <3> QED
      BY <1>8, <3>2, <3>3, <3>4 DEF Phases
  <2>7. Earlier'
    BY <2>4 DEF Kept, IInv, Earlier
  <2> QED
    BY <1>10, <1>11, <1>12, <2>3, <2>4, <2>5, <2>6, <2>7 DEF IInv
<1>16. ASSUME Cardinality(DOMAIN cache) >= CacheSize, NEW e \in DOMAIN cache,
              cache' = With(Without(cache, e), key, value),
              evicted' = <<Msg("Put", e, cache[e])>>
       PROVE  IInv' /\ Kept
  <2>1. phase = "open"
    \* A shard that is closing has room for whatever is still being loaded.
    <3>1. Cardinality(outstanding) # 0
      BY <1>10, FS_CardinalityType
    <3> QED
      BY <3>1, <1>8, <1>10, <1>14, <1>16, ShardAssumption DEF IInv, Phases
  <2>2. /\ DOMAIN cache' = (DOMAIN cache \ {e}) \cup {key} /\ cache' \in [DOMAIN cache' -> Nat]
        /\ cache'[key] = value /\ \A k \in DOMAIN cache \ {e} : cache'[k] = cache[k]
    BY <1>5, <1>6, <1>16 DEF With, Without, IInv, Types
  <2>3. /\ IsFiniteSet(DOMAIN cache')
        /\ Cardinality(DOMAIN cache') = Cardinality(DOMAIN cache)
    <3>1. /\ IsFiniteSet(DOMAIN cache \ {e})
          /\ Cardinality(DOMAIN cache \ {e}) = Cardinality(DOMAIN cache) - 1
      BY <1>14, <1>16, FS_RemoveElement
    <3>2. /\ IsFiniteSet((DOMAIN cache \ {e}) \cup {key})
          /\ Cardinality((DOMAIN cache \ {e}) \cup {key}) = Cardinality(DOMAIN cache) - 1 + 1
      BY <3>1, <1>6, FS_AddElement
    <3> QED
      BY <3>2, <2>2, <1>14
  <2>4. /\ evicted'[1].key = e /\ evicted'[1].value = cache[e] /\ evicted' # <<>>
        /\ evicted' \in Seq(Puts) /\ Len(evicted') = 1
    <3>1. Msg("Put", e, cache[e]) \in Puts
      BY <1>16 DEF Msg, Puts, IInv, Types
    <3> QED
      BY <3>1, <1>16 DEF Msg
  <2>5. Types'
    <3>1. Cardinality(DOMAIN cache') <= CacheSize
      BY <2>3 DEF IInv, Types
    <3>2. DOMAIN cache' \subseteq Keys
      BY <2>2, <1>5 DEF IInv, Types
    <3>3. evicted' \in Seq(Puts) /\ Len(evicted') <= 1
      BY <2>4
    <3> QED
      BY <2>2, <2>3, <3>1, <3>2, <3>3, <1>9, <1>10, <1>13 DEF IInv, Types
  <2>6. e # key /\ e \notin outstanding
    BY <1>6, <1>16 DEF IInv, LoadsOnce
  <2>7. Kept
    <3>1. SUFFICES ASSUME NEW k \in Keys
                   PROVE  At(k)' = At(k)
      BY DEF Kept
    <3>2. CASE k = key
      BY <3>2, <2>2, <1>7 DEF At, Now
    <3>3. CASE k = e
      BY <3>3, <2>2, <2>4, <2>6, <1>16 DEF At, Now
    <3>4. CASE k # key /\ k # e
      BY <3>4, <2>2, <2>4, <1>1 DEF At, Now
    <3> QED
      BY <3>2, <3>3, <3>4
  <2>8. call'.pc \in {"drain", "await", "use"} /\ (call'.pc = "use" => call'.key = key)
    BY <2>1, <1>8, <1>9 DEF IInv, Types
  <2>9. EvictedApart'
    BY <2>1, <2>2, <2>4, <2>6, <2>8, <1>10 DEF EvictedApart
  <2>10. Phases'
    BY <2>1, <2>2, <2>8 DEF Phases
  <2>11. Earlier'
    BY <2>7 DEF Kept, IInv, Earlier
  <2> QED
    BY <1>10, <1>11, <1>12, <2>5, <2>7, <2>9, <2>10, <2>11 DEF IInv
<1> QED
  BY <1>2, <1>15, <1>16

-----------------------------------------------------------------------------
(* The background thread.                                                  *)

\* What holds of the rest of the command channel, whatever its first command is.
LEMMA Received ==
    ASSUME IInv, NEW type, Receives(type)
    PROVE  /\ hand.type = "idle" /\ 1 \in DOMAIN cmdq
           /\ cmdq' = Tail(cmdq) /\ Head(cmdq) = cmdq[1] /\ cmdq[1] \in Messages /\ cmdq[1].type = type
           /\ cmdq' \in Seq(Messages) /\ Len(cmdq') = Len(cmdq) - 1 /\ Len(cmdq') <= Cap
           /\ Len(cmdq) \in Nat \ {0} /\ DOMAIN cmdq = 1..Len(cmdq) /\ DOMAIN cmdq' = 1..Len(cmdq) - 1
           /\ \A i \in DOMAIN cmdq' : i + 1 \in DOMAIN cmdq /\ i + 1 # 1 /\ cmdq'[i] = cmdq[i + 1]
           /\ \A i : IsGet(i)' => i \in Nat /\ IsGet(i + 1) /\ i + 1 # 1 /\ cmdq'[i] = cmdq[i + 1]
           /\ \A i : IsGet(i) /\ i # 1 => IsGet(i - 1)' /\ cmdq'[i - 1] = cmdq[i]
           /\ \A i \in DOMAIN cmdq' : cmdq'[i].type # "Exit" => cmdq'[i].key \in Keys
<1>1. hand.type = "idle" /\ cmdq # <<>> /\ cmdq' = Tail(cmdq) /\ Head(cmdq).type = type
  BY DEF Receives, Idle, Msg
<1>2. /\ cmdq' \in Seq(Messages) /\ Len(cmdq') = Len(cmdq) - 1 /\ Len(cmdq) \in Nat \ {0}
      /\ DOMAIN cmdq = 1..Len(cmdq) /\ DOMAIN cmdq' = 1..Len(cmdq) - 1
      /\ \A i \in DOMAIN cmdq' : cmdq'[i] = cmdq[i + 1]
      /\ Head(cmdq) = cmdq[1] /\ Head(cmdq) \in Messages
  BY <1>1, TailAt DEF IInv, Types
<1>3. /\ 1 \in DOMAIN cmdq
      /\ \A i \in DOMAIN cmdq' : i \in Nat /\ i + 1 \in DOMAIN cmdq /\ i + 1 # 1
      /\ \A i \in DOMAIN cmdq : i # 1 => i - 1 \in DOMAIN cmdq' /\ (i - 1) + 1 = i
  BY <1>2
<1>4. Len(cmdq) <= Cap /\ Len(cmdq') <= Cap
  BY <1>2, ShardAssumption DEF IInv, Types
<1>5. \A i : IsGet(i)' => i \in Nat /\ IsGet(i + 1) /\ i + 1 # 1 /\ cmdq'[i] = cmdq[i + 1]
  BY <1>2, <1>3 DEF IsGet
<1>6. \A i : IsGet(i) /\ i # 1 => IsGet(i - 1)' /\ cmdq'[i - 1] = cmdq[i]
  <2>1. SUFFICES ASSUME NEW i, IsGet(i), i # 1
                 PROVE  IsGet(i - 1)' /\ cmdq'[i - 1] = cmdq[i]
    OBVIOUS
  <2>2. i - 1 \in DOMAIN cmdq' /\ (i - 1) + 1 = i
    BY <2>1, <1>3 DEF IsGet
  <2>3. cmdq'[i - 1] = cmdq[i]
    BY <2>2, <1>2
  <2> QED
    BY <2>1, <2>2, <2>3 DEF IsGet
<1>7. \A i \in DOMAIN cmdq' : cmdq'[i].type # "Exit" => cmdq'[i].key \in Keys
  BY <1>2, <1>3 DEF IInv, Types
<1> QED
  BY <1>1, <1>2, <1>3, <1>4, <1>5, <1>6, <1>7

\* The order of the channel survives the receipt of a command other than Exit.
LEMMA ReceivedQueued ==
    ASSUME IInv, NEW type, Receives(type), type # "Exit", hand'.type # "exited", UNCHANGED phase
    PROVE  Queued'
<1>1. /\ cmdq' = Tail(cmdq) /\ cmdq # <<>> /\ cmdq \in Seq(Messages)
      /\ Len(cmdq') = Len(cmdq) - 1 /\ Len(cmdq) \in Nat
  BY Received DEF Receives, IInv, Types
<1>2. \A k \in Keys : HasLast(cmdq', k)
  BY <1>1, TailOther DEF IInv, Queued
<1>3. ASSUME NEW i, IsGet(i)', NEW j \in PutsIn(cmdq', cmdq'[i].key)
      PROVE  j < i
  <2>1. i \in Nat /\ IsGet(i + 1) /\ cmdq'[i] = cmdq[i + 1]
    BY <1>3, Received
  <2>2. j \in DOMAIN cmdq' /\ j \in Nat /\ j + 1 \in DOMAIN cmdq /\ cmdq'[j] = cmdq[j + 1]
    BY <1>3, Received DEF PutsIn
  <2>3. j + 1 \in PutsIn(cmdq, cmdq[i + 1].key)
    BY <1>3, <2>1, <2>2 DEF PutsIn
  <2>4. j + 1 < i + 1
    BY <2>1, <2>3 DEF IInv, Queued
  <2> QED
    BY <2>1, <2>2, <2>4
<1>4. ASSUME NEW i \in DOMAIN cmdq', cmdq'[i].type = "Exit"
      PROVE  i = Len(cmdq') /\ phase = "closing"
  <2>1. i \in Nat /\ i + 1 \in DOMAIN cmdq /\ cmdq'[i] = cmdq[i + 1]
    BY Received
  <2>2. i + 1 = Len(cmdq) /\ phase = "closing"
    BY <2>1, <1>4 DEF IInv, Queued
  <2> QED
    BY <2>1, <2>2, <1>1
<1> QED
  BY <1>2, <1>3, <1>4 DEF Queued

LEMMA ReadFileStep ==
    ASSUME IInv, ReadFile
    PROVE  IInv' /\ Kept
<1> DEFINE r == cmdq[1].key
<1>1. /\ Receives("Get") /\ UNCHANGED <<disk, cache, outstanding, evicted, respq, call, phase>>
      /\ hand' = [Head(cmdq) EXCEPT !.type = "loaded", !.value = Readable(disk[Head(cmdq).key])]
  BY DEF ReadFile, Receives
<1>2. /\ hand.type = "idle" /\ IsGet(1) /\ cmdq' = Tail(cmdq) /\ cmdq # <<>> /\ cmdq[1] \in Messages
      /\ cmdq' \in Seq(Messages) /\ Len(cmdq') <= Cap
      /\ \A i : IsGet(i)' => i \in Nat /\ IsGet(i + 1) /\ i + 1 # 1 /\ cmdq'[i] = cmdq[i + 1]
      /\ \A i : IsGet(i) /\ i # 1 => IsGet(i - 1)' /\ cmdq'[i - 1] = cmdq[i]
      /\ \A i \in DOMAIN cmdq' : cmdq'[i].type # "Exit" => cmdq'[i].key \in Keys
      /\ Head(cmdq) = cmdq[1]
  BY <1>1, Received DEF IsGet, Receives
<1>3. /\ r \in Keys /\ r \in outstanding /\ hand'.type = "loaded" /\ hand'.key = r
      /\ hand'.value = Readable(disk[r]) /\ hand' \in Hands
  <2>1. r \in outstanding
    BY <1>2 DEF IInv, LoadsOnce
  <2>2. r \in Keys
    BY <2>1 DEF IInv, Types
  <2>3. Readable(disk[r]) \in Nat
    BY <2>2, NumbersAreNat
  <2> QED
    BY <1>1, <1>2, <2>1, <2>2, <2>3 DEF Messages, Hands
<1>4. Queued'
  BY <1>1, <1>3, ReceivedQueued
<1>5. \A k \in Keys : /\ PutsIn(cmdq', k) = {} <=> PutsIn(cmdq, k) = {}
                      /\ PutsIn(cmdq', k) # {} => cmdq'[LastIn(cmdq', k)] = cmdq[LastIn(cmdq, k)]
  <2>1. cmdq \in Seq(Messages) /\ \A k \in Keys : HasLast(cmdq, k)
    BY DEF IInv, Types, Queued
  <2>2. Head(cmdq).type # "Put"
    BY <1>2 DEF IsGet
  <2> QED
    BY <2>1, <2>2, <1>2, TailOther
<1> HIDE DEF r
<1>6. LoadsOnce'
  <2>1. ASSUME NEW i, IsGet(i)'
        PROVE  /\ cmdq'[i].key # r /\ cmdq'[i].key \in outstanding
               /\ \A j \in DOMAIN respq : cmdq'[i].key # respq[j].key
    <3>1. IsGet(i + 1) /\ i + 1 # 1 /\ cmdq'[i] = cmdq[i + 1]
      BY <2>1, <1>2
    <3> QED
      BY <3>1, <1>2 DEF IInv, LoadsOnce, r
  <2>3. ASSUME NEW i, NEW j, IsGet(i)', IsGet(j)', cmdq'[i].key = cmdq'[j].key
        PROVE  i = j
    <3>1. /\ i \in Nat /\ IsGet(i + 1) /\ cmdq'[i] = cmdq[i + 1]
          /\ j \in Nat /\ IsGet(j + 1) /\ cmdq'[j] = cmdq[j + 1]
      BY <2>3, <1>2
    <3>2. i + 1 = j + 1
      BY <3>1, <2>3 DEF IInv, LoadsOnce
    <3> QED
      BY <3>1, <3>2
  <2>4. /\ \A i \in DOMAIN respq : respq[i].key \in outstanding /\ respq[i].key # r
        /\ \A i, j \in DOMAIN respq : respq[i].key = respq[j].key => i = j
    BY <1>2 DEF IInv, LoadsOnce, r
  <2>5. ASSUME NEW k \in outstanding
        PROVE  \/ \E i : IsGet(i)' /\ cmdq'[i].key = k
               \/ \E j \in DOMAIN respq : respq[j].key = k
               \/ k = r
    <3>1. \/ \E i : IsGet(i) /\ cmdq[i].key = k
          \/ \E j \in DOMAIN respq : respq[j].key = k
      BY <1>2 DEF IInv, LoadsOnce
    <3> QED
      BY <3>1, <1>2 DEF r
  <2>6. \A k \in outstanding : k \notin DOMAIN cache
    BY DEF IInv, LoadsOnce
  <2> QED
    BY <1>1, <1>3, <2>1, <2>3, <2>4, <2>5, <2>6 DEF LoadsOnce
<1>7. LoadsFresh'
  <2>1. PutsIn(cmdq, r) = {}
    <3>1. ASSUME NEW j \in PutsIn(cmdq, r)
          PROVE  FALSE
      <4>1. j < 1 /\ j \in DOMAIN cmdq
        BY <3>1, <1>2 DEF IInv, Queued, PutsIn, r
      <4> QED
        BY <4>1 DEF IInv, Types
    <3> QED
      BY <3>1
  <2>2. \A i \in DOMAIN respq : respq[i].key \in Keys
    BY DEF IInv, LoadsOnce, Types
  <2>3. \A i \in DOMAIN respq : PutsIn(cmdq', respq[i].key) = {} /\ respq[i].value = Readable(disk[respq[i].key])
    BY <2>2, <1>5 DEF IInv, LoadsFresh, Settled
  <2> QED
    BY <2>1, <2>3, <1>1, <1>3, <1>5 DEF LoadsFresh, Settled
<1>8. Kept
  <2>1. \A k \in Keys : Behind(cmdq', hand', disk, k) = Behind(cmdq, hand, disk, k)
    BY <1>2, <1>3, <1>5 DEF Behind
  <2> QED
    BY <2>1, <1>1 DEF Kept, At, Now
<1>9. Earlier'
  <2>1. SUFFICES ASSUME NEW k \in Keys
                 PROVE  /\ Readable(disk[k]) <= At(k)
                        /\ \A i \in DOMAIN cmdq' : cmdq'[i].type = "Put" /\ cmdq'[i].key = k
                              => cmdq'[i].value <= At(k)
    BY <1>1, <1>3, <1>8 DEF Earlier, Kept
  <2>2. \A i \in DOMAIN cmdq' : i + 1 \in DOMAIN cmdq /\ cmdq'[i] = cmdq[i + 1]
    BY <1>1, Received
  <2> QED
    BY <2>2 DEF IInv, Earlier
<1>10. Types'
  BY <1>1, <1>2, <1>3 DEF IInv, Types
<1>11. EvictedApart' /\ Phases'
  <2>1. phase # "closed"
    BY <1>2 DEF IInv, Phases
  <2>2. \A k \in Keys : Settled(k) => Settled(k)'
    BY <1>3, <1>5 DEF Settled
  <2>3. DOMAIN cache \subseteq Keys
    BY DEF IInv, Types
  <2> QED
    BY <2>1, <2>2, <2>3, <1>1 DEF IInv, EvictedApart, Phases
<1> QED
  BY <1>4, <1>6, <1>7, <1>8, <1>9, <1>10, <1>11 DEF IInv

\* The loads are untouched by a command that is not a Get.
LEMMA ReceivedLoads ==
    ASSUME IInv, NEW type, Receives(type), type # "Get", hand'.type # "loaded",
           UNCHANGED <<outstanding, respq, cache>>
    PROVE  LoadsOnce'
<1>1. /\ hand.type = "idle" /\ ~IsGet(1)
      /\ \A i : IsGet(i)' => i \in Nat /\ IsGet(i + 1) /\ cmdq'[i] = cmdq[i + 1]
      /\ \A i : IsGet(i) => IsGet(i - 1)' /\ cmdq'[i - 1] = cmdq[i]
  BY Received DEF IsGet
<1>2. /\ \A i : IsGet(i)' => cmdq'[i].key \in outstanding
      /\ \A i, j : IsGet(i)' /\ j \in DOMAIN respq => cmdq'[i].key # respq[j].key
  BY <1>1 DEF IInv, LoadsOnce
<1>3. ASSUME NEW i, NEW j, IsGet(i)', IsGet(j)', cmdq'[i].key = cmdq'[j].key
      PROVE  i = j
  <2>1. /\ i \in Nat /\ IsGet(i + 1) /\ cmdq'[i] = cmdq[i + 1]
        /\ j \in Nat /\ IsGet(j + 1) /\ cmdq'[j] = cmdq[j + 1]
    BY <1>3, <1>1
  <2>2. i + 1 = j + 1
    BY <2>1, <1>3 DEF IInv, LoadsOnce
  <2> QED
    BY <2>1, <2>2
<1>4. /\ \A i \in DOMAIN respq : respq[i].key \in outstanding
      /\ \A i, j \in DOMAIN respq : respq[i].key = respq[j].key => i = j
  BY DEF IInv, LoadsOnce
<1>5. ASSUME NEW k \in outstanding
      PROVE  \/ \E i : IsGet(i)' /\ cmdq'[i].key = k
             \/ \E j \in DOMAIN respq : respq[j].key = k
  <2>1. \/ \E i : IsGet(i) /\ cmdq[i].key = k
        \/ \E j \in DOMAIN respq : respq[j].key = k
    BY <1>1 DEF IInv, LoadsOnce
  <2> QED
    BY <2>1, <1>1
<1>6. \A k \in outstanding : k \notin DOMAIN cache
  BY DEF IInv, LoadsOnce
<1> QED
  BY <1>2, <1>3, <1>4, <1>5, <1>6 DEF LoadsOnce

LEMMA CreateFileStep ==
    ASSUME IInv, CreateFile
    PROVE  IInv' /\ Kept
<1> DEFINE r == cmdq[1].key
           v == cmdq[1].value
<1>1. /\ Receives("Put") /\ UNCHANGED <<cache, outstanding, evicted, respq, call, phase>>
      /\ hand' = [Head(cmdq) EXCEPT !.type = "writing"]
      /\ disk' = [disk EXCEPT ![Head(cmdq).key] = Torn]
  BY DEF CreateFile, Receives
<1>2. /\ hand.type = "idle" /\ 1 \in DOMAIN cmdq /\ cmdq' = Tail(cmdq) /\ cmdq # <<>>
      /\ cmdq[1] \in Messages /\ cmdq[1].type = "Put" /\ Head(cmdq) = cmdq[1]
      /\ cmdq' \in Seq(Messages) /\ Len(cmdq') <= Cap
      /\ \A i \in DOMAIN cmdq' : i + 1 \in DOMAIN cmdq /\ cmdq'[i] = cmdq[i + 1]
      /\ \A i \in DOMAIN cmdq' : cmdq'[i].type # "Exit" => cmdq'[i].key \in Keys
  BY <1>1, Received DEF Receives
<1>3. /\ r \in Keys /\ hand'.type = "writing" /\ hand'.key = r /\ hand'.value = v
      /\ hand' \in Hands /\ disk' = [disk EXCEPT ![r] = Torn] /\ v <= At(r)
  <2>1. r \in Keys
    BY <1>2 DEF IInv, Types
  <2>2. v <= At(r)
    BY <2>1, <1>2 DEF IInv, Earlier
  <2> QED
    BY <2>1, <2>2, <1>1, <1>2 DEF Messages, Hands
<1>4. Queued'
  BY <1>1, <1>3, ReceivedQueued
<1>5. LoadsOnce'
  BY <1>1, <1>3, ReceivedLoads
<1>6. \A k \in Keys :
        /\ PutsIn(cmdq', k) # {} => PutsIn(cmdq, k) # {} /\ cmdq'[LastIn(cmdq', k)] = cmdq[LastIn(cmdq, k)]
        /\ k # r => (PutsIn(cmdq', k) = {} <=> PutsIn(cmdq, k) = {})
  <2>1. cmdq \in Seq(Messages) /\ \A k \in Keys : HasLast(cmdq, k)
    BY DEF IInv, Types, Queued
  <2> QED
    BY <2>1, <1>2, TailOther
<1>7. PutsIn(cmdq, r) # {} /\ (PutsIn(cmdq', r) = {} => cmdq[LastIn(cmdq, r)] = cmdq[1])
  <2>1. cmdq \in Seq(Messages) /\ HasLast(cmdq, r)
    BY <1>3 DEF IInv, Types, Queued
  <2>2. 1 \in PutsIn(cmdq, r)
    BY <1>2 DEF PutsIn
  <2> QED
    BY <2>1, <2>2, <1>2, TailOther
<1> HIDE DEF r, v
<1>8. \A k \in Keys : Settled(k) => k # r /\ Settled(k)' /\ disk'[k] = disk[k]
  BY <1>3, <1>6, <1>7 DEF Settled, IInv, Types
<1>9. LoadsFresh'
  <2>1. \A i \in DOMAIN respq : respq[i].key \in Keys
    BY DEF IInv, LoadsOnce, Types
  <2>2. \A i \in DOMAIN respq : /\ Settled(respq[i].key) /\ respq[i].value = Readable(disk[respq[i].key])
                                /\ disk'[respq[i].key] = disk[respq[i].key]
    BY <2>1, <1>8 DEF IInv, LoadsFresh
  <2>3. \A i \in DOMAIN respq : PutsIn(cmdq', respq[i].key) = {} /\ r # respq[i].key
    BY <2>1, <2>2, <1>6, <1>7 DEF Settled
  <2> QED
    BY <2>2, <2>3, <1>1, <1>3 DEF LoadsFresh, Settled
<1>10. Kept
  <2>1. SUFFICES ASSUME NEW k \in Keys
                 PROVE  Behind(cmdq', hand', disk', k) = Behind(cmdq, hand, disk, k)
    BY <1>1 DEF Kept, At, Now
  <2>2. CASE PutsIn(cmdq', k) # {}
    BY <2>2, <1>6 DEF Behind
  <2>3. CASE PutsIn(cmdq', k) = {} /\ k = r
    BY <2>3, <1>3, <1>7 DEF Behind, v
  <2>4. CASE PutsIn(cmdq', k) = {} /\ k # r
    BY <2>4, <1>2, <1>3, <1>6 DEF Behind, IInv, Types
  <2> QED
    BY <2>2, <2>3, <2>4
<1>11. Earlier'
  <2>1. SUFFICES ASSUME NEW k \in Keys
                 PROVE  /\ Readable(disk'[k]) <= At(k)
                        /\ \A i \in DOMAIN cmdq' : cmdq'[i].type = "Put" /\ cmdq'[i].key = k
                              => cmdq'[i].value <= At(k)
                        /\ r = k => v <= At(k)
    BY <1>1, <1>3, <1>10 DEF Earlier, Kept
  <2>2. Readable(disk'[k]) <= At(k)
    <3>1. At(k) \in Nat
      BY AtNat
    <3>2. disk'[k] = disk[k] \/ disk'[k] = Torn
      BY <1>3 DEF IInv, Types
    <3> QED
      BY <3>1, <3>2 DEF IInv, Earlier, Readable
  <2>3. \A i \in DOMAIN cmdq' : cmdq'[i].type = "Put" /\ cmdq'[i].key = k => cmdq'[i].value <= At(k)
    BY <1>2 DEF IInv, Earlier
  <2> QED
    BY <2>2, <2>3, <1>3
<1>12. Types'
  BY <1>1, <1>2, <1>3 DEF IInv, Types
<1>13. EvictedApart' /\ Phases'
  <2>1. phase # "closed"
    BY <1>2 DEF IInv, Phases
  <2>2. DOMAIN cache \subseteq Keys
    BY DEF IInv, Types
  <2> QED
    BY <2>1, <2>2, <1>1, <1>8 DEF IInv, EvictedApart, Phases
<1> QED
  BY <1>4, <1>5, <1>9, <1>10, <1>11, <1>12, <1>13 DEF IInv

LEMMA ExitThreadStep ==
    ASSUME IInv, ExitThread
    PROVE  IInv' /\ Kept
<1>1. /\ Receives("Exit") /\ UNCHANGED <<disk, cache, outstanding, evicted, respq, call, phase>>
      /\ hand' = [Head(cmdq) EXCEPT !.type = "exited"]
  BY DEF ExitThread, Receives
<1>2. /\ hand.type = "idle" /\ 1 \in DOMAIN cmdq /\ cmdq[1] \in Messages /\ cmdq[1].type = "Exit"
      /\ Head(cmdq) = cmdq[1] /\ cmdq' \in Seq(Messages) /\ Len(cmdq') <= Cap
      /\ Len(cmdq') = Len(cmdq) - 1 /\ DOMAIN cmdq = 1..Len(cmdq)
  BY <1>1, Received DEF Receives
<1>3. phase = "closing" /\ 1 = Len(cmdq)
  BY <1>2 DEF IInv, Queued
<1>4. cmdq' = <<>> /\ \A k : PutsIn(cmdq, k) = {} /\ PutsIn(cmdq', k) = {}
  <2>1. cmdq' = <<>>
    <3>1. \A q \in Seq(Messages) : Len(q) = 0 => q = <<>>
      OBVIOUS
    <3>2. Len(cmdq') = 1 - 1
      BY <1>2, <1>3
    <3> QED
      BY <3>1, <3>2, <1>2
  <2>2. \A i \in DOMAIN cmdq : i = 1
    <3>1. DOMAIN cmdq = 1..1
      BY <1>2, <1>3
    <3> QED
      BY <3>1
  <2>3. DOMAIN cmdq' = {}
    BY <2>1
  <2> QED
    BY <2>1, <2>2, <2>3, <1>2 DEF PutsIn
<1>5. hand'.type = "exited" /\ hand' \in Hands
  BY <1>1, <1>2 DEF Messages, Hands
<1>6. LoadsOnce'
  BY <1>1, <1>5, ReceivedLoads
<1>7. Queued'
  BY <1>1, <1>3, <1>4, <1>5 DEF Queued, IsGet, HasLast
<1>8. \A k : Settled(k)'
  BY <1>4, <1>5 DEF Settled
<1>9. LoadsFresh'
  BY <1>1, <1>5, <1>8 DEF IInv, LoadsFresh
<1>10. Kept
  BY <1>1, <1>2, <1>4, <1>5 DEF Kept, At, Now, Behind
<1>11. Earlier'
  BY <1>1, <1>4, <1>5, <1>10 DEF IInv, Earlier, Kept
<1>12. Types'
  BY <1>1, <1>2, <1>4, <1>5 DEF IInv, Types
<1>13. EvictedApart' /\ Phases'
  BY <1>1, <1>3, <1>8 DEF IInv, EvictedApart, Phases
<1> QED
  BY <1>6, <1>7, <1>9, <1>10, <1>11, <1>12, <1>13 DEF IInv

LEMMA FinishFileStep ==
    ASSUME IInv, FinishFile
    PROVE  IInv' /\ Kept
<1>1. /\ hand.type = "writing" /\ hand.key \in Keys /\ hand.value \in Nat
      /\ disk' = [disk EXCEPT ![hand.key] = hand.value] /\ hand' = Idle
      /\ UNCHANGED <<cache, outstanding, evicted, cmdq, respq, call, phase>>
  BY DEF FinishFile, IInv, Types, Hands
<1>2. hand'.type = "idle" /\ hand' \in Hands
  BY <1>1 DEF Idle, Msg, Hands
<1>3. /\ disk' \in [Keys -> Nat \cup {Torn}] /\ disk'[hand.key] = hand.value
      /\ \A k \in Keys : k # hand.key => disk'[k] = disk[k]
      /\ Readable(hand.value) = hand.value
  BY <1>1 DEF IInv, Types, Readable, Torn
<1>4. LoadsOnce'
  BY <1>1, <1>2 DEF IInv, LoadsOnce, IsGet
<1>5. Queued'
  BY <1>1, <1>2 DEF IInv, Queued, IsGet
<1>6. \A k \in Keys : Settled(k) => k # hand.key /\ Settled(k)' /\ disk'[k] = disk[k]
  BY <1>1, <1>2, <1>3 DEF Settled
<1>7. LoadsFresh'
  <2>1. \A i \in DOMAIN respq : respq[i].key \in Keys
    BY DEF IInv, LoadsOnce, Types
  <2>2. \A i \in DOMAIN respq : /\ PutsIn(cmdq, respq[i].key) = {}
                                /\ respq[i].value = Readable(disk'[respq[i].key])
    BY <2>1, <1>6 DEF IInv, LoadsFresh, Settled
  <2> QED
    BY <2>2, <1>1, <1>2 DEF LoadsFresh, Settled
<1>8. Kept
  <2>1. SUFFICES ASSUME NEW k \in Keys
                 PROVE  Behind(cmdq, hand', disk', k) = Behind(cmdq, hand, disk, k)
    BY <1>1 DEF Kept, At, Now
  <2> QED
    BY <1>1, <1>2, <1>3 DEF Behind
<1>9. Earlier'
  <2>1. SUFFICES ASSUME NEW k \in Keys
                 PROVE  /\ Readable(disk'[k]) <= At(k)
                        /\ \A i \in DOMAIN cmdq : cmdq[i].type = "Put" /\ cmdq[i].key = k
                              => cmdq[i].value <= At(k)
    BY <1>1, <1>2, <1>8 DEF Earlier, Kept
  <2> QED
    BY <1>1, <1>3 DEF IInv, Earlier
<1>10. Types'
  BY <1>1, <1>2, <1>3 DEF IInv, Types
<1>11. EvictedApart' /\ Phases'
  <2>1. phase # "closed" /\ DOMAIN cache \subseteq Keys
    BY <1>1 DEF IInv, Types, Phases
  <2> QED
    BY <2>1, <1>1, <1>6 DEF IInv, EvictedApart, Phases
<1> QED
  BY <1>4, <1>5, <1>7, <1>8, <1>9, <1>10, <1>11 DEF IInv

LEMMA RespondStep ==
    ASSUME IInv, Respond
    PROVE  IInv' /\ Kept
<1> DEFINE m == [key |-> hand.key, value |-> hand.value]
           n == Len(respq) + 1
<1>1. /\ hand.type = "loaded" /\ hand.key \in Keys /\ hand.value \in Nat
      /\ Len(respq) < Cap /\ respq' = Append(respq, m) /\ hand' = Idle
      /\ UNCHANGED <<disk, cache, outstanding, evicted, cmdq, call, phase>>
  BY DEF Respond, IInv, Types, Hands
<1>2. m \in Values /\ m.key = hand.key /\ m.value = hand.value
  BY <1>1 DEF Values
<1> HIDE DEF m
<1>3. /\ respq' \in Seq(Values) /\ Len(respq') = n /\ Len(respq) \in Nat
      /\ DOMAIN respq = 1..Len(respq) /\ DOMAIN respq' = 1..n
      /\ \A i \in DOMAIN respq : respq'[i] = respq[i]
      /\ respq'[n] = m
  BY <1>1, <1>2, AppendAt DEF IInv, Types
<1>4. \A i : i \in DOMAIN respq' <=> i \in DOMAIN respq \/ i = n
  BY <1>3
<1>5. hand'.type = "idle" /\ hand' \in Hands
  BY <1>1 DEF Idle, Msg, Hands
<1> HIDE DEF n
<1>6. /\ hand.key \in outstanding
      /\ \A i : IsGet(i) => cmdq[i].key # hand.key
      /\ \A j \in DOMAIN respq : respq[j].key # hand.key
  BY <1>1 DEF IInv, LoadsOnce
<1>7. LoadsOnce'
  <2>1. /\ \A i : IsGet(i) => cmdq[i].key \in outstanding
        /\ \A i, j : IsGet(i) /\ IsGet(j) /\ cmdq[i].key = cmdq[j].key => i = j
    BY DEF IInv, LoadsOnce
  <2>2. \A i \in DOMAIN respq' : respq'[i].key \in outstanding
    BY <1>2, <1>3, <1>4, <1>6 DEF IInv, LoadsOnce
  <2>3. \A i, j \in DOMAIN respq' : respq'[i].key = respq'[j].key => i = j
    BY <1>2, <1>3, <1>4, <1>6 DEF IInv, LoadsOnce
  <2>4. \A i, j : IsGet(i) /\ j \in DOMAIN respq' => cmdq[i].key # respq'[j].key
    BY <1>2, <1>3, <1>4, <1>6 DEF IInv, LoadsOnce
  <2>5. ASSUME NEW k \in outstanding
        PROVE  \/ \E i : IsGet(i) /\ cmdq[i].key = k
               \/ \E j \in DOMAIN respq' : respq'[j].key = k
    BY <1>2, <1>3, <1>4 DEF IInv, LoadsOnce
  <2>6. \A k \in outstanding : k \notin DOMAIN cache
    BY DEF IInv, LoadsOnce
  <2>7. \A i : IsGet(i)' <=> IsGet(i)
    BY <1>1 DEF IsGet
  <2> QED
    BY <2>1, <2>2, <2>3, <2>4, <2>5, <2>6, <2>7, <1>1, <1>5 DEF LoadsOnce
<1>8. Queued'
  BY <1>1, <1>5 DEF IInv, Queued, IsGet
<1>9. \A k \in Keys : Settled(k) => Settled(k)'
  BY <1>1, <1>5 DEF Settled
<1>10. LoadsFresh'
  <2>1. \A i \in DOMAIN respq : PutsIn(cmdq, respq[i].key) = {} /\ respq[i].value = Readable(disk[respq[i].key])
    BY DEF IInv, LoadsFresh, Settled
  <2>2. PutsIn(cmdq, hand.key) = {} /\ hand.value = Readable(disk[hand.key])
    BY <1>1 DEF IInv, LoadsFresh
  <2>3. \A i \in DOMAIN respq' : PutsIn(cmdq, respq'[i].key) = {} /\ respq'[i].value = Readable(disk[respq'[i].key])
    BY <2>1, <2>2, <1>2, <1>3, <1>4
  <2> QED
    BY <2>3, <1>1, <1>5 DEF LoadsFresh, Settled
<1>11. Kept
  BY <1>1, <1>5 DEF Kept, At, Now, Behind
<1>12. Earlier'
  BY <1>1, <1>5, <1>11 DEF IInv, Earlier, Kept
<1>13. Types'
  <2>1. Len(respq') <= Cap
    BY <1>1, <1>3, ShardAssumption DEF n
  <2> QED
    BY <2>1, <1>1, <1>3, <1>5 DEF IInv, Types
<1>14. EvictedApart' /\ Phases'
  <2>1. phase # "closed" /\ DOMAIN cache \subseteq Keys
    BY <1>1 DEF IInv, Types, Phases
  <2> QED
    BY <2>1, <1>1, <1>9 DEF IInv, EvictedApart, Phases
<1> QED
  BY <1>7, <1>8, <1>10, <1>11, <1>12, <1>13, <1>14 DEF IInv

-----------------------------------------------------------------------------
(* The end of the process, and the next one.                               *)

LEMMA CloseStep ==
    ASSUME IInv, Close
    PROVE  IInv' /\ Kept
<1>1. /\ phase = "closing" /\ hand.type = "exited" /\ respq = <<>> /\ evicted = <<>>
      /\ phase' = "closed" /\ cache' = EmptyCache /\ outstanding' = {}
      /\ UNCHANGED <<disk, evicted, cmdq, respq, hand, call>>
  BY DEF Close
<1>2. cmdq = <<>> /\ DOMAIN respq = {} /\ DOMAIN cmdq = {} /\ \A k : PutsIn(cmdq, k) = {}
  BY <1>1 DEF IInv, Queued, PutsIn
<1>3. DOMAIN cache' = {} /\ IsFiniteSet({}) /\ Cardinality({}) = 0
  BY <1>1, FS_EmptySet DEF EmptyCache
<1>4. LoadsOnce'
  BY <1>1, <1>2 DEF LoadsOnce, IsGet
<1>5. Queued' /\ LoadsFresh'
  BY <1>1, <1>2 DEF IInv, Queued, LoadsFresh, IsGet
<1>6. Kept
  BY <1>1, <1>2, <1>3 DEF Kept, At, Now, Behind, IInv, Phases
<1>7. Earlier'
  BY <1>1, <1>6 DEF IInv, Earlier, Kept
<1>8. Types'
  BY <1>1, <1>3, ShardAssumption DEF IInv, Types, EmptyCache
<1>9. EvictedApart' /\ Phases'
  BY <1>1, <1>2, <1>3 DEF IInv, EvictedApart, Phases, NoCall
<1> QED
  BY <1>4, <1>5, <1>6, <1>7, <1>8, <1>9 DEF IInv

LEMMA OpenedStep ==
    ASSUME IInv, Opened, UNCHANGED disk
    PROVE  /\ IInv'
           /\ \A k \in Keys : At(k)' = Readable(disk[k])
<1>1. /\ DOMAIN cache' = {} /\ IsFiniteSet({}) /\ Cardinality({}) = 0
      /\ outstanding' = {} /\ evicted' = <<>> /\ cmdq' = <<>> /\ respq' = <<>>
      /\ call' = NoCall /\ phase' = "open" /\ UNCHANGED disk
  BY FS_EmptySet DEF Opened, EmptyCache
<1>2. DOMAIN cmdq' = {} /\ DOMAIN respq' = {} /\ \A k : PutsIn(cmdq', k) = {}
  BY <1>1 DEF PutsIn
<1>3. hand'.type = "idle" /\ hand' \in Hands
  BY DEF Opened, Idle, Msg, Hands
<1>4. Types'
  BY <1>1, <1>2, <1>3, ShardAssumption DEF IInv, Types, Opened, EmptyCache, NoCall
<1>5. LoadsOnce'
  BY <1>1, <1>2, <1>3 DEF LoadsOnce, IsGet
<1>6. Queued' /\ LoadsFresh'
  BY <1>1, <1>2, <1>3 DEF Queued, LoadsFresh, IsGet, HasLast
<1>7. EvictedApart' /\ Phases'
  BY <1>1, <1>3 DEF EvictedApart, Phases, NoCall
<1>8. \A k \in Keys : At(k)' = Readable(disk[k])
  BY <1>1, <1>2, <1>3 DEF At, Now, Behind
<1>9. Earlier'
  <2>1. SUFFICES ASSUME NEW k \in Keys
                 PROVE  Readable(disk[k]) <= At(k)'
    BY <1>1, <1>2, <1>3 DEF Earlier
  <2>2. Readable(disk[k]) \in Nat
    BY NumbersAreNat
  <2> QED
    BY <2>2, <1>8
<1> QED
  BY <1>4, <1>5, <1>6, <1>7, <1>8, <1>9 DEF IInv

-----------------------------------------------------------------------------
(* The theorems.                                                           *)

\* A step keeps every superblock, reads or adds to one of them, or, when the
\* process is killed, takes each back to what is on disk.
Changes ==
    \/ Kept /\ UNCHANGED answer
    \/ Kept /\ \E k \in Keys : answer' = [key |-> k, value |-> At(k)]
    \/ /\ UNCHANGED answer
       /\ \E key \in Keys : \A k \in Keys : At(k)' = IF k = key THEN At(k) + 1 ELSE At(k)
    \/ /\ CanCrash /\ Fresh' /\ UNCHANGED answer
       /\ \A k \in Keys : At(k)' \in Nat /\ At(k) \in Nat /\ At(k)' <= At(k)

LEMMA NextStep ==
    ASSUME IInv, [Next]_vars
    PROVE  IInv' /\ Changes
<1>1. ASSUME Begin
      PROVE  IInv' /\ Changes
  BY <1>1, BeginStep DEF Begin, Changes
<1>2. ASSUME DropBegin
      PROVE  IInv' /\ Changes
  BY <1>2, DropBeginStep DEF DropBegin, Changes
<1>3. ASSUME SendEvicted
      PROVE  IInv' /\ Changes
  BY <1>3, SendEvictedStep DEF SendEvicted, Changes
<1>4. ASSUME DrainReceive
      PROVE  IInv' /\ Changes
  <2>1. /\ Receive /\ UNCHANGED <<disk, cmdq, hand, phase, call, answer>>
        /\ call.pc \in {"drain", "await"}
    BY <1>4 DEF DrainReceive
  <2> QED
    BY <2>1, ReceiveStep DEF Changes
<1>5. ASSUME DrainEmpty
      PROVE  IInv' /\ Changes
  BY <1>5, DrainEmptyStep DEF DrainEmpty, Changes
<1>6. ASSUME SendGet
      PROVE  IInv' /\ Changes
  BY <1>6, SendGetStep DEF SendGet, Changes
<1>7. ASSUME AwaitReceive
      PROVE  IInv' /\ Changes
  <2>1. /\ Receive /\ UNCHANGED <<disk, cmdq, hand, phase, answer>>
        /\ call.pc \in {"drain", "await"}
        /\ \/ call' = call
           \/ Head(respq).key = call.key /\ call.pc = "await" /\ call' = [call EXCEPT !.pc = "use"]
    BY <1>7 DEF AwaitReceive
  <2> QED
    BY <2>1, ReceiveStep DEF Changes
<1>8. ASSUME UseGet
      PROVE  IInv' /\ Changes
  BY <1>8, UseGetStep DEF Changes
<1>9. ASSUME UsePut
      PROVE  IInv' /\ Changes
  BY <1>9, UsePutStep DEF UsePut, Changes
<1>10. ASSUME DropPut
       PROVE  IInv' /\ Changes
  BY <1>10, DropPutStep DEF DropPut, Changes
<1>11. ASSUME DropExit
       PROVE  IInv' /\ Changes
  BY <1>11, DropExitStep DEF DropExit, Changes
<1>12. ASSUME CloseReceive
       PROVE  IInv' /\ Changes
  <2>1. Receive /\ UNCHANGED <<disk, cmdq, hand, phase, call, answer>> /\ phase = "closing"
    BY <1>12 DEF CloseReceive
  <2> QED
    BY <2>1, ReceiveStep DEF Changes
<1>13. ASSUME Close
       PROVE  IInv' /\ Changes
  BY <1>13, CloseStep DEF Close, Changes
<1>14. ASSUME Background
       PROVE  IInv' /\ Changes
  <2>1. IInv' /\ Kept
    BY <1>14, ReadFileStep, RespondStep, CreateFileStep, FinishFileStep, ExitThreadStep DEF Background
  <2>2. UNCHANGED answer
    BY <1>14 DEF Background, ReadFile, Respond, CreateFile, FinishFile, ExitThread
  <2> QED
    BY <2>1, <2>2 DEF Changes
<1>15. ASSUME Reopen
       PROVE  IInv' /\ Changes
  <2>1. /\ IInv' /\ UNCHANGED answer /\ phase = "closed"
        /\ \A k \in Keys : At(k)' = Readable(disk[k])
    BY <1>15, OpenedStep DEF Reopen
  <2>2. \A k \in Keys : At(k) = Readable(disk[k])
    <3>1. /\ DOMAIN cache = {} /\ evicted = <<>> /\ cmdq = <<>> /\ hand.type = "exited"
      BY <2>1 DEF IInv, Phases, EvictedApart
    <3>2. \A k : PutsIn(cmdq, k) = {}
      BY <3>1 DEF PutsIn
    <3> QED
      BY <3>1, <3>2 DEF At, Now, Behind
  <2> QED
    BY <2>1, <2>2 DEF Changes, Kept
<1>16. ASSUME Crash
       PROVE  IInv' /\ Changes
  <2>1. /\ IInv' /\ UNCHANGED answer /\ CanCrash
        /\ \A k \in Keys : At(k)' = Readable(disk[k])
    BY <1>16, OpenedStep DEF Crash
  <2>2. \A k \in Keys : Readable(disk[k]) \in Nat /\ At(k) \in Nat /\ Readable(disk[k]) <= At(k)
    BY NumbersAreNat, AtNat DEF IInv, Earlier
  <2>3. \A k \in Keys : At(k)' \in Nat /\ At(k) \in Nat /\ At(k)' <= At(k)
    BY <2>1, <2>2
  <2> QED
    BY <2>1, <2>3, <1>16 DEF Changes, Crash, Opened, Fresh
<1>17. ASSUME UNCHANGED vars
       PROVE  IInv' /\ Changes
  <2>1. LoadsOnce' /\ Queued' /\ LoadsFresh' /\ Earlier' /\ Kept
    BY <1>17, CallKeeps DEF vars, volatile
  <2>2. Types' /\ EvictedApart' /\ Phases'
    BY <1>17 DEF vars, volatile, IInv, Types, EvictedApart, Phases, Settled
  <2> QED
    BY <2>1, <2>2, <1>17 DEF IInv, Changes, vars
<1> QED
  BY <1>1, <1>2, <1>3, <1>4, <1>5, <1>6, <1>7, <1>8, <1>9, <1>10, <1>11, <1>12, <1>13,
     <1>14, <1>15, <1>16, <1>17 DEF Next, Client

\* What is outstanding is in one place, what was loaded is what is on disk, and
\* a superblock's puts are ahead of the Get of it in the command channel.
THEOREM Invariant == Spec => []IInv
<1>1. IInv /\ [Next]_vars => IInv'
  BY NextStep
<1> QED
  BY InitIInv, <1>1, PTL DEF Spec

\* Types; neither channel holds more than CHANNEL_SIZE messages, nor the cache
\* more superblocks than its size (db.rs, Shard::new).
THEOREM TypeCorrect == Spec => []TypeOK
<1>1. IInv => TypeOK
  <2> SUFFICES ASSUME IInv
               PROVE  TypeOK
    OBVIOUS
  <2>1. evicted \in Seq(Messages)
    <3>1. Puts \subseteq Messages
      BY DEF Puts, Messages
    <3>2. \A S, T : S \subseteq T => Seq(S) \subseteq Seq(T)
      OBVIOUS
    <3> QED
      BY <3>1, <3>2 DEF IInv, Types
  <2>2. /\ \A k \in DOMAIN cache : cache[k] \in Nat
        /\ hand.type \in {"idle", "loaded", "writing", "exited"}
        /\ call.pc \in {"none", "drain", "send", "await", "use"}
    BY DEF IInv, Types, Hands
  <2> QED
    BY <2>1, <2>2 DEF IInv, Types, TypeOK, Values
<1> QED
  BY Invariant, <1>1, PTL

\* No superblock is used, or expected, that is not in the cache ("just-requested
\* key in cache"), and the shard's drop evicts nothing to a thread that has been
\* told to exit.
THEOREM NeverPanics == Spec => []NoPanic
<1>1. IInv => NoPanic
  BY DEF IInv, EvictedApart, Phases, NoPanic
<1> QED
  BY Invariant, <1>1, PTL

\* What the background thread has read, in its hand or in the response channel,
\* is the latest version of the superblock, whatever has been put meanwhile.
THEOREM LoadsCurrent == Spec => []LoadsAreCurrent
<1>1. IInv => LoadsAreCurrent
  <2> SUFFICES ASSUME IInv
               PROVE  LoadsAreCurrent
    OBVIOUS
  <2>1. ASSUME NEW k \in outstanding, Settled(k)
        PROVE  Current(k) = Readable(disk[k])
    <3>1. k \notin DOMAIN cache /\ ~(evicted # <<>> /\ evicted[1].key = k)
      BY DEF IInv, LoadsOnce, EvictedApart
    <3>2. Current(k) = At(k)
      BY CurrentIsAt
    <3> QED
      BY <2>1, <3>1, <3>2 DEF At, Now, Behind, Settled
  <2>2. hand.type = "loaded" =>
           hand.key \in outstanding /\ Settled(hand.key) /\ hand.value = Readable(disk[hand.key])
    BY DEF IInv, LoadsOnce, LoadsFresh, Settled
  <2>3. \A i \in DOMAIN respq : /\ respq[i].key \in outstanding /\ Settled(respq[i].key)
                                /\ respq[i].value = Readable(disk[respq[i].key])
    BY DEF IInv, LoadsOnce, LoadsFresh
  <2> QED
    BY <2>1, <2>2, <2>3 DEF LoadsAreCurrent
<1> QED
  BY Invariant, <1>1, PTL

\* A superblock that is in outstanding_gets is being loaded once, any other is
\* not being loaded, and none that is being loaded is in the cache: the
\* debug_asserts of async_get and process_bg_thread_msg_inner.
THEOREM Tracked == Spec => []LoadsTracked
<1>1. IInv => LoadsTracked
  <2> SUFFICES ASSUME IInv, NEW k \in Keys
               PROVE  /\ Loads(k) = IF k \in outstanding THEN 1 ELSE 0
                      /\ k \in outstanding => k \notin DOMAIN cache
    BY DEF LoadsTracked
  <2> DEFINE gets == {i \in DOMAIN cmdq : cmdq[i].type = "Get" /\ cmdq[i].key = k}
             read == {i \in DOMAIN respq : respq[i].key = k}
             held == hand.type = "loaded" /\ hand.key = k
  <2>1. Loads(k) = Cardinality(gets) + Cardinality(read) + (IF held THEN 1 ELSE 0)
    BY DEF Loads
  <2>2. \A i : i \in gets <=> IsGet(i) /\ cmdq[i].key = k
    BY DEF IsGet
  <2>3. /\ \A i, j \in gets : i = j
        /\ \A i, j \in read : i = j
        /\ gets = {} \/ read = {}
        /\ held => gets = {} /\ read = {}
    BY <2>2 DEF IInv, LoadsOnce
  <2>4. k \in outstanding <=> gets # {} \/ read # {} \/ held
    BY <2>2 DEF IInv, LoadsOnce
  <2> HIDE DEF gets, read, held
  <2>5. \A S : (\A i, j \in S : i = j) => Cardinality(S) = IF S = {} THEN 0 ELSE 1
    <3>1. SUFFICES ASSUME NEW S, \A i, j \in S : i = j
                   PROVE  Cardinality(S) = IF S = {} THEN 0 ELSE 1
      OBVIOUS
    <3>2. CASE S = {}
      BY <3>2, FS_EmptySet
    <3>3. CASE S # {}
      <4>1. PICK i : S = {i}
        BY <3>1, <3>3
      <4> QED
        BY <4>1, FS_Singleton
    <3> QED
      BY <3>2, <3>3
  <2>6. /\ Cardinality(gets) = IF gets = {} THEN 0 ELSE 1
        /\ Cardinality(read) = IF read = {} THEN 0 ELSE 1
    BY <2>3, <2>5
  <2>7. Loads(k) = IF k \in outstanding THEN 1 ELSE 0
    BY <2>1, <2>3, <2>4, <2>6
  <2> QED
    BY <2>7 DEF IInv, LoadsOnce
<1> QED
  BY Invariant, <1>1, PTL

\* The shard, its cache, its channels and its background thread implement the
\* atomic store that the search is written against: from one put of a
\* superblock to the next, every get reads the same, wherever the superblock is
\* on its way, across a drop and a reopening; only a crash takes puts back.
THEOREM Refinement == Spec => ImplementsAtomicStore
<1> DEFINE store == [k \in Keys |-> Current(k)]
<1>1. Init => Store!Init
  <2> SUFFICES ASSUME Init
               PROVE  store = [k \in Keys |-> 0]
    BY DEF Store!Init
  <2>1. cache = EmptyCache /\ evicted = <<>> /\ cmdq = <<>> /\ hand.type = "idle" /\ disk = [k \in Keys |-> 0]
    BY DEF Init, Idle, Msg
  <2>2. DOMAIN cache = {} /\ DOMAIN cmdq = {} /\ \A k : PutsIn(cmdq, k) = {}
    BY <2>1 DEF EmptyCache, PutsIn
  <2>3. \A k \in Keys : At(k) = 0
    BY <2>1, <2>2 DEF At, Now, Behind, Readable
  <2> QED
    BY <2>3, CurrentIsAt
<1>2. IInv /\ [Next]_vars => [Store!Next]_<<store, answer>>
  <2> SUFFICES ASSUME IInv, [Next]_vars
               PROVE  [Store!Next]_<<store, answer>>
    OBVIOUS
  <2>1. store = [k \in Keys |-> At(k)] /\ store' = [k \in Keys |-> At(k)']
    BY CurrentIsAt
  <2> HIDE DEF store
  <2>2. Changes
    BY NextStep
  <2>3. CASE Kept /\ UNCHANGED answer
    BY <2>1, <2>3 DEF Kept
  <2>4. CASE Kept /\ \E k \in Keys : answer' = [key |-> k, value |-> At(k)]
    <3>1. store' = store
      BY <2>1, <2>4 DEF Kept
    <3>2. PICK k \in Keys : answer' = [key |-> k, value |-> store[k]]
      BY <2>1, <2>4
    <3>3. Store!Get(k)
      BY <3>1, <3>2 DEF Store!Get, store
    <3> QED
      BY <3>3 DEF Store!Next
  <2>5. CASE /\ UNCHANGED answer
             /\ \E key \in Keys : \A k \in Keys : At(k)' = IF k = key THEN At(k) + 1 ELSE At(k)
    <3>1. PICK key \in Keys : \A k \in Keys : At(k)' = IF k = key THEN At(k) + 1 ELSE At(k)
      BY <2>5
    <3>2. store' = [store EXCEPT ![key] = @ + 1]
      BY <2>1, <3>1
    <3>3. Store!Put(key)
      BY <3>2, <2>5 DEF Store!Put, store
    <3> QED
      BY <3>3 DEF Store!Next
  <2>6. CASE /\ CanCrash /\ Fresh' /\ UNCHANGED answer
             /\ \A k \in Keys : At(k)' \in Nat /\ At(k) \in Nat /\ At(k)' <= At(k)
    <3>1. \A k \in Keys : store'[k] \in 0..store[k]
      BY <2>1, <2>6
    <3>2. DOMAIN store' = Keys
      BY <2>1
    <3>3. Store!Lose
      BY <3>1, <3>2, <2>6 DEF Store!Lose, store
    <3> QED
      BY <3>3 DEF Store!Next
  <2> QED
    BY <2>2, <2>3, <2>4, <2>5, <2>6 DEF Changes
<1> QED
  BY Invariant, <1>1, <1>2, PTL DEF Spec, ImplementsAtomicStore, Store!Spec
=============================================================================
