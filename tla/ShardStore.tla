----------------------------- MODULE ShardStore -----------------------------
(***************************************************************************)
(* One Shard of FilesDatabase (morello/src/db.rs): a cache of superblocks  *)
(* under a mutex, and a background thread that reads and writes their      *)
(* files, joined by two bounded FIFO channels.  Shards share nothing.      *)
(*                                                                         *)
(* A superblock is abstracted to the number of puts it reflects.  The      *)
(* shard's mutex is held from the beginning of a call to its end, so that  *)
(* one record, `call`, stands for all clients.                             *)
(***************************************************************************)
EXTENDS Integers, Sequences, FiniteSets

CONSTANTS
    Keys,           \* superblock keys that hash to this shard
    NoKey,          \* a value that is not a key
    Cap,            \* CHANNEL_SIZE: capacity of either channel
    CacheSize,      \* superblocks the W-TinyLFU cache holds
    CanCrash,       \* whether the process may be killed
    MaxPuts,        \* bound: puts per superblock
    MaxUncollected  \* bound: prefetches not received when the database is dropped

ASSUME ShardAssumption ==
    /\ NoKey \notin Keys
    /\ Cap \in Nat \ {0} /\ CacheSize \in Nat \ {0}
    /\ CanCrash \in BOOLEAN /\ MaxPuts \in Nat
    /\ MaxUncollected \in Nat /\ MaxUncollected <= Cap /\ MaxUncollected <= CacheSize

VARIABLES
    disk,           \* [Keys -> page, or Torn]: the files
    cache,          \* partial function: the live superblocks
    outstanding,    \* outstanding_gets
    evicted,        \* the evicted superblock that async_put has yet to send
    cmdq, respq,    \* the channels to and from the background thread
    hand,           \* what the background thread is doing
    call,           \* the call that holds the mutex
    phase,          \* whether the database is open, being dropped, or closed
    answer          \* what the last get read

volatile == <<cache, outstanding, evicted, cmdq, respq, hand, call, phase>>
vars == <<disk, volatile, answer>>

\* A file that File::create truncated and that is not written in full yet.
Torn == -1

Msg(type, key, value) == [type |-> type, key |-> key, value |-> value]
Exit == Msg("Exit", NoKey, 0)
Idle == Msg("idle", NoKey, 0)
NoCall == [kind |-> "none", key |-> NoKey, pc |-> "none"]

\* read_any_format: a file it cannot read is taken for an empty superblock,
\* as is a file that does not exist.
Readable(file) == IF file = Torn THEN 0 ELSE file

EmptyCache == [k \in {} |-> 0]
With(f, k, v) == [x \in DOMAIN f \cup {k} |-> IF x = k THEN v ELSE f[x]]
Without(f, k) == [x \in DOMAIN f \ {k} |-> f[x]]

\* The state a new Shard starts in, whatever is on disk.
Opened ==
    /\ cache' = EmptyCache /\ outstanding' = {} /\ evicted' = <<>>
    /\ cmdq' = <<>> /\ respq' = <<>> /\ hand' = Idle
    /\ call' = NoCall /\ phase' = "open"

Init ==
    /\ disk = [k \in Keys |-> 0]
    /\ cache = EmptyCache /\ outstanding = {} /\ evicted = <<>>
    /\ cmdq = <<>> /\ respq = <<>> /\ hand = Idle
    /\ call = NoCall /\ phase = "open"
    /\ answer \in [key : Keys, value : {0}]

-----------------------------------------------------------------------------
(* Where a superblock is.                                                  *)

PutsQueued(k) == {i \in DOMAIN cmdq : cmdq[i].type = "Put" /\ cmdq[i].key = k}
LastPut(k) == CHOOSE i \in PutsQueued(k) : \A j \in PutsQueued(k) : j <= i

\* The superblock as the next call that uses it must find it: in the cache, or
\* else on its way to the disk, or else on disk.
Current(k) ==
    CASE k \in DOMAIN cache -> cache[k]
      [] k \notin DOMAIN cache /\ evicted # <<>> /\ evicted[1].key = k -> evicted[1].value
      [] OTHER -> IF PutsQueued(k) # {} THEN cmdq[LastPut(k)].value
                  ELSE IF hand.type = "writing" /\ hand.key = k THEN hand.value
                  ELSE Readable(disk[k])

-----------------------------------------------------------------------------
(* A call: get_with_preference, one block write of put, or prefetch.       *)

Begin ==
    /\ phase = "open" /\ call = NoCall
    /\ \E kind \in {"get", "put", "prefetch"}, k \in Keys :
          /\ kind = "put" => Current(k) < MaxPuts
          /\ call' = [kind |-> kind, key |-> k, pc |-> "drain"]
    /\ UNCHANGED <<disk, cache, outstanding, evicted, cmdq, respq, hand, phase, answer>>

\* Faulty: the superblock that makes room is dropped.
ReceiveWithoutPut ==
    LET key == Head(respq).key
        value == Head(respq).value
    IN  /\ respq # <<>> /\ evicted = <<>>
        /\ respq' = Tail(respq)
        /\ outstanding' = outstanding \ {key}
        /\ \/ /\ Cardinality(DOMAIN cache) < CacheSize
              /\ cache' = With(cache, key, value)
           \/ /\ Cardinality(DOMAIN cache) >= CacheSize
              /\ \E k \in DOMAIN cache : cache' = With(Without(cache, k), key, value)
        /\ UNCHANGED evicted

\* process_bg_thread_msg_inner up to async_put's send.  Which superblock makes
\* room is the cache's choice; it is not the one just pushed.
Receive ==
    LET key == Head(respq).key
        value == Head(respq).value
    IN  /\ respq # <<>> /\ evicted = <<>>
        /\ respq' = Tail(respq)
        /\ outstanding' = outstanding \ {key}
        /\ \/ /\ Cardinality(DOMAIN cache) < CacheSize
              /\ cache' = With(cache, key, value)
              /\ UNCHANGED evicted
           \/ /\ Cardinality(DOMAIN cache) >= CacheSize
              /\ \E k \in DOMAIN cache :
                    /\ cache' = With(Without(cache, k), key, value)
                    /\ evicted' = <<Msg("Put", k, cache[k])>>

\* Faulty: the command channel is unbounded.
SendEvictedUnbounded ==
    /\ evicted # <<>>
    /\ cmdq' = Append(cmdq, evicted[1])
    /\ evicted' = <<>>
    /\ UNCHANGED <<disk, cache, outstanding, respq, hand, call, phase, answer>>

\* The end of process_bg_thread_msg_inner: async_put blocks while the command
\* channel is full.
SendEvicted ==
    /\ evicted # <<>> /\ Len(cmdq) < Cap
    /\ cmdq' = Append(cmdq, evicted[1])
    /\ evicted' = <<>>
    /\ UNCHANGED <<disk, cache, outstanding, respq, hand, call, phase, answer>>

\* process_available_bg_thread_msgs.
DrainReceive ==
    /\ call.pc = "drain"
    /\ Receive
    /\ UNCHANGED <<disk, cmdq, hand, call, phase, answer>>

\* try_recv finds nothing.  A cached superblock is used at once; a prefetch of
\* one has nothing to do.
DrainEmpty ==
    /\ call.pc = "drain" /\ evicted = <<>> /\ respq = <<>>
    /\ \/ /\ call.key \notin DOMAIN cache
          /\ call' = [call EXCEPT !.pc = "send"]
       \/ /\ call.key \in DOMAIN cache
          /\ call' = IF call.kind = "prefetch" THEN NoCall ELSE [call EXCEPT !.pc = "use"]
    /\ UNCHANGED <<disk, cache, outstanding, evicted, cmdq, respq, hand, phase, answer>>

\* Faulty: a superblock that is being loaded is asked for again.
SendGetAgain ==
    /\ call.pc = "send"
    /\ Len(cmdq) < Cap
    /\ outstanding' = outstanding \cup {call.key}
    /\ cmdq' = Append(cmdq, Msg("Get", call.key, 0))
    /\ call' = IF call.kind = "prefetch" THEN NoCall ELSE [call EXCEPT !.pc = "await"]
    /\ UNCHANGED <<disk, cache, evicted, respq, hand, phase, answer>>

\* Faulty: the request is noted but not sent.
SendGetNothing ==
    /\ call.pc = "send"
    /\ outstanding' = outstanding \cup {call.key}
    /\ call' = IF call.kind = "prefetch" THEN NoCall ELSE [call EXCEPT !.pc = "await"]
    /\ UNCHANGED <<disk, cache, evicted, cmdq, respq, hand, phase, answer>>

\* async_get, which does nothing when the superblock is being loaded already
\* and blocks while the command channel is full.
SendGet ==
    /\ call.pc = "send"
    /\ \/ call.key \in outstanding /\ UNCHANGED <<outstanding, cmdq>>
       \/ /\ call.key \notin outstanding
          /\ Len(cmdq) < Cap
          /\ outstanding' = outstanding \cup {call.key}
          /\ cmdq' = Append(cmdq, Msg("Get", call.key, 0))
    /\ call' = IF call.kind = "prefetch" THEN NoCall ELSE [call EXCEPT !.pc = "await"]
    /\ UNCHANGED <<disk, cache, evicted, respq, hand, phase, answer>>

\* Faulty: whatever is loaded first is taken for the requested superblock.
AwaitAny ==
    /\ call.pc = "await"
    /\ Receive
    /\ call' = [call EXCEPT !.pc = "use"]
    /\ UNCHANGED <<disk, cmdq, hand, phase, answer>>

\* process_bg_thread_msgs_until the requested superblock is loaded.
AwaitReceive ==
    /\ call.pc = "await"
    /\ Receive
    /\ call' = IF Head(respq).key = call.key THEN [call EXCEPT !.pc = "use"] ELSE call
    /\ UNCHANGED <<disk, cmdq, hand, phase, answer>>

InUse(kind) ==
    /\ call.pc = "use" /\ call.kind = kind /\ evicted = <<>>
    /\ call.key \in DOMAIN cache
    /\ call' = NoCall

\* The guard is dereferenced, then dropped.
UseGet ==
    /\ InUse("get")
    /\ answer' = [key |-> call.key, value |-> cache[call.key]]
    /\ UNCHANGED <<disk, cache, outstanding, evicted, cmdq, respq, hand, phase>>

UsePut ==
    /\ InUse("put")
    /\ cache' = [cache EXCEPT ![call.key] = @ + 1]
    /\ UNCHANGED <<disk, outstanding, evicted, cmdq, respq, hand, phase, answer>>

-----------------------------------------------------------------------------
(* The background thread.                                                  *)

\* Faulty: the newest command is served first.
ReceivesNewest(type) ==
    /\ hand = Idle /\ cmdq # <<>> /\ cmdq[Len(cmdq)].type = type
    /\ cmdq' = SubSeq(cmdq, 1, Len(cmdq) - 1)
    /\ hand' = [cmdq[Len(cmdq)] EXCEPT
                  !.type = CASE type = "Get" -> "loaded" [] type = "Put" -> "writing"
                             [] OTHER -> "exited",
                  !.value = IF type = "Get" THEN Readable(disk[cmdq[Len(cmdq)].key]) ELSE @]

\* The thread's loop receives a command of the given type.
Receives(type) ==
    /\ hand = Idle /\ cmdq # <<>> /\ Head(cmdq).type = type
    /\ cmdq' = Tail(cmdq)
    /\ hand' = [Head(cmdq) EXCEPT
                  !.type = CASE type = "Get" -> "loaded" [] type = "Put" -> "writing"
                             [] OTHER -> "exited",
                  !.value = IF type = "Get" THEN Readable(disk[Head(cmdq).key]) ELSE @]

ReadFile ==
    /\ Receives("Get")
    /\ UNCHANGED <<disk, cache, outstanding, evicted, respq, call, phase, answer>>

\* response_tx.send blocks while the response channel is full.
Respond ==
    /\ hand.type = "loaded" /\ Len(respq) < Cap
    /\ respq' = Append(respq, [key |-> hand.key, value |-> hand.value])
    /\ hand' = Idle
    /\ UNCHANGED <<disk, cache, outstanding, evicted, cmdq, call, phase, answer>>

\* File::create, which truncates.
CreateFile ==
    /\ Receives("Put")
    /\ disk' = [disk EXCEPT ![Head(cmdq).key] = Torn]
    /\ UNCHANGED <<cache, outstanding, evicted, respq, call, phase, answer>>

FinishFile ==
    /\ hand.type = "writing"
    /\ disk' = [disk EXCEPT ![hand.key] = hand.value]
    /\ hand' = Idle
    /\ UNCHANGED <<cache, outstanding, evicted, cmdq, respq, call, phase, answer>>

ExitThread ==
    /\ Receives("Exit")
    /\ UNCHANGED <<disk, cache, outstanding, evicted, respq, call, phase, answer>>

Background == ReadFile \/ Respond \/ CreateFile \/ FinishFile \/ ExitThread

-----------------------------------------------------------------------------
(* The end of the process.                                                 *)

\* FilesDatabase::drop has the database for itself.  It does not receive: what
\* it may leave in flight is bounded by MaxUncollected.
DropBegin ==
    /\ phase = "open" /\ call = NoCall
    /\ Cardinality(outstanding) <= MaxUncollected
    /\ phase' = "dropping"
    /\ UNCHANGED <<disk, cache, outstanding, evicted, cmdq, respq, hand, call, answer>>

\* drain_cache, and async_put of what it yields.
DropPut ==
    /\ phase = "dropping" /\ Len(cmdq) < Cap
    /\ \E k \in DOMAIN cache :
          /\ cmdq' = Append(cmdq, Msg("Put", k, cache[k]))
          /\ cache' = Without(cache, k)
    /\ UNCHANGED <<disk, outstanding, evicted, respq, hand, call, phase, answer>>

\* Shard::drop: tell the thread to exit, receive until it has, and join it.
DropExit ==
    /\ phase = "dropping" /\ cache = EmptyCache /\ Len(cmdq) < Cap
    /\ cmdq' = Append(cmdq, Exit)
    /\ phase' = "closing"
    /\ UNCHANGED <<disk, cache, outstanding, evicted, respq, hand, call, answer>>

\* Faulty: the thread is joined without receiving what it sends.
CloseWithoutReceiving == phase = "closing" /\ FALSE /\ UNCHANGED vars

\* process_bg_thread_msgs_until_close.
CloseReceive ==
    /\ phase = "closing"
    /\ Receive
    /\ UNCHANGED <<disk, cmdq, hand, call, phase, answer>>

\* The response channel is closed and the thread joined.
Close ==
    /\ phase = "closing" /\ hand.type = "exited" /\ respq = <<>> /\ evicted = <<>>
    /\ phase' = "closed"
    /\ cache' = EmptyCache /\ outstanding' = {}
    /\ UNCHANGED <<disk, evicted, cmdq, respq, hand, call, answer>>

\* The next process opens the same directory.
Reopen ==
    /\ phase = "closed"
    /\ Opened
    /\ UNCHANGED <<disk, answer>>

\* The process is killed and started again.
Crash ==
    /\ CanCrash
    /\ Opened
    /\ UNCHANGED <<disk, answer>>

-----------------------------------------------------------------------------
Client ==
    \/ SendEvicted
    \/ DrainReceive \/ DrainEmpty \/ SendGet \/ AwaitReceive \/ UseGet \/ UsePut
    \/ DropPut \/ DropExit \/ CloseReceive \/ Close

Next == Begin \/ DropBegin \/ Client \/ Background \/ Reopen \/ Crash

Spec == Init /\ [][Next]_vars

\* A thread that has begun a call, or a drop, goes on; so does the background
\* thread.  Nothing has to begin.
FairSpec == Spec /\ WF_vars(Client) /\ WF_vars(Background)

-----------------------------------------------------------------------------
(* Properties.                                                             *)

Messages == [type : {"Get", "Put", "Exit"}, key : Keys \cup {NoKey}, value : Nat]

\* Types of the state; the channels never exceed CHANNEL_SIZE, nor the cache
\* its size.
TypeOK ==
    /\ disk \in [Keys -> Nat \cup {Torn}]
    /\ DOMAIN cache \subseteq Keys /\ \A k \in DOMAIN cache : cache[k] \in Nat
    /\ Cardinality(DOMAIN cache) <= CacheSize
    /\ outstanding \subseteq Keys
    /\ evicted \in Seq(Messages) /\ Len(evicted) <= 1
    /\ cmdq \in Seq(Messages) /\ Len(cmdq) <= Cap
    /\ respq \in Seq([key : Keys, value : Nat]) /\ Len(respq) <= Cap
    /\ hand.type \in {"idle", "loaded", "writing", "exited"}
    /\ call.pc \in {"none", "drain", "send", "await", "use"}
    /\ phase \in {"open", "dropping", "closing", "closed"}

\* The loads under way: in the command channel, in the thread's hand, or in the
\* response channel.
Loads(k) ==
    Cardinality({i \in DOMAIN cmdq : cmdq[i].type = "Get" /\ cmdq[i].key = k})
      + Cardinality({i \in DOMAIN respq : respq[i].key = k})
      + (IF hand.type = "loaded" /\ hand.key = k THEN 1 ELSE 0)

\* A superblock is being loaded exactly when it is in outstanding_gets, once,
\* and then it is not in the cache: the debug_asserts of async_get and of
\* process_bg_thread_msg_inner, and cache.push never replaces a live page.
LoadsTracked ==
    \A k \in Keys : /\ Loads(k) = IF k \in outstanding THEN 1 ELSE 0
                    /\ k \in outstanding => k \notin DOMAIN cache

\* The requested superblock is in the cache when it is used ("just-requested
\* key in cache"), and no superblock is sent to a thread that was told to exit.
NoPanic ==
    /\ call.pc = "use" => call.key \in DOMAIN cache
    /\ phase = "closing" => evicted = <<>>

\* A superblock read from disk is current when it arrives: whatever was
\* evicted before it was asked for has been written by then, and it has not
\* changed since.
LoadsAreCurrent ==
    /\ hand.type = "loaded" => hand.value = Current(hand.key)
    /\ \A i \in DOMAIN respq : respq[i].value = Current(respq[i].key)

\* Nothing is cached, under way or called, as in a process just started.
Fresh == cache = EmptyCache /\ hand = Idle /\ call = NoCall /\ phase = "open"

\* The shard is an atomic store: evictions, loads, the drop and a reopening
\* change no superblock, each put adds to the latest version of it, and only a
\* crash loses anything: no step of a process that goes on does.
Store == INSTANCE AtomicStore WITH
    store <- [k \in Keys |-> Current(k)], MayLose <- CanCrash, fresh <- Fresh
ImplementsAtomicStore == Store!Spec

\* Every call that takes the mutex releases it, although it may block on
\* either channel while the background thread blocks on the other.
CallsReturn == (call # NoCall) ~> (call = NoCall)

\* Dropping the database ends: at most Cap uncollected prefetches cannot wedge
\* the thread against the puts of FilesDatabase::drop.
DropEnds == (phase = "dropping") ~> (phase \in {"closed", "open"})

\* What flush() is taken to ensure: "Background thread writes flush
\* immediately, so this is a no-op".  It may be called whenever no other call
\* is under way.
FlushedWhenIdle ==
    (phase = "open" /\ call = NoCall) => \A k \in Keys : disk[k] = Current(k)
=============================================================================
