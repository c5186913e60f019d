----------------------------- MODULE Precompute -----------------------------
(***************************************************************************)
(* The precomputation driver (precompute/src/main.rs).  It fills a         *)
(* database with the results of every Spec up to some bounds, under every  *)
(* memory limit.  The Specs below a bound are cut into tiles of two points *)
(* per dimension; the tiles with the same sum of coordinates are a stage,  *)
(* whose tiles, the tasks, run in parallel.  A file says how many stages   *)
(* are done.                                                               *)
(*                                                                         *)
(* A search is what the other modules say of it: it answers from the       *)
(* database, or puts an answer, under all limits between its peaks and the *)
(* Spec's.  Which one of several equally good answers that is, and which   *)
(* sub-Specs are put on the way, is left open.                             *)
(***************************************************************************)
EXTENDS Integers, Sequences
LOCAL INSTANCE SequencesExt
LOCAL INSTANCE FiniteSetsExt

CONSTANTS
    LevelMax,       \* sequence: the target's memory per level, binary-scaled
    BoundPt,        \* sequence: of each bound, its point (LogicalSpecSurMap)
    Specs,          \* the canonical logical Specs: records with bound and pt
    Subs,           \* [Specs -> the Specs a search of it meets]
    Answers,        \* [Specs -> [Limits -> the peaks a search may answer with, or None]]
    PageOf(_, _),   \* the superblock of a Spec under limits
    Jobs,           \* goal_bounds of possible arguments: sequences of bounds
    StageArgs,      \* values of --stages, or None
    CanCrash,       \* whether processes may be killed
    MaxRuns,        \* bound on the number of processes
    None

Levels == 1..Len(LevelMax)
Limits == {m \in [Levels -> UNION {0..LevelMax[l] : l \in Levels}] :
             \A l \in Levels : m[l] \in 0..LevelMax[l]}
Within(m, n) == \A l \in Levels : m[l] <= n[l]
Cells == Specs \X Limits

ASSUME PrecomputeAssumption ==
    /\ LevelMax \in Seq(Nat) /\ MaxRuns \in Nat /\ StageArgs \subseteq Nat \cup {None}
    /\ \A s \in Specs : Subs[s] \subseteq Specs
    /\ \A s \in Specs : \A m \in Limits :
          /\ Answers[s][m] # {}
          /\ \A a \in Answers[s][m] : a = None \/ (a \in Limits /\ Within(a, m))
    /\ None \notin Limits \cup Nat

VARIABLES
    process,    \* "idle", "stage", "saving", "exit"; "ended" or "panicked"
    job, args,  \* the arguments of the process
    stageIdx,   \* stage_idx
    work,       \* of the stage's tasks: `stage`, what is to be searched, and `next_stage`
    db,         \* what gets answer: [a subset of Cells -> the peaks of the result or None]
    stored,     \* the cells that are on disk
    progress,   \* the progress file: its job, the stages completed, whether it is whole
    lost,       \* whether a crash lost part of the database
    runs        \* the number of processes

vars == <<process, job, args, stageIdx, work, db, stored, progress, lost, runs>>

-----------------------------------------------------------------------------
(* Stages.                                                                 *)

Sum(pt) == MapThenSumSet(LAMBDA d : pt[d], DOMAIN pt)

\* DownscaleSurMap's apply, with scales of two.
Downscale(pt) == [d \in DOMAIN pt |-> pt[d] \div 2]

\* A diagonal of the bound, scaled down; diagonals ends with the bound itself.
Stages(bound) == [d \in 1..Sum(Downscale(BoundPt[bound])) + 1 |-> [bound |-> bound, sum |-> d - 1]]

StagesOf(j) == FlattenSeq([i \in DOMAIN j |-> Stages(j[i])])

\* apply_inverse of Compose, ApplyRhs and MaxVec, of those that are canonical.
TaskSpecs(stage, task) ==
    {s \in Specs : /\ s.bound = stage.bound /\ Downscale(s.pt) = task
                   /\ \A d \in DOMAIN s.pt : s.pt[d] <= BoundPt[stage.bound][d]}

\* The tasks of a stage, dropping empties.
TasksOf(stage) ==
    {task \in {Downscale(s.pt) : s \in {s \in Specs : s.bound = stage.bound}} :
        Sum(task) = stage.sum /\ TaskSpecs(stage, task) # {}}

\* Each task begins with its Specs under all of the target's memory.
Begin(stage) ==
    [task \in TasksOf(stage) |->
        [todo |-> TaskSpecs(stage, task) \X {LevelMax}, asked |-> {}, next |-> {}]]

-----------------------------------------------------------------------------
(* Searches.                                                               *)

\* Faulty: also those below the peaks.
BoxToBottom(m, answer) == {n \in Limits : Within(n, m)}

\* The limits that a put fills (see DbTable).
Box(m, answer) == {n \in Limits : Within(n, m) /\ (answer # None => Within(answer, n))}

Put(s, m, answer) ==
    [c \in DOMAIN db \cup ({s} \X Box(m, answer)) |->
        IF c \in {s} \X Box(m, answer) THEN answer ELSE db[c]]

\* Faulty: limits at the peaks, instead of below.
NextLimitsAtPeaks(m, peaks) ==
    {[m EXCEPT ![l] = peaks[l]] : l \in {l \in Levels : peaks[l] # 0}}

\* Faulty: all levels are lowered at once.
NextLimitsAllLevels(m, peaks) ==
    {[l \in Levels |-> IF peaks[l] = 0 THEN m[l] ELSE peaks[l] - 1]} \ {m}

\* next_limits: of each level that is used, the memory just below the peak.  Of
\* a peak of one byte that is none, and otherwise half, 1 << (bit_length - 2).
NextLimits(m, peaks) ==
    {[m EXCEPT ![l] = peaks[l] - 1] : l \in {l \in Levels : peaks[l] # 0}}

Init ==
    /\ process = "idle" /\ job = None /\ args = None /\ stageIdx = 0
    /\ work = [t \in {} |-> None]
    /\ db = [c \in {} |-> None] /\ stored = {}
    /\ progress = [job |-> None, stages |-> 0, whole |-> TRUE]
    /\ lost = FALSE /\ runs = 0

\* Faulty: the file's fingerprint is not compared.
StagesToSkipOfAny(j) == progress.stages

\* read_stages_to_skip; without a file, or with another job's, none.
StagesToSkip(j) == IF progress.job = j THEN progress.stages ELSE 0

\* main, up to the first stage.  A file that was cut off cannot be read.
Start ==
    /\ process \in {"idle", "ended"} /\ runs < MaxRuns
    /\ runs' = runs + 1
    /\ \E j \in Jobs, n \in StageArgs :
          /\ job' = j /\ args' = n /\ stageIdx' = 0
          /\ LET skipped == n # None /\ n <= StagesToSkip(j)
                 begins == progress.whole /\ ~skipped
             IN  /\ process' = IF ~progress.whole THEN "panicked"
                               ELSE IF skipped THEN "ended" ELSE "stage"
                 /\ work' = IF begins THEN Begin(StagesOf(j)[1]) ELSE work
    /\ UNCHANGED <<db, stored, progress, lost>>

\* What a task has left once a Spec is searched, and the limits to go on with
\* known: the next limits become the task's stage when that is searched through.
After(w, cell, more) ==
    LET todo == w.todo \ {cell}
        next == w.next \cup more
        asked == w.asked \ {cell}
    IN  IF todo = {} THEN [todo |-> next, asked |-> {}, next |-> {}]
        ELSE [todo |-> todo, asked |-> asked, next |-> next]

\* The cells of a task that a result leaves to be searched.
Below(s, m, answer) == IF answer = None THEN {} ELSE {s} \X NextLimits(m, answer)

\* top_down_many finds a goal in the database.
Hit(task, s, m) ==
    /\ process = "stage" /\ <<s, m>> \in work[task].todo \ work[task].asked /\ <<s, m>> \in DOMAIN db
    /\ work' = [work EXCEPT ![task] = After(@, <<s, m>>, Below(s, m, db[<<s, m>>]))]
    /\ UNCHANGED <<process, job, args, stageIdx, db, stored, progress, lost, runs>>

\* It does not, and searches.
Miss(task, s, m) ==
    /\ process = "stage" /\ <<s, m>> \in work[task].todo \ work[task].asked /\ <<s, m>> \notin DOMAIN db
    /\ work' = [work EXCEPT ![task].asked = @ \cup {<<s, m>>}]
    /\ UNCHANGED <<process, job, args, stageIdx, db, stored, progress, lost, runs>>

\* A search under way puts a sub-Spec, which another task may have put meanwhile.
PutSub(task, s, m) ==
    /\ process = "stage" /\ <<s, m>> \in work[task].asked
    /\ \E t \in Subs[s], n \in Limits :
          Within(n, m) /\ \E answer \in Answers[t][n] : db' = Put(t, n, answer)
    /\ UNCHANGED <<process, job, args, stageIdx, work, stored, progress, lost, runs>>

\* A search ends, and puts its answer over what may be there by now.
Answer(task, s, m) ==
    /\ process = "stage" /\ <<s, m>> \in work[task].asked
    /\ \E answer \in Answers[s][m] :
          /\ db' = Put(s, m, answer)
          /\ work' = [work EXCEPT ![task] = After(@, <<s, m>>, Below(s, m, answer))]
    /\ UNCHANGED <<process, job, args, stageIdx, stored, progress, lost, runs>>

\* Faulty: a stage ends when one of its tasks does.
StageDoneByOne ==
    DOMAIN work = {} \/ \E task \in DOMAIN work : work[task].todo = {}

\* for_each returns when every task has.
StageDone == \A task \in DOMAIN work : work[task].todo = {}

\* write_stages_completed: the file is truncated, then written.
TruncateProgress ==
    /\ process = "stage" /\ StageDone
    /\ process' = "saving" /\ progress' = [progress EXCEPT !.whole = FALSE]
    /\ UNCHANGED <<job, args, stageIdx, work, db, stored, lost, runs>>

\* Go on with the next stage, unless --stages or the bounds end here.
WriteProgress ==
    /\ process = "saving"
    /\ progress' = [job |-> job, stages |-> stageIdx + 1, whole |-> TRUE]
    /\ LET last == (args # None /\ stageIdx >= args) \/ stageIdx + 1 = Len(StagesOf(job))
       IN  /\ process' = IF last THEN "exit" ELSE "stage"
           /\ stageIdx' = IF last THEN stageIdx ELSE stageIdx + 1
           /\ work' = IF last THEN work ELSE Begin(StagesOf(job)[stageIdx + 2])
    /\ UNCHANGED <<job, args, db, stored, lost, runs>>

\* A superblock is evicted from the cache.
Evict ==
    /\ process \in {"stage", "saving"}
    /\ \E c \in DOMAIN db \ stored :
          stored' = stored \cup {d \in DOMAIN db : PageOf(d[1], d[2]) = PageOf(c[1], c[2])}
    /\ UNCHANGED <<process, job, args, stageIdx, work, db, progress, lost, runs>>

\* The database is dropped, which writes what the cache holds.
Exit ==
    /\ process = "exit"
    /\ process' = "ended" /\ stored' = DOMAIN db
    /\ UNCHANGED <<job, args, stageIdx, work, db, progress, lost, runs>>

\* The process is killed, and what its cache held is gone.
Crash ==
    /\ CanCrash /\ process \in {"stage", "saving", "exit"}
    /\ process' = "idle" /\ db' = [c \in stored |-> db[c]]
    /\ lost' = (lost \/ stored # DOMAIN db)
    /\ UNCHANGED <<job, args, stageIdx, work, stored, progress, runs>>

Proceed ==
    \/ \E task \in DOMAIN work : \E c \in work[task].todo :
          Hit(task, c[1], c[2]) \/ Miss(task, c[1], c[2]) \/ Answer(task, c[1], c[2])
    \/ TruncateProgress \/ WriteProgress \/ Exit

Next ==
    \/ Start \/ Proceed \/ Evict \/ Crash
    \/ \E task \in DOMAIN work : \E c \in work[task].todo : PutSub(task, c[1], c[2])

Spec == Init /\ [][Next]_vars

\* The process runs.
FairSpec == Spec /\ WF_vars(Proceed)
-----------------------------------------------------------------------------
(* Properties.                                                             *)

TypeOK ==
    /\ process \in {"idle", "stage", "saving", "exit", "ended", "panicked"}
    /\ job \in Jobs \cup {None} /\ stageIdx \in Nat /\ runs \in 0..MaxRuns
    /\ work \in [DOMAIN work -> [todo : SUBSET Cells, asked : SUBSET Cells, next : SUBSET Cells]]
    /\ \A task \in DOMAIN work : work[task].asked \subseteq work[task].todo
    /\ progress \in [job : Jobs \cup {None}, stages : Nat, whole : BOOLEAN]
    /\ lost \in BOOLEAN
    /\ DOMAIN db \subseteq Cells /\ stored \subseteq DOMAIN db
    /\ \A c \in DOMAIN db : db[c] = None \/ (db[c] \in Limits /\ Within(db[c], c[2]))

\* Every Spec of a stage has an entry under every limit.
StageIn(cells, stage) ==
    \A task \in TasksOf(stage) : TaskSpecs(stage, task) \X Limits \subseteq cells

\* When the tasks of a stage are done, every Spec of it has an entry under every
\* limit of the target: the searches at the limits just below each peak
\* leave nothing out (main.rs:250), also where the database answered with what a
\* search of another Spec had put, and although of equally good answers it
\* has any.
StageCovered ==
    process = "saving" /\ ~lost => StageIn(DOMAIN db, StagesOf(job)[stageIdx + 1])

\* What the progress file says is done is on disk, once the process has ended,
\* whatever processes ran before, for this job or for others.
ProgressHonest ==
    process = "ended" /\ ~lost /\ progress.whole =>
        \A i \in 1..progress.stages : StageIn(stored, StagesOf(progress.job)[i])

\* When a process has ended by itself, all stages of its own job that it was asked
\* for are on disk, those included that it skipped because the progress file, of
\* whichever job and process, says that they are done (main.rs:172).
AskedIsStored ==
    process = "ended" /\ ~lost =>
        \A i \in 1..Len(StagesOf(job)) :
            args = None \/ i <= args => StageIn(stored, StagesOf(job)[i])

\* A process runs no more stages than --stages says (main.rs:59, "Maximum number
\* of stages to run.").
NoMoreThanAsked ==
    process \in {"stage", "saving"} /\ args # None => stageIdx < args

\* A process ends, or is killed: a task's limits always get lower.
Terminates == process \in {"stage", "saving", "exit"} ~> process \in {"idle", "ended"}
=============================================================================
