-------------------------- MODULE PrecomputeProofs --------------------------
(***************************************************************************)
(* For every set of Specs and bounds, whatever answers searches choose and *)
(* sub-Specs they put, and however the tasks interleave: a stage that is   *)
(* done has an entry for each of its Specs under every limit, and what the *)
(* progress file says is done is on disk when a process has ended, as long *)
(* as no crash has lost a page.                                            *)
(*                                                                         *)
(* The invariant says what a task still owes: a limit without an entry is  *)
(* below one that is to be searched.  For that to survive a hit, an entry  *)
(* must never be there without the rest of its box.                        *)
(***************************************************************************)
EXTENDS Precompute, TLAPS

\* The stage under way.
Stage == StagesOf(job)[stageIdx + 1]

\* An entry comes with the box that was put with it.
BoxesWhole ==
    ~lost => \A c \in DOMAIN db : {c[1]} \X Box(c[2], db[c]) \subseteq DOMAIN db

\* Of a task's Specs, each limit has an entry or is below what is to be searched.
Owed(cells, w, s, m) == <<s, m>> \in cells \/ \E c \in w.todo \cup w.next : c[1] = s /\ Within(m, c[2])

TasksCover ==
    process \in {"stage", "saving"} =>
        /\ DOMAIN work = TasksOf(Stage)
        /\ \A task \in DOMAIN work : work[task].todo = {} => work[task].next = {}
        /\ ~lost => \A task \in DOMAIN work : \A s \in TaskSpecs(Stage, task), m \in Limits :
                        Owed(DOMAIN db, work[task], s, m)

SavesWhenDone == process = "saving" => StageDone

\* The stages before this one, in this process, are done, and so are those in the file.
EarlierDone ==
    process \in {"stage", "saving", "exit"} /\ ~lost =>
        \A i \in 1..stageIdx : StageIn(DOMAIN db, StagesOf(job)[i])

FileDone == ~lost => \A i \in 1..progress.stages : StageIn(DOMAIN db, StagesOf(progress.job)[i])

\* Between processes, all that was put is on disk.
StoredBetween == process \in {"idle", "ended", "panicked"} => stored = DOMAIN db

IInv ==
    /\ TypeOK /\ BoxesWhole /\ TasksCover /\ SavesWhenDone
    /\ EarlierDone /\ FileDone /\ StoredBetween
-----------------------------------------------------------------------------
(* Limits.                                                                 *)

LEMMA LimitsValues ==
    ASSUME NEW m \in Limits
    PROVE  /\ m \in [Levels -> Nat] /\ \A l \in Levels : m[l] <= LevelMax[l] /\ LevelMax[l] \in Nat
<1>1. \A l \in Levels : LevelMax[l] \in Nat /\ m[l] \in 0..LevelMax[l]
  BY PrecomputeAssumption DEF Limits, Levels
<1>2. \A l \in Levels : m[l] \in Nat /\ m[l] <= LevelMax[l]
  BY <1>1
<1>3. m \in [Levels -> UNION {0..LevelMax[k] : k \in Levels}]
  BY DEF Limits
<1> QED
  BY <1>1, <1>2, <1>3

LEMMA MaxIsLimit == LevelMax \in Limits
<1>1. LevelMax \in [Levels -> Nat]
  BY PrecomputeAssumption DEF Levels
<1>2. \A l \in Levels : LevelMax[l] \in 0..LevelMax[l]
  BY <1>1
<1> QED
  BY <1>1, <1>2 DEF Limits

LEMMA AllWithinMax ==
    ASSUME NEW m \in Limits
    PROVE  Within(m, LevelMax)
BY LimitsValues DEF Within

LEMMA WithinTransitive ==
    ASSUME NEW a \in Limits, NEW b \in Limits, NEW c \in Limits, Within(a, b), Within(b, c)
    PROVE  Within(a, c)
<1> SUFFICES ASSUME NEW l \in Levels PROVE a[l] <= c[l]
  BY DEF Within
<1>1. a[l] \in Nat /\ b[l] \in Nat /\ c[l] \in Nat
  BY LimitsValues
<1>2. a[l] <= b[l] /\ b[l] <= c[l]
  BY DEF Within
<1> QED
  BY <1>1, <1>2

\* A search answers with None or with peaks below the limits.
LEMMA AnswersFit ==
    ASSUME NEW s \in Specs, NEW m \in Limits, NEW answer \in Answers[s][m]
    PROVE  answer = None \/ (answer \in Limits /\ Within(answer, m))
BY PrecomputeAssumption

\* The limits to go on with are limits.
LEMMA NextAreLimits ==
    ASSUME NEW m \in Limits, NEW peaks \in Limits
    PROVE  NextLimits(m, peaks) \subseteq Limits
<1> SUFFICES ASSUME NEW l \in Levels, peaks[l] # 0 PROVE [m EXCEPT ![l] = peaks[l] - 1] \in Limits
  BY DEF NextLimits
<1>1. peaks[l] - 1 \in 0..LevelMax[l]
  BY LimitsValues
<1>2. m \in [Levels -> UNION {0..LevelMax[k] : k \in Levels}] /\ \A k \in Levels : m[k] \in 0..LevelMax[k]
  BY DEF Limits
<1>3. peaks[l] - 1 \in UNION {0..LevelMax[k] : k \in Levels}
  BY <1>1
<1>4. [m EXCEPT ![l] = peaks[l] - 1] \in [Levels -> UNION {0..LevelMax[k] : k \in Levels}]
  BY <1>2, <1>3
<1>5. \A k \in Levels : [m EXCEPT ![l] = peaks[l] - 1][k] \in 0..LevelMax[k]
  BY <1>1, <1>2
<1> QED
  BY <1>4, <1>5 DEF Limits

\* What is below searched limits is in the box of the answer, or below limits
\* to go on with.
LEMMA BoxOrNext ==
    ASSUME NEW m \in Limits, NEW n \in Limits, Within(n, m), NEW answer, answer = None \/ answer \in Limits
    PROVE  \/ n \in Box(m, answer)
           \/ answer # None /\ \E k \in NextLimits(m, answer) : Within(n, k)
<1>1. CASE answer = None \/ Within(answer, n)
  BY <1>1 DEF Box
<1>2. CASE answer # None /\ ~Within(answer, n)
  <2>1. answer \in Limits
    BY <1>2
  <2>2. PICK l \in Levels : ~(answer[l] <= n[l])
    BY <1>2 DEF Within
  <2>3. answer[l] \in Nat /\ n[l] \in Nat /\ answer[l] # 0 /\ n[l] <= answer[l] - 1
    BY <2>1, <2>2, LimitsValues
  <2> DEFINE k == [m EXCEPT ![l] = answer[l] - 1]
  <2>4. k \in NextLimits(m, answer)
    BY <2>3 DEF NextLimits
  <2>5. Within(n, k)
    <3> SUFFICES ASSUME NEW j \in Levels PROVE n[j] <= k[j]
      BY DEF Within
    <3>1. m \in [Levels -> Nat] /\ n[j] <= m[j]
      BY LimitsValues DEF Within
    <3> QED
      BY <2>3, <3>1
  <2> QED
    BY <1>2, <2>4, <2>5
<1> QED
  BY <1>1, <1>2

\* The limits below searched ones, of one Spec, once there is a result.
LEMMA SearchedOrBelow ==
    ASSUME NEW s, NEW m \in Limits, NEW n \in Limits, Within(n, m),
           NEW answer, answer = None \/ answer \in Limits
    PROVE  \/ <<s, n>> \in {s} \X Box(m, answer)
           \/ \E c \in Below(s, m, answer) : c[1] = s /\ Within(n, c[2])
<1>1. CASE n \in Box(m, answer)
  BY <1>1
<1>2. CASE answer # None /\ \E k \in NextLimits(m, answer) : Within(n, k)
  <2>1. PICK k \in NextLimits(m, answer) : Within(n, k)
    BY <1>2
  <2>2. <<s, k>> \in Below(s, m, answer)
    BY <1>2 DEF Below
  <2> QED
    BY <2>1, <2>2
<1> QED
  BY <1>1, <1>2, BoxOrNext
-----------------------------------------------------------------------------
(* Puts and tasks.                                                         *)

\* A put of an answer that fits keeps what the database is.
LEMMA PutKeeps ==
    ASSUME TypeOK, BoxesWhole, NEW s \in Specs, NEW m \in Limits,
           NEW answer \in Answers[s][m], db' = Put(s, m, answer), lost' = lost
    PROVE  /\ DOMAIN db' = DOMAIN db \cup ({s} \X Box(m, answer))
           /\ DOMAIN db' \subseteq Cells
           /\ \A c \in DOMAIN db' : db'[c] = None \/ (db'[c] \in Limits /\ Within(db'[c], c[2]))
           /\ BoxesWhole'
<1> DEFINE put == {s} \X Box(m, answer)
<1>1. answer = None \/ (answer \in Limits /\ Within(answer, m))
  BY AnswersFit
<1>2. DOMAIN db' = DOMAIN db \cup put
  BY DEF Put
<1>3. put \subseteq Cells
  BY DEF Box, Cells
<1>4. \A c \in put : db'[c] = answer
  BY <1>2 DEF Put
<1>5. \A c \in DOMAIN db \ put : db'[c] = db[c]
  BY <1>2 DEF Put
<1>6. \A c \in put : answer # None => Within(answer, c[2])
  BY DEF Box
<1>7. \A c \in DOMAIN db' : db'[c] = None \/ (db'[c] \in Limits /\ Within(db'[c], c[2]))
  BY <1>1, <1>2, <1>4, <1>5, <1>6 DEF TypeOK
<1>8. \A n \in Box(m, answer) : Box(n, answer) \subseteq Box(m, answer)
  BY <1>1, WithinTransitive DEF Box
<1>9. BoxesWhole'
  <2> SUFFICES ASSUME ~lost, NEW c \in DOMAIN db'
               PROVE  {c[1]} \X Box(c[2], db'[c]) \subseteq DOMAIN db'
    BY DEF BoxesWhole, Box, Within, Limits, Levels
  <2>1. CASE c \in put
    BY <2>1, <1>2, <1>4, <1>8
  <2>2. CASE c \notin put
    BY <2>2, <1>2, <1>5 DEF BoxesWhole
  <2> QED
    BY <2>1, <2>2
<1> QED
  BY <1>2, <1>3, <1>7, <1>9 DEF TypeOK

\* A task forgets nothing but what was searched.
LEMMA AfterKeeps ==
    ASSUME NEW w \in [todo : SUBSET Cells, asked : SUBSET Cells, next : SUBSET Cells],
           NEW cell, NEW more \in SUBSET Cells, w.asked \subseteq w.todo
    PROVE  /\ After(w, cell, more) \in [todo : SUBSET Cells, asked : SUBSET Cells, next : SUBSET Cells]
           /\ After(w, cell, more).asked \subseteq After(w, cell, more).todo
           /\ After(w, cell, more).todo = {} => After(w, cell, more).next = {}
           /\ After(w, cell, more).todo \cup After(w, cell, more).next
                = (w.todo \ {cell}) \cup w.next \cup more
<1>1. CASE w.todo \ {cell} = {}
  BY <1>1 DEF After
<1>2. CASE w.todo \ {cell} # {}
  BY <1>2 DEF After
<1> QED
  BY <1>1, <1>2

\* Nor does it owe anything more, if the result's box is in the database.
LEMMA AfterOwes ==
    ASSUME NEW w \in [todo : SUBSET Cells, asked : SUBSET Cells, next : SUBSET Cells],
           w.asked \subseteq w.todo,
           NEW s \in Specs, NEW m \in Limits, NEW answer, answer = None \/ answer \in Limits,
           NEW cells, {s} \X Box(m, answer) \subseteq cells,
           NEW t \in Specs, NEW n \in Limits, Owed(cells, w, t, n)
    PROVE  Owed(cells, After(w, <<s, m>>, Below(s, m, answer)), t, n)
<1> DEFINE after == After(w, <<s, m>>, Below(s, m, answer))
<1> SUFFICES Owed(cells, after, t, n)
  OBVIOUS
<1>1. Below(s, m, answer) \subseteq Cells
  BY NextAreLimits DEF Below, Cells
<1>2. after.todo \cup after.next = (w.todo \ {<<s, m>>}) \cup w.next \cup Below(s, m, answer)
  BY <1>1, AfterKeeps
<1>3. CASE <<t, n>> \in cells
  BY <1>3 DEF Owed
<1>4. CASE \E c \in w.todo \cup w.next : c[1] = t /\ Within(n, c[2])
  <2>1. PICK c \in w.todo \cup w.next : c[1] = t /\ Within(n, c[2])
    BY <1>4
  <2>2. CASE c = <<s, m>>
    <3>1. \/ <<s, n>> \in {s} \X Box(m, answer)
          \/ \E d \in Below(s, m, answer) : d[1] = s /\ Within(n, d[2])
      BY <2>1, <2>2, SearchedOrBelow
    <3>2. CASE \E d \in Below(s, m, answer) : d[1] = s /\ Within(n, d[2])
      <4>1. PICK d \in Below(s, m, answer) : d[1] = s /\ Within(n, d[2])
        BY <3>2
      <4>2. d \in after.todo \cup after.next /\ s = t
        BY <4>1, <2>1, <2>2, <1>2
      <4> HIDE DEF after
      <4> QED
        BY <4>1, <4>2 DEF Owed
    <3>3. CASE <<s, n>> \in {s} \X Box(m, answer)
      BY <3>3, <2>1, <2>2 DEF Owed
    <3> QED
      BY <3>1, <3>2, <3>3
  <2>3. CASE c # <<s, m>>
    <3>1. c \in after.todo \cup after.next
      BY <2>3, <1>2
    <3> HIDE DEF after
    <3> QED
      BY <2>1, <3>1 DEF Owed
  <2> QED
    BY <2>2, <2>3
<1> QED
  BY <1>3, <1>4 DEF Owed

\* A task that begins has everything to do.
LEMMA BeginOwes ==
    ASSUME NEW stage
    PROVE  /\ DOMAIN Begin(stage) = TasksOf(stage)
           /\ Begin(stage) \in [TasksOf(stage) -> [todo : SUBSET Cells, asked : SUBSET Cells, next : SUBSET Cells]]
           /\ \A task \in TasksOf(stage) :
                 /\ Begin(stage)[task].asked = {} /\ Begin(stage)[task].next = {}
                 /\ \A s \in TaskSpecs(stage, task), m \in Limits : \A cells :
                       Owed(cells, Begin(stage)[task], s, m)
<1>1. \A task : TaskSpecs(stage, task) \X {LevelMax} \subseteq Cells
  BY MaxIsLimit DEF TaskSpecs, Cells
<1>2. DOMAIN Begin(stage) = TasksOf(stage)
  BY DEF Begin
<1>3. \A task \in TasksOf(stage) :
         Begin(stage)[task] = [todo |-> TaskSpecs(stage, task) \X {LevelMax}, asked |-> {}, next |-> {}]
  BY DEF Begin
<1>4. Begin(stage) \in [TasksOf(stage) -> [todo : SUBSET Cells, asked : SUBSET Cells, next : SUBSET Cells]]
  BY <1>1 DEF Begin
<1>5. ASSUME NEW task \in TasksOf(stage), NEW s \in TaskSpecs(stage, task), NEW m \in Limits, NEW cells
      PROVE  Owed(cells, Begin(stage)[task], s, m)
  <2> DEFINE todo == TaskSpecs(stage, task) \X {LevelMax}
  <2>0. Begin(stage)[task] = [todo |-> todo, asked |-> {}, next |-> {}]
    BY <1>3
  <2> HIDE DEF todo
  <2>1. Begin(stage)[task].todo = todo
    BY <2>0
  <2>2. <<s, LevelMax>> \in Begin(stage)[task].todo
    BY <2>1 DEF todo
  <2> QED
    BY <2>2, AllWithinMax DEF Owed
<1> QED
  BY <1>2, <1>3, <1>4, <1>5

\* What a stage has, it keeps while the database grows.
LEMMA StageInGrows ==
    ASSUME NEW cells, NEW more, cells \subseteq more, NEW stage, StageIn(cells, stage)
    PROVE  StageIn(more, stage)
BY DEF StageIn

\* A stage whose tasks are done has all of its entries.
LEMMA DoneIsCovered ==
    ASSUME TypeOK, TasksCover, process \in {"stage", "saving"}, StageDone, ~lost
    PROVE  StageIn(DOMAIN db, Stage)
<1> SUFFICES ASSUME NEW task \in TasksOf(Stage), NEW s \in TaskSpecs(Stage, task), NEW m \in Limits
             PROVE  <<s, m>> \in DOMAIN db
  BY DEF StageIn
<1>1. task \in DOMAIN work
  BY DEF TasksCover
<1>2. work[task].todo = {} /\ work[task].next = {}
  BY <1>1 DEF TasksCover, StageDone
<1>3. Owed(DOMAIN db, work[task], s, m)
  BY <1>1 DEF TasksCover
<1> QED
  BY <1>2, <1>3 DEF Owed

\* A cell that a task is to search is one of a Spec under limits.
LEMMA TodoIsCell ==
    ASSUME TypeOK, NEW task \in DOMAIN work, NEW c \in work[task].todo
    PROVE  c[1] \in Specs /\ c[2] \in Limits /\ c = <<c[1], c[2]>>
<1>1. work[task] \in [todo : SUBSET Cells, asked : SUBSET Cells, next : SUBSET Cells]
  BY DEF TypeOK
<1>2. c \in Cells
  BY <1>1
<1> QED
  BY <1>2 DEF Cells

\* A task goes on with a result whose box the database has.
LEMMA SearchedKeeps ==
    ASSUME TypeOK, TasksCover, process = "stage",
           NEW task \in DOMAIN work, NEW s \in Specs, NEW m \in Limits,
           NEW answer, answer = None \/ answer \in Limits,
           work' = [work EXCEPT ![task] = After(@, <<s, m>>, Below(s, m, answer))],
           DOMAIN db \subseteq DOMAIN db', ~lost => {s} \X Box(m, answer) \subseteq DOMAIN db',
           process' = process, job' = job, stageIdx' = stageIdx, lost' = lost
    PROVE  /\ TasksCover'
           /\ work' \in [DOMAIN work' -> [todo : SUBSET Cells, asked : SUBSET Cells, next : SUBSET Cells]]
           /\ \A t \in DOMAIN work' : work'[t].asked \subseteq work'[t].todo
<1> DEFINE Work == [todo : SUBSET Cells, asked : SUBSET Cells, next : SUBSET Cells]
<1> DEFINE after == After(work[task], <<s, m>>, Below(s, m, answer))
<1>1. work \in [DOMAIN work -> Work] /\ work[task].asked \subseteq work[task].todo
  BY DEF TypeOK
<1>2. Below(s, m, answer) \subseteq Cells
  BY NextAreLimits DEF Below, Cells
<1>3. after \in Work /\ after.asked \subseteq after.todo /\ (after.todo = {} => after.next = {})
  BY <1>1, <1>2, AfterKeeps
<1> HIDE DEF after
<1>4. work' = [work EXCEPT ![task] = after]
  BY DEF after
<1>5. DOMAIN work' = DOMAIN work /\ work'[task] = after /\ \A t \in DOMAIN work \ {task} : work'[t] = work[t]
  BY <1>1, <1>4
<1>6. work' \in [DOMAIN work' -> Work] /\ \A t \in DOMAIN work' : work'[t].asked \subseteq work'[t].todo
  <2> HIDE DEF Work
  <2> QED
    BY <1>1, <1>3, <1>4, <1>5 DEF TypeOK
<1>7. DOMAIN work' = TasksOf(Stage)
  BY <1>5 DEF TasksCover
<1>8. \A t \in DOMAIN work' : work'[t].todo = {} => work'[t].next = {}
  BY <1>3, <1>5 DEF TasksCover
<1>9. ASSUME ~lost, NEW t \in DOMAIN work', NEW r \in TaskSpecs(Stage, t), NEW n \in Limits
      PROVE  Owed(DOMAIN db', work'[t], r, n)
  <2>1. Owed(DOMAIN db, work[t], r, n)
    BY <1>5, <1>9 DEF TasksCover
  <2>2. Owed(DOMAIN db', work[t], r, n)
    BY <2>1 DEF Owed
  <2>3. CASE t # task
    BY <2>2, <2>3, <1>5
  <2>4. CASE t = task
    <3>1. r \in Specs
      BY DEF TaskSpecs
    <3>2. Owed(DOMAIN db', after, r, n)
      BY <2>2, <2>4, <3>1, <1>1, <1>9, AfterOwes DEF after
    <3> QED
      BY <3>2, <2>4, <1>5
  <2> QED
    BY <2>3, <2>4
<1>10. Stage' = Stage
  BY DEF Stage
<1> QED
  BY <1>6, <1>7, <1>8, <1>9, <1>10 DEF TasksCover
-----------------------------------------------------------------------------
(* The invariant.                                                          *)

LEMMA InitInv == Init => IInv
<1> SUFFICES ASSUME Init PROVE IInv
  OBVIOUS
<1>1. DOMAIN db = {} /\ DOMAIN work = {} /\ stored = {}
  BY DEF Init
<1>2. TypeOK
  <2>1. work \in [DOMAIN work -> [todo : SUBSET Cells, asked : SUBSET Cells, next : SUBSET Cells]]
    BY <1>1 DEF Init
  <2>2. progress \in [job : Jobs \cup {None}, stages : Nat, whole : BOOLEAN]
    BY DEF Init
  <2>3. /\ process = "idle" /\ job = None /\ stageIdx = 0 /\ runs = 0 /\ lost = FALSE
    BY DEF Init
  <2>4. runs \in 0..MaxRuns
    BY <2>3, PrecomputeAssumption
  <2> QED
    BY <1>1, <2>1, <2>2, <2>3, <2>4 DEF TypeOK
<1>3. \A i \in 1..progress.stages : FALSE
  BY DEF Init
<1> QED
  BY <1>1, <1>2, <1>3 DEF Init, IInv, BoxesWhole, TasksCover, SavesWhenDone, EarlierDone, FileDone, StoredBetween

\* Of a step in which the database only grows, what was covered still is.
LEMMA CoveredStays ==
    ASSUME EarlierDone, FileDone, DOMAIN db \subseteq DOMAIN db', process \in {"stage", "saving", "exit"},
           job' = job, stageIdx' = stageIdx, lost' = lost,
           progress'.stages = progress.stages, progress'.job = progress.job
    PROVE  EarlierDone' /\ FileDone'
<1>1. FileDone'
  BY StageInGrows DEF FileDone
<1>2. EarlierDone'
  BY StageInGrows DEF EarlierDone
<1> QED
  BY <1>1, <1>2

LEMMA StartKeeps == IInv /\ Start => IInv'
<1> SUFFICES ASSUME IInv, Start PROVE IInv'
  OBVIOUS
<1> USE DEF IInv
<1> DEFINE Work == [todo : SUBSET Cells, asked : SUBSET Cells, next : SUBSET Cells]
<1>1. /\ process \in {"idle", "ended"} /\ runs < MaxRuns /\ runs' = runs + 1 /\ stageIdx' = 0 /\ job' \in Jobs
      /\ UNCHANGED <<db, stored, progress, lost>>
      /\ \/ process' = "stage" /\ work' = Begin(StagesOf(job')[1])
         \/ process' \in {"ended", "panicked"} /\ work' = work
  BY DEF Start
<1>2. /\ work' \in [DOMAIN work' -> Work] /\ \A t \in DOMAIN work' : work'[t].asked \subseteq work'[t].todo
  <2>1. CASE work' = work
    BY <2>1 DEF TypeOK
  <2>2. CASE work' = Begin(StagesOf(job')[1])
    <3>1. /\ DOMAIN work' = TasksOf(StagesOf(job')[1]) /\ work' \in [TasksOf(StagesOf(job')[1]) -> Work]
          /\ \A t \in DOMAIN work' : work'[t].asked = {}
      BY <2>2, BeginOwes
    <3> QED
      BY <3>1
  <2> QED
    BY <1>1, <2>1, <2>2
<1>3. TypeOK'
  BY <1>1, <1>2, PrecomputeAssumption DEF TypeOK
<1>4. TasksCover'
  <2>1. CASE process' = "stage" /\ work' = Begin(StagesOf(job')[1])
    <3>1. Stage' = StagesOf(job')[1]
      BY <1>1 DEF Stage
    <3>2. DOMAIN work' = TasksOf(Stage')
      BY <2>1, <3>1, BeginOwes
    <3>3. \A t \in DOMAIN work' : work'[t].next = {}
      BY <2>1, <3>1, <3>2, BeginOwes
    <3>4. \A t \in DOMAIN work' : \A s \in TaskSpecs(Stage', t) : \A m \in Limits : Owed(DOMAIN db', work'[t], s, m)
      BY <2>1, <3>1, <3>2, BeginOwes
    <3> QED
      BY <3>2, <3>3, <3>4 DEF TasksCover
  <2>2. CASE process' \in {"ended", "panicked"}
    BY <2>2 DEF TasksCover
  <2> QED
    BY <1>1, <2>1, <2>2
<1>5. BoxesWhole' /\ SavesWhenDone' /\ FileDone' /\ StoredBetween'
  BY <1>1 DEF BoxesWhole, SavesWhenDone, FileDone, StoredBetween
<1>6. EarlierDone'
  BY <1>1 DEF EarlierDone
<1> QED
  BY <1>3, <1>4, <1>5, <1>6

LEMMA HitKeeps ==
    ASSUME IInv, NEW task \in DOMAIN work, NEW c \in work[task].todo, Hit(task, c[1], c[2])
    PROVE  IInv'
<1> USE DEF IInv
<1>1. c[1] \in Specs /\ c[2] \in Limits /\ c = <<c[1], c[2]>>
  BY TodoIsCell
<1> DEFINE answer == db[c]
<1>2. /\ process = "stage" /\ c \in DOMAIN db
      /\ work' = [work EXCEPT ![task] = After(@, <<c[1], c[2]>>, Below(c[1], c[2], answer))]
      /\ UNCHANGED <<process, job, args, stageIdx, db, stored, progress, lost, runs>>
  BY <1>1 DEF Hit
<1>3. answer = None \/ answer \in Limits
  BY <1>2 DEF TypeOK
<1>4. ~lost => {c[1]} \X Box(c[2], answer) \subseteq DOMAIN db
  BY <1>2 DEF BoxesWhole
<1> HIDE DEF answer
<1>5. /\ TasksCover'
      /\ work' \in [DOMAIN work' -> [todo : SUBSET Cells, asked : SUBSET Cells, next : SUBSET Cells]]
      /\ \A t \in DOMAIN work' : work'[t].asked \subseteq work'[t].todo
  <2> DEFINE s == c[1]
  <2> DEFINE m == c[2]
  <2>1. s \in Specs /\ m \in Limits /\ TypeOK /\ TasksCover /\ process = "stage"
    BY <1>1, <1>2, <1>3
  <2>2. work' = [work EXCEPT ![task] = After(@, <<s, m>>, Below(s, m, answer))]
    BY <1>2
  <2>3. DOMAIN db \subseteq DOMAIN db' /\ (~lost => {s} \X Box(m, answer) \subseteq DOMAIN db')
    BY <1>2, <1>4
  <2>4. process' = process /\ job' = job /\ stageIdx' = stageIdx /\ lost' = lost
    BY <1>2, <1>3
  <2> HIDE DEF s, m, IInv
  <2> QED
    BY <2>1, <2>2, <2>3, <2>4, <1>3, SearchedKeeps
<1>6. TypeOK'
  BY <1>2, <1>5 DEF TypeOK
<1>7. BoxesWhole' /\ SavesWhenDone' /\ StoredBetween'
  BY <1>2 DEF BoxesWhole, SavesWhenDone, StoredBetween
<1> QED
  BY <1>2, <1>5, <1>6, <1>7, CoveredStays

LEMMA MissKeeps ==
    ASSUME IInv, NEW task \in DOMAIN work, NEW c \in work[task].todo, Miss(task, c[1], c[2])
    PROVE  IInv'
<1> USE DEF IInv
<1> DEFINE Work == [todo : SUBSET Cells, asked : SUBSET Cells, next : SUBSET Cells]
<1>1. c[1] \in Specs /\ c[2] \in Limits /\ c = <<c[1], c[2]>>
  BY TodoIsCell
<1>2. /\ process = "stage" /\ work' = [work EXCEPT ![task].asked = @ \cup {c}]
      /\ UNCHANGED <<process, job, args, stageIdx, db, stored, progress, lost, runs>>
  BY <1>1 DEF Miss
<1>3. work \in [DOMAIN work -> Work]
  BY DEF TypeOK
<1>asked. \A t \in DOMAIN work : work[t].asked \subseteq work[t].todo
  BY DEF TypeOK
<1>4. /\ DOMAIN work' = DOMAIN work
      /\ \A t \in DOMAIN work : work'[t].todo = work[t].todo /\ work'[t].next = work[t].next
  BY <1>2, <1>3
<1>others. \A t \in DOMAIN work \ {task} : work'[t] = work[t]
  BY <1>2, <1>3
<1>5. work'[task].asked = work[task].asked \cup {c}
  BY <1>2, <1>3
<1>6. work' \in [DOMAIN work' -> Work] /\ \A t \in DOMAIN work' : work'[t].asked \subseteq work'[t].todo
  <2> DEFINE after == [work[task] EXCEPT !.asked = @ \cup {c}]
  <2>1. after \in Work
    BY <1>3
  <2>2. work' = [work EXCEPT ![task] = after]
    BY <1>2
  <2> HIDE DEF after, Work
  <2>3. work' \in [DOMAIN work' -> Work]
    BY <2>1, <2>2, <1>3
  <2>4. \A t \in DOMAIN work' : work'[t].asked \subseteq work'[t].todo
    <3>1. ASSUME NEW t \in DOMAIN work PROVE work'[t].asked \subseteq work'[t].todo
      <4>1. CASE t = task
        <5>1. work[task].asked \subseteq work[task].todo
          BY <1>asked
        <5>2. work'[t].asked = work[task].asked \cup {c} /\ work'[t].todo = work[task].todo
          BY <4>1, <1>4, <1>5
        <5> QED
          BY <5>1, <5>2
      <4>2. CASE t # task
        <5>1. work[t].asked \subseteq work[t].todo /\ work'[t] = work[t]
          BY <4>2, <1>asked, <1>others
        <5> QED
          BY <5>1
      <4> QED
        BY <4>1, <4>2
    <3> QED
      BY <3>1, <1>4
  <2> QED
    BY <2>3, <2>4
<1>7. TypeOK'
  BY <1>2, <1>6 DEF TypeOK
<1>8. Stage' = Stage
  BY <1>2 DEF Stage
<1>9. \A t \in DOMAIN work : \A s, m : Owed(DOMAIN db, work[t], s, m) => Owed(DOMAIN db', work'[t], s, m)
  BY <1>2, <1>4 DEF Owed
<1>10. TasksCover'
  BY <1>2, <1>4, <1>8, <1>9 DEF TasksCover
<1>11. BoxesWhole' /\ SavesWhenDone' /\ StoredBetween'
  BY <1>2 DEF BoxesWhole, SavesWhenDone, StoredBetween
<1> QED
  BY <1>2, <1>7, <1>10, <1>11, CoveredStays

LEMMA PutSubKeeps ==
    ASSUME IInv, NEW task \in DOMAIN work, NEW c \in work[task].todo, PutSub(task, c[1], c[2])
    PROVE  IInv'
<1> USE DEF IInv
<1>1. c[1] \in Specs
  BY TodoIsCell
<1>2. PICK t \in Subs[c[1]], n \in Limits : \E answer \in Answers[t][n] : db' = Put(t, n, answer)
  BY DEF PutSub
<1>3. PICK answer \in Answers[t][n] : db' = Put(t, n, answer)
  BY <1>2
<1>4. process = "stage" /\ UNCHANGED <<process, job, args, stageIdx, work, stored, progress, lost, runs>>
  BY DEF PutSub
<1>5. t \in Specs
  BY <1>1, PrecomputeAssumption
<1>6. /\ DOMAIN db \subseteq DOMAIN db' /\ DOMAIN db' \subseteq Cells
      /\ \A d \in DOMAIN db' : db'[d] = None \/ (db'[d] \in Limits /\ Within(db'[d], d[2]))
      /\ BoxesWhole'
  BY <1>3, <1>4, <1>5, PutKeeps
<1>7. TypeOK'
  BY <1>4, <1>6 DEF TypeOK
<1>8. Stage' = Stage
  BY <1>4 DEF Stage
<1>9. \A u \in DOMAIN work : \A s, m : Owed(DOMAIN db, work[u], s, m) => Owed(DOMAIN db', work'[u], s, m)
  BY <1>4, <1>6 DEF Owed
<1>10. TasksCover'
  BY <1>4, <1>8, <1>9 DEF TasksCover
<1>11. SavesWhenDone' /\ StoredBetween'
  BY <1>4 DEF SavesWhenDone, StoredBetween
<1> QED
  BY <1>4, <1>6, <1>7, <1>10, <1>11, CoveredStays

LEMMA AnswerKeeps ==
    ASSUME IInv, NEW task \in DOMAIN work, NEW c \in work[task].todo, Answer(task, c[1], c[2])
    PROVE  IInv'
<1> USE DEF IInv
<1>1. c[1] \in Specs /\ c[2] \in Limits
  BY TodoIsCell
<1>2. PICK answer \in Answers[c[1]][c[2]] :
         /\ db' = Put(c[1], c[2], answer)
         /\ work' = [work EXCEPT ![task] = After(@, <<c[1], c[2]>>, Below(c[1], c[2], answer))]
  BY DEF Answer
<1>3. process = "stage" /\ UNCHANGED <<process, job, args, stageIdx, stored, progress, lost, runs>>
  BY DEF Answer
<1>4. answer = None \/ answer \in Limits
  BY <1>1, AnswersFit
<1>5. /\ DOMAIN db' = DOMAIN db \cup ({c[1]} \X Box(c[2], answer)) /\ DOMAIN db' \subseteq Cells
      /\ \A d \in DOMAIN db' : db'[d] = None \/ (db'[d] \in Limits /\ Within(db'[d], d[2]))
      /\ BoxesWhole'
  BY <1>1, <1>2, <1>3, PutKeeps
<1>6. /\ TasksCover'
      /\ work' \in [DOMAIN work' -> [todo : SUBSET Cells, asked : SUBSET Cells, next : SUBSET Cells]]
      /\ \A t \in DOMAIN work' : work'[t].asked \subseteq work'[t].todo
  <2> DEFINE s == c[1]
  <2> DEFINE m == c[2]
  <2>1. s \in Specs /\ m \in Limits /\ TypeOK /\ TasksCover /\ process = "stage"
    BY <1>1, <1>2, <1>3
  <2>2. work' = [work EXCEPT ![task] = After(@, <<s, m>>, Below(s, m, answer))]
    BY <1>2
  <2>3. DOMAIN db \subseteq DOMAIN db' /\ (~lost => {s} \X Box(m, answer) \subseteq DOMAIN db')
    BY <1>5
  <2>4. process' = process /\ job' = job /\ stageIdx' = stageIdx /\ lost' = lost
    BY <1>2, <1>3
  <2> HIDE DEF s, m, IInv
  <2> QED
    BY <2>1, <2>2, <2>3, <2>4, <1>4, SearchedKeeps
<1>7. TypeOK'
  BY <1>3, <1>5, <1>6 DEF TypeOK
<1>8. SavesWhenDone' /\ StoredBetween'
  BY <1>3 DEF SavesWhenDone, StoredBetween
<1> QED
  BY <1>3, <1>5, <1>6, <1>7, <1>8, CoveredStays

LEMMA TruncateKeeps == IInv /\ TruncateProgress => IInv'
<1> SUFFICES ASSUME IInv, TruncateProgress PROVE IInv'
  OBVIOUS
<1> USE DEF IInv
<1>1. /\ process = "stage" /\ StageDone /\ process' = "saving" /\ progress' = [progress EXCEPT !.whole = FALSE]
      /\ UNCHANGED <<job, args, stageIdx, work, db, stored, lost, runs>>
  BY DEF TruncateProgress
<1>2. progress' \in [job : Jobs \cup {None}, stages : Nat, whole : BOOLEAN]
      /\ progress'.stages = progress.stages /\ progress'.job = progress.job
  BY <1>1 DEF TypeOK
<1>3. TypeOK'
  BY <1>1, <1>2 DEF TypeOK
<1>4. TasksCover'
  BY <1>1 DEF TasksCover, Stage
<1>5. BoxesWhole' /\ SavesWhenDone' /\ StoredBetween'
  BY <1>1 DEF BoxesWhole, SavesWhenDone, StoredBetween, StageDone
<1> QED
  BY <1>1, <1>2, <1>3, <1>4, <1>5, CoveredStays

LEMMA WriteKeeps == IInv /\ WriteProgress => IInv'
<1> SUFFICES ASSUME IInv, WriteProgress PROVE IInv'
  OBVIOUS
<1> USE DEF IInv
<1> DEFINE Work == [todo : SUBSET Cells, asked : SUBSET Cells, next : SUBSET Cells]
<1>1. /\ process = "saving" /\ progress' = [job |-> job, stages |-> stageIdx + 1, whole |-> TRUE]
      /\ UNCHANGED <<job, args, db, stored, lost, runs>>
      /\ \/ process' = "exit" /\ stageIdx' = stageIdx /\ work' = work
         \/ process' = "stage" /\ stageIdx' = stageIdx + 1 /\ work' = Begin(StagesOf(job)[stageIdx + 2])
  BY DEF WriteProgress
<1>2. stageIdx \in Nat
  BY DEF TypeOK
<1>3. ~lost => \A i \in 1..stageIdx + 1 : StageIn(DOMAIN db, StagesOf(job)[i])
  <2> SUFFICES ASSUME ~lost, NEW i \in 1..stageIdx + 1 PROVE StageIn(DOMAIN db, StagesOf(job)[i])
    OBVIOUS
  <2>1. CASE i = stageIdx + 1
    <3>1. StageIn(DOMAIN db, Stage)
      BY <1>1, DoneIsCovered DEF SavesWhenDone
    <3> QED
      BY <2>1, <3>1 DEF Stage
  <2>2. CASE i \in 1..stageIdx
    BY <2>2, <1>1 DEF EarlierDone
  <2> QED
    BY <1>2, <2>1, <2>2
<1>4. /\ work' \in [DOMAIN work' -> Work] /\ \A t \in DOMAIN work' : work'[t].asked \subseteq work'[t].todo
  <2>1. CASE work' = work
    BY <2>1 DEF TypeOK
  <2>2. CASE work' = Begin(StagesOf(job)[stageIdx + 2])
    <3> DEFINE next == StagesOf(job)[stageIdx + 2]
    <3> HIDE DEF next
    <3>1. /\ DOMAIN work' = TasksOf(next) /\ work' \in [TasksOf(next) -> Work]
          /\ \A t \in DOMAIN work' : work'[t].asked = {}
      BY <2>2, BeginOwes DEF next
    <3> QED
      BY <3>1
  <2> QED
    BY <1>1, <2>1, <2>2
<1>5. progress' \in [job : Jobs \cup {None}, stages : Nat, whole : BOOLEAN]
  BY <1>1, <1>2 DEF TypeOK
<1>6. TypeOK'
  BY <1>1, <1>2, <1>4, <1>5 DEF TypeOK
<1>7. TasksCover'
  <2>1. CASE process' = "exit"
    BY <2>1 DEF TasksCover
  <2>2. CASE process' = "stage" /\ stageIdx' = stageIdx + 1 /\ work' = Begin(StagesOf(job)[stageIdx + 2])
    <3>1. Stage' = StagesOf(job)[stageIdx + 2]
      BY <1>1, <1>2, <2>2 DEF Stage
    <3>2. DOMAIN work' = TasksOf(Stage')
      BY <2>2, <3>1, BeginOwes
    <3>3. \A t \in DOMAIN work' : work'[t].next = {}
      BY <2>2, <3>1, <3>2, BeginOwes
    <3>4. \A t \in DOMAIN work' : \A s \in TaskSpecs(Stage', t) : \A m \in Limits : Owed(DOMAIN db', work'[t], s, m)
      BY <2>2, <3>1, <3>2, BeginOwes
    <3> QED
      BY <3>2, <3>3, <3>4 DEF TasksCover
  <2> QED
    BY <1>1, <2>1, <2>2
<1>8. BoxesWhole' /\ SavesWhenDone' /\ StoredBetween'
  BY <1>1 DEF BoxesWhole, SavesWhenDone, StoredBetween
<1>9. FileDone'
  BY <1>1, <1>3 DEF FileDone
<1>10. EarlierDone'
  BY <1>1, <1>2, <1>3 DEF EarlierDone
<1> QED
  BY <1>6, <1>7, <1>8, <1>9, <1>10

LEMMA EvictKeeps == IInv /\ Evict => IInv'
<1> SUFFICES ASSUME IInv, Evict PROVE IInv'
  OBVIOUS
<1> USE DEF IInv
<1>1. /\ process \in {"stage", "saving"} /\ stored' \subseteq DOMAIN db
      /\ UNCHANGED <<process, job, args, stageIdx, work, db, progress, lost, runs>>
  BY DEF Evict, TypeOK
<1>2. TypeOK'
  BY <1>1 DEF TypeOK
<1>3. TasksCover' /\ BoxesWhole' /\ SavesWhenDone' /\ StoredBetween'
  BY <1>1 DEF TasksCover, Stage, BoxesWhole, SavesWhenDone, StageDone, StoredBetween
<1> QED
  BY <1>1, <1>2, <1>3, CoveredStays

LEMMA ExitKeeps == IInv /\ Exit => IInv'
<1> SUFFICES ASSUME IInv, Exit PROVE IInv'
  OBVIOUS
<1> USE DEF IInv
<1>1. /\ process = "exit" /\ process' = "ended" /\ stored' = DOMAIN db
      /\ UNCHANGED <<job, args, stageIdx, work, db, progress, lost, runs>>
  BY DEF Exit
<1>2. TypeOK'
  BY <1>1 DEF TypeOK
<1>3. TasksCover' /\ BoxesWhole' /\ SavesWhenDone' /\ StoredBetween'
  BY <1>1 DEF TasksCover, BoxesWhole, SavesWhenDone, StoredBetween
<1> QED
  BY <1>1, <1>2, <1>3, CoveredStays

LEMMA CrashKeeps == IInv /\ Crash => IInv'
<1> SUFFICES ASSUME IInv, Crash PROVE IInv'
  OBVIOUS
<1> USE DEF IInv
<1>1. /\ process' = "idle" /\ db' = [c \in stored |-> db[c]] /\ lost' = (lost \/ stored # DOMAIN db)
      /\ UNCHANGED <<job, args, stageIdx, work, stored, progress, runs>>
  BY DEF Crash
<1>2. DOMAIN db' = stored /\ stored \subseteq DOMAIN db /\ \A c \in stored : db'[c] = db[c]
  BY <1>1 DEF TypeOK
<1>3. lost' \in BOOLEAN
  BY <1>1
<1>4. TypeOK'
  BY <1>1, <1>2, <1>3 DEF TypeOK
<1>5. ~lost' => ~lost /\ DOMAIN db' = DOMAIN db
  BY <1>1, <1>2
<1>6. BoxesWhole'
  BY <1>2, <1>5 DEF BoxesWhole
<1>7. FileDone'
  BY <1>1, <1>5 DEF FileDone
<1>8. TasksCover' /\ SavesWhenDone' /\ EarlierDone' /\ StoredBetween'
  BY <1>1, <1>2 DEF TasksCover, SavesWhenDone, EarlierDone, StoredBetween
<1> QED
  BY <1>4, <1>6, <1>7, <1>8

LEMMA NextInv == IInv /\ [Next]_vars => IInv'
<1> SUFFICES ASSUME IInv, [Next]_vars PROVE IInv'
  OBVIOUS
<1>1. CASE Start
  BY <1>1, StartKeeps
<1>2. ASSUME NEW task \in DOMAIN work, NEW c \in work[task].todo, Hit(task, c[1], c[2]) PROVE IInv'
  BY <1>2, HitKeeps
<1>3. ASSUME NEW task \in DOMAIN work, NEW c \in work[task].todo, Miss(task, c[1], c[2]) PROVE IInv'
  BY <1>3, MissKeeps
<1>4. ASSUME NEW task \in DOMAIN work, NEW c \in work[task].todo, Answer(task, c[1], c[2]) PROVE IInv'
  BY <1>4, AnswerKeeps
<1>5. ASSUME NEW task \in DOMAIN work, NEW c \in work[task].todo, PutSub(task, c[1], c[2]) PROVE IInv'
  BY <1>5, PutSubKeeps
<1>6. CASE TruncateProgress
  BY <1>6, TruncateKeeps
<1>7. CASE WriteProgress
  BY <1>7, WriteKeeps
<1>8. CASE Exit
  BY <1>8, ExitKeeps
<1>9. CASE Evict
  BY <1>9, EvictKeeps
<1>10. CASE Crash
  BY <1>10, CrashKeeps
<1>11. CASE UNCHANGED vars
  BY <1>11 DEF vars, IInv, TypeOK, BoxesWhole, TasksCover, Stage, SavesWhenDone, StageDone, EarlierDone,
               FileDone, StoredBetween
<1> QED
  BY <1>1, <1>2, <1>3, <1>4, <1>5, <1>6, <1>7, <1>8, <1>9, <1>10, <1>11 DEF Next, Proceed

\* The invariant holds of every behaviour of the driver (main.rs, main_per_db).
THEOREM Invariant == Spec => []IInv
BY InitInv, NextInv, PTL DEF Spec

\* Every variable of the driver keeps its type; in particular, the database's
\* peaks are within the limits they are filed under.
THEOREM TypeCorrect == Spec => []TypeOK
<1>1. IInv => TypeOK
  BY DEF IInv
<1> QED
  BY <1>1, Invariant, PTL

\* Whenever the tasks of a stage are done, each Spec of it has an entry under each
\* limit (main.rs's loop over next_limits misses none), unless a crash lost pages.
THEOREM StagesCovered == Spec => []StageCovered
<1>1. IInv => StageCovered
  BY DoneIsCovered DEF IInv, SavesWhenDone, StageCovered, Stage
<1> QED
  BY <1>1, Invariant, PTL

\* When a process has ended, the stages that the progress file names are on disk,
\* whatever jobs came before, unless a crash lost pages.
THEOREM FileHonest == Spec => []ProgressHonest
<1>1. IInv => ProgressHonest
  BY DEF IInv, FileDone, StoredBetween, ProgressHonest
<1> QED
  BY <1>1, Invariant, PTL
-----------------------------------------------------------------------------
(* What a process that ends by itself has done.                            *)

\* The file is whole, and says of this job that as many stages are done as were
\* asked for, or all.
Enough ==
    /\ progress.whole
    /\ args # 0 => progress.job = job
    /\ (args # None /\ progress.stages >= args) \/ progress.stages = Len(StagesOf(job))

EndInv ==
    /\ TypeOK
    /\ args \in Nat \cup {None}
    /\ process \in {"exit", "ended"} => Enough

\* A process that has nothing to do reads from the file of its own job that so
\* many stages are done, unless it was asked for none.
LEMMA StartEnds ==
    ASSUME EndInv, Start, TypeOK'
    PROVE  EndInv'
<1>1. PICK j \in Jobs, n \in StageArgs :
         /\ job' = j /\ args' = n /\ UNCHANGED progress
         /\ process' = IF ~progress.whole THEN "panicked"
                       ELSE IF n # None /\ n <= StagesToSkip(j) THEN "ended" ELSE "stage"
  BY DEF Start
<1>2. n \in Nat \cup {None} /\ progress.stages \in Nat
  BY PrecomputeAssumption DEF EndInv, TypeOK
<1>3. ASSUME process' \in {"exit", "ended"} PROVE Enough'
  <2>1. n # None /\ n \in Nat /\ n <= StagesToSkip(j) /\ progress.whole
    BY <1>1, <1>2, <1>3
  <2>2. CASE progress.job = j
    BY <1>1, <2>1, <2>2 DEF Enough, StagesToSkip
  <2>3. CASE progress.job # j
    <3>1. n = 0
      BY <2>1, <2>3 DEF StagesToSkip
    <3> QED
      BY <1>1, <1>2, <2>1, <3>1 DEF Enough
  <2> QED
    BY <2>2, <2>3
<1> QED
  BY <1>1, <1>2, <1>3 DEF EndInv

\* The last stage of a process is one past those it was asked for, or the bounds' last.
LEMMA WriteEnds ==
    ASSUME EndInv, WriteProgress, TypeOK'
    PROVE  EndInv'
<1>1. stageIdx \in Nat /\ args \in Nat \cup {None}
  BY DEF EndInv, TypeOK
<1>2. /\ progress' = [job |-> job, stages |-> stageIdx + 1, whole |-> TRUE]
      /\ UNCHANGED <<job, args>>
      /\ process' = IF (args # None /\ stageIdx >= args) \/ stageIdx + 1 = Len(StagesOf(job))
                    THEN "exit" ELSE "stage"
  BY DEF WriteProgress
<1>3. progress'.job = job /\ progress'.stages = stageIdx + 1 /\ progress'.whole
  BY <1>2
<1>4. ASSUME process' \in {"exit", "ended"} PROVE Enough'
  <2>1. (args # None /\ stageIdx >= args) \/ stageIdx + 1 = Len(StagesOf(job))
    BY <1>2, <1>4
  <2>2. CASE args # None /\ stageIdx >= args
    <3>1. stageIdx + 1 >= args
      BY <1>1, <2>2
    <3> QED
      BY <1>2, <1>3, <2>2, <3>1 DEF Enough
  <2>3. CASE stageIdx + 1 = Len(StagesOf(job))
    BY <1>2, <1>3, <2>3 DEF Enough, StagesOf, Stages
  <2> QED
    BY <2>1, <2>2, <2>3
<1> QED
  BY <1>1, <1>2, <1>4 DEF EndInv

LEMMA NextEnds == EndInv /\ TypeOK' /\ [Next]_vars => EndInv'
<1> SUFFICES ASSUME EndInv, TypeOK', [Next]_vars PROVE EndInv'
  OBVIOUS
<1>1. ASSUME UNCHANGED <<job, args, progress>>, process' \in {"exit", "ended"} => process \in {"exit", "ended"}
      PROVE  EndInv'
  BY <1>1 DEF EndInv, Enough, StagesOf, Stages
<1>2. CASE Start
  BY <1>2, StartEnds
<1>3. CASE WriteProgress
  BY <1>3, WriteEnds
<1>4. CASE TruncateProgress
  BY <1>4 DEF TruncateProgress, EndInv
<1>5. CASE Exit \/ Evict \/ Crash
  BY <1>1, <1>5 DEF Exit, Evict, Crash
<1>6. ASSUME NEW task, NEW s, NEW m,
             Hit(task, s, m) \/ Miss(task, s, m) \/ Answer(task, s, m) \/ PutSub(task, s, m)
      PROVE  EndInv'
  BY <1>1, <1>6 DEF Hit, Miss, Answer, PutSub
<1>7. CASE UNCHANGED vars
  BY <1>1, <1>7 DEF vars
<1> QED
  BY <1>2, <1>3, <1>4, <1>5, <1>6, <1>7 DEF Next, Proceed

\* A process that ends by itself leaves on disk the stages of its job that it was
\* asked for, whatever ran before it, was killed, or left a file for another job,
\* unless a crash lost pages (main.rs, read_stages_to_skip and main_per_db).
THEOREM NothingSkipped == Spec => []AskedIsStored
<1>1. Init => EndInv
  <2>1. Init => TypeOK
    BY InitInv DEF IInv
  <2> QED
    BY <2>1 DEF Init, EndInv
<1>2. EndInv /\ ProgressHonest => AskedIsStored
  <2> SUFFICES ASSUME EndInv, ProgressHonest, process = "ended", ~lost,
                      NEW i \in 1..Len(StagesOf(job)), args = None \/ i <= args
               PROVE  StageIn(stored, StagesOf(job)[i])
    BY DEF AskedIsStored
  <2>1. Enough /\ progress.stages \in Nat /\ args \in Nat \cup {None} /\ i \in Nat /\ i > 0
    BY DEF EndInv, TypeOK
  <2>2. args # 0 /\ i \in 1..progress.stages
    <3>1. None \notin Nat /\ 0 \in Nat
      BY PrecomputeAssumption
    <3>2. CASE args = None
      BY <2>1, <3>1, <3>2 DEF Enough
    <3>3. CASE args # None
      BY <2>1, <3>3 DEF Enough
    <3> QED
      BY <3>2, <3>3
  <2>3. StageIn(stored, StagesOf(progress.job)[i]) /\ progress.job = job
    BY <2>1, <2>2 DEF Enough, ProgressHonest
  <2> QED
    BY <2>3
<1> QED
  BY <1>1, <1>2, NextEnds, TypeCorrect, FileHonest, PTL DEF Spec
=============================================================================
