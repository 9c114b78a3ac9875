--------------------------- MODULE ExportJobsProofs ---------------------------
(***************************************************************************)
(* Proofs about ExportJobs, for any jobs, workers, tokens, downloads and   *)
(* number of attempts: the type invariant, the inductive invariant and the *)
(* properties it implies, and that the jobs implement ExportLifecycle.     *)
(***************************************************************************)
EXTENDS ExportJobs, TLAPS

\* A released row is a row.
LEMMA ReleasedType ==
    ASSUME NEW row \in JobRows, NEW status \in Statuses
    PROVE  /\ Released(row, status) \in JobRows
           /\ [Released(row, status) EXCEPT !.available = TRUE] \in JobRows
           /\ [Released(row, status) EXCEPT !.available = FALSE] \in JobRows
           /\ \A n \in Attempts : [Released(row, status) EXCEPT !.file = n] \in JobRows
BY DEF Released, JobRows

\* What Free and After give is an execution.
LEMMA FreeType ==
    /\ \A pc \in {"idle", "stopped", "done"} : Free(pc) \in Executions
    /\ \A x \in Executors, pc \in {"idle", "stopped"} : After(x, pc) \in Executions
BY AttemptsAssumption DEF Free, After, Executions, Attempts

\* The initial state is well formed.
LEMMA InitTypeOK == Init => TypeOK
<1> SUFFICES ASSUME Init PROVE TypeOK
  OBVIOUS
<1>1. NoJob \in JobRows
  BY AttemptsAssumption DEF NoJob, JobRows, Statuses, Attempts
<1>2. <<>> \in Seq(Events)
  OBVIOUS
<1> QED  BY <1>1, <1>2, FreeType DEF Init, TypeOK

\* An action that logs an event keeps the trails well formed.
LEMMA LogType ==
    ASSUME TypeOK, NEW j \in Jobs, NEW event \in Events, Log(j, event)
    PROVE  trail' \in [Jobs -> Seq(Events)]
BY DEF TypeOK, Log

\* Executors move between well-formed executions.
LEMMA MoveType ==
    ASSUME TypeOK, NEW x \in Executors
    PROVE  /\ exec[x] \in Executions
           /\ \A e \in Executions : [exec EXCEPT ![x] = e] \in [Executors -> Executions]
           /\ \A pc \in {"export", "complete", "settle"}, v \in {"none", "retry", "final"} :
                 Move(x, pc, v) => exec' \in [Executors -> Executions]
           /\ \A j \in Jobs, n \in Attempts :
                 Take(x, j, n) => exec' \in [Executors -> Executions]
           /\ \A pc \in {"idle", "stopped"} :
                 /\ [exec EXCEPT ![x] = After(x, pc)] \in [Executors -> Executions]
                 /\ [exec EXCEPT ![x] = Free(pc)] \in [Executors -> Executions]
<1>1. exec \in [Executors -> Executions] /\ exec[x] \in Executions
  BY DEF TypeOK
<1>2. \A e \in Executions : [exec EXCEPT ![x] = e] \in [Executors -> Executions]
  BY <1>1
<1>3. \A pc \in {"export", "complete", "settle"}, v \in {"none", "retry", "final"} :
          [exec[x] EXCEPT !.pc = pc, !.verdict = v] \in Executions
  BY <1>1 DEF Executions
<1>4. \A j \in Jobs, n \in Attempts :
          [exec[x] EXCEPT !.pc = "begin", !.doing = j, !.tries = n] \in Executions
  BY <1>1 DEF Executions
<1>5. \A pc \in {"export", "complete", "settle"}, v \in {"none", "retry", "final"} :
          Move(x, pc, v) => exec' \in [Executors -> Executions]
  BY <1>2, <1>3 DEF Move
<1>6. \A j \in Jobs, n \in Attempts : Take(x, j, n) => exec' \in [Executors -> Executions]
  BY <1>2, <1>4 DEF Take
<1>7. \A pc \in {"idle", "stopped"} :
          /\ [exec EXCEPT ![x] = After(x, pc)] \in [Executors -> Executions]
          /\ [exec EXCEPT ![x] = Free(pc)] \in [Executors -> Executions]
  BY <1>2, FreeType
<1> QED  BY <1>1, <1>2, <1>5, <1>6, <1>7

\* Setting a row keeps the table well formed.
LEMMA RowType ==
    ASSUME TypeOK, NEW j \in Jobs
    PROVE  /\ job[j] \in JobRows
           /\ \A row \in JobRows : [job EXCEPT ![j] = row] \in [Jobs -> JobRows]
BY DEF TypeOK

\* What an executor runs is a job, in an attempt it has had.
LEMMA RunnerFacts ==
    ASSUME TypeOK, ExecutorsOK, NEW x \in Executors, Running(x)
    PROVE  /\ exec[x].doing \in Jobs /\ exec[x].tries \in Attempts
           /\ job[exec[x].doing] \in JobRows
           /\ Key(x) \in Keys
<1>1. exec[x].doing \in Jobs /\ exec[x].tries \in 1..job[exec[x].doing].attempts
  BY DEF ExecutorsOK, RunnerOK
<1>2. job[exec[x].doing] \in JobRows
  BY <1>1 DEF TypeOK
<1>3. job[exec[x].doing].attempts \in Attempts
  BY <1>2 DEF JobRows
<1>4. exec[x].tries \in 1..MaxAttempts
  BY <1>1, <1>3, AttemptsAssumption DEF Attempts
<1> QED  BY <1>1, <1>2, <1>4, AttemptsAssumption DEF Key, Keys, Attempts

\* The steps of a cleanup.
LEMMA CleanupType ==
    ASSUME NEW e \in Executions, NEW listed \in SUBSET Jobs
    PROVE  /\ [e EXCEPT !.pc = "cleanup", !.listed = listed] \in Executions
           /\ \A j \in Jobs :
                 [e EXCEPT !.pc = "mark", !.doing = j, !.listed = listed] \in Executions
           /\ [e EXCEPT !.pc = "cleanup", !.doing = None] \in Executions
BY DEF Executions

\* Every step keeps the state well formed.
LEMMA TypeStep == TypeOK /\ ExecutorsOK /\ LinksOK /\ [Next]_vars => TypeOK'
<1> SUFFICES ASSUME TypeOK, ExecutorsOK, LinksOK, [Next]_vars PROVE TypeOK'
  OBVIOUS
<1>a. Workers \subseteq Executors /\ Jobs \subseteq Executors
  BY DEF Executors
<1>b. \A j \in Jobs : job[j] \in JobRows
  BY DEF TypeOK
<1>c. \A x \in Executors : exec[x] \in Executions
  BY DEF TypeOK
<1>1. ASSUME NEW j \in Jobs, NEW mode \in {"SYNCHRONOUS", "QUEUED"}, RequestExport(j, mode)
      PROVE  TypeOK'
  <2>1. [job[j] EXCEPT !.status = "QUEUED", !.mode = mode, !.available = TRUE] \in JobRows
    BY <1>b DEF JobRows, Statuses
  <2>2. exec[j] \in Executions
    BY <1>a DEF TypeOK
  <2>3. [exec[j] EXCEPT !.pc = "start", !.doing = j] \in Executions
    BY <2>2 DEF Executions
  <2>4. exec' \in [Executors -> Executions]
    BY <1>1, <1>a, <2>3, FreeType, MoveType DEF RequestExport
  <2>5. trail' \in [Jobs -> Seq(Events)]
    BY <1>1, LogType DEF RequestExport, Events
  <2>6. job' \in [Jobs -> JobRows]
    BY <1>1, <2>1, RowType DEF RequestExport
  <2> QED  BY <1>1, <2>4, <2>5, <2>6 DEF RequestExport, TypeOK
<1>2. ASSUME NEW j \in Jobs, StartInRequest(j)
      PROVE  TypeOK'
  <2>1. CASE job[j].status = "QUEUED" /\ job[j].attempts < MaxAttempts
    <3>1. job[j].attempts + 1 \in Attempts
      BY <1>b, <2>1, AttemptsAssumption DEF JobRows, Attempts
    <3>2. [job[j] EXCEPT !.status = "RUNNING", !.attempts = job[j].attempts + 1,
                         !.owner = None, !.lease = "none"] \in JobRows
      BY <1>b, <3>1 DEF JobRows, Statuses
    <3>3. job' \in [Jobs -> JobRows]
      BY <1>2, <2>1, <3>2, RowType DEF StartInRequest
    <3>4. exec' \in [Executors -> Executions]
      BY <1>2, <1>a, <2>1, <3>1, MoveType DEF StartInRequest
    <3> QED  BY <1>2, <3>3, <3>4 DEF StartInRequest, TypeOK
  <2>2. CASE ~ (job[j].status = "QUEUED" /\ job[j].attempts < MaxAttempts)
    <3>1. exec' \in [Executors -> Executions]
      BY <1>2, <1>a, <2>2, FreeType, MoveType DEF StartInRequest
    <3> QED  BY <1>2, <2>2, <3>1 DEF StartInRequest, TypeOK
  <2> QED  BY <2>1, <2>2
<1>3. ASSUME NEW w \in Workers, ClaimNext(w)
      PROVE  TypeOK'
  <2>1. PICK j \in Jobs : ClaimExhausted(w, j) \/ ClaimQueued(w, j)
    BY <1>3 DEF ClaimNext
  <2>2. CASE ClaimExhausted(w, j)
    <3>1. [job[j] EXCEPT !.owner = w, !.lease = "live"] \in JobRows
      BY <1>b DEF JobRows
    <3>2. job' \in [Jobs -> JobRows]
      BY <2>2, <3>1, RowType DEF ClaimExhausted
    <3>3. job[j].attempts \in Attempts
      BY <1>b DEF JobRows
    <3>4. exec' \in [Executors -> Executions]
      BY <1>a, <2>2, <3>3, MoveType DEF ClaimExhausted
    <3> QED  BY <1>3, <3>2, <3>4 DEF ClaimNext, TypeOK
  <2>3. CASE ClaimQueued(w, j)
    <3> DEFINE requeued == [i \in Jobs |->
                   IF LeaseOver(i) THEN [Released(job[i], "QUEUED") EXCEPT !.available = TRUE]
                   ELSE job[i]]
    <3>1. requeued \in [Jobs -> JobRows]
      BY <1>b, ReleasedType DEF Statuses
    <3>2. /\ requeued[j].attempts < MaxAttempts
          /\ job' = [requeued EXCEPT ![j] = [requeued[j] EXCEPT !.status = "RUNNING",
                                     !.attempts = requeued[j].attempts + 1,
                                     !.owner = w, !.lease = "live"]]
          /\ Take(w, j, requeued[j].attempts + 1)
      BY <2>3 DEF ClaimQueued
    <3> HIDE DEF requeued
    <3>3. requeued[j] \in JobRows
      BY <3>1
    <3>4. requeued[j].attempts + 1 \in Attempts
      BY <3>2, <3>3, AttemptsAssumption DEF JobRows, Attempts
    <3>5. [requeued[j] EXCEPT !.status = "RUNNING", !.attempts = requeued[j].attempts + 1,
                              !.owner = w, !.lease = "live"] \in JobRows
      BY <3>3, <3>4 DEF JobRows, Statuses
    <3>6. job' \in [Jobs -> JobRows]
      BY <3>1, <3>2, <3>5
    <3>7. exec' \in [Executors -> Executions]
      BY <1>a, <3>2, <3>4, MoveType
    <3> QED  BY <1>3, <3>6, <3>7 DEF ClaimNext, TypeOK
  <2> QED  BY <2>1, <2>2, <2>3
<1>4. ASSUME NEW x \in Executors, Begin(x)
      PROVE  TypeOK'
  <2>1. Running(x)
    BY <1>4 DEF Begin, Running
  <2>2. exec' \in [Executors -> Executions]
    BY <1>4, MoveType DEF Begin
  <2>3. pending' \subseteq Keys
    BY <1>4, <2>1, RunnerFacts DEF Begin, TypeOK
  <2> QED  BY <1>4, <2>2, <2>3 DEF Begin, TypeOK
<1>5. ASSUME NEW x \in Executors, Generate(x)
      PROVE  TypeOK'
  <2>1. Running(x)
    BY <1>5 DEF Generate, ExportFile, ExportFails, Running
  <2>2. exec' \in [Executors -> Executions]
    BY <1>5, MoveType DEF Generate, ExportFile, ExportFails
  <2>3. pending' \subseteq Keys /\ stored' \subseteq Keys
    BY <1>5, <2>1, RunnerFacts DEF Generate, ExportFile, ExportFails, TypeOK
  <2> QED  BY <1>5, <2>2, <2>3 DEF Generate, ExportFile, ExportFails, TypeOK
<1>6. ASSUME NEW w \in Workers, RenewLease(w)
      PROVE  TypeOK'
  <2>1. Running(w)
    BY <1>6 DEF RenewLease, Running
  <2>2. exec[w].doing \in Jobs /\ job[exec[w].doing] \in JobRows
    BY <1>a, <2>1, RunnerFacts
  <2>3. [job[exec[w].doing] EXCEPT !.lease = "live"] \in JobRows
    BY <2>2 DEF JobRows
  <2>4. job' \in [Jobs -> JobRows]
    BY <1>6, <2>2, <2>3, RowType DEF RenewLease
  <2> QED  BY <1>6, <2>4 DEF RenewLease, TypeOK
<1>7. ASSUME NEW x \in Executors, Finish(x)
      PROVE  TypeOK'
  <2>1. Running(x)
    BY <1>7 DEF Finish, Complete, CompleteFails, CompleteUnheard, Running
  <2>2. exec[x].doing \in Jobs /\ exec[x].tries \in Attempts
    BY <2>1, RunnerFacts
  <2>3. Completed(x) => job' \in [Jobs -> JobRows] /\ trail' \in [Jobs -> Seq(Events)]
    <3> SUFFICES ASSUME Completed(x)
                 PROVE  job' \in [Jobs -> JobRows] /\ trail' \in [Jobs -> Seq(Events)]
      OBVIOUS
    <3>1. [Released(job[exec[x].doing], "COMPLETED") EXCEPT !.file = exec[x].tries] \in JobRows
      BY <1>b, <2>2, ReleasedType DEF Statuses
    <3>2. job' \in [Jobs -> JobRows]
      BY <2>2, <3>1, RowType DEF Completed
    <3>3. trail' \in [Jobs -> Seq(Events)]
      BY <2>2, LogType DEF Completed, Events
    <3> QED  BY <3>2, <3>3
  <2>4. exec' \in [Executors -> Executions]
    BY <1>7, MoveType DEF Finish, Complete, CompleteFails, CompleteUnheard
  <2> QED  BY <1>7, <2>2, <2>3, <2>4 DEF Finish, Complete, CompleteFails, CompleteUnheard, TypeOK
<1>8. ASSUME NEW x \in Executors, SettleFailure(x)
      PROVE  TypeOK'
  <2>1. Running(x)
    BY <1>8 DEF SettleFailure, Running
  <2>2. exec[x].doing \in Jobs
    BY <2>1, RunnerFacts
  <2>3. exec' \in [Executors -> Executions]
    BY <1>8, MoveType DEF SettleFailure, Retry, Fail, Conflict
  <2>4. /\ [Released(job[exec[x].doing], "QUEUED") EXCEPT !.available = FALSE] \in JobRows
        /\ Released(job[exec[x].doing], "FAILED") \in JobRows
    BY <1>b, <2>2, ReleasedType DEF Statuses
  <2>5. job' \in [Jobs -> JobRows]
    BY <1>8, <2>2, <2>4, RowType DEF SettleFailure, Retry, Fail, Conflict, TypeOK
  <2>6. trail' \in [Jobs -> Seq(Events)]
    BY <1>8, <2>2, LogType DEF SettleFailure, Retry, Fail, Conflict, TypeOK, Events
  <2> QED  BY <1>8, <2>3, <2>5, <2>6 DEF SettleFailure, TypeOK
<1>9. ASSUME NEW w \in Workers, ListExpired(w)
      PROVE  TypeOK'
  <2>1. [exec[w] EXCEPT !.pc = "cleanup", !.listed = {j \in Jobs : OutOfDate(j)}] \in Executions
    <3>1. exec[w] \in Executions /\ {j \in Jobs : OutOfDate(j)} \in SUBSET Jobs
      BY <1>a, <1>c
    <3> QED  BY <3>1, CleanupType
  <2>2. exec' \in [Executors -> Executions]
    BY <1>9, <1>a, <2>1, MoveType DEF ListExpired
  <2> QED  BY <1>9, <2>2 DEF ListExpired, TypeOK
<1>10. ASSUME NEW w \in Workers, NEW j \in Jobs, DeleteFile(w, j)
       PROVE  TypeOK'
  <2>1. [exec[w] EXCEPT !.pc = "mark", !.doing = j, !.listed = exec[w].listed \ {j}] \in Executions
    <3>1. exec[w] \in Executions
      BY <1>a, <1>c
    <3>2. exec[w].listed \ {j} \in SUBSET Jobs
      BY <3>1 DEF Executions
    <3> QED  BY <3>1, <3>2, CleanupType
  <2>2. exec' \in [Executors -> Executions]
    BY <1>10, <1>a, <2>1, MoveType DEF DeleteFile
  <2> QED  BY <1>10, <2>2 DEF DeleteFile, TypeOK
<1>11. ASSUME NEW w \in Workers, MarkExpired(w)
       PROVE  TypeOK'
  <2>1. exec[w].doing \in Jobs
    BY <1>11 DEF MarkExpired, ExecutorsOK, CleanerOK
  <2>2. [job[exec[w].doing] EXCEPT !.status = "EXPIRED", !.file = 0] \in JobRows
    <3>1. 0 \in Attempts
      BY AttemptsAssumption DEF Attempts
    <3> QED  BY <1>b, <2>1, <3>1 DEF JobRows, Statuses
  <2>3. job' \in [Jobs -> JobRows]
    BY <1>11, <2>1, <2>2, RowType DEF MarkExpired, TypeOK
  <2>4. [exec[w] EXCEPT !.pc = "cleanup", !.doing = None] \in Executions
    BY <1>a, <1>c, CleanupType
  <2>5. exec' \in [Executors -> Executions]
    BY <1>11, <1>a, <2>4, MoveType DEF MarkExpired
  <2> QED  BY <1>11, <2>3, <2>5 DEF MarkExpired, TypeOK
<1>12. ASSUME NEW w \in Workers, FinishCleanup(w)
       PROVE  TypeOK'
  <2>1. exec' \in [Executors -> Executions]
    BY <1>12, <1>a, MoveType DEF FinishCleanup
  <2> QED  BY <1>12, <2>1 DEF FinishCleanup, TypeOK
<1>13. ASSUME NEW t \in Tokens, NEW j \in Jobs, IssueLink(t, j)
       PROVE  TypeOK'
  BY <1>13 DEF IssueLink, TypeOK
<1>14. ASSUME NEW d \in Downloads, NEW t \in Tokens, OpenDownload(d, t)
       PROVE  TypeOK'
  BY <1>14 DEF OpenDownload, TypeOK
<1>15. ASSUME NEW d \in Downloads, AuthorizeDownload(d)
       PROVE  TypeOK'
  <2> DEFINE t == download[d].token
  <2>1. t \in Tokens /\ token[t].job \in Jobs
    BY <1>15 DEF AuthorizeDownload, LinksOK
  <2>2. trail' \in [Jobs -> Seq(Events)]
    BY <1>15, <2>1, LogType DEF AuthorizeDownload, TypeOK, Events
  <2>3. token' = [token EXCEPT ![t].state = "consumed"] \/ token' = token
    BY <1>15 DEF AuthorizeDownload
  <2>4. /\ \/ download' = [download EXCEPT ![d].pc = "served"]
           \/ download' = [download EXCEPT ![d].pc = "refused"]
        /\ UNCHANGED <<job, pending, stored, exec, unacknowledged>>
    BY <1>15 DEF AuthorizeDownload
  <2>5. token' \in [Tokens -> [state : {"none", "live", "expired", "consumed", "deleted"},
                              job : Jobs \cup {None}]]
    BY <2>1, <2>3 DEF TypeOK
  <2>6. download' \in [Downloads -> [pc : {"idle", "opened", "served", "refused"},
                                    token : Tokens \cup {None}, fresh : BOOLEAN]]
    <3>1. download[d] \in [pc : {"idle", "opened", "served", "refused"},
                          token : Tokens \cup {None}, fresh : BOOLEAN]
      BY DEF TypeOK
    <3>2. \A pc \in {"served", "refused"} :
             [download[d] EXCEPT !.pc = pc] \in [pc : {"idle", "opened", "served", "refused"},
                                                token : Tokens \cup {None}, fresh : BOOLEAN]
      BY <3>1
    <3> QED  BY <2>4, <3>2 DEF TypeOK
  <2> QED  BY <2>2, <2>4, <2>5, <2>6 DEF TypeOK
<1>16. ASSUME NEW j \in Jobs, LeaseExpires(j) \/ BackoffEnds(j) \/ FileExpires(j)
       PROVE  TypeOK'
  <2>1. /\ [job[j] EXCEPT !.lease = "expired"] \in JobRows
        /\ [job[j] EXCEPT !.available = TRUE] \in JobRows
        /\ [job[j] EXCEPT !.withdrawn = TRUE] \in JobRows
    BY <1>b DEF JobRows
  <2>2. job' \in [Jobs -> JobRows]
    BY <1>16, <2>1, RowType DEF LeaseExpires, BackoffEnds, FileExpires
  <2> QED  BY <1>16, <2>2 DEF LeaseExpires, BackoffEnds, FileExpires, TypeOK
<1>17. ASSUME NEW t \in Tokens, TokenExpires(t)
       PROVE  TypeOK'
  BY <1>17 DEF TokenExpires, TypeOK
<1>18. ASSUME NEW x \in Executors, Crash(x)
       PROVE  TypeOK'
  BY <1>18, MoveType DEF Crash, TypeOK
<1>19. ASSUME NEW w \in Workers, Restart(w)
       PROVE  TypeOK'
  BY <1>19, <1>a, MoveType DEF Restart, TypeOK
<1>20. CASE UNCHANGED vars
  BY <1>20 DEF vars, TypeOK
<1> QED  BY <1>1, <1>2, <1>3, <1>4, <1>5, <1>6, <1>7, <1>8, <1>9, <1>10, <1>11, <1>12, <1>13,
            <1>14, <1>15, <1>16, <1>17, <1>18, <1>19, <1>20
         DEF Next, WorkerStep, RequestStep, ExecutorStep, LinkStep

-----------------------------------------------------------------------------
(* What the steps of an executor change, field by field *)

\* Move changes where one executor is and its verdict.
LEMMA MoveEffect ==
    ASSUME TypeOK, NEW x \in Executors, NEW pc, NEW v, Move(x, pc, v)
    PROVE  /\ exec'[x].pc = pc /\ exec'[x].doing = exec[x].doing
           /\ exec'[x].tries = exec[x].tries /\ exec'[x].listed = exec[x].listed
           /\ \A y \in Executors \ {x} : exec'[y] = exec[y]
BY DEF TypeOK, Executions, Move

\* After an execution a worker is idle or stopped, and a request is over.
LEMMA FreeEffect ==
    ASSUME TypeOK, NEW x \in Executors, NEW pc \in {"idle", "stopped"},
           exec' = [exec EXCEPT ![x] = After(x, pc)]
    PROVE  /\ exec'[x].pc = IF x \in Workers THEN pc ELSE "done"
           /\ exec'[x].listed = {}
           /\ \A y \in Executors \ {x} : exec'[y] = exec[y]
BY DEF TypeOK, After, Free

\* A claim gives one job to one worker; other jobs whose lease is over go back to the queue.
LEMMA ClaimEffect ==
    ASSUME TypeOK, NEW w \in Workers, ClaimNext(w)
    PROVE  \E j \in Jobs :
              /\ exec[w].pc = "idle"
              /\ exec'[w].pc = "begin" /\ exec'[w].doing = j
              /\ exec'[w].tries = job'[j].attempts /\ exec'[w].listed = exec[w].listed
              /\ \A y \in Executors \ {w} : exec'[y] = exec[y]
              /\ job[j].status \in {"QUEUED", "RUNNING"} /\ job'[j].status = "RUNNING"
              /\ job'[j].owner = w
              /\ job'[j].withdrawn = job[j].withdrawn /\ job'[j].file = job[j].file
              /\ job[j].status = "RUNNING" => job[j].lease = "expired"
              /\ \/ job'[j].attempts = job[j].attempts + 1 /\ job[j].attempts < MaxAttempts
                 \/ job'[j].attempts = job[j].attempts /\ job[j].attempts >= MaxAttempts
              /\ \A i \in Jobs \ {j} :
                    \/ job'[i] = job[i]
                    \/ /\ LeaseOver(i) /\ job'[i].status = "QUEUED" /\ job'[i].owner = None
                       /\ job'[i].attempts = job[i].attempts
                       /\ job'[i].withdrawn = job[i].withdrawn /\ job'[i].file = job[i].file
<1>1. PICK j \in Jobs : ClaimExhausted(w, j) \/ ClaimQueued(w, j)
  BY DEF ClaimNext
<1>2. w \in Executors /\ exec[w].pc = "idle"
  BY DEF Executors, ClaimNext
<1>3. CASE ClaimExhausted(w, j)
  <2>1. /\ exec'[w].pc = "begin" /\ exec'[w].doing = j /\ exec'[w].listed = exec[w].listed
        /\ exec'[w].tries = job[j].attempts
        /\ \A y \in Executors \ {w} : exec'[y] = exec[y]
    BY <1>2, <1>3 DEF ClaimExhausted, Take, TypeOK, Executions
  <2>2. /\ job'[j].status = "RUNNING" /\ job'[j].owner = w /\ job'[j].attempts = job[j].attempts
        /\ job'[j].withdrawn = job[j].withdrawn /\ job'[j].file = job[j].file
        /\ \A i \in Jobs \ {j} : job'[i] = job[i]
    BY <1>3 DEF ClaimExhausted, LeaseOver, TypeOK, JobRows
  <2>3. LeaseOver(j) /\ job[j].attempts >= MaxAttempts
    BY <1>3 DEF ClaimExhausted
  <2> QED  BY <1>2, <2>1, <2>2, <2>3 DEF LeaseOver
<1>4. CASE ClaimQueued(w, j)
  <2> DEFINE requeued == [i \in Jobs |->
                 IF LeaseOver(i) THEN [Released(job[i], "QUEUED") EXCEPT !.available = TRUE]
                 ELSE job[i]]
  <2>1. \A i \in Jobs :
          \/ requeued[i] = job[i] /\ ~LeaseOver(i)
          \/ /\ LeaseOver(i) /\ requeued[i].status = "QUEUED" /\ requeued[i].owner = None
             /\ requeued[i].attempts = job[i].attempts
             /\ requeued[i].withdrawn = job[i].withdrawn /\ requeued[i].file = job[i].file
    BY DEF TypeOK, JobRows, Released
  <2>2. /\ requeued[j].status = "QUEUED" /\ requeued[j].attempts < MaxAttempts
        /\ job' = [requeued EXCEPT ![j] = [requeued[j] EXCEPT !.status = "RUNNING",
                                   !.attempts = requeued[j].attempts + 1,
                                   !.owner = w, !.lease = "live"]]
        /\ Take(w, j, requeued[j].attempts + 1)
    BY <1>4 DEF ClaimQueued
  <2>3. requeued \in [Jobs -> JobRows]
    BY ReleasedType DEF Statuses, TypeOK
  <2> HIDE DEF requeued
  <2>4. /\ job'[j].status = "RUNNING" /\ job'[j].owner = w
        /\ job'[j].attempts = requeued[j].attempts + 1
        /\ job'[j].withdrawn = requeued[j].withdrawn /\ job'[j].file = requeued[j].file
        /\ \A i \in Jobs \ {j} : job'[i] = requeued[i]
    BY <2>2, <2>3 DEF JobRows
  <2>5. /\ exec'[w].pc = "begin" /\ exec'[w].doing = j /\ exec'[w].listed = exec[w].listed
        /\ exec'[w].tries = requeued[j].attempts + 1
        /\ \A y \in Executors \ {w} : exec'[y] = exec[y]
    BY <1>2, <2>2 DEF Take, TypeOK, Executions
  <2>6. /\ job[j].status \in {"QUEUED", "RUNNING"} /\ job[j].attempts = requeued[j].attempts
        /\ job[j].status = "RUNNING" => job[j].lease = "expired"
        /\ job[j].withdrawn = requeued[j].withdrawn /\ job[j].file = requeued[j].file
    BY <2>1, <2>2 DEF LeaseOver
  <2> QED  BY <1>2, <2>1, <2>2, <2>4, <2>5, <2>6
<1> QED  BY <1>1, <1>3, <1>4

\* Setting status, owner, lease and file of a row leaves the rest.
LEMMA ReleasedEffect ==
    ASSUME NEW row \in JobRows, NEW status
    PROVE  LET r == Released(row, status)
           IN  /\ r.status = status /\ r.owner = None
               /\ r.attempts = row.attempts /\ r.withdrawn = row.withdrawn /\ r.file = row.file
BY DEF Released, JobRows

\* The request makes its row, and starts it if no worker has taken it.
LEMMA RequestEffect ==
    ASSUME TypeOK, NEW j \in Jobs, NEW mode, RequestExport(j, mode)
    PROVE  /\ exec[j].pc = "idle" /\ exec'[j].pc \in {"start", "done"}
           /\ exec'[j].pc = "start" => exec'[j].doing = j
           /\ \A y \in Executors \ {j} : exec'[y] = exec[y]
           /\ job'[j].status = "QUEUED"
           /\ job'[j].attempts = job[j].attempts /\ job'[j].withdrawn = job[j].withdrawn
           /\ \A i \in Jobs \ {j} : job'[i] = job[i]
<1>1. j \in Executors
  BY DEF Executors
<1> QED  BY <1>1 DEF RequestExport, TypeOK, JobRows, Executions, Free

\* start makes the job RUNNING in its next attempt, without a lease, or ends the request.
LEMMA StartEffect ==
    ASSUME TypeOK, NEW j \in Jobs, StartInRequest(j)
    PROVE  /\ exec[j].pc = "start"
           /\ \A y \in Executors \ {j} : exec'[y] = exec[y]
           /\ \A i \in Jobs \ {j} : job'[i] = job[i]
           /\ \/ /\ job' = job /\ exec'[j].pc = "done"
              \/ /\ job[j].status = "QUEUED" /\ job'[j].status = "RUNNING"
                 /\ job'[j].owner = None /\ job'[j].attempts = job[j].attempts + 1
                 /\ job'[j].withdrawn = job[j].withdrawn /\ job'[j].file = job[j].file
                 /\ exec'[j].pc = "begin" /\ exec'[j].doing = j
                 /\ exec'[j].tries = job'[j].attempts
<1>1. j \in Executors
  BY DEF Executors
<1>2. CASE job[j].status = "QUEUED" /\ job[j].attempts < MaxAttempts
  <2>0. /\ job' = [job EXCEPT ![j] = [@ EXCEPT !.status = "RUNNING",
                                     !.attempts = job[j].attempts + 1,
                                     !.owner = None, !.lease = "none"]]
        /\ Take(j, j, job[j].attempts + 1)
    BY <1>2 DEF StartInRequest
  <2>1. /\ job'[j].status = "RUNNING" /\ job'[j].owner = None
        /\ job'[j].attempts = job[j].attempts + 1
        /\ job'[j].withdrawn = job[j].withdrawn /\ job'[j].file = job[j].file
        /\ \A i \in Jobs \ {j} : job'[i] = job[i]
    BY <2>0 DEF TypeOK, JobRows
  <2>2. /\ exec'[j].pc = "begin" /\ exec'[j].doing = j /\ exec'[j].tries = job[j].attempts + 1
        /\ \A y \in Executors \ {j} : exec'[y] = exec[y]
    BY <1>1, <2>0 DEF Take, TypeOK, Executions
  <2> QED  BY <1>2, <2>1, <2>2 DEF StartInRequest
<1>3. CASE ~ (job[j].status = "QUEUED" /\ job[j].attempts < MaxAttempts)
  BY <1>1, <1>3 DEF StartInRequest, Free, TypeOK
<1> QED  BY <1>2, <1>3

\* complete gives the job the file of the attempt; the executor held the lease.
LEMMA CompletedEffect ==
    ASSUME TypeOK, NEW x \in Executors, exec[x].doing \in Jobs, Completed(x)
    PROVE  LET j == exec[x].doing
           IN  /\ Mine(x)
               /\ job'[j].status = "COMPLETED" /\ job'[j].file = exec[x].tries
               /\ job'[j].owner = None
               /\ job'[j].attempts = job[j].attempts /\ job'[j].withdrawn = job[j].withdrawn
               /\ \A i \in Jobs \ {j} : job'[i] = job[i]
<1>1. job[exec[x].doing] \in JobRows
  BY DEF TypeOK
<1> DEFINE r == Released(job[exec[x].doing], "COMPLETED")
<1>2. /\ r \in JobRows /\ r.status = "COMPLETED" /\ r.owner = None
      /\ r.attempts = job[exec[x].doing].attempts /\ r.withdrawn = job[exec[x].doing].withdrawn
  BY <1>1, ReleasedType, ReleasedEffect DEF Statuses
<1>3. Mine(x) /\ job' = [job EXCEPT ![exec[x].doing] = [r EXCEPT !.file = exec[x].tries]]
  BY DEF Completed
<1> HIDE DEF r
<1> QED  BY <1>2, <1>3 DEF TypeOK, JobRows

\* settleFailure changes the job only while the executor holds its lease.
LEMMA SettleEffect ==
    ASSUME TypeOK, NEW x \in Executors, exec[x].doing \in Jobs, SettleFailure(x)
    PROVE  LET j == exec[x].doing
           IN  /\ exec[x].pc = "settle" /\ exec'[x].pc \in {"idle", "stopped", "done"}
               /\ exec'[x].pc = "done" <=> x \notin Workers
               /\ exec'[x].listed = {}
               /\ \A y \in Executors \ {x} : exec'[y] = exec[y]
               /\ \/ job' = job
                  \/ /\ Mine(x)
                     /\ job'[j].status \in {"QUEUED", "FAILED"}
                     /\ job'[j].owner = None /\ job'[j].attempts = job[j].attempts
                     /\ job'[j].withdrawn = job[j].withdrawn /\ job'[j].file = job[j].file
                     /\ \A i \in Jobs \ {j} : job'[i] = job[i]
<1>1. job[exec[x].doing] \in JobRows
  BY DEF TypeOK
<1>2. \E pc \in {"idle", "stopped"} : exec' = [exec EXCEPT ![x] = After(x, pc)]
  BY DEF SettleFailure, Retry, Fail, Conflict
<1>3. /\ exec[x].pc = "settle" /\ exec'[x].pc \in {"idle", "stopped", "done"}
      /\ exec'[x].pc = "done" <=> x \notin Workers
      /\ exec'[x].listed = {} /\ \A y \in Executors \ {x} : exec'[y] = exec[y]
  BY <1>2, FreeEffect DEF SettleFailure
<1> DEFINE q == Released(job[exec[x].doing], "QUEUED")
           f == Released(job[exec[x].doing], "FAILED")
<1>4. /\ q \in JobRows /\ q.status = "QUEUED" /\ q.owner = None
      /\ q.attempts = job[exec[x].doing].attempts /\ q.withdrawn = job[exec[x].doing].withdrawn
      /\ q.file = job[exec[x].doing].file
  BY <1>1, ReleasedType, ReleasedEffect DEF Statuses
<1>5. /\ f \in JobRows /\ f.status = "FAILED" /\ f.owner = None
      /\ f.attempts = job[exec[x].doing].attempts /\ f.withdrawn = job[exec[x].doing].withdrawn
      /\ f.file = job[exec[x].doing].file
  BY <1>1, ReleasedType, ReleasedEffect DEF Statuses
<1>6. \/ job' = job
      \/ Mine(x) /\ job' = [job EXCEPT ![exec[x].doing] = [q EXCEPT !.available = FALSE]]
      \/ Mine(x) /\ job' = [job EXCEPT ![exec[x].doing] = f]
  BY DEF SettleFailure, Retry, Fail, Conflict
<1> HIDE DEF q, f
<1>7. CASE Mine(x) /\ job' = [job EXCEPT ![exec[x].doing] = [q EXCEPT !.available = FALSE]]
  BY <1>3, <1>4, <1>7 DEF TypeOK, JobRows
<1>8. CASE Mine(x) /\ job' = [job EXCEPT ![exec[x].doing] = f]
  BY <1>3, <1>5, <1>8 DEF TypeOK, JobRows
<1> QED  BY <1>3, <1>6, <1>7, <1>8

\* Time and lease renewal leave everything of a row but lease, availability and retention.
LEMMA ClockEffect ==
    ASSUME TypeOK, NEW i \in Jobs,
           \/ \E j \in Jobs : LeaseExpires(j) \/ BackoffEnds(j) \/ FileExpires(j)
           \/ \E w \in Workers : RenewLease(w) /\ exec[w].doing \in Jobs
    PROVE  /\ job'[i].status = job[i].status /\ job'[i].attempts = job[i].attempts
           /\ job'[i].owner = job[i].owner /\ job'[i].file = job[i].file
           /\ \/ job'[i].withdrawn = job[i].withdrawn
              \/ /\ job'[i].withdrawn /\ job[i].status = "COMPLETED"
                 /\ \A t \in Tokens : token'[t].job = i => token'[t].state # "live"
<1>1. job[i] \in JobRows
  BY DEF TypeOK
<1>2. CASE \E j \in Jobs : FileExpires(j)
  <2>1. PICK j \in Jobs : FileExpires(j)
    BY <1>2
  <2>2. job[j].status = "COMPLETED" /\ job' = [job EXCEPT ![j] = [@ EXCEPT !.withdrawn = TRUE]]
    BY <2>1 DEF FileExpires
  <2>3. CASE i = j
    <3>1. job'[i] = [job[i] EXCEPT !.withdrawn = TRUE]
      BY <2>2, <2>3 DEF TypeOK
    <3>2. job[i].status = "COMPLETED"
      BY <2>2, <2>3
    <3>3. \A t \in Tokens : token'[t].job = i => token'[t].state # "live"
      BY <2>1, <2>3 DEF FileExpires, TypeOK
    <3> QED  BY <1>1, <3>1, <3>2, <3>3 DEF JobRows
  <2>4. CASE i # j
    <3>1. job'[i] = job[i]
      BY <2>2, <2>4 DEF TypeOK
    <3> QED  BY <3>1
  <2> QED  BY <2>3, <2>4
<1>3. CASE ~ \E j \in Jobs : FileExpires(j)
  <2>1. PICK j \in Jobs :
          \/ job' = [job EXCEPT ![j] = [@ EXCEPT !.lease = "expired"]]
          \/ job' = [job EXCEPT ![j] = [@ EXCEPT !.lease = "live"]]
          \/ job' = [job EXCEPT ![j] = [@ EXCEPT !.available = TRUE]]
    BY <1>3 DEF LeaseExpires, BackoffEnds, RenewLease
  <2>2. \/ job'[i] = job[i]
        \/ job'[i] = [job[i] EXCEPT !.lease = "expired"]
        \/ job'[i] = [job[i] EXCEPT !.lease = "live"]
        \/ job'[i] = [job[i] EXCEPT !.available = TRUE]
    BY <2>1 DEF TypeOK
  <2> QED  BY <1>1, <2>2 DEF JobRows
<1> QED  BY <1>2, <1>3

\* The mark on a job whose file is deleted.
LEMMA MarkEffect ==
    ASSUME TypeOK, NEW w \in Workers, exec[w].doing \in Jobs, MarkExpired(w)
    PROVE  LET j == exec[w].doing
           IN  /\ exec[w].pc = "mark"
               /\ exec'[w].pc \in {"cleanup", "stopped"}
               /\ exec'[w].listed \subseteq exec[w].listed
               /\ \A y \in Executors \ {w} : exec'[y] = exec[y]
               /\ \A i \in Jobs \ {j} : job'[i] = job[i]
               /\ \/ job' = job
                  \/ /\ job[j].status = "COMPLETED" /\ job'[j].status = "EXPIRED"
                     /\ job'[j].attempts = job[j].attempts /\ job'[j].owner = job[j].owner
                     /\ job'[j].withdrawn = job[j].withdrawn
<1>1. w \in Executors
  BY DEF Executors
<1>2. CASE job[exec[w].doing].status = "COMPLETED"
  <2>1. /\ job' = [job EXCEPT ![exec[w].doing] = [@ EXCEPT !.status = "EXPIRED", !.file = 0]]
        /\ exec' = [exec EXCEPT ![w] = [@ EXCEPT !.pc = "cleanup", !.doing = None]]
    BY <1>2 DEF MarkExpired
  <2>2. /\ exec'[w].pc = "cleanup" /\ exec'[w].listed = exec[w].listed
        /\ \A y \in Executors \ {w} : exec'[y] = exec[y]
    BY <1>1, <2>1 DEF TypeOK, Executions
  <2>3. /\ job'[exec[w].doing].status = "EXPIRED"
        /\ job'[exec[w].doing].attempts = job[exec[w].doing].attempts
        /\ job'[exec[w].doing].owner = job[exec[w].doing].owner
        /\ job'[exec[w].doing].withdrawn = job[exec[w].doing].withdrawn
        /\ \A i \in Jobs \ {exec[w].doing} : job'[i] = job[i]
    BY <2>1 DEF TypeOK, JobRows
  <2> QED  BY <1>2, <2>2, <2>3 DEF MarkExpired
<1>3. CASE job[exec[w].doing].status # "COMPLETED"
  <2>1. exec' = [exec EXCEPT ![w] = Free("stopped")] /\ job' = job
    BY <1>3 DEF MarkExpired
  <2>2. /\ exec'[w].pc = "stopped" /\ exec'[w].listed = {}
        /\ \A y \in Executors \ {w} : exec'[y] = exec[y]
    BY <1>1, <2>1 DEF TypeOK, Free
  <2> QED  BY <2>1, <2>2 DEF MarkExpired
<1> QED  BY <1>2, <1>3
-----------------------------------------------------------------------------
(* What any step may do to a row, to an executor and to the files *)

SameRow(i) ==
    /\ job'[i].status = job[i].status /\ job'[i].attempts = job[i].attempts
    /\ job'[i].owner = job[i].owner /\ job'[i].file = job[i].file
    /\ \/ job'[i].withdrawn = job[i].withdrawn
       \/ /\ job'[i].withdrawn /\ job[i].status = "COMPLETED"
          /\ \A t \in Tokens : token'[t].job = i => token'[t].state # "live"

Requested(i) ==
    /\ job[i].status = "NONE" /\ job'[i].status = "QUEUED"
    /\ job'[i].attempts = job[i].attempts
    /\ exec'[i].pc # "idle"

\* The job is failed or queued again, by its executor or because its lease is over.
Freed(i) ==
    /\ job[i].status = "RUNNING" /\ job'[i].status \in {"QUEUED", "FAILED"}
    /\ job'[i].owner = None /\ job'[i].attempts = job[i].attempts
    /\ \/ job[i].lease = "expired" /\ job'[i].status = "QUEUED"
       \/ \E x \in Executors :
             exec[x].doing = i /\ exec[x].tries = job[i].attempts /\ exec'[x] # exec[x]

TakenBy(x, i) ==
    /\ exec[x].pc \in {"idle", "start"}
    /\ exec'[x].pc = "begin" /\ exec'[x].doing = i /\ exec'[x].tries = job'[i].attempts
    /\ x \in Workers => exec'[x].listed = exec[x].listed
    /\ \A y \in Executors \ {x} : exec'[y] = exec[y]
    /\ job[i].status \in {"QUEUED", "RUNNING"} /\ job'[i].status = "RUNNING"
    /\ job'[i].owner = Owner(x)
    /\ \/ job'[i].attempts = job[i].attempts + 1
       \/ job'[i].attempts = job[i].attempts /\ job[i].attempts >= MaxAttempts /\ x \in Workers
    /\ x \in Jobs => x = i

CompletedBy(x, i) ==
    /\ exec[x].pc = "complete" /\ exec[x].doing = i /\ exec[x].tries = job[i].attempts
    /\ exec'[x].pc \notin {"begin", "export", "complete"}
    /\ job[i].status = "RUNNING" /\ job'[i].status = "COMPLETED" /\ job'[i].owner = None
    /\ job'[i].attempts = job[i].attempts /\ job'[i].file = job[i].attempts
    /\ stored' = stored \/ i \in unacknowledged'

Marked(i) ==
    /\ job[i].status = "COMPLETED" /\ job'[i].status = "EXPIRED"
    /\ job'[i].attempts = job[i].attempts /\ job'[i].owner = job[i].owner
    /\ job[i].withdrawn /\ job'[i].withdrawn
    /\ <<i, job[i].attempts>> \notin stored

RowStep(i) ==
    \/ SameRow(i) \/ Requested(i) \/ Freed(i) \/ Marked(i)
    \/ \E x \in Executors : TakenBy(x, i) \/ CompletedBy(x, i)

Asks(x) ==
    /\ x \in Jobs /\ exec'[x].pc \in {"start", "done"}
    /\ exec'[x].pc = "start" => exec'[x].doing = x

GoesOn(x) ==
    /\ Running(x) /\ exec'[x].pc \in {"export", "complete", "settle"}
    /\ exec'[x].doing = exec[x].doing /\ exec'[x].tries = exec[x].tries
    /\ exec'[x].listed = exec[x].listed
    /\ exec'[x].pc = "export" =>
          exec[x].pc = "begin" /\ (x \in Workers => exec[x].tries < MaxAttempts)
    /\ exec'[x].pc = "complete" => exec[x].pc = "export" /\ Key(x) \in stored'

Stops(x) ==
    IF x \in Workers THEN exec'[x].pc \in {"idle", "stopped"} /\ exec'[x].listed = {}
                     ELSE exec'[x].pc = "done"

Cleans(x) ==
    /\ x \in Workers /\ exec'[x].pc \in {"cleanup", "mark", "stopped"}
    /\ \A j \in exec'[x].listed : j \in exec[x].listed \/ (j \in Jobs /\ OutOfDate(j))
    /\ exec'[x].pc = "mark" =>
          /\ exec'[x].doing \in exec[x].listed
          /\ <<exec'[x].doing, job[exec'[x].doing].attempts>> \notin stored'

ExecStep(x) ==
    \/ exec'[x] = exec[x] \/ Asks(x) \/ GoesOn(x) \/ Stops(x) \/ Cleans(x)
    \/ \E i \in Jobs : TakenBy(x, i)

FileStep ==
    /\ \A k \in stored' : k \in stored \/ \E x \in Executors : exec[x].pc = "export" /\ k = Key(x)
    /\ \A k \in stored :
          \/ k \in stored'
          \/ \E x \in Executors : exec[x].pc = "complete" /\ k = Key(x) /\ exec'[x].pc # "complete"
          \/ \E j \in Jobs : HasEnded(j) /\ job[j].withdrawn /\ k = <<j, job[j].attempts>>
    /\ unacknowledged \subseteq unacknowledged'

StepOK == (\A i \in Jobs : RowStep(i)) /\ (\A x \in Executors : ExecStep(x)) /\ FileStep

\* A step that leaves every row as it is.
LEMMA KeptRows == job' = job => \A i \in Jobs : RowStep(i)
BY DEF RowStep, SameRow

\* A step that leaves every executor where it is.
LEMMA KeptExec == exec' = exec => \A x \in Executors : ExecStep(x)
BY DEF ExecStep

\* A step that leaves the files alone.
LEMMA KeptFiles == UNCHANGED <<stored, unacknowledged>> => FileStep
BY DEF FileStep

\* The lease of a worker is in its name, that of a request is in none.
LEMMA OwnerFacts ==
    /\ \A w \in Workers : Owner(w) = w /\ w # None /\ w \notin Jobs
    /\ \A j \in Jobs : Owner(j) = None /\ j \notin Workers /\ j # None
    /\ Workers \subseteq Executors /\ Jobs \subseteq Executors
    /\ \A x \in Executors : x \notin Workers => x \in Jobs
BY NameAssumption DEF Owner, Executors

\* Every step of the system does no more than that.
LEMMA StepEffects == TypeOK /\ ExecutorsOK /\ [Next]_vars => StepOK
<1> SUFFICES ASSUME TypeOK, ExecutorsOK, [Next]_vars PROVE StepOK
  OBVIOUS
<1>1. ASSUME NEW j \in Jobs, NEW mode \in {"SYNCHRONOUS", "QUEUED"}, RequestExport(j, mode)
      PROVE  StepOK
  <2>1. job[j].status = "NONE"
    BY <1>1, RequestEffect DEF ExecutorsOK, RequestOK
  <2>2. Requested(j) /\ Asks(j)
    BY <1>1, <2>1, RequestEffect DEF Requested, Asks
  <2>3. \A i \in Jobs : RowStep(i)
    BY <1>1, <2>2, RequestEffect DEF RowStep, SameRow
  <2>4. \A x \in Executors : ExecStep(x)
    BY <1>1, <2>2, RequestEffect DEF ExecStep
  <2>5. FileStep
    BY <1>1, KeptFiles DEF RequestExport
  <2> QED  BY <2>3, <2>4, <2>5 DEF StepOK
<1>2. ASSUME NEW j \in Jobs, StartInRequest(j)
      PROVE  StepOK
  <2>1. FileStep
    BY <1>2, KeptFiles DEF StartInRequest
  <2>2. CASE job' = job /\ exec'[j].pc = "done"
    <3>1. Stops(j)
      BY <2>2, OwnerFacts DEF Stops
    <3> QED  BY <1>2, <2>1, <2>2, <3>1, StartEffect, KeptRows DEF StepOK, ExecStep
  <2>3. CASE ~ (job' = job /\ exec'[j].pc = "done")
    <3>1. TakenBy(j, j)
      BY <1>2, <2>3, StartEffect, OwnerFacts DEF TakenBy
    <3>2. \A i \in Jobs : RowStep(i)
      BY <1>2, <3>1, StartEffect, OwnerFacts DEF RowStep, SameRow
    <3>3. \A x \in Executors : ExecStep(x)
      BY <1>2, <3>1, StartEffect DEF ExecStep
    <3> QED  BY <2>1, <3>2, <3>3 DEF StepOK
  <2> QED  BY <2>2, <2>3
<1>3. ASSUME NEW w \in Workers, ClaimNext(w)
      PROVE  StepOK
  <2>1. PICK j \in Jobs :
          /\ exec[w].pc = "idle"
          /\ exec'[w].pc = "begin" /\ exec'[w].doing = j
          /\ exec'[w].tries = job'[j].attempts /\ exec'[w].listed = exec[w].listed
          /\ \A y \in Executors \ {w} : exec'[y] = exec[y]
          /\ job[j].status \in {"QUEUED", "RUNNING"} /\ job'[j].status = "RUNNING"
          /\ job'[j].owner = w
          /\ \/ job'[j].attempts = job[j].attempts + 1
             \/ job'[j].attempts = job[j].attempts /\ job[j].attempts >= MaxAttempts
          /\ \A i \in Jobs \ {j} :
                \/ job'[i] = job[i]
                \/ /\ LeaseOver(i) /\ job'[i].status = "QUEUED" /\ job'[i].owner = None
                   /\ job'[i].attempts = job[i].attempts
    BY <1>3, ClaimEffect
  <2>2. TakenBy(w, j)
    BY <2>1, OwnerFacts DEF TakenBy
  <2>3. \A i \in Jobs : RowStep(i)
    <3> SUFFICES ASSUME NEW i \in Jobs, i # j PROVE RowStep(i)
      BY <2>2, OwnerFacts DEF RowStep
    <3>1. SameRow(i) \/ Freed(i)
      BY <2>1 DEF SameRow, Freed, LeaseOver
    <3> QED  BY <3>1 DEF RowStep
  <2>4. \A x \in Executors : ExecStep(x)
    BY <2>1, <2>2 DEF ExecStep
  <2>5. FileStep
    BY <1>3, KeptFiles DEF ClaimNext
  <2> QED  BY <2>3, <2>4, <2>5 DEF StepOK
<1>4. ASSUME NEW x \in Executors, Begin(x)
      PROVE  StepOK
  <2>1. /\ exec[x].pc = "begin" /\ UNCHANGED <<job, stored, unacknowledged>>
        /\ \/ (x \in Workers => exec[x].tries < MaxAttempts) /\ Move(x, "export", "none")
           \/ \E v \in {"final", "retry"} : Move(x, "settle", v)
    BY <1>4 DEF Begin
  <2>2. GoesOn(x) /\ \A y \in Executors \ {x} : exec'[y] = exec[y]
    BY <2>1, MoveEffect DEF GoesOn, Running
  <2> QED  BY <2>1, <2>2, KeptRows, KeptFiles DEF StepOK, ExecStep
<1>5. ASSUME NEW x \in Executors, Generate(x)
      PROVE  StepOK
  <2>1. /\ exec[x].pc = "export" /\ UNCHANGED <<job, unacknowledged>>
        /\ \/ Move(x, "complete", "none") /\ stored' = stored \cup {Key(x)}
           \/ (\E v \in {"final", "retry"} : Move(x, "settle", v)) /\ stored' = stored
    BY <1>5 DEF Generate, ExportFile, ExportFails
  <2>2. GoesOn(x) /\ \A y \in Executors \ {x} : exec'[y] = exec[y]
    BY <2>1, MoveEffect DEF GoesOn, Running
  <2>3. FileStep
    BY <2>1 DEF FileStep
  <2> QED  BY <2>1, <2>2, <2>3, KeptRows DEF StepOK, ExecStep
<1>6. ASSUME NEW x \in Executors, CompleteFails(x)
      PROVE  StepOK
  <2>1. /\ exec[x].pc = "complete" /\ UNCHANGED <<job, unacknowledged>>
        /\ Move(x, "settle", "retry") /\ stored' \in {stored, stored \ {Key(x)}}
    BY <1>6 DEF CompleteFails
  <2>2. exec'[x].pc = "settle" /\ GoesOn(x) /\ \A y \in Executors \ {x} : exec'[y] = exec[y]
    BY <2>1, MoveEffect DEF GoesOn, Running
  <2>3. FileStep
    BY <2>1, <2>2 DEF FileStep
  <2> QED  BY <2>1, <2>2, <2>3, KeptRows DEF StepOK, ExecStep
<1>7. ASSUME NEW x \in Executors, Complete(x) \/ CompleteUnheard(x)
      PROVE  StepOK
  <2>1. exec[x].pc = "complete" /\ Completed(x)
    BY <1>7 DEF Complete, CompleteUnheard
  <2>2. /\ exec[x].doing \in Jobs
        /\ Mine(x) => exec[x].tries = job[exec[x].doing].attempts
    BY <2>1 DEF ExecutorsOK, RunnerOK, Running
  <2>3. /\ job'[exec[x].doing].status = "COMPLETED" /\ job'[exec[x].doing].owner = None
        /\ job'[exec[x].doing].file = exec[x].tries /\ Mine(x)
        /\ job'[exec[x].doing].attempts = job[exec[x].doing].attempts
        /\ \A i \in Jobs \ {exec[x].doing} : job'[i] = job[i]
    BY <2>1, <2>2, CompletedEffect
  <2>4. /\ exec'[x].pc \notin {"begin", "export", "complete"} /\ ExecStep(x)
        /\ stored' = stored \/ exec[x].doing \in unacknowledged'
        /\ \A y \in Executors \ {x} : exec'[y] = exec[y]
    <3>1. CASE Complete(x)
      <4>1. exec' = [exec EXCEPT ![x] = After(x, "idle")] /\ stored' = stored
        BY <3>1 DEF Complete
      <4>2. Stops(x) /\ exec'[x].pc \in {"idle", "done"}
        BY <4>1, FreeEffect DEF Stops
      <4> QED  BY <4>1, <4>2, FreeEffect DEF ExecStep
    <3>2. CASE CompleteUnheard(x)
      <4>1. exec[x].doing \in unacknowledged' /\ Move(x, "settle", "retry")
        BY <3>2 DEF CompleteUnheard
      <4>2. GoesOn(x) /\ exec'[x].pc = "settle"
        BY <2>1, <4>1, MoveEffect DEF GoesOn, Running
      <4> QED  BY <4>1, <4>2, MoveEffect DEF ExecStep
    <3> QED  BY <1>7, <3>1, <3>2
  <2>5. CompletedBy(x, exec[x].doing)
    BY <2>1, <2>2, <2>3, <2>4 DEF CompletedBy, Mine
  <2>6. \A i \in Jobs : RowStep(i)
    BY <2>3, <2>5 DEF RowStep, SameRow
  <2>7. \A y \in Executors : ExecStep(y)
    BY <2>4 DEF ExecStep
  <2>8. FileStep
    <3>1. unacknowledged \subseteq unacknowledged' /\ stored' \in {stored, stored \ {Key(x)}}
      BY <1>7 DEF Complete, CompleteUnheard
    <3> QED  BY <2>1, <2>4, <3>1 DEF FileStep
  <2> QED  BY <2>6, <2>7, <2>8 DEF StepOK
<1>8. ASSUME NEW x \in Executors, SettleFailure(x)
      PROVE  StepOK
  <2>1. exec[x].pc = "settle"
    BY <1>8 DEF SettleFailure
  <2>2. /\ exec[x].doing \in Jobs
        /\ Mine(x) => exec[x].tries = job[exec[x].doing].attempts
    BY <2>1 DEF ExecutorsOK, RunnerOK, Running
  <2>3. /\ exec'[x].pc \in {"idle", "stopped", "done"}
        /\ exec'[x].pc = "done" <=> x \notin Workers
        /\ exec'[x].listed = {}
        /\ \A y \in Executors \ {x} : exec'[y] = exec[y]
        /\ \/ job' = job
           \/ /\ Mine(x)
              /\ job'[exec[x].doing].status \in {"QUEUED", "FAILED"}
              /\ job'[exec[x].doing].owner = None
              /\ job'[exec[x].doing].attempts = job[exec[x].doing].attempts
              /\ \A i \in Jobs \ {exec[x].doing} : job'[i] = job[i]
    BY <1>8, <2>2, SettleEffect
  <2>4. exec'[x] # exec[x]
    BY <2>1, <2>3
  <2>5. \A i \in Jobs : RowStep(i)
    <3>1. CASE job' = job
      BY <3>1, KeptRows
    <3>2. CASE job' # job
      <4>1. Freed(exec[x].doing)
        BY <2>2, <2>3, <2>4, <3>2 DEF Freed, Mine
      <4> QED  BY <2>3, <3>2, <4>1 DEF RowStep, SameRow
    <3> QED  BY <3>1, <3>2
  <2>6. Stops(x)
    BY <2>3 DEF Stops
  <2>7. \A y \in Executors : ExecStep(y)
    BY <2>3, <2>6 DEF ExecStep
  <2>8. FileStep
    BY <1>8, KeptFiles DEF SettleFailure
  <2> QED  BY <2>5, <2>7, <2>8 DEF StepOK
<1>9. ASSUME NEW w \in Workers, ListExpired(w) \/ (\E j \in Jobs : DeleteFile(w, j))
      PROVE  StepOK
  <2>1. exec[w] \in Executions /\ UNCHANGED <<job, unacknowledged>>
    BY <1>9, OwnerFacts DEF ListExpired, DeleteFile, TypeOK
  <2>2. CASE ListExpired(w)
    <3>1. /\ exec' = [exec EXCEPT ![w] = [@ EXCEPT !.pc = "cleanup",
                                         !.listed = {j \in Jobs : OutOfDate(j)}]]
          /\ stored' = stored
      BY <2>2 DEF ListExpired
    <3>2. exec'[w] = [exec[w] EXCEPT !.pc = "cleanup", !.listed = {j \in Jobs : OutOfDate(j)}]
      BY <3>1, OwnerFacts DEF TypeOK
    <3>3. exec'[w].pc = "cleanup" /\ exec'[w].listed = {j \in Jobs : OutOfDate(j)}
      BY <2>1, <3>2 DEF Executions
    <3>4. Cleans(w)
      BY <3>3 DEF Cleans
    <3>5. \A x \in Executors : ExecStep(x)
      BY <3>1, <3>4 DEF ExecStep, TypeOK
    <3> QED  BY <2>1, <3>1, <3>5, KeptRows, KeptFiles DEF StepOK
  <2>3. ASSUME NEW j \in Jobs, DeleteFile(w, j)
        PROVE  StepOK
    <3>1. /\ j \in exec[w].listed /\ stored' = stored \ {<<j, job[j].attempts>>}
          /\ exec' = [exec EXCEPT ![w] = [@ EXCEPT !.pc = "mark", !.doing = j,
                                         !.listed = exec[w].listed \ {j}]]
      BY <2>3 DEF DeleteFile
    <3>2. exec'[w] = [exec[w] EXCEPT !.pc = "mark", !.doing = j, !.listed = exec[w].listed \ {j}]
      BY <3>1, OwnerFacts DEF TypeOK
    <3>3. exec'[w].pc = "mark" /\ exec'[w].doing = j /\ exec'[w].listed = exec[w].listed \ {j}
      BY <2>1, <3>2 DEF Executions
    <3>4. Cleans(w)
      BY <3>1, <3>3 DEF Cleans
    <3>5. \A x \in Executors : ExecStep(x)
      BY <3>1, <3>4 DEF ExecStep, TypeOK
    <3>6. HasEnded(j) /\ job[j].withdrawn
      BY <3>1 DEF ExecutorsOK, CleanerOK
    <3>7. FileStep
      BY <2>1, <3>1, <3>6 DEF FileStep
    <3> QED  BY <2>1, <3>5, <3>7, KeptRows DEF StepOK
  <2> QED  BY <1>9, <2>2, <2>3
<1>10. ASSUME NEW w \in Workers, MarkExpired(w)
       PROVE  StepOK
  <2>1. exec[w].pc = "mark"
    BY <1>10 DEF MarkExpired
  <2>2. /\ exec[w].doing \in Jobs /\ job[exec[w].doing].withdrawn
        /\ <<exec[w].doing, job[exec[w].doing].attempts>> \notin stored
    BY <2>1 DEF ExecutorsOK, CleanerOK
  <2>3. /\ exec'[w].pc \in {"cleanup", "stopped"} /\ exec'[w].listed \subseteq exec[w].listed
        /\ \A y \in Executors \ {w} : exec'[y] = exec[y]
        /\ \A i \in Jobs \ {exec[w].doing} : job'[i] = job[i]
        /\ \/ job' = job
           \/ /\ job[exec[w].doing].status = "COMPLETED"
              /\ job'[exec[w].doing].status = "EXPIRED"
              /\ job'[exec[w].doing].attempts = job[exec[w].doing].attempts
              /\ job'[exec[w].doing].owner = job[exec[w].doing].owner
              /\ job'[exec[w].doing].withdrawn = job[exec[w].doing].withdrawn
    BY <1>10, <2>2, MarkEffect
  <2>4. Cleans(w)
    BY <2>3 DEF Cleans
  <2>5. \A i \in Jobs : RowStep(i)
    <3>1. CASE job' = job
      BY <3>1, KeptRows
    <3>2. CASE job' # job
      BY <2>2, <2>3, <3>2 DEF RowStep, Marked, SameRow
    <3> QED  BY <3>1, <3>2
  <2>6. \A x \in Executors : ExecStep(x)
    BY <2>3, <2>4 DEF ExecStep
  <2>7. FileStep
    BY <1>10, KeptFiles DEF MarkExpired
  <2> QED  BY <2>5, <2>6, <2>7 DEF StepOK
<1>11. ASSUME NEW w \in Workers, FinishCleanup(w) \/ Restart(w)
       PROVE  StepOK
  <2>1. exec' = [exec EXCEPT ![w] = Free("idle")] /\ UNCHANGED <<job, stored, unacknowledged>>
    BY <1>11 DEF FinishCleanup, Restart
  <2>2. exec'[w].pc = "idle" /\ exec'[w].listed = {}
    BY <2>1, OwnerFacts DEF TypeOK, Free
  <2>3. Stops(w)
    BY <2>2 DEF Stops
  <2>4. \A x \in Executors : ExecStep(x)
    BY <2>1, <2>3 DEF ExecStep, TypeOK
  <2> QED  BY <2>1, <2>4, KeptRows, KeptFiles DEF StepOK
<1>12. ASSUME NEW x \in Executors, Crash(x)
       PROVE  StepOK
  <2>1. /\ exec' = [exec EXCEPT ![x] = After(x, "stopped")]
        /\ UNCHANGED <<job, stored, unacknowledged>>
    BY <1>12 DEF Crash
  <2>2. Stops(x) /\ \A y \in Executors \ {x} : exec'[y] = exec[y]
    BY <2>1, FreeEffect DEF Stops
  <2>3. \A y \in Executors : ExecStep(y)
    BY <2>2 DEF ExecStep
  <2> QED  BY <2>1, <2>3, KeptRows, KeptFiles DEF StepOK
<1>13. ASSUME \/ \E j \in Jobs : LeaseExpires(j) \/ BackoffEnds(j) \/ FileExpires(j)
              \/ \E w \in Workers : RenewLease(w)
       PROVE  StepOK
  <2>1. \A w \in Workers : RenewLease(w) => exec[w].doing \in Jobs
    BY OwnerFacts DEF RenewLease, ExecutorsOK, RunnerOK, Running
  <2>2. \A i \in Jobs : SameRow(i)
    <3> SUFFICES ASSUME NEW i \in Jobs PROVE SameRow(i)
      OBVIOUS
    <3> QED  BY <1>13, <2>1, ClockEffect DEF SameRow
  <2>3. UNCHANGED <<exec, stored, unacknowledged>>
    BY <1>13 DEF LeaseExpires, BackoffEnds, FileExpires, RenewLease
  <2> QED  BY <2>2, <2>3, KeptExec, KeptFiles DEF StepOK, RowStep
<1>14. CASE LinkStep \/ UNCHANGED vars
  <2>1. UNCHANGED <<job, exec, stored, unacknowledged>>
    BY <1>14 DEF LinkStep, TokenExpires, IssueLink, AuthorizeDownload, OpenDownload, vars
  <2> QED  BY <2>1, KeptRows, KeptExec, KeptFiles DEF StepOK
<1> QED  BY <1>1, <1>2, <1>3, <1>4, <1>5, <1>6, <1>7, <1>8, <1>9, <1>10, <1>11, <1>12, <1>13, <1>14
         DEF Next, WorkerStep, RequestStep, ExecutorStep, Finish

-----------------------------------------------------------------------------
(* The inductive invariant *)

\* A job that has ended stays so, with its attempts and its retention; attempts only grow.
LEMMA RowFacts ==
    ASSUME TypeOK, NEW i \in Jobs, RowStep(i)
    PROVE  /\ job[i].attempts \in Nat /\ job'[i].attempts \in Nat
           /\ job'[i].attempts >= job[i].attempts
           /\ job[i].status # "NONE" => job'[i].status # "NONE"
           /\ HasEnded(i) => /\ job'[i].status \in {"COMPLETED", "EXPIRED"}
                             /\ job'[i].attempts = job[i].attempts
                             /\ job[i].withdrawn => job'[i].withdrawn
<1>1. job[i].attempts \in Nat /\ job[i].withdrawn \in BOOLEAN
  BY AttemptsAssumption DEF TypeOK, JobRows, Attempts
<1> QED  BY <1>1 DEF RowStep, SameRow, Requested, Freed, Marked, TakenBy, CompletedBy, HasEnded

\* Every executor still runs an attempt that the job has had, its latest if it has the lease.
LEMMA RunnerStep ==
    ASSUME TypeOK, ExecutorsOK, StepOK, NEW x \in Executors
    PROVE  RunnerOK(x)'
<1> USE OwnerFacts
<1>1. CASE \E i \in Jobs : TakenBy(x, i)
  <2>1. PICK i \in Jobs : TakenBy(x, i)
    BY <1>1
  <2>2. RowStep(i)
    BY DEF StepOK
  <2>3. job'[i].attempts \in Nat /\ job'[i].attempts >= 1
    BY <2>1, <2>2, RowFacts, AttemptsAssumption DEF TakenBy
  <2> QED  BY <2>1, <2>3 DEF TakenBy, RunnerOK
<1>2. CASE exec'[x] = exec[x] \/ GoesOn(x)
  <2> SUFFICES ASSUME Running(x)
               PROVE  RunnerOK(x)'
    BY <1>2 DEF RunnerOK, GoesOn, Running
  <2> DEFINE j == exec[x].doing
  <2>1. /\ j \in Jobs /\ exec[x].tries \in 1..job[j].attempts /\ job[j].status # "NONE"
        /\ Mine(x) => exec[x].tries = job[j].attempts
    BY DEF ExecutorsOK, RunnerOK
  <2>2. exec'[x].doing = j /\ exec'[x].tries = exec[x].tries
    BY <1>2 DEF GoesOn
  <2>3. RowStep(j)
    BY <2>1 DEF StepOK
  <2>4. /\ exec[x].tries \in 1..job'[j].attempts /\ job'[j].status # "NONE"
    BY <2>1, <2>3, RowFacts
  <2>5. ASSUME job'[j].status = "RUNNING", job'[j].owner = Owner(x)
        PROVE  exec[x].tries = job'[j].attempts
    <3>1. CASE SameRow(j)
      BY <2>1, <2>5, <3>1 DEF SameRow, Mine
    <3>2. CASE \E z \in Executors : TakenBy(z, j)
      <4>1. PICK z \in Executors : TakenBy(z, j)
        BY <3>2
      <4>2. x # z
        BY <4>1 DEF TakenBy, Running
      <4>3. Owner(z) = Owner(x)
        BY <2>5, <4>1 DEF TakenBy
      <4>4. x \in Jobs /\ z \in Jobs
        BY <4>2, <4>3
      <4>5. z = j /\ j = x
        BY <4>1, <4>4 DEF TakenBy, ExecutorsOK, RequestOK
      <4> QED  BY <4>2, <4>5
    <3> QED  BY <2>3, <2>5, <3>1, <3>2
             DEF RowStep, Requested, Freed, Marked, CompletedBy
  <2> QED  BY <2>1, <2>2, <2>4, <2>5 DEF RunnerOK, Mine
<1>3. CASE Asks(x) \/ Stops(x) \/ Cleans(x)
  BY <1>3 DEF Asks, Stops, Cleans, RunnerOK, Running
<1> QED  BY <1>1, <1>2, <1>3 DEF StepOK, ExecStep

\* A request runs its own job, and the job exists once the request has been made.
LEMMA RequestKept ==
    ASSUME TypeOK, ExecutorsOK, StepOK, NEW j \in Jobs
    PROVE  RequestOK(j)'
<1> USE OwnerFacts
<1>1. RequestOK(j) /\ ExecStep(j) /\ RowStep(j)
  BY DEF ExecutorsOK, StepOK
<1>2. CASE exec'[j] = exec[j]
  <2>1. exec[j].pc = "idle" => job'[j].status = "NONE"
    BY <1>1, <1>2 DEF RequestOK, RowStep, SameRow, Requested, Freed, Marked, TakenBy, CompletedBy
  <2> QED  BY <1>1, <1>2, <2>1 DEF RequestOK, Running
<1>3. CASE Asks(j) \/ GoesOn(j) \/ Stops(j) \/ Cleans(j) \/ \E i \in Jobs : TakenBy(j, i)
  BY <1>1, <1>3 DEF RequestOK, Running, Asks, GoesOn, Stops, Cleans, TakenBy
<1> QED  BY <1>1, <1>2, <1>3 DEF ExecStep

\* No step puts back the file of a job that has ended.
LEMMA GoneStaysGone ==
    ASSUME TypeOK, AttemptsApart, StepOK, NEW i \in Jobs, HasEnded(i),
           <<i, job[i].attempts>> \notin stored
    PROVE  <<i, job'[i].attempts>> \notin stored'
<1>1. job'[i].attempts = job[i].attempts
  BY RowFacts DEF StepOK
<1>2. \A x \in Executors : exec[x].pc = "export" => Key(x) # <<i, job[i].attempts>>
  BY DEF AttemptsApart, Generating, Key
<1> QED  BY <1>1, <1>2 DEF StepOK, FileStep

\* What a cleaner has listed stays over; what it is about to mark has no file.
LEMMA CleanerStep ==
    ASSUME TypeOK, ExecutorsOK, AttemptsApart, StepOK, NEW w \in Workers
    PROVE  CleanerOK(w)'
<1> USE OwnerFacts
<1>1. CleanerOK(w) /\ ExecStep(w) /\ exec[w] \in Executions
  BY DEF ExecutorsOK, StepOK, TypeOK
<1>2. \A j \in Jobs : HasEnded(j) /\ job[j].withdrawn => HasEnded(j)' /\ job'[j].withdrawn
  BY RowFacts DEF StepOK, HasEnded
<1>3. exec[w].listed \subseteq Jobs
  BY <1>1 DEF Executions
<1>4. CASE exec'[w] = exec[w]
  BY <1>1, <1>2, <1>3, <1>4, GoneStaysGone DEF CleanerOK
<1>5. CASE Asks(w) \/ Stops(w)
  BY <1>5 DEF Asks, Stops, CleanerOK
<1>6. CASE GoesOn(w) \/ \E i \in Jobs : TakenBy(w, i)
  BY <1>1, <1>2, <1>3, <1>6 DEF GoesOn, TakenBy, CleanerOK
<1>7. CASE Cleans(w)
  <2>1. \A j \in exec'[w].listed : j \in Jobs => HasEnded(j) /\ job[j].withdrawn
    BY <1>1, <1>7 DEF Cleans, CleanerOK, OutOfDate, HasEnded
  <2>2. exec'[w].pc # "start"
    BY <1>7 DEF Cleans
  <2>3. ASSUME exec'[w].pc = "mark"
        PROVE  /\ exec'[w].doing \in Jobs /\ job'[exec'[w].doing].withdrawn
               /\ job'[exec'[w].doing].status \in {"COMPLETED", "EXPIRED"}
               /\ <<exec'[w].doing, job'[exec'[w].doing].attempts>> \notin stored'
    <3> DEFINE j == exec'[w].doing
    <3>1. j \in exec[w].listed /\ <<j, job[j].attempts>> \notin stored'
      BY <1>7, <2>3 DEF Cleans
    <3>2. j \in Jobs /\ HasEnded(j) /\ job[j].withdrawn
      BY <1>1, <1>3, <3>1 DEF CleanerOK
    <3>3. RowStep(j)
      BY <3>2 DEF StepOK
    <3> HIDE DEF j
    <3>4. /\ job'[j].attempts = job[j].attempts /\ job'[j].withdrawn
          /\ job'[j].status \in {"COMPLETED", "EXPIRED"}
      BY <3>2, <3>3, RowFacts
    <3> USE DEF j
    <3> QED  BY <3>1, <3>2, <3>4
  <2>4. exec'[w].listed \subseteq Jobs
    BY <1>3, <1>7 DEF Cleans, OutOfDate
  <2> QED  BY <1>2, <2>1, <2>2, <2>3, <2>4 DEF CleanerOK, HasEnded
<1> QED  BY <1>1, <1>4, <1>5, <1>6, <1>7 DEF ExecStep

\* An executor that can produce a file could before, or has just been given a new attempt.
LEMMA GeneratingStep ==
    ASSUME TypeOK, ExecutorsOK, StepOK, NEW x \in Executors, Generating(x)'
    PROVE  \/ /\ Generating(x)
              /\ exec'[x].doing = exec[x].doing /\ exec'[x].tries = exec[x].tries
           \/ \E i \in Jobs :
                 /\ TakenBy(x, i) /\ job'[i].attempts = job[i].attempts + 1
<1> USE OwnerFacts
<1>1. ExecStep(x)
  BY DEF StepOK
<1>2. CASE \E i \in Jobs : TakenBy(x, i)
  <2>1. PICK i \in Jobs : TakenBy(x, i)
    BY <1>2
  <2>2. job[i].attempts \in Attempts
    BY DEF TypeOK, JobRows
  <2>3. x \in Workers => job'[i].attempts < MaxAttempts
    BY <2>1 DEF TakenBy, Generating
  <2>4. job'[i].attempts = job[i].attempts + 1
    BY <2>1, <2>2, <2>3, AttemptsAssumption DEF TakenBy, Attempts
  <2> QED  BY <2>1, <2>4
<1>3. CASE exec'[x] = exec[x] \/ GoesOn(x)
  BY <1>3 DEF GoesOn, Generating
<1>4. CASE Asks(x) \/ Stops(x) \/ Cleans(x)
  BY <1>4 DEF Asks, Stops, Cleans, Generating
<1> QED  BY <1>1, <1>2, <1>3, <1>4 DEF ExecStep

\* Two executors never have the same attempt of a job, as each new one has a number of its own.
LEMMA ApartStep ==
    ASSUME TypeOK, ExecutorsOK, AttemptsApart, StepOK
    PROVE  AttemptsApart'
<1> USE OwnerFacts
<1>1. \A x \in Executors : Generating(x) =>
          /\ exec[x].doing \in Jobs
          /\ exec[x].tries \in 1..job[exec[x].doing].attempts
  BY DEF Generating, ExecutorsOK, RunnerOK, Running
<1>2. \A i \in Jobs : job[i].attempts \in Nat
  BY AttemptsAssumption DEF TypeOK, JobRows, Attempts
<1>3. ASSUME NEW x \in Executors, NEW y \in Executors, x # y, Generating(x)', Generating(y)',
             exec'[x].doing = exec'[y].doing, NEW i \in Jobs, TakenBy(x, i),
             job'[i].attempts = job[i].attempts + 1
      PROVE  exec'[x].tries # exec'[y].tries
  <2>1. exec'[y] = exec[y] /\ exec'[x].doing = i /\ exec'[x].tries = job[i].attempts + 1
    BY <1>3 DEF TakenBy
  <2>2. Generating(y) /\ exec[y].doing = i
    BY <1>3, <2>1 DEF Generating
  <2> QED  BY <1>1, <1>2, <2>1, <2>2
<1>4. ASSUME NEW x \in Executors, NEW y \in Executors, x # y, Generating(x)', Generating(y)',
             exec'[x].doing = exec'[y].doing
      PROVE  exec'[x].tries # exec'[y].tries
  <2>1. CASE /\ Generating(x) /\ exec'[x].doing = exec[x].doing /\ exec'[x].tries = exec[x].tries
             /\ Generating(y) /\ exec'[y].doing = exec[y].doing /\ exec'[y].tries = exec[y].tries
    BY <1>4, <2>1 DEF AttemptsApart
  <2> QED  BY <1>3, <1>4, <2>1, GeneratingStep
<1>5. ASSUME NEW x \in Executors, Generating(x)',
             job'[exec'[x].doing].status \in {"COMPLETED", "EXPIRED"}
      PROVE  exec'[x].tries # job'[exec'[x].doing].attempts
  <2>1. Generating(x) /\ exec'[x].doing = exec[x].doing /\ exec'[x].tries = exec[x].tries
    BY <1>5, GeneratingStep DEF TakenBy, HasEnded
  <2> DEFINE j == exec[x].doing
  <2>2. j \in Jobs /\ RowStep(j) /\ job'[j].status \in {"COMPLETED", "EXPIRED"}
    BY <1>1, <1>5, <2>1 DEF StepOK
  <2>3. CASE HasEnded(j)
    BY <2>1, <2>2, <2>3, RowFacts DEF AttemptsApart
  <2>4. CASE ~HasEnded(j)
    <3>1. PICK z \in Executors : CompletedBy(z, j)
      BY <2>2, <2>4 DEF RowStep, SameRow, Requested, Freed, Marked, TakenBy, HasEnded
    <3>2. /\ Generating(z) /\ ~Generating(z)'
          /\ exec[z].doing = j /\ exec[z].tries = job[j].attempts
          /\ job'[j].attempts = job[j].attempts
      BY <3>1 DEF CompletedBy, Generating
    <3>3. x # z
      BY <1>5, <3>2
    <3> QED  BY <2>1, <3>2, <3>3 DEF AttemptsApart
  <2> QED  BY <2>3, <2>4
<1> QED  BY <1>4, <1>5 DEF AttemptsApart, HasEnded

\* The file of a completed attempt is there until it is withdrawn, or deleted because the
\* answer of its commit was lost.
LEMMA FilesStep ==
    ASSUME TypeOK, ExecutorsOK, AttemptsApart, FilesOK, StepOK
    PROVE  FilesOK'
<1> USE OwnerFacts
<1>1. \A x \in Executors : exec[x].pc = "complete" => Generating(x) /\ exec[x].doing \in Jobs
  BY DEF Generating, ExecutorsOK, RunnerOK, Running
<1>2. ASSUME NEW x \in Executors, exec'[x].pc = "complete"
      PROVE  <<exec'[x].doing, exec'[x].tries>> \in stored'
  <2>1. CASE exec'[x] = exec[x]
    <3>1. Generating(x) /\ Key(x) \in stored
      BY <1>1, <1>2, <2>1 DEF FilesOK
    <3>2. ASSUME NEW z \in Executors, exec[z].pc = "complete", exec'[z].pc # "complete"
          PROVE  Key(x) # Key(z)
      BY <1>1, <1>2, <3>1, <3>2 DEF AttemptsApart, Key
    <3>3. ASSUME NEW j \in Jobs, HasEnded(j)
          PROVE  Key(x) # <<j, job[j].attempts>>
      BY <3>1, <3>3 DEF AttemptsApart, Key
    <3>4. Key(x) \in stored'
      BY <3>1, <3>2, <3>3 DEF StepOK, FileStep
    <3> QED  BY <2>1, <3>4 DEF Key
  <2>2. CASE GoesOn(x)
    BY <1>2, <2>2 DEF GoesOn, Key
  <2> QED  BY <1>2, <2>1, <2>2 DEF StepOK, ExecStep, Asks, Stops, Cleans, TakenBy
<1>3. ASSUME NEW j \in Jobs, job'[j].status = "COMPLETED", ~job'[j].withdrawn,
             j \notin unacknowledged'
      PROVE  <<j, job'[j].attempts>> \in stored'
  <2>1. RowStep(j)
    BY DEF StepOK
  <2>2. CASE job[j].status = "COMPLETED"
    <3>1. job'[j].attempts = job[j].attempts /\ ~job[j].withdrawn
      BY <1>3, <2>1, <2>2, RowFacts DEF HasEnded, TypeOK, JobRows
    <3>2. <<j, job[j].attempts>> \in stored
      BY <1>3, <2>2, <3>1 DEF FilesOK, StepOK, FileStep
    <3>3. \A z \in Executors : exec[z].pc = "complete" => Key(z) # <<j, job[j].attempts>>
      BY <1>1, <2>2 DEF AttemptsApart, Key, HasEnded
    <3>4. \A i \in Jobs : job[i].withdrawn => <<i, job[i].attempts>> # <<j, job[j].attempts>>
      BY <3>1
    <3> QED  BY <3>1, <3>2, <3>3, <3>4 DEF StepOK, FileStep
  <2>3. CASE job[j].status # "COMPLETED"
    <3>1. PICK z \in Executors : CompletedBy(z, j)
      BY <1>3, <2>1, <2>3 DEF RowStep, SameRow, Requested, Freed, Marked, TakenBy
    <3>2. Key(z) \in stored /\ Key(z) = <<j, job[j].attempts>>
      BY <3>1 DEF FilesOK, CompletedBy, Key
    <3> QED  BY <1>3, <3>1, <3>2 DEF CompletedBy
  <2> QED  BY <2>2, <2>3
<1>4. ASSUME NEW j \in Jobs, job'[j].status = "EXPIRED"
      PROVE  job'[j].withdrawn
  <2>1. RowStep(j)
    BY DEF StepOK
  <2>2. CASE job[j].status = "EXPIRED"
    BY <2>1, <2>2, RowFacts DEF FilesOK, HasEnded
  <2>3. CASE job[j].status # "EXPIRED"
    BY <1>4, <2>1, <2>3 DEF RowStep, SameRow, Requested, Freed, Marked, TakenBy, CompletedBy
  <2> QED  BY <2>2, <2>3
<1> QED  BY <1>2, <1>3, <1>4 DEF FilesOK, Key

\* The latest attempt is the one whose file a completed job has.
LEMMA LatestStep ==
    ASSUME TypeOK, LatestAttemptStands, StepOK
    PROVE  LatestAttemptStands'
<1> SUFFICES ASSUME NEW j \in Jobs, job'[j].status = "COMPLETED"
             PROVE  job'[j].file = job'[j].attempts
  BY DEF LatestAttemptStands
<1>1. RowStep(j)
  BY DEF StepOK
<1> QED  BY <1>1 DEF RowStep, SameRow, Requested, Freed, Marked, TakenBy, CompletedBy,
                    LatestAttemptStands

\* A job is marked after its file is deleted, and no attempt puts it back.
LEMMA ExpiredStep ==
    ASSUME TypeOK, AttemptsApart, ExpiredHasNoFile, StepOK
    PROVE  ExpiredHasNoFile'
<1> SUFFICES ASSUME NEW j \in Jobs, job'[j].status = "EXPIRED"
             PROVE  <<j, job'[j].attempts>> \notin stored'
  BY DEF ExpiredHasNoFile
<1>1. RowStep(j)
  BY DEF StepOK
<1>2. HasEnded(j) /\ <<j, job[j].attempts>> \notin stored
  BY <1>1 DEF RowStep, SameRow, Requested, Freed, Marked, TakenBy, CompletedBy,
              ExpiredHasNoFile, HasEnded
<1> QED  BY <1>2, GoneStaysGone

\* What any step may do to a token and to a download.
TokenStep(t) ==
    \/ token'[t] = token[t]
    \/ /\ job' = job /\ token'[t].job \in Jobs /\ HasEnded(token'[t].job)
       /\ token[t].state = "none"
       /\ token'[t].state = "live" => ~job[token'[t].job].withdrawn
    \/ /\ token[t].state # "none" /\ token'[t].job = token[t].job
       /\ token'[t].state \in {"expired", "consumed", "deleted"}
       /\ token[t].state \in {"consumed", "deleted"} => token'[t].state \in {"consumed", "deleted"}

DownloadStep(d) ==
    \/ download'[d] = download[d]
    \/ /\ download[d].pc = "idle" /\ download'[d].pc = "opened"
       /\ download'[d].token \in Tokens /\ token[download'[d].token].state # "none"
    \/ /\ download[d].pc = "opened" /\ download'[d].token = download[d].token
       /\ download'[d].pc = "served" => token'[download[d].token].state = "consumed"

\* Every step of the system does no more than that to the links.
LEMMA LinkEffects ==
    ASSUME TypeOK, LinksOK, [Next]_vars
    PROVE  (\A t \in Tokens : TokenStep(t)) /\ (\A d \in Downloads : DownloadStep(d))
<1>1. ASSUME NEW t \in Tokens, NEW j \in Jobs, IssueLink(t, j)
      PROVE  (\A u \in Tokens : TokenStep(u)) /\ (\A d \in Downloads : DownloadStep(d))
  <2>1. /\ token[t].state = "none" /\ HasEnded(j) /\ job' = job /\ download' = download
        /\ token' = [token EXCEPT ![t] =
                        [state |-> IF job[j].withdrawn THEN "expired" ELSE "live", job |-> j]]
    BY <1>1 DEF IssueLink, HasEnded
  <2>2. /\ token'[t].job = j /\ token'[t].state = "live" => ~job[j].withdrawn
        /\ \A u \in Tokens \ {t} : token'[u] = token[u]
    BY <2>1 DEF TypeOK
  <2> QED  BY <2>1, <2>2 DEF TokenStep, DownloadStep
<1>2. ASSUME NEW d \in Downloads, NEW t \in Tokens, OpenDownload(d, t)
      PROVE  (\A u \in Tokens : TokenStep(u)) /\ (\A e \in Downloads : DownloadStep(e))
  <2>1. /\ download[d].pc = "idle" /\ token[t].state # "none" /\ token' = token
        /\ download'[d].pc = "opened" /\ download'[d].token = t
        /\ \A e \in Downloads \ {d} : download'[e] = download[e]
    BY <1>2 DEF OpenDownload, TypeOK
  <2> QED  BY <2>1 DEF TokenStep, DownloadStep
<1>3. ASSUME NEW d \in Downloads, AuthorizeDownload(d)
      PROVE  (\A u \in Tokens : TokenStep(u)) /\ (\A e \in Downloads : DownloadStep(e))
  <2> DEFINE t == download[d].token
  <2>1. download[d].pc = "opened" /\ t \in Tokens /\ token[t].state # "none"
    BY <1>3 DEF AuthorizeDownload, LinksOK
  <2>2. \/ /\ download' = [download EXCEPT ![d].pc = "served"]
           /\ token' = [token EXCEPT ![t].state = "consumed"]
        \/ /\ download' = [download EXCEPT ![d].pc = "refused"]
           /\ token' = token
    BY <1>3 DEF AuthorizeDownload
  <2>3. download[d] \in [pc : {"idle", "opened", "served", "refused"},
                         token : Tokens \cup {None}, fresh : BOOLEAN]
        /\ token[t] \in [state : {"none", "live", "expired", "consumed", "deleted"},
                         job : Jobs \cup {None}]
    BY <2>1 DEF TypeOK
  <2> HIDE DEF t
  <2>4. /\ download'[d].token = download[d].token
        /\ \A e \in Downloads \ {d} : download'[e] = download[e]
        /\ \A u \in Tokens \ {t} : token'[u] = token[u]
        /\ token' = token \/ (token'[t].state = "consumed" /\ token'[t].job = token[t].job)
        /\ download'[d].pc = "served" => token'[t].state = "consumed"
    BY <2>1, <2>2, <2>3 DEF TypeOK
  <2>5. t = download[d].token
    BY DEF t
  <2>6. \A u \in Tokens : TokenStep(u)
    BY <2>1, <2>4 DEF TokenStep
  <2>7. \A e \in Downloads : DownloadStep(e)
    BY <2>1, <2>4, <2>5 DEF DownloadStep
  <2> QED  BY <2>6, <2>7
<1>4. ASSUME \/ \E w \in Workers : FinishCleanup(w)
             \/ \E j \in Jobs : FileExpires(j)
             \/ \E t \in Tokens : TokenExpires(t)
      PROVE  (\A u \in Tokens : TokenStep(u)) /\ (\A e \in Downloads : DownloadStep(e))
  <2>1. \A u \in Tokens :
           \/ token'[u] = token[u]
           \/ /\ token[u].state \in {"expired", "consumed"}
              /\ token'[u] = [token[u] EXCEPT !.state = "deleted"]
           \/ /\ token[u].state = "live"
              /\ token'[u] = [token[u] EXCEPT !.state = "expired"]
    BY <1>4 DEF FinishCleanup, FileExpires, TokenExpires, TypeOK
  <2>2. \A u \in Tokens : token[u] \in [state : {"none", "live", "expired", "consumed", "deleted"},
                                       job : Jobs \cup {None}]
    BY DEF TypeOK
  <2>3. ASSUME NEW u \in Tokens PROVE TokenStep(u)
    <3>1. CASE token'[u] = token[u]
      BY <3>1 DEF TokenStep
    <3>2. CASE /\ token[u].state \in {"expired", "consumed"}
               /\ token'[u] = [token[u] EXCEPT !.state = "deleted"]
      <4>1. token'[u].state = "deleted" /\ token'[u].job = token[u].job
        BY <2>2, <3>2
      <4> QED  BY <3>2, <4>1 DEF TokenStep
    <3>3. CASE /\ token[u].state = "live"
               /\ token'[u] = [token[u] EXCEPT !.state = "expired"]
      <4>1. token'[u].state = "expired" /\ token'[u].job = token[u].job
        BY <2>2, <3>3
      <4> QED  BY <3>3, <4>1 DEF TokenStep
    <3> QED  BY <2>1, <3>1, <3>2, <3>3
  <2>4. download' = download
    BY <1>4 DEF FinishCleanup, FileExpires, TokenExpires
  <2> QED  BY <2>3, <2>4 DEF DownloadStep
<1>5. ASSUME UNCHANGED <<token, download>>
      PROVE  (\A u \in Tokens : TokenStep(u)) /\ (\A e \in Downloads : DownloadStep(e))
  BY <1>5 DEF TokenStep, DownloadStep
<1>6. ASSUME NEW w \in Workers, WorkerStep(w)
      PROVE  FinishCleanup(w) \/ UNCHANGED <<token, download>>
  BY <1>6 DEF WorkerStep, ClaimNext, RenewLease, Restart, ListExpired, DeleteFile, MarkExpired
<1>7. ASSUME NEW x \in Executors, ExecutorStep(x) \/ Crash(x)
      PROVE  UNCHANGED <<token, download>>
  BY <1>7 DEF ExecutorStep, Begin, Generate, ExportFile, ExportFails, Finish, Complete,
              CompleteFails, CompleteUnheard, SettleFailure, Crash
<1>8. ASSUME NEW j \in Jobs, RequestStep(j) \/ LeaseExpires(j) \/ BackoffEnds(j)
      PROVE  UNCHANGED <<token, download>>
  BY <1>8 DEF RequestStep, RequestExport, StartInRequest, LeaseExpires, BackoffEnds
<1>9. CASE UNCHANGED vars
  BY <1>5, <1>9 DEF vars
<1> QED  BY <1>1, <1>2, <1>3, <1>4, <1>5, <1>6, <1>7, <1>8, <1>9 DEF Next, LinkStep

\* Links lead to jobs that have ended, and a link that is not over to one not withdrawn.
LEMMA LinksStep ==
    ASSUME TypeOK, LinksOK, StepOK,
           \A t \in Tokens : TokenStep(t), \A d \in Downloads : DownloadStep(d)
    PROVE  LinksOK'
<1>1. ASSUME NEW t \in Tokens, token'[t].state # "none"
      PROVE  /\ token'[t].job \in Jobs /\ job'[token'[t].job].status \in {"COMPLETED", "EXPIRED"}
             /\ token'[t].state = "live" => ~job'[token'[t].job].withdrawn
  <2> DEFINE j == token'[t].job
  <2>1. CASE token[t].state = "none"
    <3>1. job' = job /\ j \in Jobs /\ HasEnded(j) /\ (token'[t].state = "live" => ~job[j].withdrawn)
      BY <1>1, <2>1 DEF TokenStep
    <3> QED  BY <3>1 DEF HasEnded
  <2>2. CASE token[t].state # "none"
    <3>1. /\ j = token[t].job /\ j \in Jobs /\ HasEnded(j)
          /\ token'[t].state = "live" => token[t].state = "live" /\ ~job[j].withdrawn
      BY <1>1, <2>2 DEF TokenStep, LinksOK
    <3> HIDE DEF j
    <3>2. RowStep(j) /\ job[j] \in JobRows
      BY <3>1 DEF StepOK, TypeOK
    <3>3. job'[j].status \in {"COMPLETED", "EXPIRED"}
      BY <3>1, <3>2, RowFacts
    <3>4. ASSUME token'[t].state = "live", j = token'[t].job
          PROVE  ~job'[j].withdrawn
      BY <3>1, <3>2, <3>4 DEF RowStep, SameRow, Requested, Freed, Marked, TakenBy, CompletedBy,
                              HasEnded, JobRows
    <3>5. j = token'[t].job
      BY DEF j
    <3> QED  BY <3>1, <3>3, <3>4, <3>5
  <2> QED  BY <2>1, <2>2
<1>2. ASSUME NEW d \in Downloads, download'[d].pc # "idle"
      PROVE  /\ download'[d].token \in Tokens /\ token'[download'[d].token].state # "none"
             /\ download'[d].pc = "served" =>
                   token'[download'[d].token].state \in {"consumed", "deleted"}
  <2>1. \A t \in Tokens : /\ token[t].state # "none" => token'[t].state # "none"
                          /\ token[t].state \in {"consumed", "deleted"} =>
                                token'[t].state \in {"consumed", "deleted"}
    BY DEF TokenStep
  <2> QED  BY <1>2, <2>1 DEF DownloadStep, LinksOK
<1> QED  BY <1>1, <1>2 DEF LinksOK, HasEnded

\* The initial state satisfies the invariant.
LEMMA InitInv == Init => ExportInv
<1> SUFFICES ASSUME Init PROVE ExportInv
  OBVIOUS
<1>1. /\ \A j \in Jobs : job[j].status = "NONE"
      /\ \A x \in Executors : exec[x].pc = "idle" /\ exec[x].listed = {}
      /\ \A t \in Tokens : token[t].state = "none"
      /\ \A d \in Downloads : download[d].pc = "idle"
  BY DEF Init, NoJob, Free
<1>2. TypeOK
  BY InitTypeOK
<1> QED  BY <1>1, <1>2, OwnerFacts
         DEF ExportInv, ExecutorsOK, RequestOK, RunnerOK, CleanerOK, Running, Generating,
             AttemptsApart, FilesOK, LinksOK, LatestAttemptStands, ExpiredHasNoFile

\* Every step preserves the invariant.
LEMMA InvStep == ExportInv /\ [Next]_vars => ExportInv'
<1> SUFFICES ASSUME ExportInv, [Next]_vars PROVE ExportInv'
  OBVIOUS
<1>1. TypeOK'
  BY TypeStep DEF ExportInv
<1>2. StepOK
  BY StepEffects DEF ExportInv
<1>3. ExecutorsOK'
  BY <1>2, RequestKept, RunnerStep, CleanerStep DEF ExportInv, ExecutorsOK
<1>4. AttemptsApart' /\ FilesOK'
  BY <1>2, ApartStep, FilesStep DEF ExportInv
<1>5. LinksOK'
  BY <1>2, LinkEffects, LinksStep DEF ExportInv
<1>6. LatestAttemptStands' /\ ExpiredHasNoFile'
  BY <1>2, LatestStep, ExpiredStep DEF ExportInv
<1> QED  BY <1>1, <1>3, <1>4, <1>5, <1>6 DEF ExportInv

-----------------------------------------------------------------------------
(* The theorems *)

\* ExportInv is an inductive invariant of the export jobs: executors hold distinct attempts,
\* the files of jobs and links are where the rows say.
THEOREM ExportInvariant == Spec => []ExportInv
<1> QED  BY InitInv, InvStep, PTL DEF Spec

\* The state of jobs, workers, files and links is always well formed.
THEOREM ExportTypeCorrect == Spec => []TypeOK
<1>1. ExportInv => TypeOK
  BY DEF ExportInv
<1> QED  BY <1>1, ExportInvariant, PTL

\* A completed job always has the file of its latest attempt, whatever processes die, stall or
\* answer late: complete compares the lease owner.
THEOREM AttemptStands == Spec => []LatestAttemptStands
<1>1. ExportInv => LatestAttemptStands
  BY DEF ExportInv
<1> QED  BY <1>1, ExportInvariant, PTL

\* A job marked EXPIRED has no file on the volume, whichever cleaner died after deleting it.
THEOREM ExpiredFilesGone == Spec => []ExpiredHasNoFile
<1>1. ExportInv => ExpiredHasNoFile
  BY DEF ExportInv
<1> QED  BY <1>1, ExportInvariant, PTL

\* A link that has not ended leads to a file that is there, unless the answer of the job's
\* completion was lost.
THEOREM LinksLeadToFiles == Spec => []LinkLeadsToFile
<1>1. ExportInv => LinkLeadsToFile
  <2> SUFFICES ASSUME ExportInv, NEW t \in Tokens, token[t].state = "live",
                      token[t].job \notin unacknowledged
               PROVE  /\ job[token[t].job].status = "COMPLETED"
                      /\ <<token[t].job, job[token[t].job].file>> \in stored
    BY DEF LinkLeadsToFile
  <2>1. token[t].job \in Jobs /\ HasEnded(token[t].job) /\ ~job[token[t].job].withdrawn
    BY DEF ExportInv, LinksOK
  <2>2. job[token[t].job].status = "COMPLETED"
    BY <2>1 DEF ExportInv, FilesOK, HasEnded
  <2> QED  BY <2>1, <2>2 DEF ExportInv, FilesOK, LatestAttemptStands
<1> QED  BY <1>1, ExportInvariant, PTL

\* Only the executor of the current attempt settles a running job, or the queue takes it back
\* when the lease is over.
THEOREM OnlyTheHolderSettles == Spec => HolderSettles
<1> DEFINE Settles ==
        \A j \in Jobs :
          job[j].status = "RUNNING" /\ job'[j].status # "RUNNING" =>
              \/ job[j].lease = "expired" /\ job'[j].status = "QUEUED"
              \/ \E x \in Executors :
                    /\ exec[x].doing = j /\ exec[x].tries = job[j].attempts
                    /\ exec'[x] # exec[x]
<1>1. ExportInv /\ [Next]_vars => [Settles]_vars
  <2> SUFFICES ASSUME ExportInv, [Next]_vars,
                      NEW j \in Jobs, job[j].status = "RUNNING", job'[j].status # "RUNNING"
               PROVE  \/ job[j].lease = "expired" /\ job'[j].status = "QUEUED"
                      \/ \E x \in Executors :
                            /\ exec[x].doing = j /\ exec[x].tries = job[j].attempts
                            /\ exec'[x] # exec[x]
    OBVIOUS
  <2>1. RowStep(j)
    BY StepEffects DEF ExportInv, StepOK
  <2>2. CASE Freed(j)
    BY <2>2 DEF Freed
  <2>3. CASE \E x \in Executors : CompletedBy(x, j)
    BY <2>3 DEF CompletedBy
  <2> QED  BY <2>1, <2>2, <2>3 DEF RowStep, SameRow, Requested, Marked, TakenBy
<1> QED  BY <1>1, ExportInvariant, PTL DEF Spec, HolderSettles

-----------------------------------------------------------------------------
(* The jobs implement ExportLifecycle *)

Served == {t \in Tokens : \E d \in Downloads : download[d].token = t /\ download[d].pc = "served"}
StageOf == [j \in Jobs |-> Stage(j)]

\* One job advances, or none does, with the audit events that go with it.
Advances(j, from, to, event) ==
    /\ Stage(j) = from
    /\ StageOf' = [StageOf EXCEPT ![j] = to]
    /\ trail' = [trail EXCEPT ![j] = @ \o event]
    /\ Served' = Served

\* Appending an event is appending the sequence of it.
LEMMA AppendOne ==
    ASSUME NEW S, NEW s \in Seq(S), NEW e \in S
    PROVE  Append(s, e) = s \o <<e>> /\ s \o <<>> = s
OBVIOUS

\* A row that goes from one stage to another advances its job.
LEMMA AdvanceRow ==
    ASSUME NEW j \in Jobs, NEW from, NEW to, NEW event, Stage(j) = from, Stage(j)' = to,
           \A i \in Jobs \ {j} : job'[i] = job[i],
           trail' = [trail EXCEPT ![j] = @ \o event], download' = download
    PROVE  Advances(j, from, to, event)
<1>1. \A i \in Jobs \ {j} : Stage(i)' = Stage(i)
  BY DEF Stage
<1>2. StageOf' = [i \in Jobs |-> IF i = j THEN to ELSE Stage(i)]
  BY <1>1 DEF StageOf
<1>3. [StageOf EXCEPT ![j] = to] = [i \in Jobs |-> IF i = j THEN to ELSE Stage(i)]
  BY DEF StageOf
<1> QED  BY <1>2, <1>3 DEF Advances, Served

\* The stages of a job.
LEMMA StageFacts ==
    ASSUME NEW j
    PROVE  /\ job[j].status = "NONE" => Stage(j) = "none"
           /\ job[j].status \in {"QUEUED", "RUNNING"} => Stage(j) = "open"
           /\ job[j].status = "COMPLETED" => Stage(j) = "completed"
           /\ job[j].status = "FAILED" => Stage(j) = "failed"
           /\ job[j].status = "EXPIRED" => Stage(j) = "expired"
BY DEF Stage

\* The stages after a step.
LEMMA StageFactsNext ==
    ASSUME NEW j
    PROVE  /\ job'[j].status = "NONE" => Stage(j)' = "none"
           /\ job'[j].status \in {"QUEUED", "RUNNING"} => Stage(j)' = "open"
           /\ job'[j].status = "COMPLETED" => Stage(j)' = "completed"
           /\ job'[j].status = "FAILED" => Stage(j)' = "failed"
           /\ job'[j].status = "EXPIRED" => Stage(j)' = "expired"
BY DEF Stage

\* Logging an event adds it to the trail of the job.
LEMMA LogAdds ==
    ASSUME TypeOK, NEW j \in Jobs, NEW event \in Events, Log(j, event)
    PROVE  trail' = [trail EXCEPT ![j] = @ \o <<event>>]
<1>1. trail[j] \in Seq(Events)
  BY DEF TypeOK
<1>2. Append(trail[j], event) = trail[j] \o <<event>>
  BY <1>1, AppendOne
<1> QED  BY <1>2 DEF Log

\* A token is served once: only a token that has served none is accepted.
ServesOne(j, t) ==
    /\ Stage(j) \in {"completed", "expired"}
    /\ t \notin Served /\ Served' = Served \cup {t}
    /\ trail' = [trail EXCEPT ![j] = Append(@, "download_authorized")]
    /\ StageOf' = StageOf

LifecycleStep ==
    \/ \E j \in Jobs : \/ Advances(j, "none", "open", <<"requested">>)
                       \/ Advances(j, "open", "completed", <<"completed">>)
                       \/ Advances(j, "open", "failed", <<"failed">>)
                       \/ Advances(j, "completed", "expired", <<>>)
    \/ \E j \in Jobs, t \in Tokens : ServesOne(j, t)
    \/ UNCHANGED <<StageOf, trail, Served>>

\* Steps within a stage.
LEMMA StaysOpen ==
    ASSUME \A i \in Jobs : \/ job'[i].status = job[i].status
                           \/ job[i].status \in {"QUEUED", "RUNNING"}
                              /\ job'[i].status \in {"QUEUED", "RUNNING"},
           UNCHANGED <<trail, download>>
    PROVE  LifecycleStep
<1>1. \A i \in Jobs : Stage(i)' = Stage(i)
  BY DEF Stage
<1> QED  BY <1>1 DEF LifecycleStep, StageOf, Served

\* An authorized download is the only one of its token.
LEMMA AuthorizeImplements ==
    ASSUME TypeOK, LinksOK, NEW d \in Downloads, AuthorizeDownload(d)
    PROVE  LifecycleStep
<1> DEFINE t == download[d].token
           j == token[t].job
<1>1. /\ download[d].pc = "opened" /\ t \in Tokens /\ token[t].state # "none"
      /\ j \in Jobs /\ HasEnded(j) /\ job' = job
  BY DEF AuthorizeDownload, LinksOK
<1>2. StageOf' = StageOf
  BY <1>1 DEF StageOf, Stage
<1>3. Stage(j) \in {"completed", "expired"}
  BY <1>1, StageFacts DEF HasEnded
<1>4. CASE download[d].fresh /\ token[t].state \in {"live", "expired"}
  <2>1. /\ download' = [download EXCEPT ![d].pc = "served"]
        /\ trail' = [trail EXCEPT ![j] = Append(@, "download_authorized")]
    BY <1>4 DEF AuthorizeDownload, Log
  <2>2. t \notin Served
    BY <1>4 DEF Served, LinksOK
  <2>3. Served' = Served \cup {t}
    <3>1. /\ download'[d].token = t /\ download'[d].pc = "served"
          /\ \A e \in Downloads \ {d} : download'[e] = download[e]
      BY <2>1 DEF TypeOK
    <3> QED  BY <1>1, <3>1 DEF Served
  <2> QED  BY <1>1, <1>2, <1>3, <2>1, <2>2, <2>3 DEF LifecycleStep, ServesOne
<1>5. CASE ~ (download[d].fresh /\ token[t].state \in {"live", "expired"})
  <2>1. download' = [download EXCEPT ![d].pc = "refused"] /\ trail' = trail
    BY <1>5 DEF AuthorizeDownload
  <2>2. /\ download'[d].pc = "refused"
        /\ \A e \in Downloads \ {d} : download'[e] = download[e]
    BY <2>1 DEF TypeOK
  <2>3. Served' = Served
    BY <1>1, <2>2 DEF Served
  <2> QED  BY <1>2, <2>1, <2>3 DEF LifecycleStep
<1> QED  BY <1>4, <1>5

\* Every step advances one job, serves one token, or changes nothing that is promised.
LEMMA LifecycleSteps == ExportInv /\ [Next]_vars => LifecycleStep
<1> SUFFICES ASSUME ExportInv, [Next]_vars PROVE LifecycleStep
  OBVIOUS
<1>a. TypeOK /\ ExecutorsOK /\ LinksOK
  BY DEF ExportInv
<1>b. \A j \in Jobs : trail[j] \in Seq(Events) /\ trail[j] \o <<>> = trail[j]
  BY <1>a, AppendOne DEF TypeOK
<1>1. ASSUME NEW j \in Jobs, NEW mode \in {"SYNCHRONOUS", "QUEUED"}, RequestExport(j, mode)
      PROVE  LifecycleStep
  <2>1. /\ job[j].status = "NONE" /\ job'[j].status = "QUEUED"
        /\ \A i \in Jobs \ {j} : job'[i] = job[i]
    BY <1>1, <1>a, RequestEffect DEF ExecutorsOK, RequestOK
  <2>2. trail' = [trail EXCEPT ![j] = @ \o <<"requested">>] /\ download' = download
    BY <1>1, <1>a, LogAdds DEF RequestExport, Events
  <2> QED  BY <2>1, <2>2, StageFacts, StageFactsNext, AdvanceRow DEF LifecycleStep
<1>2. ASSUME NEW j \in Jobs, StartInRequest(j)
      PROVE  LifecycleStep
  <2>1. \A i \in Jobs : \/ job'[i].status = job[i].status
                        \/ job[i].status = "QUEUED" /\ job'[i].status = "RUNNING"
    BY <1>2, <1>a, StartEffect
  <2>2. UNCHANGED <<trail, download>>
    BY <1>2 DEF StartInRequest
  <2> QED  BY <2>1, <2>2, StaysOpen
<1>3. ASSUME NEW w \in Workers, ClaimNext(w)
      PROVE  LifecycleStep
  <2>1. \A i \in Jobs : \/ job'[i].status = job[i].status
                        \/ job[i].status \in {"QUEUED", "RUNNING"}
                           /\ job'[i].status \in {"QUEUED", "RUNNING"}
    BY <1>3, <1>a, ClaimEffect DEF LeaseOver
  <2>2. UNCHANGED <<trail, download>>
    BY <1>3 DEF ClaimNext
  <2> QED  BY <2>1, <2>2, StaysOpen
<1>4. ASSUME NEW x \in Executors, Complete(x) \/ CompleteUnheard(x)
      PROVE  LifecycleStep
  <2> DEFINE j == exec[x].doing
  <2>1. Completed(x) /\ j \in Jobs /\ download' = download
    BY <1>4, <1>a DEF Complete, CompleteUnheard, ExecutorsOK, RunnerOK, Running
  <2>2. /\ job[j].status = "RUNNING" /\ job'[j].status = "COMPLETED"
        /\ \A i \in Jobs \ {j} : job'[i] = job[i]
    BY <1>a, <2>1, CompletedEffect DEF Mine
  <2>3. Log(j, "completed")
    BY <2>1 DEF Completed
  <2> HIDE DEF j
  <2>4. trail' = [trail EXCEPT ![j] = @ \o <<"completed">>]
    BY <1>a, <2>1, <2>3, LogAdds DEF Events
  <2> QED  BY <2>1, <2>2, <2>4, StageFacts, StageFactsNext, AdvanceRow DEF LifecycleStep
<1>5. ASSUME NEW x \in Executors, SettleFailure(x)
      PROVE  LifecycleStep
  <2> DEFINE j == exec[x].doing
  <2>1. j \in Jobs /\ download' = download /\ job[j] \in JobRows
    BY <1>5, <1>a DEF SettleFailure, ExecutorsOK, RunnerOK, Running, TypeOK
  <2>2. CASE Fail(x)
    <3>1. /\ job[j].status = "RUNNING" /\ Log(j, "failed")
          /\ job' = [job EXCEPT ![j] = Released(@, "FAILED")]
      BY <2>2 DEF Fail, Mine
    <3> HIDE DEF j
    <3>2. job'[j].status = "FAILED" /\ \A i \in Jobs \ {j} : job'[i] = job[i]
      BY <1>a, <2>1, <3>1, ReleasedEffect DEF TypeOK
    <3>3. trail' = [trail EXCEPT ![j] = @ \o <<"failed">>]
      BY <1>a, <2>1, <3>1, LogAdds DEF Events
    <3> QED  BY <2>1, <3>1, <3>2, <3>3, StageFacts, StageFactsNext, AdvanceRow DEF LifecycleStep
  <2>3. CASE Retry(x)
    <3>1. /\ job[j].status = "RUNNING" /\ trail' = trail
          /\ job' = [job EXCEPT ![j] = [Released(@, "QUEUED") EXCEPT !.available = FALSE]]
      BY <2>3 DEF Retry, Mine
    <3> DEFINE r == Released(job[j], "QUEUED")
    <3>2. r \in JobRows /\ r.status = "QUEUED"
      BY <2>1, ReleasedType, ReleasedEffect DEF Statuses
    <3>3. job' = [job EXCEPT ![j] = [r EXCEPT !.available = FALSE]]
      BY <3>1
    <3> HIDE DEF j, r
    <3>4. job'[j].status = "QUEUED" /\ \A i \in Jobs \ {j} : job'[i] = job[i]
      BY <1>a, <2>1, <3>2, <3>3 DEF TypeOK, JobRows
    <3> QED  BY <2>1, <3>1, <3>4, StaysOpen
  <2>4. CASE Conflict(x)
    BY <2>1, <2>4, StaysOpen DEF Conflict
  <2> QED  BY <1>5, <2>2, <2>3, <2>4 DEF SettleFailure
<1>6. ASSUME NEW w \in Workers, MarkExpired(w)
      PROVE  LifecycleStep
  <2> DEFINE j == exec[w].doing
  <2>1. j \in Jobs /\ UNCHANGED <<trail, download>>
    BY <1>6, <1>a DEF MarkExpired, ExecutorsOK, CleanerOK
  <2>2. /\ \A i \in Jobs \ {j} : job'[i] = job[i]
        /\ \/ job' = job
           \/ job[j].status = "COMPLETED" /\ job'[j].status = "EXPIRED"
    BY <1>6, <1>a, <2>1, MarkEffect
  <2> HIDE DEF j
  <2>3. CASE job' = job
    BY <2>1, <2>3, StaysOpen
  <2>4. CASE job' # job
    <3>1. trail' = [trail EXCEPT ![j] = @ \o <<>>]
      BY <1>a, <1>b, <2>1 DEF TypeOK
    <3> QED  BY <2>1, <2>2, <2>4, <3>1, StageFacts, StageFactsNext, AdvanceRow DEF LifecycleStep
  <2> QED  BY <2>3, <2>4
<1>7. ASSUME NEW d \in Downloads, NEW t \in Tokens, OpenDownload(d, t)
      PROVE  LifecycleStep
  <2>1. /\ UNCHANGED <<job, trail>> /\ download[d].pc # "served" /\ download'[d].pc # "served"
        /\ \A e \in Downloads \ {d} : download'[e] = download[e]
    BY <1>7, <1>a DEF OpenDownload, TypeOK
  <2>2. Served' = Served
    BY <2>1 DEF Served
  <2> QED  BY <2>1, <2>2 DEF LifecycleStep, StageOf, Stage
<1>8. ASSUME NEW d \in Downloads, AuthorizeDownload(d)
      PROVE  LifecycleStep
  BY <1>8, <1>a, AuthorizeImplements
<1>9. ASSUME NEW j \in Jobs, LeaseExpires(j) \/ BackoffEnds(j) \/ FileExpires(j)
      PROVE  LifecycleStep
  <2>1. UNCHANGED <<trail, download>> /\ \A i \in Jobs : job'[i].status = job[i].status
    BY <1>9, <1>a, ClockEffect DEF LeaseExpires, BackoffEnds, FileExpires
  <2> QED  BY <2>1, StaysOpen
<1>10. ASSUME NEW w \in Workers, RenewLease(w)
       PROVE  LifecycleStep
  <2>1. exec[w].doing \in Jobs
    BY <1>10, <1>a, OwnerFacts DEF RenewLease, ExecutorsOK, RunnerOK, Running
  <2>2. UNCHANGED <<trail, download>> /\ \A i \in Jobs : job'[i].status = job[i].status
    BY <1>10, <1>a, <2>1, ClockEffect DEF RenewLease
  <2> QED  BY <2>2, StaysOpen
<1>11. ASSUME UNCHANGED <<job, trail, download>>
       PROVE  LifecycleStep
  BY <1>11, StaysOpen
<1>12. ASSUME NEW x \in Executors,
              \/ Begin(x) \/ Generate(x) \/ CompleteFails(x) \/ Crash(x)
       PROVE  LifecycleStep
  BY <1>11, <1>12 DEF Begin, Generate, ExportFile, ExportFails, CompleteFails, Crash
<1>13. ASSUME NEW w \in Workers,
              \/ Restart(w) \/ ListExpired(w) \/ FinishCleanup(w)
              \/ \E j \in Jobs : DeleteFile(w, j)
       PROVE  LifecycleStep
  BY <1>11, <1>13 DEF Restart, ListExpired, FinishCleanup, DeleteFile
<1>14. ASSUME NEW t \in Tokens, TokenExpires(t) \/ \E j \in Jobs : IssueLink(t, j)
       PROVE  LifecycleStep
  BY <1>11, <1>14 DEF TokenExpires, IssueLink
<1>15. CASE UNCHANGED vars
  BY <1>11, <1>15 DEF vars
<1> QED  BY <1>1, <1>2, <1>3, <1>4, <1>5, <1>6, <1>7, <1>8, <1>9, <1>10, <1>12, <1>13, <1>14, <1>15
         DEF Next, WorkerStep, RequestStep, ExecutorStep, Finish, LinkStep

\* The export jobs implement ExportLifecycle: a job ends once, its file is handed out after it
\* is complete and once for each link, with one audit event for each.
THEOREM LifecycleImplemented == Spec => ImplementsLifecycle
<1>1. Init => Lifecycle!Init
  <2> SUFFICES ASSUME Init PROVE Lifecycle!Init
    OBVIOUS
  <2>1. \A j \in Jobs : Stage(j) = "none"
    BY StageFacts DEF Init, NoJob
  <2>2. \A d \in Downloads : download[d].pc = "idle"
    BY DEF Init
  <2> QED  BY <2>1, <2>2 DEF Init, Lifecycle!Init
<1>2. ExportInv /\ [Next]_vars => [Lifecycle!Next]_(Lifecycle!vars)
  <2> SUFFICES ASSUME ExportInv, [Next]_vars PROVE [Lifecycle!Next]_(Lifecycle!vars)
    OBVIOUS
  <2>1. LifecycleStep
    BY LifecycleSteps
  <2>2. CASE UNCHANGED <<StageOf, trail, Served>>
    BY <2>2 DEF Lifecycle!vars, StageOf, Served
  <2>3. ASSUME NEW j \in Jobs, NEW from, NEW to, NEW event, Advances(j, from, to, event)
        PROVE  Lifecycle!Advance(j, from, to, event)
    BY <2>3 DEF Advances, StageOf, Served, Lifecycle!Advance
  <2>4. ASSUME NEW j \in Jobs, NEW t \in Tokens, ServesOne(j, t)
        PROVE  Lifecycle!Serve(j, t)
    BY <2>4 DEF ServesOne, StageOf, Served, Lifecycle!Serve
  <2> QED  BY <2>1, <2>2, <2>3, <2>4
           DEF LifecycleStep, Lifecycle!Next, Lifecycle!Request, Lifecycle!Complete,
               Lifecycle!Fail, Lifecycle!Expire
<1> QED  BY <1>1, <1>2, ExportInvariant, PTL DEF Spec, ImplementsLifecycle, Lifecycle!Spec
=============================================================================
