------------------------------ MODULE ExportJobs ------------------------------
(***************************************************************************)
(* Report exports: a request creates a job and, for a small report, runs   *)
(* it itself; worker processes claim the others under a lease, generate a  *)
(* file, retry and clean up; links with one-time tokens hand the file out. *)
(*                                                                         *)
(* Every statement or transaction of the job repository is one action:     *)
(* claims lock with FOR UPDATE SKIP LOCKED and every transition compares   *)
(* status and lease owner in its WHERE clause.  Between them a process can *)
(* stall, lose its lease or die.  Instants are kept as what a comparison   *)
(* with the clock tells: a lease has expired or not, a job is available or *)
(* not.  A file is named by job and attempt, since each attempt that       *)
(* generates has a random storage key of its own.                          *)
(***************************************************************************)
EXTENDS Integers, FiniteSets, Sequences

CONSTANTS
    Jobs,         \* export jobs; the request that creates a job has its name
    Workers,      \* reporting worker processes
    Tokens,       \* download tokens
    Downloads,    \* download requests
    MaxAttempts,  \* max_attempts of a job
    None

ASSUME AttemptsAssumption == MaxAttempts \in Nat \ {0}
ASSUME NameAssumption == None \notin Jobs \cup Workers /\ Jobs \cap Workers = {}

VARIABLES
    job,          \* export_jobs: the row of each job
    trail,        \* audit events of each job, in order
    pending,      \* temporary files on the volume
    stored,       \* finalized files on the volume
    exec,         \* what each worker and each request is doing
    token,        \* export_download_tokens
    download,     \* download requests
    unacknowledged \* history: jobs completed by a commit whose answer was lost

vars == <<job, trail, pending, stored, exec, token, download, unacknowledged>>

-----------------------------------------------------------------------------
Executors == Workers \cup Jobs
Owner(x)  == IF x \in Workers THEN x ELSE None      \* workerId, null in a request
Keys      == Jobs \X (1..MaxAttempts)

Statuses == {"NONE", "QUEUED", "RUNNING", "COMPLETED", "FAILED", "EXPIRED"}

NoJob == [status |-> "NONE", mode |-> "QUEUED", attempts |-> 0, available |-> FALSE,
          owner |-> None, lease |-> "none", file |-> 0, withdrawn |-> FALSE]

\* Doing nothing: a worker can take another job, is stopped, or is a request that is over.
Free(pc) == [pc |-> pc, doing |-> None, tries |-> 0, verdict |-> "none", listed |-> {}]
After(x, pc) == Free(IF x \in Workers THEN pc ELSE "done")

Init ==
    /\ job = [j \in Jobs |-> NoJob]
    /\ trail = [j \in Jobs |-> <<>>]
    /\ pending = {} /\ stored = {}
    /\ exec = [x \in Executors |-> Free("idle")]
    /\ token = [t \in Tokens |-> [state |-> "none", job |-> None]]
    /\ download = [d \in Downloads |-> [pc |-> "idle", token |-> None, fresh |-> FALSE]]
    /\ unacknowledged = {}

Log(j, event) == trail' = [trail EXCEPT ![j] = Append(@, event)]

\* The WHERE clause of complete, retry and fail, and of renewLease.
Mine(x) ==
    /\ job[exec[x].doing].status = "RUNNING"
    /\ job[exec[x].doing].owner = Owner(x)

\* The row of a job whose execution is over, one way or the other.
Released(row, status) ==
    [row EXCEPT !.status = status, !.owner = None, !.lease = "none"]

Key(x) == <<exec[x].doing, exec[x].tries>>
Move(x, pc, verdict) == exec' = [exec EXCEPT ![x] = [@ EXCEPT !.pc = pc, !.verdict = verdict]]

\* Give w the job: execute(job, workerId) with the row as it is now.
Take(w, j, attempts) ==
    exec' = [exec EXCEPT ![w] = [@ EXCEPT !.pc = "begin", !.doing = j, !.tries = attempts]]

-----------------------------------------------------------------------------
(* The request *)

\* RequestReportExport: a small report is SYNCHRONOUS, and its request goes on.
RequestExport(j, mode) ==
    /\ exec[j].pc = "idle"
    /\ job' = [job EXCEPT ![j] = [@ EXCEPT !.status = "QUEUED", !.mode = mode, !.available = TRUE]]
    /\ Log(j, "requested")
    /\ exec' = [exec EXCEPT ![j] = IF mode = "SYNCHRONOUS"
                                   THEN [@ EXCEPT !.pc = "start", !.doing = j]
                                   ELSE Free("done")]
    /\ UNCHANGED <<pending, stored, token, download, unacknowledged>>

\* start: an update of the row as another process may have left it meanwhile.
StartInRequest(j) ==
    /\ exec[j].pc = "start"
    /\ IF job[j].status = "QUEUED" /\ job[j].attempts < MaxAttempts
       THEN /\ job' = [job EXCEPT ![j] = [@ EXCEPT !.status = "RUNNING",
                                                  !.attempts = job[j].attempts + 1,
                                                  !.owner = None, !.lease = "none"]]
            /\ Take(j, j, job[j].attempts + 1)
       ELSE /\ exec' = [exec EXCEPT ![j] = Free("done")]
            /\ UNCHANGED job
    /\ UNCHANGED <<trail, pending, stored, token, download, unacknowledged>>

-----------------------------------------------------------------------------
(* Claiming, in one transaction *)

LeaseOver(j) == job[j].status = "RUNNING" /\ job[j].lease = "expired"

\* Mutant: a job that has used its last attempt is left to itself.
ClaimExhaustedNever(w, j) == FALSE

ClaimExhausted(w, j) ==
    /\ LeaseOver(j) /\ job[j].attempts >= MaxAttempts
    /\ job' = [job EXCEPT ![j] = [@ EXCEPT !.owner = w, !.lease = "live"]]
    /\ Take(w, j, job[j].attempts)

\* Every job whose lease is over goes back to the queue, then one is taken from it.
ClaimQueued(w, j) ==
    LET requeued == [i \in Jobs |-> IF LeaseOver(i)
                                    THEN [Released(job[i], "QUEUED") EXCEPT !.available = TRUE]
                                    ELSE job[i]]
        row == requeued[j]
    IN  /\ ~ \E i \in Jobs : LeaseOver(i) /\ job[i].attempts >= MaxAttempts
        /\ row.status = "QUEUED" /\ row.available /\ row.attempts < MaxAttempts
        /\ job' = [requeued EXCEPT ![j] = [row EXCEPT !.status = "RUNNING",
                                                     !.attempts = row.attempts + 1,
                                                     !.owner = w, !.lease = "live"]]
        /\ Take(w, j, row.attempts + 1)

ClaimNext(w) ==
    /\ exec[w].pc = "idle"
    /\ \E j \in Jobs : ClaimExhausted(w, j) \/ ClaimQueued(w, j)
    /\ UNCHANGED <<trail, pending, stored, token, download, unacknowledged>>

-----------------------------------------------------------------------------
(* ExportJobExecutor.execute *)

\* Checks and createPending; a worker only fails a job on its last attempt.
Begin(x) ==
    /\ exec[x].pc = "begin"
    /\ \/ /\ x \in Workers => exec[x].tries < MaxAttempts
          /\ Move(x, "export", "none")
          /\ pending' = pending \cup {Key(x)}
       \* permission revoked, attempts exhausted, the database or the volume unavailable
       \/ (\E v \in {"final", "retry"} : Move(x, "settle", v)) /\ UNCHANGED pending
    /\ UNCHANGED <<job, trail, stored, token, download, unacknowledged>>

\* The file is written under its temporary name and then renamed.
ExportFile(x) ==
    /\ exec[x].pc = "export" /\ Key(x) \in pending
    /\ pending' = pending \ {Key(x)}
    /\ stored' = stored \cup {Key(x)}
    /\ Move(x, "complete", "none")
    /\ UNCHANGED <<job, trail, token, download, unacknowledged>>

\* A limit, the timeout, a lost lease, a missing file: removing the file is only tried.
ExportFails(x) ==
    /\ exec[x].pc = "export"
    /\ \E v \in {"final", "retry"} : Move(x, "settle", v)
    /\ pending' \in {pending, pending \ {Key(x)}}
    /\ UNCHANGED <<job, trail, stored, token, download, unacknowledged>>

RenewLease(w) ==
    /\ exec[w].pc \in {"export", "complete"} /\ Mine(w)
    /\ job' = [job EXCEPT ![exec[w].doing] = [@ EXCEPT !.lease = "live"]]
    /\ UNCHANGED <<trail, pending, stored, exec, token, download, unacknowledged>>

Completed(x) ==
    LET j == exec[x].doing
    IN  /\ Mine(x)
        /\ job' = [job EXCEPT ![j] = [Released(@, "COMPLETED") EXCEPT !.file = exec[x].tries]]
        /\ Log(j, "completed")

Complete(x) ==
    /\ exec[x].pc = "complete"
    /\ Completed(x)
    /\ exec' = [exec EXCEPT ![x] = After(x, "idle")]
    /\ UNCHANGED <<pending, stored, token, download, unacknowledged>>

\* The transaction is refused or rolls back; the file it was for is deleted, if that succeeds.
CompleteFails(x) ==
    /\ exec[x].pc = "complete"
    /\ stored' \in {stored, stored \ {Key(x)}}
    /\ Move(x, "settle", "retry")
    /\ UNCHANGED <<job, trail, pending, token, download, unacknowledged>>

\* The transaction commits, but the connection is lost before the answer arrives.
CompleteUnheard(x) ==
    /\ exec[x].pc = "complete"
    /\ Completed(x)
    /\ stored' \in {stored, stored \ {Key(x)}}
    /\ unacknowledged' = unacknowledged \cup {exec[x].doing}
    /\ Move(x, "settle", "retry")
    /\ UNCHANGED <<pending, token, download>>

-----------------------------------------------------------------------------
(* settleFailure: a conflict leaves runOnce as an exception and ends the process *)

Again(x) == x \in Workers /\ exec[x].verdict = "retry" /\ exec[x].tries < MaxAttempts

Conflict(x) ==
    /\ ~ Mine(x)
    /\ exec' = [exec EXCEPT ![x] = After(x, "stopped")]
    /\ UNCHANGED <<job, trail>>

\* Mutant: a failed attempt requeues the job whoever runs it now.
RetryAnyway(x) ==
    /\ job[exec[x].doing].status = "RUNNING"
    /\ job' = [job EXCEPT ![exec[x].doing] = [Released(@, "QUEUED") EXCEPT !.available = FALSE]]
    /\ exec' = [exec EXCEPT ![x] = After(x, "idle")]
    /\ UNCHANGED trail

Retry(x) ==
    /\ Mine(x) /\ job[exec[x].doing].attempts < MaxAttempts
    /\ job' = [job EXCEPT ![exec[x].doing] = [Released(@, "QUEUED") EXCEPT !.available = FALSE]]
    /\ exec' = [exec EXCEPT ![x] = After(x, "idle")]
    /\ UNCHANGED trail

Fail(x) ==
    /\ Mine(x)
    /\ job' = [job EXCEPT ![exec[x].doing] = Released(@, "FAILED")]
    /\ Log(exec[x].doing, "failed")
    /\ exec' = [exec EXCEPT ![x] = After(x, "idle")]

SettleFailure(x) ==
    /\ exec[x].pc = "settle"
    /\ \/ Again(x) /\ Retry(x)
       \/ ~Again(x) /\ Fail(x)
       \/ Conflict(x)
    /\ UNCHANGED <<pending, stored, token, download, unacknowledged>>

-----------------------------------------------------------------------------
(* runCleanup, between two jobs of a worker *)

OutOfDate(j) == job[j].status = "COMPLETED" /\ job[j].withdrawn

ListExpired(w) ==
    /\ exec[w].pc = "idle"
    /\ exec' = [exec EXCEPT ![w] = [@ EXCEPT !.pc = "cleanup",
                                            !.listed = {j \in Jobs : OutOfDate(j)}]]
    /\ UNCHANGED <<job, trail, pending, stored, token, download, unacknowledged>>

\* Mutant: a file that is already gone is an error.
DeleteFilePresent(w, j) ==
    /\ exec[w].pc = "cleanup" /\ j \in exec[w].listed
    /\ IF <<j, job[j].attempts>> \in stored
       THEN exec' = [exec EXCEPT ![w] = [@ EXCEPT !.pc = "mark", !.doing = j,
                                                 !.listed = exec[w].listed \ {j}]]
       ELSE exec' = [exec EXCEPT ![w] = Free("stopped")]
    /\ stored' = stored \ {<<j, job[j].attempts>>}
    /\ UNCHANGED <<job, trail, pending, token, download, unacknowledged>>

\* A job that was completed keeps its attempts, so its key is that of the listed row.
DeleteFile(w, j) ==
    /\ exec[w].pc = "cleanup" /\ j \in exec[w].listed
    /\ stored' = stored \ {<<j, job[j].attempts>>}
    /\ exec' = [exec EXCEPT ![w] = [@ EXCEPT !.pc = "mark", !.doing = j,
                                            !.listed = exec[w].listed \ {j}]]
    /\ UNCHANGED <<job, trail, pending, token, download, unacknowledged>>

\* A second cleaner finds the job marked and its process ends.
MarkExpired(w) ==
    LET j == exec[w].doing
    IN  /\ exec[w].pc = "mark"
        /\ IF job[j].status = "COMPLETED"
           THEN /\ job' = [job EXCEPT ![j] = [@ EXCEPT !.status = "EXPIRED", !.file = 0]]
                /\ exec' = [exec EXCEPT ![w] = [@ EXCEPT !.pc = "cleanup", !.doing = None]]
           ELSE exec' = [exec EXCEPT ![w] = Free("stopped")] /\ UNCHANGED job
        /\ UNCHANGED <<trail, pending, stored, token, download, unacknowledged>>

\* Tokens that are used or over, and temporary files that are old enough.
FinishCleanup(w) ==
    /\ exec[w].pc = "cleanup" /\ exec[w].listed = {}
    /\ token' = [t \in Tokens |-> IF token[t].state \in {"expired", "consumed"}
                                  THEN [token[t] EXCEPT !.state = "deleted"] ELSE token[t]]
    /\ pending' \in SUBSET pending
    /\ exec' = [exec EXCEPT ![w] = Free("idle")]
    /\ UNCHANGED <<job, trail, stored, download, unacknowledged>>

-----------------------------------------------------------------------------
(* Links and downloads *)

\* The job was found COMPLETED when it was read; the token ends with the file.
IssueLink(t, j) ==
    /\ token[t].state = "none" /\ job[j].status \in {"COMPLETED", "EXPIRED"}
    /\ token' = [token EXCEPT ![t] =
                    [state |-> IF job[j].withdrawn THEN "expired" ELSE "live", job |-> j]]
    /\ UNCHANGED <<job, trail, pending, stored, exec, download, unacknowledged>>

\* fresh: how the token compares with the instant taken before the file is opened.
OpenDownload(d, t) ==
    /\ download[d].pc = "idle" /\ token[t].state # "none"
    /\ LET row == job[token[t].job]
       IN  row.status = "COMPLETED" /\ ~row.withdrawn /\ <<token[t].job, row.file>> \in stored
    /\ download' = [download EXCEPT ![d] =
                       [pc |-> "opened", token |-> t, fresh |-> token[t].state # "expired"]]
    /\ UNCHANGED <<job, trail, pending, stored, exec, token, unacknowledged>>

\* Mutant: consumed_at is not compared.
AuthorizeDownloadAgain(d) ==
    LET t == download[d].token
        accepted == download[d].fresh /\ token[t].state \in {"live", "expired", "consumed"}
    IN  /\ download[d].pc = "opened"
        /\ download' = [download EXCEPT ![d].pc = IF accepted THEN "served" ELSE "refused"]
        /\ IF accepted
           THEN token' = [token EXCEPT ![t].state = "consumed"]
                /\ Log(token[t].job, "download_authorized")
           ELSE UNCHANGED <<token, trail>>
        /\ UNCHANGED <<job, pending, stored, exec, unacknowledged>>

\* consumeDownloadToken and its audit event.
AuthorizeDownload(d) ==
    LET t == download[d].token
        accepted == download[d].fresh /\ token[t].state \in {"live", "expired"}
    IN  /\ download[d].pc = "opened"
        /\ download' = [download EXCEPT ![d].pc = IF accepted THEN "served" ELSE "refused"]
        /\ IF accepted
           THEN token' = [token EXCEPT ![t].state = "consumed"]
                /\ Log(token[t].job, "download_authorized")
           ELSE UNCHANGED <<token, trail>>
        /\ UNCHANGED <<job, pending, stored, exec, unacknowledged>>

-----------------------------------------------------------------------------
(* Time and failures *)

LeaseExpires(j) ==
    /\ job[j].status = "RUNNING" /\ job[j].lease = "live"
    /\ job' = [job EXCEPT ![j] = [@ EXCEPT !.lease = "expired"]]
    /\ UNCHANGED <<trail, pending, stored, exec, token, download, unacknowledged>>

BackoffEnds(j) ==
    /\ job[j].status = "QUEUED" /\ ~job[j].available
    /\ job' = [job EXCEPT ![j] = [@ EXCEPT !.available = TRUE]]
    /\ UNCHANGED <<trail, pending, stored, exec, token, download, unacknowledged>>

\* Mutant: a token lives its five minutes, whatever becomes of the file.
FileExpiresAlone(j) ==
    /\ job[j].status = "COMPLETED" /\ ~job[j].withdrawn
    /\ job' = [job EXCEPT ![j] = [@ EXCEPT !.withdrawn = TRUE]]
    /\ UNCHANGED <<trail, pending, stored, exec, token, download, unacknowledged>>

\* file_expires_at passes: no token of the job expires later.
FileExpires(j) ==
    /\ job[j].status = "COMPLETED" /\ ~job[j].withdrawn
    /\ job' = [job EXCEPT ![j] = [@ EXCEPT !.withdrawn = TRUE]]
    /\ token' = [t \in Tokens |-> IF token[t].job = j /\ token[t].state = "live"
                                  THEN [token[t] EXCEPT !.state = "expired"] ELSE token[t]]
    /\ UNCHANGED <<trail, pending, stored, exec, download, unacknowledged>>

TokenExpires(t) ==
    /\ token[t].state = "live"
    /\ token' = [token EXCEPT ![t].state = "expired"]
    /\ UNCHANGED <<job, trail, pending, stored, exec, download, unacknowledged>>

\* A process ends anywhere; the volume and the tables stay as they are.
Crash(x) ==
    /\ exec[x].pc \notin {"stopped", "done"} /\ (x \in Jobs => exec[x].pc # "idle")
    /\ exec' = [exec EXCEPT ![x] = After(x, "stopped")]
    /\ UNCHANGED <<job, trail, pending, stored, token, download, unacknowledged>>

\* A new process has a new worker id; the name is free again once nothing runs under it.
Restart(w) ==
    /\ exec[w].pc = "stopped"
    /\ exec' = [exec EXCEPT ![w] = Free("idle")]
    /\ UNCHANGED <<job, trail, pending, stored, token, download, unacknowledged>>

-----------------------------------------------------------------------------
Generate(x) == ExportFile(x) \/ ExportFails(x)
Finish(x)   == Complete(x) \/ CompleteFails(x) \/ CompleteUnheard(x)

WorkerStep(w) ==
    \/ ClaimNext(w) \/ RenewLease(w) \/ Restart(w)
    \/ ListExpired(w) \/ (\E j \in Jobs : DeleteFile(w, j)) \/ MarkExpired(w) \/ FinishCleanup(w)

RequestStep(j) ==
    \/ \E mode \in {"SYNCHRONOUS", "QUEUED"} : RequestExport(j, mode)
    \/ StartInRequest(j)

ExecutorStep(x) == Begin(x) \/ Generate(x) \/ Finish(x) \/ SettleFailure(x)

LinkStep ==
    \/ \E t \in Tokens : TokenExpires(t) \/ \E j \in Jobs : IssueLink(t, j)
    \/ \E d \in Downloads : AuthorizeDownload(d) \/ \E t \in Tokens : OpenDownload(d, t)

Next ==
    \/ \E w \in Workers : WorkerStep(w)
    \/ \E x \in Executors : ExecutorStep(x) \/ Crash(x)
    \/ \E j \in Jobs : RequestStep(j) \/ LeaseExpires(j) \/ BackoffEnds(j) \/ FileExpires(j)
    \/ LinkStep

Spec == Init /\ [][Next]_vars

\* Workers poll for ever, compose restarts them and clocks advance.  A process may die at any
\* step, or stall until its lease is lost, but not every time at the same step.  A lease is
\* sure to expire only when no process is left to renew it.
Deserted(j) == \A w \in Workers : exec[w].doing # j

Fairness ==
    /\ \A w \in Workers :
          /\ SF_vars(ClaimNext(w))
          /\ SF_vars(Begin(w) /\ Mine(w)) /\ SF_vars(SettleFailure(w) /\ Mine(w))
          /\ WF_vars(ExecutorStep(w)) /\ WF_vars(Restart(w))
          /\ SF_vars(ListExpired(w)) /\ SF_vars(MarkExpired(w)) /\ WF_vars(FinishCleanup(w))
          /\ \A j \in Jobs : SF_vars(DeleteFile(w, j))
    /\ \A j \in Jobs :
          /\ WF_vars(LeaseExpires(j) /\ Deserted(j))
          /\ WF_vars(BackoffEnds(j)) /\ WF_vars(FileExpires(j))

FairSpec == Spec /\ Fairness

-----------------------------------------------------------------------------
(* Properties *)

Attempts == 0..MaxAttempts

JobRows ==
    [status : Statuses, mode : {"QUEUED", "SYNCHRONOUS"}, attempts : Attempts,
     available : BOOLEAN, owner : Workers \cup {None}, lease : {"none", "live", "expired"},
     file : Attempts, withdrawn : BOOLEAN]

Executions ==
    [pc : {"idle", "start", "begin", "export", "complete", "settle", "cleanup", "mark",
           "stopped", "done"},
     doing : Jobs \cup {None}, tries : Attempts, verdict : {"none", "retry", "final"},
     listed : SUBSET Jobs]

Events == {"requested", "completed", "failed", "download_authorized"}

TypeOK ==
    /\ job \in [Jobs -> JobRows]
    /\ trail \in [Jobs -> Seq(Events)]
    /\ pending \subseteq Keys /\ stored \subseteq Keys
    /\ exec \in [Executors -> Executions]
    /\ token \in [Tokens -> [state : {"none", "live", "expired", "consumed", "deleted"},
                             job : Jobs \cup {None}]]
    /\ download \in [Downloads -> [pc : {"idle", "opened", "served", "refused"},
                                   token : Tokens \cup {None}, fresh : BOOLEAN]]
    /\ unacknowledged \subseteq Jobs

\* The file of a completed job is the one its latest attempt made: an attempt whose lease was
\* lost to a later one never puts its own file under the job (complete compares the owner).
LatestAttemptStands ==
    \A j \in Jobs : job[j].status = "COMPLETED" => job[j].file = job[j].attempts

\* A link that has not ended leads to a file: whatever the workers, the cleanup and late
\* attempts do meanwhile.  Only a completion whose answer was lost may have lost its file.
LinkLeadsToFile ==
    \A t \in Tokens :
        LET j == token[t].job
        IN  token[t].state = "live" /\ j \notin unacknowledged =>
                job[j].status = "COMPLETED" /\ <<j, job[j].file>> \in stored

\* Retention is kept: a job is marked EXPIRED only when its file is gone (runCleanup deletes
\* first), so no crash of a cleaner leaves the file of an expired job on the volume.
ExpiredHasNoFile ==
    \A j \in Jobs : job[j].status = "EXPIRED" => <<j, job[j].attempts>> \notin stored

\* A running job is settled only by the executor of its current attempt; any other, having
\* lost its lease, changes nothing of the job it still believes to be running.
HolderSettles ==
    [][\A j \in Jobs :
          job[j].status = "RUNNING" /\ job'[j].status # "RUNNING" =>
              \/ job[j].lease = "expired" /\ job'[j].status = "QUEUED"
              \/ \E x \in Executors :
                    /\ exec[x].doing = j /\ exec[x].tries = job[j].attempts
                    /\ exec'[x] # exec[x]]_vars

-----------------------------------------------------------------------------
(* The inductive invariant of the proofs *)

Running(x) == exec[x].pc \in {"begin", "export", "complete", "settle"}

\* The executor can still produce a file: a worker does not on the last attempt.
Generating(x) ==
    \/ exec[x].pc \in {"export", "complete"}
    \/ exec[x].pc = "begin" /\ (x \in Workers => exec[x].tries < MaxAttempts)

HasEnded(j) == job[j].status \in {"COMPLETED", "EXPIRED"}

RequestOK(j) ==
    /\ exec[j].pc = "idle" => job[j].status = "NONE"
    /\ exec[j].pc \in {"idle", "start", "done"} \/ Running(j)
    /\ exec[j].pc = "start" \/ Running(j) => exec[j].doing = j

RunnerOK(x) ==
    Running(x) => /\ exec[x].doing \in Jobs
                  /\ exec[x].tries \in 1..job[exec[x].doing].attempts
                  /\ job[exec[x].doing].status # "NONE"
                  /\ Mine(x) => exec[x].tries = job[exec[x].doing].attempts

CleanerOK(w) ==
    /\ \A j \in exec[w].listed : HasEnded(j) /\ job[j].withdrawn
    /\ exec[w].pc = "mark" =>
          /\ exec[w].doing \in Jobs /\ HasEnded(exec[w].doing) /\ job[exec[w].doing].withdrawn
          /\ <<exec[w].doing, job[exec[w].doing].attempts>> \notin stored
    /\ exec[w].pc # "start"

ExecutorsOK ==
    /\ \A j \in Jobs : RequestOK(j)
    /\ \A x \in Executors : RunnerOK(x)
    /\ \A w \in Workers : CleanerOK(w)

\* No two executors can produce the same file, nor one that a completed job has or had.
AttemptsApart ==
    /\ \A x, y \in Executors :
          x # y /\ Generating(x) /\ Generating(y) /\ exec[x].doing = exec[y].doing
              => exec[x].tries # exec[y].tries
    /\ \A x \in Executors :
          Generating(x) /\ HasEnded(exec[x].doing) => exec[x].tries # job[exec[x].doing].attempts

FilesOK ==
    /\ \A x \in Executors : exec[x].pc = "complete" => Key(x) \in stored
    /\ \A j \in Jobs : job[j].status = "COMPLETED" =>
          job[j].withdrawn \/ j \in unacknowledged \/ <<j, job[j].attempts>> \in stored
    /\ \A j \in Jobs : job[j].status = "EXPIRED" => job[j].withdrawn

LinksOK ==
    /\ \A t \in Tokens : token[t].state # "none" =>
          /\ token[t].job \in Jobs /\ HasEnded(token[t].job)
          /\ token[t].state = "live" => ~job[token[t].job].withdrawn
    /\ \A d \in Downloads : download[d].pc # "idle" =>
          /\ download[d].token \in Tokens /\ token[download[d].token].state # "none"
          /\ download[d].pc = "served" => token[download[d].token].state \in {"consumed", "deleted"}

\* Executors, rows, files and links agree; above all, no two processes generate in the same
\* attempt, although a job whose attempts are used up is claimed again without a new number.
ExportInv ==
    /\ TypeOK /\ ExecutorsOK /\ AttemptsApart /\ FilesOK /\ LinksOK
    /\ LatestAttemptStands /\ ExpiredHasNoFile

\* The jobs as their requesters see them: ended once and for all, one audit event for each
\* request, end and download, and one download for each token.
Stage(j) ==
    CASE job[j].status = "NONE" -> "none"
      [] job[j].status \in {"QUEUED", "RUNNING"} -> "open"
      [] job[j].status = "COMPLETED" -> "completed"
      [] job[j].status = "FAILED" -> "failed"
      [] job[j].status = "EXPIRED" -> "expired"

Lifecycle == INSTANCE ExportLifecycle WITH
                stage  <- [j \in Jobs |-> Stage(j)],
                served <- {t \in Tokens : \E d \in Downloads :
                              download[d].token = t /\ download[d].pc = "served"}

ImplementsLifecycle == Lifecycle!Spec

\* Whatever workers do or die of, a queued job ends.  (A small one that its request has
\* started is in no queue and has no lease.)
QueuedEnds ==
    \A j \in Jobs : job[j].status = "QUEUED" /\ job[j].mode = "QUEUED"
                        ~> job[j].status \in {"COMPLETED", "FAILED", "EXPIRED"}

\* Cleanup gets through in the end, after any crash between the file and the row.
CompletedExpires ==
    \A j \in Jobs : job[j].status = "COMPLETED" ~> job[j].status = "EXPIRED"
=============================================================================
