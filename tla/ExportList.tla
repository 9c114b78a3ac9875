----------------------------- MODULE ExportList -----------------------------
(***************************************************************************)
(* The list of recent exports on the reports page.  The page is rendered   *)
(* with the jobs of the moment; the list then asks again and again until   *)
(* every job has ended.  The effect that asks is torn down and started     *)
(* anew whenever the list changes, and the list itself whenever the page   *)
(* is rendered with other jobs.                                            *)
(***************************************************************************)
EXTENDS Naturals, FiniteSets

CONSTANT Jobs \* the jobs of the user

VARIABLES
    onServer,  \* the state of every job that was requested, on the server
    rendered,  \* the list the page was last rendered with
    listed,    \* the list shown
    timers,    \* the timers set
    polls      \* the questions under way, with what the server answered

listVars == <<onServer, rendered, listed, timers, polls>>

JobStates == {"absent", "QUEUED", "RUNNING", "COMPLETED", "FAILED", "EXPIRED"}
Unfinished(list) == \E e \in Jobs : list[e] \in {"QUEUED", "RUNNING"}
NoAnswer == [e \in Jobs |-> "absent"]

\* The effect: one timer if some job has not ended.
Timers(list) == IF Unfinished(list) THEN 1 ELSE 0
Mount(list) == listed' = list /\ timers' = Timers(list) /\ polls' = {}

ListInit ==
    /\ onServer \in [Jobs -> JobStates]
    /\ rendered = onServer
    /\ listed = onServer
    /\ timers = Timers(onServer)
    /\ polls = {}

-----------------------------------------------------------------------------
\* The jobs on the server: requested, claimed, requeued by a lost lease, ended.
Progress(e) ==
    /\ onServer' \in {[onServer EXCEPT ![e] = s] :
                        s \in CASE onServer[e] = "absent" -> {"QUEUED"}
                                [] onServer[e] = "QUEUED" -> {"RUNNING"}
                                [] onServer[e] = "RUNNING" -> {"COMPLETED", "FAILED", "QUEUED"}
                                [] onServer[e] = "COMPLETED" -> {"EXPIRED"}
                                [] OTHER -> {}}
    /\ UNCHANGED <<rendered, listed, timers, polls>>

\* A refresh of the page: the list is mounted anew if the jobs or their states are others.
SameKey(jobs) == jobs = rendered
RefreshPage ==
    /\ rendered' = onServer
    /\ IF SameKey(onServer) THEN UNCHANGED <<listed, timers, polls>> ELSE Mount(onServer)
    /\ UNCHANGED onServer

PollStarts ==
    /\ timers > 0
    /\ timers' = timers - 1
    /\ polls' = polls \cup {[read |-> FALSE, jobs |-> NoAnswer]}
    /\ UNCHANGED <<onServer, rendered, listed>>

ListJobs(p) ==
    /\ ~p.read
    /\ polls' = (polls \ {p}) \cup {[read |-> TRUE, jobs |-> onServer]}
    /\ UNCHANGED <<onServer, rendered, listed, timers>>

\* The answer sets a timer of its own; as the list changes, the effect is torn
\* down, with that timer and every question under way, and started again.
PollAnswered(p) ==
    /\ p.read
    /\ Mount(p.jobs)
    /\ UNCHANGED <<onServer, rendered>>

\* Fault: a question that fails is the last.
PollFailsSilently(p) ==
    /\ polls' = polls \ {p}
    /\ UNCHANGED <<onServer, rendered, listed, timers>>
PollFails(p) ==
    /\ polls' = polls \ {p}
    /\ timers' = timers + 1
    /\ UNCHANGED <<onServer, rendered, listed>>

ListNext ==
    \/ \E e \in Jobs : Progress(e)
    \/ RefreshPage \/ PollStarts
    \/ \E p \in polls : ListJobs(p) \/ PollAnswered(p) \/ PollFails(p)

-----------------------------------------------------------------------------
ListSpec == ListInit /\ [][ListNext]_listVars

\* The list never stops asking while it shows a job under way, never asks at two
\* paces at once, and stops once every job it shows has ended, whatever is lost and
\* however refreshes of the page and changes of the list cut across each other.
AsksOnce ==
    timers + Cardinality(polls) = IF Unfinished(listed) THEN 1 ELSE 0
=============================================================================
