---------------------------- MODULE ExportLifecycle ----------------------------
(***************************************************************************)
(* What a requester is promised of report exports: a job is requested      *)
(* once, ends once, and its file is handed out only after it is complete,  *)
(* once for each download link.  Each of these writes one audit event;     *)
(* that a file is withdrawn after its retention writes none.               *)
(***************************************************************************)
EXTENDS Sequences

CONSTANTS
    Jobs,       \* export jobs
    Tokens      \* one-time tokens of the download links

VARIABLES
    stage,      \* job -> "none", "open", "completed", "failed", "expired"
    trail,      \* job -> its audit events, in order
    served      \* tokens that have authorized a download

vars == <<stage, trail, served>>

Advance(j, from, to, event) ==
    /\ stage[j] = from
    /\ stage' = [stage EXCEPT ![j] = to]
    /\ trail' = [trail EXCEPT ![j] = @ \o event]
    /\ UNCHANGED served

Init ==
    /\ stage = [j \in Jobs |-> "none"]
    /\ trail = [j \in Jobs |-> <<>>]
    /\ served = {}

Request(j)  == Advance(j, "none", "open", <<"requested">>)
Complete(j) == Advance(j, "open", "completed", <<"completed">>)
Fail(j)     == Advance(j, "open", "failed", <<"failed">>)
Expire(j)   == Advance(j, "completed", "expired", <<>>)

\* A download opened before the file was withdrawn may be authorized after.
Serve(j, t) ==
    /\ stage[j] \in {"completed", "expired"}
    /\ t \notin served
    /\ served' = served \cup {t}
    /\ trail' = [trail EXCEPT ![j] = Append(@, "download_authorized")]
    /\ UNCHANGED stage

Next ==
    \/ \E j \in Jobs : Request(j) \/ Complete(j) \/ Fail(j) \/ Expire(j)
    \/ \E j \in Jobs, t \in Tokens : Serve(j, t)

Spec == Init /\ [][Next]_vars
=============================================================================
