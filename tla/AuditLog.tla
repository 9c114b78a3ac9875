------------------------------- MODULE AuditLog -------------------------------
(***************************************************************************)
(* What the audit subsystem promises of its evidence: captured events are  *)
(* appended to one log, each at most once, nothing in the log ever         *)
(* changes, the secondary sink holds copies of log entries, and a copy is  *)
(* confirmed only after it was made.  Nothing is said here of outbox       *)
(* positions, hashes, heads, locks, workers or retries.                    *)
(***************************************************************************)
EXTENDS Integers, Sequences

CONSTANT Events

VARIABLES
    captured,   \* the events of committed transactions
    log,        \* the events in their final order
    copies,     \* pairs <<n, event>> held by the sink
    confirmed   \* the n whose copy is known to have been made

state == <<captured, log, copies, confirmed>>

Init == captured = {} /\ log = <<>> /\ copies = {} /\ confirmed = {}

Capture(e) ==
    /\ e \notin captured
    /\ captured' = captured \cup {e}
    /\ UNCHANGED <<log, copies, confirmed>>

\* The log grows at its end by captured events that it did not have.
Finalize ==
    /\ Len(log') > Len(log)
    /\ \A n \in 1 .. Len(log) : log'[n] = log[n]
    /\ \A n \in 1 .. Len(log') : log'[n] \in captured
    /\ \A m, n \in 1 .. Len(log') : log'[m] = log'[n] => m = n
    /\ UNCHANGED <<captured, copies, confirmed>>

Copy(n) ==
    /\ copies' = copies \cup {<<n, log[n]>>}
    /\ UNCHANGED <<captured, log, confirmed>>

Confirm(n) ==
    /\ <<n, log[n]>> \in copies
    /\ confirmed' = confirmed \cup {n}
    /\ UNCHANGED <<captured, log, copies>>

Next ==
    \/ \E e \in Events : Capture(e)
    \/ Finalize
    \/ \E n \in 1 .. Len(log) : Copy(n) \/ Confirm(n)

Spec == Init /\ [][Next]_state
=============================================================================
