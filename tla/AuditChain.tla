------------------------------ MODULE AuditChain ------------------------------
(***************************************************************************)
(* The audit subsystem: business transactions capture events in the        *)
(* outbox, worker processes chain them and deliver copies to the secondary *)
(* sink, and a verifier compares chain and sink.                           *)
(*                                                                         *)
(* An outbox row gets its position when it is inserted and is seen by      *)
(* others when its transaction commits.  A worker locks the chain head,    *)
(* reads the outbox beyond it, and writes entries, delivery rows and head  *)
(* in the same transaction.  Delivery writes to two databases, one after   *)
(* the other.  The SHA-256 hash of a record is injective here: it is the   *)
(* sequence of the events it covers.                                       *)
(***************************************************************************)
EXTENDS Integers, FiniteSets, SequencesExt

CONSTANTS
    Events,       \* audit events, each appended by a transaction of its own
    Poison,       \* events whose outbox row does not validate
    Workers,      \* worker processes
    ChainBatch, SinkBatch, PageSize,   \* AUDIT_CHAIN_BATCH_SIZE, ...
    MaxRuns,      \* bound: different verification runs recorded
    None

ASSUME BatchAssumption == {ChainBatch, SinkBatch, PageSize} \subseteq Nat \ {0}
ASSUME WorkerAssumption == None \notin Workers /\ Poison \subseteq Events

VARIABLES
    \* business transactions and the outbox
    tx,           \* tx[e]: "new", "open", "committed" or "aborted"
    position,     \* position[e]: source_position of its row, 0 before the insert
    lastPosition, \* the auto-increment counter, which no rollback returns
    \* primary audit schema
    chain,        \* audit_chain_entries in order of their sequence
    head,         \* the row of audit_chain_heads
    due,          \* undelivered sequences whose next_retry_at has come
    sent,         \* sequences marked delivered
    runs,         \* audit_verification_runs
    \* secondary sink
    sink,         \* audit_sink_entries
    \* processes
    wpc,          \* wpc[w]: where a worker is in its loop
    headLock,     \* the worker that holds the row lock on the head
    seen, rows,   \* the head and the outbox rows it has read under the lock
    todo,         \* the sequences it has listed and not dealt with yet
    verifier      \* the running verification

outbox   == <<tx, position, lastPosition>>
delivery == <<due, sent, sink>>
worker   == <<wpc, headLock, seen, rows, todo>>
verify   == <<runs, verifier>>
vars     == <<outbox, chain, head, delivery, worker, verify>>

Genesis == [sequence |-> 0, source |-> 0, hash |-> <<>>]
NoRun   == [on |-> FALSE, high |-> 0, hash |-> <<>>, done |-> 0]

Init ==
    /\ tx = [e \in Events |-> "new"]
    /\ position = [e \in Events |-> 0]
    /\ lastPosition = 0
    /\ chain = <<>>
    /\ head = Genesis
    /\ due = {} /\ sent = {} /\ sink = {}
    /\ runs = {}
    /\ wpc = [w \in Workers |-> "chain"]
    /\ headLock = None
    /\ seen = [w \in Workers |-> Genesis]
    /\ rows = [w \in Workers |-> <<>>]
    /\ todo = [w \in Workers |-> {}]
    /\ verifier = NoRun

-----------------------------------------------------------------------------
(***************************************************************************)
(* Business transactions                                                   *)
(***************************************************************************)

\* KyselyAuditOutboxStore.append, somewhere inside the transaction.
AppendEvent(e) ==
    /\ tx[e] = "new"
    /\ tx' = [tx EXCEPT ![e] = "open"]
    /\ lastPosition' = lastPosition + 1
    /\ position' = [position EXCEPT ![e] = lastPosition + 1]
    /\ UNCHANGED <<chain, head, delivery, worker, verify>>

EndTransaction(e, outcome) ==
    /\ tx[e] = "open"
    /\ tx' = [tx EXCEPT ![e] = outcome]
    /\ UNCHANGED <<position, lastPosition, chain, head, delivery, worker, verify>>

-----------------------------------------------------------------------------
(***************************************************************************)
(* The chain worker                                                        *)
(***************************************************************************)

\* Mutant: rows of transactions that have not committed are read as well.
ReadyDirty(after) == {e \in Events : tx[e] \in {"open", "committed"} /\ position[e] > after}

\* Mutant: the first position beyond the head is left out.
ReadyOffByOne(after) == {e \in Events : tx[e] = "committed" /\ position[e] > after + 1}

\* What a read of the outbox beyond a position sees: committed rows.
Ready(after) == {e \in Events : tx[e] = "committed" /\ position[e] > after}

\* loadOutboxAfter: the first ChainBatch of them, by position.
IsBatch(batch, ready) ==
    /\ \A j, k \in 1 .. Len(batch) : j < k => position[batch[j]] < position[batch[k]]
    /\ \A e \in ready \ {batch[j] : j \in 1 .. Len(batch)} :
          /\ Len(batch) = ChainBatch
          /\ \A j \in 1 .. Len(batch) : position[batch[j]] < position[e]

HasPoison(batch) == \E j \in 1 .. Len(batch) : batch[j] \in Poison

HeadLockFree == headLock = None

\* getHead and loadOutboxAfter find rows that all validate.
ReadOutbox(w) ==
    /\ wpc[w] = "chain" /\ HeadLockFree
    /\ \E batch \in BoundedSeq(Ready(head.source), ChainBatch) :
          /\ batch # <<>> /\ IsBatch(batch, Ready(head.source)) /\ ~HasPoison(batch)
          /\ rows' = [rows EXCEPT ![w] = batch]
    /\ headLock' = w
    /\ seen' = [seen EXCEPT ![w] = head]
    /\ wpc'  = [wpc  EXCEPT ![w] = "append"]
    /\ UNCHANGED <<outbox, chain, head, delivery, todo, verify>>

\* IDLE: there are none.
FindNothing(w) ==
    /\ wpc[w] = "chain" /\ HeadLockFree
    /\ Ready(head.source) = {}
    /\ wpc' = [wpc EXCEPT ![w] = "sink"]
    /\ UNCHANGED <<outbox, chain, head, delivery, headLock, seen, rows, todo, verify>>

\* HALTED: one of them is poison, the batch is rolled back, the process exits.
Halt(w) ==
    /\ wpc[w] = "chain" /\ HeadLockFree
    /\ \E batch \in BoundedSeq(Ready(head.source), ChainBatch) :
          IsBatch(batch, Ready(head.source)) /\ HasPoison(batch)
    /\ wpc' = [wpc EXCEPT ![w] = "stopped"]
    /\ UNCHANGED <<outbox, chain, head, delivery, headLock, seen, rows, todo, verify>>

\* Mutant: every record of the batch is linked to the head.
RecordsLinkedToHead(from, batch) ==
    [j \in 1 .. Len(batch) |->
        [sequence |-> from.sequence + j,
         source   |-> position[batch[j]],
         event    |-> batch[j],
         previous |-> from.hash,
         hash     |-> Append(from.hash, batch[j])]]

\* The records of a batch, numbered and linked from a head.
Records(from, batch) ==
    [j \in 1 .. Len(batch) |->
        [sequence |-> from.sequence + j,
         source   |-> position[batch[j]],
         event    |-> batch[j],
         previous |-> from.hash \o SubSeq(batch, 1, j - 1),
         hash     |-> from.hash \o SubSeq(batch, 1, j)]]

\* append: entries, delivery rows and head, committed together.  The primary key
\* and the two unique keys of the entries would fail the transaction.
AppendRecords(w) ==
    LET new  == Records(seen[w], rows[w])
        last == new[Len(new)] IN
    /\ wpc[w] = "append"
    /\ \A m \in 1 .. Len(chain), j \in 1 .. Len(new) :
          /\ chain[m].sequence # new[j].sequence
          /\ chain[m].source # new[j].source /\ chain[m].event # new[j].event
    /\ chain' = chain \o new
    /\ head'  = [sequence |-> last.sequence, source |-> last.source, hash |-> last.hash]
    /\ due'   = due \cup {new[j].sequence : j \in 1 .. Len(new)}
    /\ headLock' = None
    /\ rows' = [rows EXCEPT ![w] = <<>>]
    /\ wpc'  = [wpc  EXCEPT ![w] = "sink"]
    /\ UNCHANGED <<outbox, sent, sink, seen, todo, verify>>

-----------------------------------------------------------------------------
(***************************************************************************)
(* The sink-delivery worker                                                *)
(***************************************************************************)

\* Mutant: the newest entry is left for the next time.
PendingBeforeHead == {n \in due \ sent : n < head.sequence}

Pending == due \ sent

\* listPendingSinkDeliveries: the first SinkBatch due, by sequence, not locked.
ListPending(w) ==
    /\ wpc[w] = "sink"
    /\ \E batch \in SUBSET Pending :
          /\ Cardinality(batch) <= SinkBatch
          /\ \A n \in Pending \ batch : Cardinality(batch) = SinkBatch /\ \A m \in batch : m < n
          /\ todo' = [todo EXCEPT ![w] = batch]
          /\ wpc'  = [wpc  EXCEPT ![w] = IF batch = {} THEN "chain" ELSE "deliver"]
    /\ UNCHANGED <<outbox, chain, head, delivery, headLock, seen, rows, verify>>

\* The record a worker is at.
Current(w, n) == n \in todo[w] /\ \A m \in todo[w] : n <= m

CopyOf(record) ==
    [sequence |-> record.sequence, event |-> record.event,
     previous |-> record.previous, hash |-> record.hash]

\* On to the next record, or to the next round of the loop.
Advance(w, n) ==
    /\ todo' = [todo EXCEPT ![w] = @ \ {n}]
    /\ wpc'  = [wpc  EXCEPT ![w] = IF todo[w] = {n} THEN "chain" ELSE "deliver"]

\* The sink takes the copy, or finds that it has it (EXACT_DUPLICATE): the
\* fingerprint, its primary key, covers the whole record.
SinkAppend(w, n) ==
    /\ wpc[w] = "deliver" /\ Current(w, n)
    /\ sink' = sink \cup {CopyOf(chain[n])}
    /\ wpc'  = [wpc EXCEPT ![w] = "mark"]
    /\ UNCHANGED <<outbox, chain, head, due, sent, headLock, seen, rows, todo, verify>>

\* The delivery is marked unless another worker has marked it.
MarkSinkDelivered(w, n) ==
    /\ wpc[w] = "mark" /\ Current(w, n)
    /\ sent' = sent \cup {n}
    /\ Advance(w, n)
    /\ UNCHANGED <<outbox, chain, head, due, sink, headLock, seen, rows, verify>>

\* The append or the mark fails, the append perhaps after the sink took the copy;
\* a retry is scheduled unless another worker has marked the delivery.
ScheduleSinkRetry(w, n) ==
    /\ wpc[w] \in {"deliver", "mark"} /\ Current(w, n)
    /\ \/ wpc[w] = "deliver" /\ sink' = sink \cup {CopyOf(chain[n])}
       \/ UNCHANGED sink
    /\ due' = due \ ({n} \ sent)
    /\ Advance(w, n)
    /\ UNCHANGED <<outbox, chain, head, sent, headLock, seen, rows, verify>>

\* next_retry_at comes.
RetryComesDue(n) ==
    /\ n \in (1 .. Len(chain)) \ (due \cup sent)
    /\ due' = due \cup {n}
    /\ UNCHANGED <<outbox, chain, head, sent, sink, worker, verify>>

\* A worker dies, or exits because its database fails it; its transaction is
\* rolled back.
Crash(w) ==
    /\ wpc[w] # "stopped"
    /\ wpc'  = [wpc  EXCEPT ![w] = "stopped"]
    /\ rows' = [rows EXCEPT ![w] = <<>>]
    /\ todo' = [todo EXCEPT ![w] = {}]
    /\ headLock' = IF headLock = w THEN None ELSE headLock
    /\ UNCHANGED <<outbox, chain, head, delivery, seen, verify>>

\* restart: unless-stopped
Restart(w) ==
    /\ wpc[w] = "stopped"
    /\ wpc' = [wpc EXCEPT ![w] = "chain"]
    /\ UNCHANGED <<outbox, chain, head, delivery, headLock, seen, rows, todo, verify>>

-----------------------------------------------------------------------------
(***************************************************************************)
(* The verifier                                                            *)
(***************************************************************************)
StartVerification ==
    /\ ~verifier.on /\ Cardinality(runs) < MaxRuns
    /\ verifier' = [on |-> TRUE, high |-> head.sequence, hash |-> head.hash, done |-> 0]
    /\ UNCHANGED <<outbox, chain, head, delivery, worker, runs>>

\* readSinkPage: the first PageSize copies between what is done and the high
\* water, by sequence.  Chain entries never change, so when they are read
\* is of no importance.
IsPage(page, copies) ==
    /\ Cardinality(page) <= PageSize
    /\ \A c \in copies \ page : Cardinality(page) = PageSize /\ \A r \in page : r.sequence < c.sequence

\* Mutant: a gap in the sink is not looked for.
MismatchesIgnoringGaps(n, page) ==
    LET entry  == chain[n]
        copies == {r \in page : r.sequence = n}
        before == IF n = 1 THEN Genesis ELSE chain[n - 1] IN
    IF n > Len(chain) THEN {"MISSING_PRIMARY"}
    ELSE {kind \in {"DUPLICATE_SINK", "REORDERED_SEQUENCE",
                    "PREVIOUS_HASH_MISMATCH", "RECORD_HASH_MISMATCH", "CHANGED_COPY"} :
            \/ kind = "DUPLICATE_SINK" /\ Cardinality(copies) > 1
            \/ kind = "REORDERED_SEQUENCE" /\ entry.source <= before.source
            \/ kind = "PREVIOUS_HASH_MISMATCH" /\ entry.previous # before.hash
            \/ kind = "RECORD_HASH_MISMATCH" /\ entry.hash # Append(before.hash, entry.event)
            \/ kind = "CHANGED_COPY" /\ copies \ {CopyOf(entry)} # {}}

\* What the comparison of sequence n finds wrong, a page of copies in hand; the
\* code reports the first that applies.
Mismatches(n, page) ==
    LET entry  == chain[n]
        copies == {r \in page : r.sequence = n}
        before == IF n = 1 THEN Genesis ELSE chain[n - 1] IN
    IF n > Len(chain) THEN {"MISSING_PRIMARY"}
    ELSE {kind \in {"MISSING_SINK", "DUPLICATE_SINK", "REORDERED_SEQUENCE",
                    "PREVIOUS_HASH_MISMATCH", "RECORD_HASH_MISMATCH", "CHANGED_COPY"} :
            \/ kind = "MISSING_SINK" /\ copies = {}
            \/ kind = "DUPLICATE_SINK" /\ Cardinality(copies) > 1
            \/ kind = "REORDERED_SEQUENCE" /\ entry.source <= before.source
            \/ kind = "PREVIOUS_HASH_MISMATCH" /\ entry.previous # before.hash
            \/ kind = "RECORD_HASH_MISMATCH" /\ entry.hash # Append(before.hash, entry.event)
            \/ kind = "CHANGED_COPY" /\ copies \ {CopyOf(entry)} # {}}

\* A page is full, and its records are compared, or it reaches the high water.
Compared(page) ==
    {n \in verifier.done + 1 .. verifier.high :
        Cardinality(page) = PageSize => \E r \in page : n <= r.sequence}

Report(status, n, kind) ==
    /\ runs' = runs \cup {[status |-> status, high |-> verifier.high,
                            hash |-> verifier.hash, at |-> n, kind |-> kind]}
    /\ verifier' = NoRun

\* One page is read and compared.
VerifyPage ==
    /\ verifier.on
    /\ LET copies == {r \in sink : verifier.done < r.sequence /\ r.sequence <= verifier.high} IN
       \E page \in SUBSET copies :
          /\ IsPage(page, copies)
          /\ LET wrong == {n \in Compared(page) : Mismatches(n, page) # {}} IN
             \/ \E n \in wrong :
                   /\ \A m \in wrong : n <= m
                   /\ \E kind \in Mismatches(n, page) : Report("FAIL", n, kind)
             \/ /\ wrong = {} /\ Compared(page) # verifier.done + 1 .. verifier.high
                /\ verifier' = [verifier EXCEPT !.done = @ + Cardinality(Compared(page))]
                /\ UNCHANGED runs
             \/ /\ wrong = {} /\ Compared(page) = verifier.done + 1 .. verifier.high
                /\ IF verifier.hash = (IF verifier.high = 0 THEN Genesis ELSE chain[verifier.high]).hash
                   THEN Report("PASS", 0, "NONE")
                   ELSE Report("FAIL", verifier.high, "CAPTURED_HEAD_MISMATCH")
    /\ UNCHANGED <<outbox, chain, head, delivery, worker>>

\* An infrastructure failure ends it without a run.
AbandonVerification ==
    /\ verifier.on
    /\ verifier' = NoRun
    /\ UNCHANGED <<outbox, chain, head, delivery, worker, runs>>

-----------------------------------------------------------------------------
Business ==
    \E e \in Events :
        \/ AppendEvent(e)
        \/ EndTransaction(e, "committed")
        \/ EndTransaction(e, "aborted")

Deliver(w, n) == SinkAppend(w, n) \/ MarkSinkDelivered(w, n) \/ ScheduleSinkRetry(w, n)

Work(w) ==
    \/ ReadOutbox(w) \/ FindNothing(w) \/ Halt(w) \/ AppendRecords(w)
    \/ ListPending(w) \/ \E n \in todo[w] : Deliver(w, n)
    \/ Crash(w) \/ Restart(w)

Next ==
    \/ Business
    \/ \E w \in Workers : Work(w)
    \/ \E n \in 1 .. Len(chain) : RetryComesDue(n)
    \/ StartVerification \/ VerifyPage \/ AbandonVerification

Spec == Init /\ [][Next]_vars

\* Outages and crashes do not hit the same step of a worker for ever: what it can
\* try again and again it does at last.  Business transactions end, time passes.
Fairness ==
    /\ \A e \in Events : WF_vars(EndTransaction(e, "committed") \/ EndTransaction(e, "aborted"))
    /\ \A w \in Workers :
          /\ SF_vars(ReadOutbox(w)) /\ SF_vars(FindNothing(w)) /\ SF_vars(AppendRecords(w))
          /\ SF_vars(ListPending(w)) /\ WF_vars(Restart(w))
          /\ \A n \in 1 .. Cardinality(Events) :
                SF_vars(SinkAppend(w, n)) /\ SF_vars(MarkSinkDelivered(w, n))
    /\ \A n \in 1 .. Cardinality(Events) : WF_vars(RetryComesDue(n))

FairSpec == Spec /\ Fairness

-----------------------------------------------------------------------------
(***************************************************************************)
(* Properties                                                              *)
(***************************************************************************)
Record    == [sequence : Nat \ {0}, source : Nat \ {0}, event : Events,
              previous : Seq(Events), hash : Seq(Events)]
SinkEntry == [sequence : Nat \ {0}, event : Events, previous : Seq(Events), hash : Seq(Events)]
HeadRow   == [sequence : Nat, source : Nat, hash : Seq(Events)]
Kinds     == {"NONE", "MISSING_PRIMARY", "MISSING_SINK", "DUPLICATE_SINK", "REORDERED_SEQUENCE",
              "PREVIOUS_HASH_MISMATCH", "RECORD_HASH_MISMATCH", "CHANGED_COPY",
              "CAPTURED_HEAD_MISMATCH"}

\* Rows and processes are well formed.
TypeOK ==
    /\ tx \in [Events -> {"new", "open", "committed", "aborted"}]
    /\ position \in [Events -> Nat] /\ lastPosition \in Nat
    /\ chain \in Seq(Record) /\ head \in HeadRow
    /\ due \subseteq Nat /\ sent \subseteq Nat /\ sink \subseteq SinkEntry
    /\ runs \subseteq [status : {"PASS", "FAIL"}, high : Nat, hash : Seq(Events),
                       at : Nat, kind : Kinds]
    /\ wpc \in [Workers -> {"chain", "append", "sink", "deliver", "mark", "stopped"}]
    /\ headLock \in Workers \cup {None}
    /\ seen \in [Workers -> HeadRow] /\ rows \in [Workers -> Seq(Events)]
    /\ todo \in [Workers -> SUBSET Nat]
    /\ verifier \in [on : BOOLEAN, high : Nat, hash : Seq(Events), done : Nat]

\* Positions are given once (the auto-increment key of the outbox).
PositionsGivenOnce ==
    /\ \A e \in Events : position[e] <= lastPosition /\ (position[e] = 0 <=> tx[e] = "new")
    /\ \A e, f \in Events : position[e] = position[f] /\ position[e] # 0 => e = f

\* The entry before the n-th, or the genesis head.
Before(n) == IF n = 1 THEN Genesis ELSE chain[n - 1]

\* The chain (AuditChainWorker, append): numbered from 1 without gaps, each record
\* hashed over its event and the hash before it, in the order of the outbox,
\* of committed and valid events only, and its head is the head row, whatever
\* workers run or die.
ChainLinked ==
    /\ \A n \in 1 .. Len(chain) :
          /\ chain[n].sequence = n
          /\ chain[n].previous = Before(n).hash
          /\ chain[n].hash = Append(chain[n].previous, chain[n].event)
          /\ chain[n].source = position[chain[n].event]
          /\ tx[chain[n].event] = "committed" /\ chain[n].event \notin Poison
    /\ \A m, n \in 1 .. Len(chain) : m < n => chain[m].source < chain[n].source
    /\ head = LET last == Before(Len(chain) + 1) IN
              [sequence |-> last.sequence, source |-> last.source, hash |-> last.hash]

\* What a worker has read under the lock on the head is still so when it appends
\* (executeWithLockedHead).
HeadStands ==
    /\ headLock # None => wpc[headLock] = "append"
    /\ \A w \in Workers : wpc[w] = "append" =>
          /\ headLock = w /\ seen[w] = head /\ rows[w] # <<>>
          /\ \A j \in 1 .. Len(rows[w]) :
                /\ tx[rows[w][j]] = "committed" /\ rows[w][j] \notin Poison
                /\ position[rows[w][j]] > head.source
          /\ \A j, k \in 1 .. Len(rows[w]) :
                j < k => position[rows[w][j]] < position[rows[w][k]]

\* The sink has the n-th entry.
Copied(n) == n \in 1 .. Len(chain) /\ CopyOf(chain[n]) \in sink

\* The two databases (AuditSinkDeliveryWorker): the sink holds nothing but exact
\* copies of chain entries, and a delivery marked in the primary database has
\* its copy in the sink, whatever is retried, repeated or lost.
DeliveredIsCopied ==
    /\ \A c \in sink : c.sequence \in 1 .. Len(chain) /\ c = CopyOf(chain[c.sequence])
    /\ \A n \in sent : Copied(n)

\* What the proof of DeliveredIsCopied needs besides it.
WorkersDeliver ==
    /\ due \subseteq 1 .. Len(chain)
    /\ \A w \in Workers : todo[w] \subseteq 1 .. Len(chain)
    /\ \A w \in Workers : \A n \in todo[w] : wpc[w] = "mark" /\ Current(w, n) => Copied(n)

\* The inductive invariant.
AuditInv ==
    PositionsGivenOnce /\ ChainLinked /\ HeadStands /\ DeliveredIsCopied /\ WorkersDeliver

\* VerifyAuditChain, README "Exit code `0` means the captured primary range and
\* sink match": the range of a passed run is in the sink and hashes to the
\* recorded hash.
PassedRangeMatches ==
    \A r \in runs : r.status = "PASS" =>
        /\ \A n \in 1 .. r.high : Copied(n)
        /\ r.hash = Before(r.high + 1).hash

\* The verifier, running beside the workers, never reports anything worse than a
\* copy that was not there yet.
OnlyLagIsReported == \A r \in runs : r.status = "FAIL" => r.kind = "MISSING_SINK"

\* The worker loop delivers every chained record in the end, crashes and outages
\* of the sink notwithstanding.
ChainedIsDelivered ==
    \A n \in 1 .. Cardinality(Events) : n <= Len(chain) ~> n \in sent

\* An event is in the chain.
Chained(e) == \E n \in 1 .. Len(chain) : chain[n].event = e

\* Every captured event is chained in the end, or the head has gone past it.
CapturedIsFinalized ==
    \A e \in Events : tx[e] = "committed" ~> Chained(e) \/ head.source > position[e]

\* README: the worker "finalizes ordered outbox rows into a global RFC 8785 and
\* SHA-256 hash chain".  No committed row is left behind the head.
NothingSkipped ==
    \A e \in Events : tx[e] = "committed" /\ position[e] <= head.source => Chained(e)

\* The log of captured events that outbox, chain and sink stand for.
Log == INSTANCE AuditLog WITH
    captured  <- {e \in Events : tx[e] = "committed"},
    log       <- [n \in 1 .. Len(chain) |-> chain[n].event],
    copies    <- {<<c.sequence, c.event>> : c \in sink},
    confirmed <- sent

\* Outbox, chain worker, delivery and retries implement that log.
ImplementsLog == Log!Spec
=============================================================================
