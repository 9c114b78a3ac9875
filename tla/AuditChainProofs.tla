--------------------------- MODULE AuditChainProofs ---------------------------
(***************************************************************************)
(* Theorems about AuditChain, for any number of events, workers and any    *)
(* batch and page sizes.                                                   *)
(***************************************************************************)
EXTENDS AuditChain, SequenceTheorems, DataTheorems, TLAPS

-----------------------------------------------------------------------------
(***************************************************************************)
(* Batches and records                                                     *)
(***************************************************************************)
\* A function on 1 .. k is a sequence of length k.
LEMMA FunctionIsSequence ==
    ASSUME NEW S, NEW k \in Nat, NEW f \in [1 .. k -> S]
    PROVE  f \in Seq(S) /\ Len(f) = k
<1>1. f \in Seq(S)
  BY SeqDef
<1>2. Len(f) \in Nat /\ 1 .. Len(f) = 1 .. k
  BY <1>1, LenProperties
<1>3. QED BY <1>1, <1>2

\* A batch is a sequence of committed events beyond the head.
LEMMA BatchIsSequence ==
    ASSUME TypeOK, NEW after \in Nat, NEW batch \in BoundedSeq(Ready(after), ChainBatch)
    PROVE  /\ batch \in Seq(Events)
           /\ \A j \in 1 .. Len(batch) : tx[batch[j]] = "committed" /\ position[batch[j]] > after
<1>1. PICK k \in 0 .. ChainBatch : batch \in [1 .. k -> Ready(after)]
  BY DEF BoundedSeq, SeqOf
<1>2. k \in Nat
  BY BatchAssumption
<1>3. batch \in Seq(Ready(after)) /\ Len(batch) = k
  BY <1>1, <1>2, FunctionIsSequence
<1>4. \A j \in 1 .. Len(batch) : batch[j] \in Ready(after)
  BY <1>3, ElementOfSeq
<1>5. Ready(after) \subseteq Events
  BY DEF Ready
<1>6. batch \in Seq(Events)
  BY <1>3, <1>5, SeqMonotonic
<1>7. QED BY <1>4, <1>6 DEF Ready

\* Appending to the second part of a sequence is appending to the whole.
LEMMA AppendAtEnd ==
    ASSUME NEW s \in Seq(Events), NEW t \in Seq(Events), NEW e \in Events
    PROVE  s \o Append(t, e) = Append(s \o t, e)
<1> DEFINE left  == s \o Append(t, e)
           right == Append(s \o t, e)
<1>1. Append(t, e) \in Seq(Events) /\ Len(Append(t, e)) = Len(t) + 1
  BY AppendProperties
<1>2. left \in Seq(Events) /\ Len(left) = Len(s) + Len(t) + 1
  BY <1>1, ConcatProperties, LenProperties
<1>3. s \o t \in Seq(Events) /\ Len(s \o t) = Len(s) + Len(t)
  BY ConcatProperties
<1>4. right \in Seq(Events) /\ Len(right) = Len(s) + Len(t) + 1
  BY <1>3, AppendProperties
<1>5. ASSUME NEW k \in 1 .. Len(left)
      PROVE  left[k] = right[k]
  <2>1. Len(s) \in Nat /\ Len(t) \in Nat
    BY LenProperties
  <2>2. \A m \in 1 .. Len(s) + Len(t) + 1 :
            left[m] = IF m <= Len(s) THEN s[m] ELSE Append(t, e)[m - Len(s)]
    <3>1. \A m \in 1 .. Len(s) + Len(Append(t, e)) :
              left[m] = IF m <= Len(s) THEN s[m] ELSE Append(t, e)[m - Len(s)]
      BY <1>1, ConcatProperties
    <3>2. Len(s) + Len(Append(t, e)) = Len(s) + Len(t) + 1
      BY <1>1, <2>1
    <3>3. QED BY <3>1, <3>2
  <2>3. \A m \in 1 .. Len(s) + Len(t) :
            (s \o t)[m] = IF m <= Len(s) THEN s[m] ELSE t[m - Len(s)]
    BY ConcatProperties
  <2>4. /\ \A m \in 1 .. Len(s) + Len(t) : right[m] = (s \o t)[m]
        /\ right[Len(s) + Len(t) + 1] = e
    BY <1>3, AppendProperties
  <2>5. /\ \A m \in 1 .. Len(t) : Append(t, e)[m] = t[m]
        /\ Append(t, e)[Len(t) + 1] = e
    BY AppendProperties
  <2>6. k \in 1 .. Len(s) + Len(t) + 1
    BY <1>2
  <2> HIDE DEF left, right
  <2>7. CASE k <= Len(s)
    BY <2>1, <2>2, <2>3, <2>4, <2>6, <2>7
  <2>8. CASE k > Len(s) /\ k <= Len(s) + Len(t)
    <3>1. k - Len(s) \in 1 .. Len(t) /\ k \in 1 .. Len(s) + Len(t)
      BY <2>1, <2>6, <2>8
    <3>2. QED BY <2>1, <2>2, <2>3, <2>4, <2>5, <2>6, <2>8, <3>1
  <2>9. CASE k = Len(s) + Len(t) + 1
    <3>1. k - Len(s) = Len(t) + 1
      BY <2>1, <2>9
    <3>2. QED BY <2>1, <2>2, <2>4, <2>5, <2>6, <2>9, <3>1
  <2>10. QED BY <2>1, <2>6, <2>7, <2>8, <2>9
<1>6. QED BY <1>2, <1>4, <1>5, SeqEqual

\* The records of a batch go on from the head: numbers, positions and hashes.
LEMMA RecordsGoOn ==
    ASSUME TypeOK, NEW from \in HeadRow, NEW batch \in Seq(Events), batch # <<>>,
           \A j \in 1 .. Len(batch) : position[batch[j]] > 0
    PROVE  /\ Len(batch) \in Nat \ {0}
           /\ Records(from, batch) \in Seq(Record) /\ Len(Records(from, batch)) = Len(batch)
           /\ \A j \in 1 .. Len(batch) :
                 LET r == Records(from, batch)[j] IN
                 /\ r.sequence = from.sequence + j
                 /\ r.source = position[batch[j]] /\ r.event = batch[j]
                 /\ r.previous = (IF j = 1 THEN from.hash ELSE Records(from, batch)[j - 1].hash)
                 /\ r.hash = Append(r.previous, batch[j])
<1> DEFINE new == Records(from, batch)
<1>1. Len(batch) \in Nat \ {0}
  BY EmptySeq
<1>2. from.hash \in Seq(Events) /\ from.sequence \in Nat
  BY DEF HeadRow
<1>3. \A j \in 0 .. Len(batch) : from.hash \o SubSeq(batch, 1, j) \in Seq(Events)
  <2> SUFFICES ASSUME NEW j \in 0 .. Len(batch)
               PROVE  from.hash \o SubSeq(batch, 1, j) \in Seq(Events)
    OBVIOUS
  <2>1. \A i \in 1 .. j : batch[i] \in Events
    BY <1>1, ElementOfSeq
  <2>2. SubSeq(batch, 1, j) \in Seq(Events)
    BY <1>1, <2>1, SubSeqProperties
  <2>3. QED BY <1>2, <2>2, ConcatProperties
<1>4. \A j \in 1 .. Len(batch) : batch[j] \in Events
  BY ElementOfSeq
<1>5. \A j \in 1 .. Len(batch) :
         /\ new[j].sequence = from.sequence + j
         /\ new[j].source = position[batch[j]] /\ new[j].event = batch[j]
         /\ new[j].previous = from.hash \o SubSeq(batch, 1, j - 1)
         /\ new[j].hash = from.hash \o SubSeq(batch, 1, j)
  BY DEF Records
<1>6. new \in [1 .. Len(batch) -> Record]
  <2>1. ASSUME NEW j \in 1 .. Len(batch)
        PROVE  [sequence |-> from.sequence + j, source |-> position[batch[j]],
                event |-> batch[j], previous |-> from.hash \o SubSeq(batch, 1, j - 1),
                hash |-> from.hash \o SubSeq(batch, 1, j)] \in Record
    <3>1. j - 1 \in 0 .. Len(batch) /\ j \in 0 .. Len(batch)
      BY <1>1
    <3>2. from.sequence + j \in Nat \ {0}
      BY <1>1, <1>2
    <3>3. position[batch[j]] \in Nat \ {0}
      BY <1>4 DEF TypeOK
    <3>4. from.hash \o SubSeq(batch, 1, j - 1) \in Seq(Events)
      BY <1>3, <3>1
    <3>5. from.hash \o SubSeq(batch, 1, j) \in Seq(Events)
      BY <1>3, <3>1
    <3>6. QED BY <1>4, <3>2, <3>3, <3>4, <3>5 DEF Record
  <2>2. QED BY <2>1 DEF Records
<1>7. new \in Seq(Record) /\ Len(new) = Len(batch)
  BY <1>1, <1>6, FunctionIsSequence
<1>8. ASSUME NEW j \in 1 .. Len(batch)
      PROVE  new[j].previous = (IF j = 1 THEN from.hash ELSE new[j - 1].hash)
  <2>1. CASE j = 1
    <3>1. SubSeq(batch, 1, 0) = <<>>
      BY SubSeqEmpty
    <3>2. from.hash \o <<>> = from.hash
      BY <1>2, ConcatEmptySeq
    <3>3. j - 1 = 0
      BY <2>1
    <3>4. new[j].previous = from.hash \o SubSeq(batch, 1, 0)
      BY <1>5, <3>3
    <3>5. QED BY <2>1, <3>1, <3>2, <3>4
  <2>2. CASE j # 1
    <3>1. j - 1 \in 1 .. Len(batch)
      BY <1>1, <2>2
    <3>2. new[j - 1].hash = from.hash \o SubSeq(batch, 1, j - 1)
      BY <1>5, <3>1
    <3>3. QED BY <1>5, <2>2, <3>2
  <2>3. QED BY <2>1, <2>2
<1>9. ASSUME NEW j \in 1 .. Len(batch)
      PROVE  new[j].hash = Append(new[j].previous, batch[j])
  <2>1. j - 1 \in 0 .. Len(batch) /\ 1 \in 1 .. Len(batch) /\ j \in 1 .. Len(batch)
    BY <1>1
  <2>2. SubSeq(batch, 1, j) = SubSeq(batch, 1, j - 1) \o <<batch[j]>>
    BY <2>1, SubSeqRecursiveSecond
  <2>3. \A i \in 1 .. j - 1 : batch[i] \in Events
    BY <1>1, <1>4
  <2>4. SubSeq(batch, 1, j - 1) \in Seq(Events)
    BY <1>1, <2>3, SubSeqProperties
  <2>5. SubSeq(batch, 1, j) = Append(SubSeq(batch, 1, j - 1), batch[j])
    BY <1>4, <2>2, <2>4, AppendIsConcat
  <2>6. batch[j] \in Events
    BY <1>4
  <2>7. from.hash \o Append(SubSeq(batch, 1, j - 1), batch[j])
            = Append(from.hash \o SubSeq(batch, 1, j - 1), batch[j])
    BY <1>2, <2>4, <2>6, AppendAtEnd
  <2>8. QED BY <1>5, <2>5, <2>7
<1>10. QED BY <1>1, <1>5, <1>7, <1>8, <1>9

-----------------------------------------------------------------------------
(***************************************************************************)
(* Type correctness                                                        *)
(***************************************************************************)

\* Appending records extends the chain and moves the head to its last record.
LEMMA AppendRecordsExtends ==
    ASSUME TypeOK, HeadStands, NEW w \in Workers, AppendRecords(w)
    PROVE  LET new == Records(head, rows[w]) IN
           /\ Len(new) \in Nat \ {0} /\ new \in Seq(Record) /\ Len(new) = Len(rows[w])
           /\ chain' = chain \o new /\ chain' \in Seq(Record)
           /\ Len(chain) \in Nat /\ Len(chain') = Len(chain) + Len(new)
           /\ \A n \in 1 .. Len(chain) : chain'[n] = chain[n]
           /\ \A j \in 1 .. Len(new) : chain'[Len(chain) + j] = new[j]
           /\ \A j \in 1 .. Len(new) :
                 /\ new[j].sequence = head.sequence + j
                 /\ new[j].source = position[rows[w][j]] /\ new[j].event = rows[w][j]
                 /\ new[j].previous = (IF j = 1 THEN head.hash ELSE new[j - 1].hash)
                 /\ new[j].hash = Append(new[j].previous, new[j].event)
           /\ head' = [sequence |-> new[Len(new)].sequence, source |-> new[Len(new)].source,
                       hash |-> new[Len(new)].hash]
           /\ due' = due \cup {new[j].sequence : j \in 1 .. Len(new)}
<1> DEFINE new == Records(head, rows[w])
<1>1. /\ wpc[w] = "append" /\ seen[w] = head /\ rows[w] # <<>>
      /\ \A j \in 1 .. Len(rows[w]) : position[rows[w][j]] > head.source
  BY DEF AppendRecords, HeadStands
<1>2. head \in HeadRow /\ head.source \in Nat /\ rows[w] \in Seq(Events)
  BY DEF TypeOK, HeadRow
<1>3. \A j \in 1 .. Len(rows[w]) : rows[w][j] \in Events /\ position[rows[w][j]] \in Nat
  BY <1>2, ElementOfSeq DEF TypeOK
<1>4. \A j \in 1 .. Len(rows[w]) : position[rows[w][j]] > 0
  BY <1>1, <1>2, <1>3
<1>5. /\ Len(rows[w]) \in Nat \ {0}
      /\ new \in Seq(Record) /\ Len(new) = Len(rows[w])
      /\ \A j \in 1 .. Len(rows[w]) :
            /\ new[j].sequence = head.sequence + j
            /\ new[j].source = position[rows[w][j]] /\ new[j].event = rows[w][j]
            /\ new[j].previous = (IF j = 1 THEN head.hash ELSE new[j - 1].hash)
            /\ new[j].hash = Append(new[j].previous, rows[w][j])
  BY <1>1, <1>2, <1>4, RecordsGoOn
<1>6. /\ chain' = chain \o new
      /\ head' = [sequence |-> new[Len(new)].sequence, source |-> new[Len(new)].source,
                  hash |-> new[Len(new)].hash]
      /\ due' = due \cup {new[j].sequence : j \in 1 .. Len(new)}
  BY <1>1 DEF AppendRecords
<1> HIDE DEF new
<1>7. chain \in Seq(Record) /\ Len(chain) \in Nat
  BY LenProperties DEF TypeOK
<1>8. /\ chain \o new \in Seq(Record) /\ Len(chain \o new) = Len(chain) + Len(new)
      /\ \A n \in 1 .. Len(chain) + Len(new) :
            (chain \o new)[n] = IF n <= Len(chain) THEN chain[n] ELSE new[n - Len(chain)]
  <2>1. chain \in Seq(Record) /\ new \in Seq(Record)
    BY <1>5, <1>7
  <2>2. QED BY <2>1, ConcatProperties, Zenon
<1>9. \A n \in 1 .. Len(chain) : chain'[n] = chain[n]
  BY <1>5, <1>6, <1>7, <1>8
<1>10. ASSUME NEW j \in 1 .. Len(new)
       PROVE  chain'[Len(chain) + j] = new[j]
  <2>1. /\ Len(chain) + j \in 1 .. Len(chain) + Len(new) /\ ~(Len(chain) + j <= Len(chain))
        /\ (Len(chain) + j) - Len(chain) = j
    BY <1>5, <1>7
  <2>2. QED BY <1>6, <1>8, <2>1
<1>11. QED BY <1>5, <1>6, <1>7, <1>8, <1>9, <1>10 DEF new

\* An entry of the chain has a copy that the sink can take.
LEMMA CopyTyped ==
    ASSUME TypeOK, NEW n \in 1 .. Len(chain)
    PROVE  chain[n] \in Record /\ CopyOf(chain[n]) \in SinkEntry
<1>1. chain[n] \in Record
  BY ElementOfSeq DEF TypeOK
<1>2. QED BY <1>1 DEF CopyOf, Record, SinkEntry

\* A run that is recorded is well formed.
LEMMA ReportTyped ==
    ASSUME TypeOK, NEW status \in {"PASS", "FAIL"}, NEW n \in Nat, NEW kind \in Kinds,
           Report(status, n, kind)
    PROVE  /\ runs' \subseteq [status : {"PASS", "FAIL"}, high : Nat, hash : Seq(Events),
                               at : Nat, kind : Kinds]
           /\ verifier' \in [on : BOOLEAN, high : Nat, hash : Seq(Events), done : Nat]
<1>1. verifier.high \in Nat /\ verifier.hash \in Seq(Events)
  BY DEF TypeOK
<1>2. [status |-> status, high |-> verifier.high, hash |-> verifier.hash, at |-> n, kind |-> kind]
         \in [status : {"PASS", "FAIL"}, high : Nat, hash : Seq(Events), at : Nat, kind : Kinds]
  BY <1>1
<1>3. runs' \subseteq [status : {"PASS", "FAIL"}, high : Nat, hash : Seq(Events), at : Nat, kind : Kinds]
  BY <1>2 DEF TypeOK, Report
<1>4. <<>> \in Seq(Events)
  BY EmptySeq
<1>5. verifier' \in [on : BOOLEAN, high : Nat, hash : Seq(Events), done : Nat]
  BY <1>4 DEF Report, NoRun
<1>6. QED BY <1>3, <1>5

\* So is what the verifier holds after a page.
LEMMA VerifyPageTyped ==
    ASSUME TypeOK, VerifyPage
    PROVE  /\ UNCHANGED <<outbox, chain, head, delivery, worker>>
           /\ runs' \subseteq [status : {"PASS", "FAIL"}, high : Nat, hash : Seq(Events),
                               at : Nat, kind : Kinds]
           /\ verifier' \in [on : BOOLEAN, high : Nat, hash : Seq(Events), done : Nat]
<1>1. UNCHANGED <<outbox, chain, head, delivery, worker>>
  BY DEF VerifyPage
<1>2. verifier.done \in Nat /\ verifier.high \in Nat
  BY DEF TypeOK
<1>3. PICK page :
         LET wrong == {n \in Compared(page) : Mismatches(n, page) # {}} IN
         \/ \E n \in wrong : \E kind \in Mismatches(n, page) : Report("FAIL", n, kind)
         \/ /\ verifier' = [verifier EXCEPT !.done = @ + Cardinality(Compared(page))]
            /\ UNCHANGED runs
         \/ Report("PASS", 0, "NONE")
         \/ Report("FAIL", verifier.high, "CAPTURED_HEAD_MISMATCH")
  BY DEF VerifyPage
<1>4. ASSUME NEW n \in Compared(page), NEW kind \in Mismatches(n, page)
      PROVE  n \in Nat /\ kind \in Kinds
  BY <1>2 DEF Compared, Mismatches, Kinds
<1>5. Cardinality(Compared(page)) \in Nat
  <2>1. IsFiniteSet(verifier.done + 1 .. verifier.high)
    <3>1. verifier.done + 1 \in Int /\ verifier.high \in Int
      BY <1>2
    <3>2. \A a, b \in Int : IsFiniteSet(a .. b)
      BY FS_Interval
    <3>3. QED BY <3>1, <3>2, Zenon
  <2>2. Compared(page) \subseteq verifier.done + 1 .. verifier.high
    BY DEF Compared
  <2>3. QED BY <2>1, <2>2, FS_Subset, FS_CardinalityType
<1>6. CASE \E n \in Compared(page) : \E kind \in Mismatches(n, page) : Report("FAIL", n, kind)
  BY <1>1, <1>4, <1>6, ReportTyped
<1>7. CASE /\ verifier' = [verifier EXCEPT !.done = @ + Cardinality(Compared(page))]
           /\ UNCHANGED runs
  <2>1. \A m \in Nat : [verifier EXCEPT !.done = @ + m]
                          \in [on : BOOLEAN, high : Nat, hash : Seq(Events), done : Nat]
    <3>1. verifier \in [on : BOOLEAN, high : Nat, hash : Seq(Events), done : Nat]
      BY DEF TypeOK
    <3>2. \A m \in Nat : verifier.done + m \in Nat
      BY <1>2
    <3>3. QED BY <3>1, <3>2
  <2>2. runs' = runs
    BY <1>7
  <2>3. QED BY <1>1, <1>5, <1>7, <2>1, <2>2 DEF TypeOK
<1>8. CASE Report("PASS", 0, "NONE") \/ Report("FAIL", verifier.high, "CAPTURED_HEAD_MISMATCH")
  <2>1. "NONE" \in Kinds /\ "CAPTURED_HEAD_MISMATCH" \in Kinds
    BY DEF Kinds
  <2>2. QED BY <1>1, <1>2, <1>8, <2>1, ReportTyped
<1>9. QED BY <1>3, <1>6, <1>7, <1>8

\* The initial state is well formed.
LEMMA InitTyped == Init => TypeOK
<1>1. <<>> \in Seq(Events) /\ <<>> \in Seq(Record)
  BY EmptySeq
<1>2. Genesis \in HeadRow
  BY <1>1 DEF Genesis, HeadRow
<1>3. NoRun \in [on : BOOLEAN, high : Nat, hash : Seq(Events), done : Nat]
  BY <1>1 DEF NoRun
<1>4. QED BY <1>1, <1>2, <1>3 DEF Init, TypeOK

\* Every step keeps the type invariant.
LEMMA NextTyped == TypeOK /\ HeadStands /\ WorkersDeliver /\ [Next]_vars => TypeOK'
<1> SUFFICES ASSUME TypeOK, HeadStands, WorkersDeliver, [Next]_vars
             PROVE  TypeOK'
  OBVIOUS
<1> USE DEF outbox, delivery, worker, verify
<1>1. ASSUME NEW e \in Events, AppendEvent(e)
      PROVE  TypeOK'
  BY <1>1 DEF AppendEvent, TypeOK
<1>2. ASSUME NEW e \in Events, NEW outcome \in {"committed", "aborted"}, EndTransaction(e, outcome)
      PROVE  TypeOK'
  BY <1>2 DEF EndTransaction, TypeOK
<1>3. ASSUME NEW w \in Workers, ReadOutbox(w)
      PROVE  TypeOK'
  <2>1. head.source \in Nat
    BY DEF TypeOK, HeadRow
  <2>2. PICK batch \in BoundedSeq(Ready(head.source), ChainBatch) :
           rows' = [rows EXCEPT ![w] = batch]
    BY <1>3 DEF ReadOutbox
  <2>3. batch \in Seq(Events)
    BY <2>1, BatchIsSequence
  <2>4. rows' \in [Workers -> Seq(Events)]
    BY <2>2, <2>3 DEF TypeOK
  <2>5. QED BY <1>3, <2>4 DEF ReadOutbox, TypeOK
<1>4. ASSUME NEW w \in Workers, FindNothing(w) \/ Halt(w) \/ Restart(w)
      PROVE  TypeOK'
  BY <1>4 DEF FindNothing, Halt, Restart, TypeOK
<1>5. ASSUME NEW w \in Workers, AppendRecords(w)
      PROVE  TypeOK'
  <2> DEFINE new == Records(head, rows[w])
  <2>1. /\ Len(new) \in Nat \ {0} /\ new \in Seq(Record) /\ chain' \in Seq(Record)
        /\ head' = [sequence |-> new[Len(new)].sequence, source |-> new[Len(new)].source,
                    hash |-> new[Len(new)].hash]
        /\ due' = due \cup {new[j].sequence : j \in 1 .. Len(new)}
    BY <1>5, AppendRecordsExtends
  <2> HIDE DEF new
  <2>2. \A j \in 1 .. Len(new) : new[j] \in Record
    BY <2>1, ElementOfSeq
  <2>3. \A j \in 1 .. Len(new) :
           new[j].sequence \in Nat /\ new[j].source \in Nat /\ new[j].hash \in Seq(Events)
    BY <2>2 DEF Record
  <2>4. head' \in HeadRow
    <3>1. Len(new) \in 1 .. Len(new)
      BY <2>1
    <3>2. QED BY <2>1, <2>3, <3>1 DEF HeadRow
  <2>7. due' \subseteq Nat
    BY <2>1, <2>3 DEF TypeOK
  <2>5. /\ wpc' \in [Workers -> {"chain", "append", "sink", "deliver", "mark", "stopped"}]
        /\ headLock' \in Workers \cup {None} /\ rows' \in [Workers -> Seq(Events)]
        /\ UNCHANGED <<outbox, sent, sink, seen, todo, verify>>
    <3>1. <<>> \in Seq(Events)
      BY EmptySeq
    <3>2. QED BY <1>5, <3>1 DEF AppendRecords, TypeOK
  <2>8. QED BY <2>1, <2>4, <2>5, <2>7 DEF TypeOK
<1>6. ASSUME NEW w \in Workers, ListPending(w)
      PROVE  TypeOK'
  <2>1. PICK batch \in SUBSET Pending :
           /\ todo' = [todo EXCEPT ![w] = batch]
           /\ wpc'  = [wpc  EXCEPT ![w] = IF batch = {} THEN "chain" ELSE "deliver"]
    BY <1>6 DEF ListPending
  <2>2. batch \subseteq Nat
    BY DEF Pending, TypeOK
  <2>3. QED BY <1>6, <2>1, <2>2 DEF ListPending, TypeOK
<1>7. ASSUME NEW w \in Workers, NEW n \in todo[w], Deliver(w, n)
      PROVE  TypeOK'
  <2>1. n \in 1 .. Len(chain) /\ n \in Nat
    BY DEF WorkersDeliver, TypeOK
  <2>2. CopyOf(chain[n]) \in SinkEntry
    BY <2>1, CopyTyped
  <2>3. CASE SinkAppend(w, n)
    BY <2>2, <2>3 DEF SinkAppend, TypeOK
  <2>4. CASE MarkSinkDelivered(w, n)
    BY <2>1, <2>4 DEF MarkSinkDelivered, Advance, TypeOK
  <2>5. CASE ScheduleSinkRetry(w, n)
    BY <2>2, <2>5 DEF ScheduleSinkRetry, Advance, TypeOK
  <2>6. QED BY <1>7, <2>3, <2>4, <2>5 DEF Deliver
<1>8. ASSUME NEW w \in Workers, Crash(w)
      PROVE  TypeOK'
  <2>1. <<>> \in Seq(Events)
    BY EmptySeq
  <2>2. QED BY <1>8, <2>1 DEF Crash, TypeOK
<1>9. ASSUME NEW n \in 1 .. Len(chain), RetryComesDue(n)
      PROVE  TypeOK'
  <2>1. n \in Nat
    BY LenProperties DEF TypeOK
  <2>2. QED BY <1>9, <2>1 DEF RetryComesDue, TypeOK
<1>10. CASE StartVerification \/ AbandonVerification
  <2>1. head.sequence \in Nat /\ head.hash \in Seq(Events) /\ <<>> \in Seq(Events)
    <3>1. <<>> \in Seq(Events)
      BY EmptySeq
    <3>2. QED BY <3>1 DEF TypeOK, HeadRow
  <2>2. verifier' \in [on : BOOLEAN, high : Nat, hash : Seq(Events), done : Nat]
    <3>1. CASE StartVerification
      <4>1. verifier' = [on |-> TRUE, high |-> head.sequence, hash |-> head.hash, done |-> 0]
        BY <3>1 DEF StartVerification
      <4>2. QED BY <2>1, <4>1
    <3>2. CASE AbandonVerification
      BY <2>1, <3>2 DEF AbandonVerification, NoRun
    <3>3. QED BY <1>10, <3>1, <3>2
  <2>3. QED BY <1>10, <2>2 DEF StartVerification, AbandonVerification, TypeOK
<1>11. CASE VerifyPage
  BY <1>11, VerifyPageTyped DEF TypeOK
<1>12. CASE UNCHANGED vars
  BY <1>12 DEF vars, TypeOK
<1>13. QED
  BY <1>1, <1>2, <1>3, <1>4, <1>5, <1>6, <1>7, <1>8, <1>9, <1>10, <1>11, <1>12
     DEF Next, Business, Work

-----------------------------------------------------------------------------
(***************************************************************************)
(* The inductive invariant                                                 *)
(***************************************************************************)

\* What steps other than those of the chain worker leave as it is.
LEMMA ChainStands ==
    ASSUME TypeOK, ChainLinked, UNCHANGED <<chain, head>>,
           \A e \in Events : tx[e] = "committed" =>
               tx'[e] = "committed" /\ position'[e] = position[e]
    PROVE  ChainLinked'
<1>1. \A n \in 1 .. Len(chain) : chain[n].event \in Events
  BY CopyTyped DEF Record
<1>2. \A n \in 1 .. Len(chain) :
         tx'[chain[n].event] = "committed" /\ position'[chain[n].event] = position[chain[n].event]
  BY <1>1 DEF ChainLinked
<1>3. QED BY <1>2 DEF ChainLinked, Before

\* Every step keeps positions unique: the counter only grows.
LEMMA NextPositions == TypeOK /\ PositionsGivenOnce /\ [Next]_vars => PositionsGivenOnce'
<1> SUFFICES ASSUME TypeOK, PositionsGivenOnce, [Next]_vars
             PROVE  PositionsGivenOnce'
  OBVIOUS
<1>1. ASSUME NEW e \in Events, AppendEvent(e)
      PROVE  PositionsGivenOnce'
  BY <1>1 DEF AppendEvent, PositionsGivenOnce, TypeOK
<1>2. ASSUME NEW e \in Events, NEW outcome \in {"committed", "aborted"}, EndTransaction(e, outcome)
      PROVE  PositionsGivenOnce'
  BY <1>2 DEF EndTransaction, PositionsGivenOnce, TypeOK
<1>3. CASE UNCHANGED outbox
  BY <1>3 DEF outbox, PositionsGivenOnce
<1>4. QED
  BY <1>1, <1>2, <1>3
     DEF Next, Business, Work, Deliver, ReadOutbox, FindNothing, Halt, AppendRecords, ListPending,
         SinkAppend, MarkSinkDelivered, ScheduleSinkRetry, Crash, Restart, RetryComesDue,
         StartVerification, VerifyPage, AbandonVerification, vars, outbox

\* The head row is the last entry.
LEMMA HeadIsLast ==
    ASSUME TypeOK, ChainLinked
    PROVE  /\ Len(chain) \in Nat
           /\ head.sequence = Len(chain) /\ head.hash = Before(Len(chain) + 1).hash
           /\ \A m \in 1 .. Len(chain) : chain[m].source \in Nat /\ chain[m].source <= head.source
<1>1. Len(chain) \in Nat
  BY LenProperties DEF TypeOK
<1>2. \A m \in 1 .. Len(chain) : chain[m].source \in Nat
  BY CopyTyped DEF Record
<1>3. CASE Len(chain) = 0
  BY <1>1, <1>3 DEF ChainLinked, Before, Genesis
<1>4. CASE Len(chain) # 0
  <2>1. Len(chain) \in 1 .. Len(chain) /\ Before(Len(chain) + 1) = chain[Len(chain)]
    BY <1>1, <1>4 DEF Before
  <2>2. head.sequence = Len(chain) /\ head.hash = Before(Len(chain) + 1).hash
           /\ head.source = chain[Len(chain)].source
    BY <2>1 DEF ChainLinked
  <2>3. \A m \in 1 .. Len(chain) : chain[m].source <= chain[Len(chain)].source
    BY <1>1, <1>2, <2>1 DEF ChainLinked
  <2>4. QED BY <1>1, <1>2, <2>2, <2>3
<1>5. QED BY <1>3, <1>4

\* The entry a record is linked to.
Prior(entries, n) == IF n = 1 THEN Genesis ELSE entries[n - 1]

Longer(old, size, entries, new, longer) ==
    /\ \A n \in 1 .. old : longer[n] = entries[n]
    /\ \A j \in 1 .. size : longer[old + j] = new[j]

Linked(size, entries) ==
    \A n \in 1 .. size : entries[n].sequence = n /\ entries[n].previous = Prior(entries, n).hash

GoOn(old, size, entries, new) ==
    \A j \in 1 .. size :
        /\ new[j].sequence = old + j
        /\ new[j].previous = (IF j = 1 THEN Prior(entries, old + 1) ELSE new[j - 1]).hash

\* A linked chain of length old, continued by size records that go on from its
\* last entry, is linked.
LEMMA LinkedGoesOn ==
    ASSUME NEW old \in Nat, NEW size \in Nat \ {0}, NEW entries, NEW new, NEW longer,
           Longer(old, size, entries, new, longer),
           Linked(old, entries), GoOn(old, size, entries, new)
    PROVE  Linked(old + size, longer) /\ Prior(longer, old + size + 1) = new[size]
<1> USE DEF Longer, Linked, GoOn
<1>1. ASSUME NEW n \in 1 .. old
      PROVE  longer[n].sequence = n /\ longer[n].previous = Prior(longer, n).hash
  <2>1. n # 1 => n - 1 \in 1 .. old
    OBVIOUS
  <2>2. Prior(longer, n) = Prior(entries, n)
    BY <2>1 DEF Prior
  <2>3. QED BY <2>2
<1>2. ASSUME NEW j \in 1 .. size
      PROVE  longer[old + j].sequence = old + j
             /\ longer[old + j].previous = Prior(longer, old + j).hash
  <2>1. CASE j = 1
    <3>1. old # 0 => old \in 1 .. old
      OBVIOUS
    <3>2. Prior(longer, old + 1) = Prior(entries, old + 1)
      BY <3>1 DEF Prior
    <3>3. new[1].previous = Prior(entries, old + 1).hash /\ new[1].sequence = old + 1
      BY <2>1
    <3>4. longer[old + 1] = new[1]
      BY <2>1
    <3>5. QED BY <2>1, <3>2, <3>3, <3>4
  <2>2. CASE j # 1
    <3>1. j - 1 \in 1 .. size /\ (old + j) - 1 = old + (j - 1) /\ old + j # 1
      BY <2>2
    <3>2. longer[old + (j - 1)] = new[j - 1]
      BY <3>1
    <3>3. Prior(longer, old + j) = new[j - 1]
      BY <3>1, <3>2 DEF Prior
    <3>4. QED BY <2>2, <3>3
  <2>3. QED BY <2>1, <2>2
<1>3. ASSUME NEW n \in 1 .. old + size
      PROVE  longer[n].sequence = n /\ longer[n].previous = Prior(longer, n).hash
  <2>1. CASE n > old
    <3>1. n - old \in 1 .. size /\ n = old + (n - old)
      BY <2>1
    <3>2. QED BY <1>2, <3>1
  <2>2. QED BY <1>1, <2>1
<1>4. Prior(longer, old + size + 1) = new[size]
  <2>1. size \in 1 .. size /\ (old + size + 1) - 1 = old + size /\ old + size + 1 # 1
    OBVIOUS
  <2>2. longer[old + size] = new[size]
    BY <2>1
  <2>3. QED BY <2>1, <2>2 DEF Prior
<1>5. QED BY <1>3, <1>4

\* The entries are in the order of their places in the outbox.
Ordered(size, entries) ==
    \A m, n \in 1 .. size : m < n => entries[m].source < entries[n].source

\* It stays in that order if what is added lies beyond all it has.
LEMMA OrderGoesOn ==
    ASSUME NEW old \in Nat, NEW size \in Nat \ {0}, NEW entries, NEW new, NEW longer,
           NEW last \in Nat,
           Longer(old, size, entries, new, longer), Ordered(old, entries), Ordered(size, new),
           \A n \in 1 .. old : entries[n].source \in Nat /\ entries[n].source <= last,
           \A j \in 1 .. size : new[j].source \in Nat /\ new[j].source > last
    PROVE  Ordered(old + size, longer)
<1> USE DEF Longer, Ordered
<1> SUFFICES ASSUME NEW m \in 1 .. old + size, NEW n \in 1 .. old + size, m < n
             PROVE  longer[m].source < longer[n].source
  OBVIOUS
<1>1. ASSUME NEW k \in 1 .. old + size, k > old
      PROVE  k - old \in 1 .. size /\ longer[k] = new[k - old]
  <2>1. k - old \in 1 .. size /\ k = old + (k - old)
    BY <1>1
  <2>2. QED BY <2>1
<1>2. CASE n <= old
  BY <1>2
<1>3. CASE m <= old /\ n > old
  <2>1. longer[n] = new[n - old] /\ n - old \in 1 .. size /\ m \in 1 .. old
    BY <1>1, <1>3
  <2>2. longer[m].source <= last /\ longer[m].source \in Nat
    BY <2>1
  <2>3. longer[n].source > last /\ longer[n].source \in Nat
    BY <2>1
  <2>4. QED BY <2>2, <2>3
<1>4. CASE m > old
  <2>1. longer[m] = new[m - old] /\ m - old \in 1 .. size
    BY <1>1, <1>4
  <2>2. longer[n] = new[n - old] /\ n - old \in 1 .. size
    BY <1>1, <1>4
  <2>3. m - old < n - old
    OBVIOUS
  <2>4. QED BY <2>1, <2>2, <2>3
<1>5. QED BY <1>2, <1>3, <1>4

\* The append keeps the chain linked: it goes on from the head that was read
\* under the lock, which is still the last entry.
LEMMA AppendRecordsLinked ==
    ASSUME TypeOK, ChainLinked, HeadStands, NEW w \in Workers, AppendRecords(w)
    PROVE  ChainLinked'
<1> PICK new : new = Records(head, rows[w])
  OBVIOUS
<1> PICK size : size = Len(rows[w])
  OBVIOUS
<1> PICK old : old = Len(chain)
  OBVIOUS
<1> PICK longer : longer = chain'
  OBVIOUS
<1>1. /\ size \in Nat \ {0} /\ size = Len(new)
      /\ old \in Nat /\ Len(longer) = old + size
      /\ \A n \in 1 .. old : longer[n] = chain[n]
      /\ \A j \in 1 .. size : longer[old + j] = new[j]
      /\ \A j \in 1 .. size :
            /\ new[j].sequence = head.sequence + j
            /\ new[j].source = position[rows[w][j]] /\ new[j].event = rows[w][j]
            /\ new[j].previous = (IF j = 1 THEN head.hash ELSE new[j - 1].hash)
            /\ new[j].hash = Append(new[j].previous, new[j].event)
      /\ head' = [sequence |-> new[size].sequence, source |-> new[size].source,
                  hash |-> new[size].hash]
  <2> DEFINE these == Records(head, rows[w])
  <2>1. /\ Len(these) \in Nat \ {0} /\ Len(these) = Len(rows[w])
        /\ Len(chain) \in Nat /\ Len(chain') = Len(chain) + Len(these)
        /\ \A n \in 1 .. Len(chain) : chain'[n] = chain[n]
        /\ \A j \in 1 .. Len(these) : chain'[Len(chain) + j] = these[j]
        /\ \A j \in 1 .. Len(these) :
              /\ these[j].sequence = head.sequence + j
              /\ these[j].source = position[rows[w][j]] /\ these[j].event = rows[w][j]
              /\ these[j].previous = (IF j = 1 THEN head.hash ELSE these[j - 1].hash)
              /\ these[j].hash = Append(these[j].previous, these[j].event)
        /\ head' = [sequence |-> these[Len(these)].sequence, source |-> these[Len(these)].source,
                    hash |-> these[Len(these)].hash]
    BY AppendRecordsExtends
  <2>2. new = these
    OBVIOUS
  <2> HIDE DEF these
  <2>3. Len(these) = size
    BY <2>1
  <2>4. /\ Len(new) = size
        /\ \A j \in 1 .. size : longer[old + j] = new[j]
        /\ \A n \in 1 .. old : longer[n] = chain[n]
        /\ size \in Nat \ {0} /\ old \in Nat /\ Len(longer) = old + size
    BY <2>1, <2>2, <2>3
  <2>5. \A j \in 1 .. size :
           /\ new[j].sequence = head.sequence + j
           /\ new[j].source = position[rows[w][j]] /\ new[j].event = rows[w][j]
           /\ new[j].previous = (IF j = 1 THEN head.hash ELSE new[j - 1].hash)
           /\ new[j].hash = Append(new[j].previous, new[j].event)
    BY <2>1, <2>2, <2>3
  <2>6. head' = [sequence |-> new[size].sequence, source |-> new[size].source,
                 hash |-> new[size].hash]
    BY <2>1, <2>2, <2>3
  <2>7. QED BY <2>4, <2>5, <2>6
<1>2. /\ \A j \in 1 .. size :
            /\ tx[rows[w][j]] = "committed" /\ rows[w][j] \notin Poison
            /\ position[rows[w][j]] > head.source
      /\ \A j, k \in 1 .. size : j < k => position[rows[w][j]] < position[rows[w][k]]
  BY DEF AppendRecords, HeadStands
<1>3. /\ head.sequence = old /\ head.hash = Prior(chain, old + 1).hash
      /\ \A m \in 1 .. old : chain[m].source \in Nat /\ chain[m].source <= head.source
  BY HeadIsLast DEF Before, Prior
<1>4. UNCHANGED <<tx, position>>
  BY DEF AppendRecords, outbox
<1>5. head.source \in Nat /\ \A j \in 1 .. size : position[rows[w][j]] \in Nat
  <2>1. rows[w] \in Seq(Events)
    BY DEF TypeOK
  <2>2. \A j \in 1 .. size : rows[w][j] \in Events
    BY <2>1, ElementOfSeq
  <2>3. QED BY <2>2 DEF TypeOK, HeadRow
<1>6. /\ \A n \in 1 .. old :
            /\ chain[n].hash = Append(chain[n].previous, chain[n].event)
            /\ chain[n].source = position[chain[n].event]
            /\ tx[chain[n].event] = "committed" /\ chain[n].event \notin Poison
      /\ Linked(old, chain) /\ Ordered(old, chain)
  BY DEF ChainLinked, Before, Prior, Linked, Ordered
<1>7. Longer(old, size, chain, new, longer)
  BY <1>1 DEF Longer
<1>8. Linked(old + size, longer) /\ Prior(longer, old + size + 1) = new[size]
  <2>1. ASSUME NEW j \in 1 .. size
        PROVE  /\ new[j].sequence = old + j
               /\ new[j].previous = (IF j = 1 THEN Prior(chain, old + 1) ELSE new[j - 1]).hash
    <3>1. new[j].sequence = old + j
      BY <1>1, <1>3
    <3>2. new[j].previous = (IF j = 1 THEN head.hash ELSE new[j - 1].hash)
      BY <1>1
    <3>3. CASE j = 1
      BY <1>3, <3>1, <3>2, <3>3, Zenon
    <3>4. CASE j # 1
      BY <3>1, <3>2, <3>4, Zenon
    <3> QED  BY <3>3, <3>4
  <2>2. GoOn(old, size, chain, new)
    BY <2>1, Zenon DEF GoOn
  <2>3. QED BY <1>1, <1>6, <1>7, <2>2, LinkedGoesOn
<1>9. Ordered(old + size, longer)
  <2>1. \A j \in 1 .. size : new[j].source \in Nat /\ new[j].source > head.source
    BY <1>1, <1>2, <1>5
  <2>2. Ordered(size, new)
    BY <1>1, <1>2 DEF Ordered
  <2>3. QED BY <1>1, <1>3, <1>5, <1>6, <1>7, <2>1, <2>2, OrderGoesOn
<1>10. ASSUME NEW n \in 1 .. old + size
       PROVE  /\ longer[n].hash = Append(longer[n].previous, longer[n].event)
              /\ longer[n].source = position[longer[n].event]
              /\ tx[longer[n].event] = "committed" /\ longer[n].event \notin Poison
  <2>1. CASE n <= old
    <3>1. n \in 1 .. old
      BY <1>1, <2>1
    <3>2. longer[n] = chain[n]
      BY <1>7, <3>1 DEF Longer
    <3>3. QED BY <1>6, <3>1, <3>2
  <2>2. CASE n > old
    <3>1. PICK j \in 1 .. size : n = old + j
      <4>1. n - old \in 1 .. size /\ n = old + (n - old)
        BY <1>1, <2>2
      <4>2. QED BY <4>1
    <3>2. longer[n] = new[j]
      BY <1>7, <3>1 DEF Longer
    <3>3. /\ new[j].source = position[rows[w][j]] /\ new[j].event = rows[w][j]
          /\ new[j].hash = Append(new[j].previous, new[j].event)
      BY <1>1
    <3>4. tx[rows[w][j]] = "committed" /\ rows[w][j] \notin Poison
      BY <1>2
    <3>5. QED BY <3>2, <3>3, <3>4
  <2>3. n \in Nat
    BY <1>1
  <2>4. QED BY <1>1, <2>1, <2>2, <2>3
<1>11. head' = LET last == Prior(longer, old + size + 1) IN
               [sequence |-> last.sequence, source |-> last.source, hash |-> last.hash]
  BY <1>1, <1>8
<1>12. Len(longer) = old + size
  BY <1>1
<1>13. QED BY <1>4, <1>8, <1>9, <1>10, <1>11, <1>12 DEF ChainLinked, Before, Prior, Linked, Ordered

\* Every step keeps the chain linked.
LEMMA NextLinked == TypeOK /\ ChainLinked /\ HeadStands /\ [Next]_vars => ChainLinked'
<1> SUFFICES ASSUME TypeOK, ChainLinked, HeadStands, [Next]_vars
             PROVE  ChainLinked'
  OBVIOUS
<1>1. ASSUME NEW e \in Events, AppendEvent(e)
      PROVE  ChainLinked'
  BY <1>1, ChainStands DEF AppendEvent, TypeOK
<1>2. ASSUME NEW e \in Events, NEW outcome \in {"committed", "aborted"}, EndTransaction(e, outcome)
      PROVE  ChainLinked'
  BY <1>2, ChainStands DEF EndTransaction, TypeOK
<1>3. ASSUME NEW w \in Workers, AppendRecords(w)
      PROVE  ChainLinked'
  BY <1>3, AppendRecordsLinked
<1>4. CASE UNCHANGED <<outbox, chain, head>>
  BY <1>4, ChainStands DEF outbox
<1>5. QED
  BY <1>1, <1>2, <1>3, <1>4
     DEF Next, Business, Work, Deliver, ReadOutbox, FindNothing, Halt, ListPending,
         SinkAppend, MarkSinkDelivered, ScheduleSinkRetry, Crash, Restart, RetryComesDue,
         StartVerification, VerifyPage, AbandonVerification, vars

\* What leaves the head, the lock and what was read under it as they are.
LEMMA ReadStands ==
    ASSUME TypeOK, HeadStands, UNCHANGED <<head, headLock, seen, rows>>,
           \A w \in Workers : wpc'[w] = "append" <=> wpc[w] = "append",
           \A e \in Events : tx[e] = "committed" =>
               tx'[e] = "committed" /\ position'[e] = position[e]
    PROVE  HeadStands'
<1>1. headLock' # None => wpc'[headLock'] = "append"
  BY DEF TypeOK, HeadStands
<1>2. ASSUME NEW w \in Workers, wpc'[w] = "append"
      PROVE  /\ headLock' = w /\ seen'[w] = head' /\ rows'[w] # <<>>
             /\ \A j \in 1 .. Len(rows'[w]) :
                   /\ tx'[rows'[w][j]] = "committed" /\ rows'[w][j] \notin Poison
                   /\ position'[rows'[w][j]] > head'.source
             /\ \A j, k \in 1 .. Len(rows'[w]) :
                   j < k => position'[rows'[w][j]] < position'[rows'[w][k]]
  <2>1. rows[w] \in Seq(Events)
    BY DEF TypeOK
  <2>2. \A j \in 1 .. Len(rows[w]) : rows[w][j] \in Events
    BY <2>1, ElementOfSeq
  <2>3. /\ headLock = w /\ seen[w] = head /\ rows[w] # <<>>
        /\ \A j \in 1 .. Len(rows[w]) :
              /\ tx[rows[w][j]] = "committed" /\ rows[w][j] \notin Poison
              /\ position[rows[w][j]] > head.source
        /\ \A j, k \in 1 .. Len(rows[w]) : j < k => position[rows[w][j]] < position[rows[w][k]]
    BY <1>2 DEF HeadStands
  <2>4. \A j \in 1 .. Len(rows[w]) :
           tx'[rows[w][j]] = "committed" /\ position'[rows[w][j]] = position[rows[w][j]]
    BY <2>2, <2>3
  <2>5. QED BY <2>3, <2>4
<1>3. QED BY <1>1, <1>2 DEF HeadStands

\* Every step keeps what was read under the lock on the head true.
LEMMA NextHeadStands == TypeOK /\ HeadStands /\ [Next]_vars => HeadStands'
<1> SUFFICES ASSUME TypeOK, HeadStands, [Next]_vars
             PROVE  HeadStands'
  OBVIOUS
<1>1. ASSUME NEW e \in Events, AppendEvent(e)
      PROVE  HeadStands'
  BY <1>1, ReadStands DEF AppendEvent, worker, TypeOK
<1>2. ASSUME NEW e \in Events, NEW outcome \in {"committed", "aborted"}, EndTransaction(e, outcome)
      PROVE  HeadStands'
  BY <1>2, ReadStands DEF EndTransaction, worker, TypeOK
<1>3. ASSUME NEW w \in Workers, ReadOutbox(w)
      PROVE  HeadStands'
  <2>1. PICK batch \in BoundedSeq(Ready(head.source), ChainBatch) :
           /\ batch # <<>> /\ IsBatch(batch, Ready(head.source)) /\ ~HasPoison(batch)
           /\ rows' = [rows EXCEPT ![w] = batch]
    BY <1>3 DEF ReadOutbox
  <2>2. /\ batch \in Seq(Events)
        /\ \A j \in 1 .. Len(batch) : tx[batch[j]] = "committed" /\ position[batch[j]] > head.source
    <3>1. head.source \in Nat
      BY DEF TypeOK, HeadRow
    <3>2. QED BY <3>1, BatchIsSequence
  <2>3. /\ \A j \in 1 .. Len(batch) : batch[j] \notin Poison
        /\ \A j, k \in 1 .. Len(batch) : j < k => position[batch[j]] < position[batch[k]]
    BY <2>1 DEF HasPoison, IsBatch
  <2>4. /\ headLock' = w /\ seen'[w] = head /\ wpc'[w] = "append" /\ rows'[w] = batch
        /\ UNCHANGED <<tx, position, head>>
        /\ \A v \in Workers \ {w} : wpc'[v] = wpc[v] /\ seen'[v] = seen[v] /\ rows'[v] = rows[v]
    BY <1>3, <2>1 DEF ReadOutbox, outbox, TypeOK
  <2>5. \A v \in Workers : wpc[v] # "append"
    BY <1>3, WorkerAssumption DEF ReadOutbox, HeadLockFree, HeadStands
  <2>6. \A v \in Workers : wpc'[v] = "append" => v = w
    BY <2>4, <2>5
  <2>7. QED BY <2>1, <2>2, <2>3, <2>4, <2>6 DEF HeadStands
<1>4. ASSUME NEW w \in Workers, AppendRecords(w)
      PROVE  HeadStands'
  <2>1. headLock' = None /\ \A v \in Workers : wpc'[v] # "append"
    BY <1>4 DEF AppendRecords, HeadStands, TypeOK
  <2>2. QED BY <2>1 DEF HeadStands
<1>5. ASSUME NEW w \in Workers, Crash(w)
      PROVE  HeadStands'
  <2>1. /\ \A v \in Workers \ {w} : wpc'[v] = wpc[v] /\ seen'[v] = seen[v] /\ rows'[v] = rows[v]
        /\ wpc'[w] = "stopped" /\ UNCHANGED <<tx, position, head>>
        /\ headLock' = IF headLock = w THEN None ELSE headLock
    BY <1>5 DEF Crash, outbox, TypeOK
  <2>2. headLock' # None => wpc'[headLock'] = "append"
    BY <2>1 DEF HeadStands, TypeOK
  <2>3. \A v \in Workers : wpc'[v] = "append" =>
           v # w /\ wpc[v] = "append" /\ seen'[v] = seen[v] /\ rows'[v] = rows[v] /\ headLock' = headLock
    BY <2>1 DEF HeadStands
  <2>4. QED BY <2>1, <2>2, <2>3 DEF HeadStands
<1>6. ASSUME NEW w \in Workers,
             \/ FindNothing(w) \/ Halt(w) \/ ListPending(w) \/ Restart(w)
             \/ \E n \in todo[w] : Deliver(w, n)
      PROVE  HeadStands'
  <2>1. /\ UNCHANGED <<tx, position, head, headLock, seen, rows>>
        /\ \A v \in Workers : wpc'[v] = "append" <=> wpc[v] = "append"
    BY <1>6 DEF FindNothing, Halt, ListPending, Restart, Deliver, SinkAppend, MarkSinkDelivered,
                ScheduleSinkRetry, Advance, outbox, TypeOK
  <2>2. QED BY <2>1, ReadStands
<1>7. CASE UNCHANGED <<outbox, head, worker>>
  BY <1>7, ReadStands DEF outbox, worker
<1>8. QED
  BY <1>1, <1>2, <1>3, <1>4, <1>5, <1>6, <1>7
     DEF Next, Business, Work, RetryComesDue, StartVerification, VerifyPage,
         AbandonVerification, vars

\* A copy in the sink is never lost: the chain and the sink only grow.
LEMMA CopiesKept ==
    ASSUME TypeOK, Len(chain') \in Nat, Len(chain) <= Len(chain'),
           \A n \in 1 .. Len(chain) : chain'[n] = chain[n],
           sink \subseteq sink'
    PROVE  \A n \in 1 .. Len(chain) : n \in 1 .. Len(chain') /\ (Copied(n) => Copied(n)')
<1>1. Len(chain) \in Nat
  BY LenProperties DEF TypeOK
<1>2. QED BY <1>1 DEF Copied, CopyOf

\* Every step keeps the sink exact and the marked deliveries in it.
LEMMA NextDelivered ==
    TypeOK /\ ChainLinked /\ HeadStands /\ DeliveredIsCopied /\ WorkersDeliver /\ [Next]_vars
        => DeliveredIsCopied' /\ WorkersDeliver'
<1> SUFFICES ASSUME TypeOK, ChainLinked, HeadStands, DeliveredIsCopied, WorkersDeliver, [Next]_vars
             PROVE  DeliveredIsCopied' /\ WorkersDeliver'
  OBVIOUS
<1>0. Len(chain) \in Nat
  BY LenProperties DEF TypeOK
<1>1. ASSUME NEW w \in Workers, AppendRecords(w)
      PROVE  DeliveredIsCopied' /\ WorkersDeliver'
  <2> DEFINE new == Records(head, rows[w])
  <2>1. /\ Len(new) \in Nat \ {0} /\ Len(chain') = Len(chain) + Len(new)
        /\ \A n \in 1 .. Len(chain) : chain'[n] = chain[n]
        /\ \A j \in 1 .. Len(new) : new[j].sequence = head.sequence + j
        /\ due' = due \cup {new[j].sequence : j \in 1 .. Len(new)}
    BY <1>1, AppendRecordsExtends
  <2>2. head.sequence = Len(chain)
    BY HeadIsLast
  <2> HIDE DEF new
  <2>3. Len(chain') \in Nat /\ Len(chain) <= Len(chain')
    BY <1>0, <2>1
  <2>4. UNCHANGED <<sink, sent, todo>> /\ wpc' = [wpc EXCEPT ![w] = "sink"]
    BY <1>1 DEF AppendRecords
  <2>5. \A n \in 1 .. Len(chain) : n \in 1 .. Len(chain') /\ (Copied(n) => Copied(n)')
    BY <2>1, <2>3, <2>4, CopiesKept
  <2>6. due' \subseteq 1 .. Len(chain')
    <3>1. \A j \in 1 .. Len(new) : new[j].sequence \in 1 .. Len(chain')
      BY <1>0, <2>1, <2>2
    <3>2. QED BY <2>1, <2>5, <3>1 DEF WorkersDeliver
  <2>7. \A c \in sink' : c.sequence \in 1 .. Len(chain') /\ c = CopyOf(chain'[c.sequence])
    BY <2>1, <2>4, <2>5 DEF DeliveredIsCopied
  <2>8. \A n \in sent' : Copied(n)'
    BY <2>4, <2>5 DEF DeliveredIsCopied, Copied
  <2>9. \A v \in Workers : todo'[v] \subseteq 1 .. Len(chain')
    BY <2>4, <2>5 DEF WorkersDeliver
  <2>10. ASSUME NEW v \in Workers, NEW n \in todo'[v], wpc'[v] = "mark", Current(v, n)'
         PROVE  Copied(n)'
    <3>1. wpc[v] = "mark" /\ Current(v, n) /\ n \in todo[v] /\ n \in 1 .. Len(chain)
      BY <2>4, <2>10 DEF TypeOK, Current, WorkersDeliver
    <3>2. Copied(n)
      BY <3>1 DEF WorkersDeliver
    <3>3. QED BY <2>5, <3>1, <3>2
  <2>11. QED BY <2>6, <2>7, <2>8, <2>9, <2>10 DEF DeliveredIsCopied, WorkersDeliver
<1>2. ASSUME NEW w \in Workers, ListPending(w)
      PROVE  DeliveredIsCopied' /\ WorkersDeliver'
  <2>1. PICK batch \in SUBSET Pending :
           /\ todo' = [todo EXCEPT ![w] = batch]
           /\ wpc'  = [wpc  EXCEPT ![w] = IF batch = {} THEN "chain" ELSE "deliver"]
    BY <1>2 DEF ListPending
  <2>2. UNCHANGED <<chain, sink, sent, due>> /\ batch \subseteq 1 .. Len(chain)
    BY <1>2 DEF ListPending, delivery, Pending, WorkersDeliver
  <2>3. DeliveredIsCopied'
    BY <2>2 DEF DeliveredIsCopied, Copied
  <2>4. \A v \in Workers : todo'[v] \subseteq 1 .. Len(chain')
    BY <2>1, <2>2 DEF WorkersDeliver, TypeOK
  <2>5. ASSUME NEW v \in Workers, NEW n \in todo'[v], wpc'[v] = "mark", Current(v, n)'
        PROVE  Copied(n)'
    <3>1. v # w /\ wpc[v] = "mark" /\ Current(v, n) /\ n \in todo[v]
      BY <2>1, <2>5 DEF TypeOK, Current
    <3>2. QED BY <2>2, <3>1 DEF WorkersDeliver, Copied
  <2>6. QED BY <2>2, <2>3, <2>4, <2>5 DEF WorkersDeliver
<1>3. ASSUME NEW w \in Workers, NEW n \in todo[w], Deliver(w, n)
      PROVE  DeliveredIsCopied' /\ WorkersDeliver'
  <2>1. n \in 1 .. Len(chain) /\ chain[n].sequence = n
    BY DEF WorkersDeliver, ChainLinked
  <2>2. Current(w, n) /\ UNCHANGED chain
    BY <1>3 DEF Deliver, SinkAppend, MarkSinkDelivered, ScheduleSinkRetry
  <2>3. sink' = sink \/ sink' = sink \cup {CopyOf(chain[n])}
    BY <1>3 DEF Deliver, SinkAppend, MarkSinkDelivered, ScheduleSinkRetry
  <2>4. \A m \in 1 .. Len(chain) : Copied(m) => Copied(m)'
    BY <1>0, <2>2, <2>3 DEF Copied
  <2>5. \A c \in sink' : c.sequence \in 1 .. Len(chain') /\ c = CopyOf(chain'[c.sequence])
    BY <2>1, <2>2, <2>3 DEF DeliveredIsCopied, CopyOf
  <2>6. due' \subseteq 1 .. Len(chain')
    BY <1>3, <2>2 DEF Deliver, SinkAppend, MarkSinkDelivered, ScheduleSinkRetry, WorkersDeliver
  <2>7. \A v \in Workers : todo'[v] \subseteq todo[v]
    <3>1. todo' = todo \/ todo' = [todo EXCEPT ![w] = todo[w] \ {n}]
      BY <1>3 DEF Deliver, SinkAppend, MarkSinkDelivered, ScheduleSinkRetry, Advance
    <3>2. QED BY <3>1 DEF TypeOK
  <2>8. \A v \in Workers \ {w} : todo'[v] = todo[v] /\ wpc'[v] = wpc[v]
    BY <1>3 DEF Deliver, SinkAppend, MarkSinkDelivered, ScheduleSinkRetry, Advance, TypeOK
  <2>9. ASSUME NEW v \in Workers, v # w, NEW m \in todo'[v], wpc'[v] = "mark", Current(v, m)'
        PROVE  Copied(m)'
    <3>1. m \in todo[v] /\ wpc[v] = "mark" /\ Current(v, m) /\ m \in 1 .. Len(chain)
      BY <2>8, <2>9 DEF Current, WorkersDeliver
    <3>2. QED BY <2>4, <3>1 DEF WorkersDeliver
  <2>10. CASE SinkAppend(w, n)
    <3>1. sent' = sent /\ todo' = todo /\ CopyOf(chain[n]) \in sink' /\ wpc'[w] = "mark"
      BY <2>10 DEF SinkAppend, TypeOK
    <3>2. Copied(n)'
      BY <2>1, <2>2, <3>1 DEF Copied
    <3>3. \A m \in todo'[w] : Current(w, m)' => m = n
      <4>1. \A m \in todo[w] : m \in Nat
        BY DEF TypeOK
      <4>2. QED BY <2>2, <3>1, <4>1 DEF Current
    <3>4. \A m \in sent' : Copied(m)'
      BY <2>4, <3>1 DEF DeliveredIsCopied, Copied
    <3>5. \A v \in Workers : todo'[v] \subseteq 1 .. Len(chain')
      BY <2>2, <3>1 DEF WorkersDeliver
    <3>6. \A v \in Workers : \A m \in todo'[v] : wpc'[v] = "mark" /\ Current(v, m)' => Copied(m)'
      BY <2>9, <3>2, <3>3
    <3>7. QED BY <2>5, <2>6, <3>4, <3>5, <3>6 DEF DeliveredIsCopied, WorkersDeliver
  <2>11. CASE MarkSinkDelivered(w, n) \/ ScheduleSinkRetry(w, n)
    <3>1. sent' = sent \/ (sent' = sent \cup {n} /\ Copied(n))
      BY <2>11 DEF MarkSinkDelivered, ScheduleSinkRetry, WorkersDeliver
    <3>2. wpc'[w] # "mark"
      BY <2>11 DEF MarkSinkDelivered, ScheduleSinkRetry, Advance, TypeOK
    <3>3. \A m \in sent' : Copied(m)'
      <4>1. \A m \in sent' : Copied(m) /\ m \in 1 .. Len(chain)
        BY <3>1 DEF DeliveredIsCopied, Copied
      <4>2. QED BY <2>4, <4>1
    <3>4. \A v \in Workers : todo'[v] \subseteq 1 .. Len(chain')
      BY <2>2, <2>7 DEF WorkersDeliver
    <3>5. \A v \in Workers : \A m \in todo'[v] : wpc'[v] = "mark" /\ Current(v, m)' => Copied(m)'
      BY <2>9, <3>2
    <3>6. QED BY <2>5, <2>6, <3>3, <3>4, <3>5 DEF DeliveredIsCopied, WorkersDeliver
  <2>12. QED BY <1>3, <2>10, <2>11 DEF Deliver
<1>4. ASSUME NEW w \in Workers, FindNothing(w) \/ Halt(w) \/ ReadOutbox(w) \/ Restart(w) \/ Crash(w)
      PROVE  DeliveredIsCopied' /\ WorkersDeliver'
  <2>1. UNCHANGED <<chain, sink, sent, due>>
    BY <1>4 DEF FindNothing, Halt, ReadOutbox, Restart, Crash, delivery
  <2>2. \A v \in Workers : /\ todo'[v] = todo[v] \/ todo'[v] = {}
                           /\ wpc'[v] = "mark" => wpc[v] = "mark"
    BY <1>4 DEF FindNothing, Halt, ReadOutbox, Restart, Crash, TypeOK
  <2>3. DeliveredIsCopied'
    BY <2>1 DEF DeliveredIsCopied, Copied
  <2>4. WorkersDeliver'
    BY <2>1, <2>2 DEF WorkersDeliver, Current, Copied
  <2>5. QED BY <2>3, <2>4
<1>5. ASSUME NEW n \in 1 .. Len(chain), RetryComesDue(n)
      PROVE  DeliveredIsCopied' /\ WorkersDeliver'
  BY <1>5 DEF RetryComesDue, worker, DeliveredIsCopied, WorkersDeliver, Current, Copied
<1>6. CASE UNCHANGED <<chain, delivery, worker>>
  BY <1>6 DEF delivery, worker, DeliveredIsCopied, WorkersDeliver, Current, Copied
<1>7. QED
  BY <1>1, <1>2, <1>3, <1>4, <1>5, <1>6
     DEF Next, Business, AppendEvent, EndTransaction, Work, StartVerification, VerifyPage,
         AbandonVerification, vars

-----------------------------------------------------------------------------
(***************************************************************************)
(* Theorems                                                                *)
(***************************************************************************)
\* The invariant holds at the start.
LEMMA InitAudit == Init => AuditInv
<1> SUFFICES ASSUME Init PROVE AuditInv
  OBVIOUS
<1>1. Len(chain) = 0
  BY EmptySeq DEF Init
<1>2. PositionsGivenOnce /\ HeadStands
  BY DEF Init, PositionsGivenOnce, HeadStands
<1>3. ChainLinked
  BY <1>1 DEF Init, ChainLinked, Before, Genesis
<1>4. DeliveredIsCopied /\ WorkersDeliver
  BY DEF Init, DeliveredIsCopied, WorkersDeliver
<1>5. QED BY <1>2, <1>3, <1>4 DEF AuditInv

\* The inductive invariant holds in every reachable state.
LEMMA AuditInductive == Spec => [](TypeOK /\ AuditInv)
<1>1. Init => TypeOK /\ AuditInv
  BY InitTyped, InitAudit
<1>2. TypeOK /\ AuditInv /\ [Next]_vars => TypeOK' /\ AuditInv'
  BY NextTyped, NextPositions, NextLinked, NextHeadStands, NextDelivered DEF AuditInv
<1>3. QED BY <1>1, <1>2, PTL DEF Spec

\* The rows of outbox, chain, head, deliveries, sink and runs, and what the
\* processes hold in memory, are well formed.
THEOREM AuditTypeCorrect == Spec => []TypeOK
BY AuditInductive, PTL

\* Whatever workers run, fail or die, the chain is gapless, linked, ordered as
\* the outbox, of committed and valid events, and ends at the head row.
THEOREM ChainStaysLinked == Spec => []ChainLinked
<1>1. AuditInv => ChainLinked
  BY DEF AuditInv
<1>2. QED BY <1>1, AuditInductive, PTL

\* What a worker has read under the lock on the head is still so when it appends.
THEOREM ReadUnderLockStands == Spec => []HeadStands
<1>1. AuditInv => HeadStands
  BY DEF AuditInv
<1>2. QED BY <1>1, AuditInductive, PTL

\* The sink holds exact copies only, and what is marked delivered is in it.
THEOREM DeliveredStaysCopied == Spec => []DeliveredIsCopied
<1>1. AuditInv => DeliveredIsCopied
  BY DEF AuditInv
<1>2. QED BY <1>1, AuditInductive, PTL

\* The inductive invariant.
THEOREM AuditInvariant == Spec => []AuditInv
BY AuditInductive, PTL

-----------------------------------------------------------------------------
(***************************************************************************)
(* The verifier                                                            *)
(***************************************************************************)
\* What a running verification has captured and compared is still so.
VerifierStands ==
    verifier.on =>
        /\ verifier.high <= Len(chain) /\ verifier.done <= verifier.high
        /\ verifier.hash = Before(verifier.high + 1).hash
        /\ \A n \in 1 .. verifier.done : Copied(n)

\* The inductive invariant of the verifier, beside that of the workers.
VerifierInv == VerifierStands /\ PassedRangeMatches /\ OnlyLagIsReported

\* The entries of the chain stay, and so do the copies in the sink.
LEMMA ChainGrows ==
    ASSUME TypeOK, HeadStands, [Next]_vars
    PROVE  /\ Len(chain) \in Nat /\ Len(chain') \in Nat /\ Len(chain) <= Len(chain')
           /\ \A n \in 1 .. Len(chain) : chain'[n] = chain[n]
           /\ sink \subseteq sink'
<1>0. Len(chain) \in Nat
  BY LenProperties DEF TypeOK
<1>1. ASSUME NEW w \in Workers, AppendRecords(w)
      PROVE  /\ Len(chain') \in Nat /\ Len(chain) <= Len(chain')
             /\ \A n \in 1 .. Len(chain) : chain'[n] = chain[n]
             /\ sink \subseteq sink'
  <2>1. /\ Len(Records(head, rows[w])) \in Nat
        /\ Len(chain') = Len(chain) + Len(Records(head, rows[w]))
        /\ \A n \in 1 .. Len(chain) : chain'[n] = chain[n]
    BY <1>1, AppendRecordsExtends
  <2>2. sink' = sink
    BY <1>1 DEF AppendRecords
  <2>3. QED BY <1>0, <2>1, <2>2
<1>2. ASSUME chain' = chain, sink \subseteq sink'
      PROVE  /\ Len(chain') \in Nat /\ Len(chain) <= Len(chain')
             /\ \A n \in 1 .. Len(chain) : chain'[n] = chain[n]
             /\ sink \subseteq sink'
  BY <1>0, <1>2
<1>3. ASSUME NEW w \in Workers,
             \/ ReadOutbox(w) \/ FindNothing(w) \/ Halt(w) \/ ListPending(w)
             \/ (\E n \in todo[w] : Deliver(w, n)) \/ Crash(w) \/ Restart(w)
      PROVE  chain' = chain /\ sink \subseteq sink'
  BY <1>3 DEF ReadOutbox, FindNothing, Halt, ListPending, Deliver, SinkAppend, MarkSinkDelivered,
              ScheduleSinkRetry, Crash, Restart, delivery
<1>4. CASE Business \/ StartVerification \/ VerifyPage \/ AbandonVerification \/ UNCHANGED vars
           \/ \E n \in 1 .. Len(chain) : RetryComesDue(n)
  <2>1. chain' = chain /\ sink' = sink
    BY <1>4 DEF Business, AppendEvent, EndTransaction, StartVerification, VerifyPage,
                AbandonVerification, RetryComesDue, vars, delivery
  <2>2. QED BY <1>0, <1>2, <2>1
<1>5. QED BY <1>0, <1>1, <1>2, <1>3, <1>4 DEF Next, Work

\* What a run says of its range stays true.
LEMMA RangeStands ==
    ASSUME TypeOK, HeadStands, [Next]_vars, NEW high \in Nat, high <= Len(chain)
    PROVE  /\ high <= Len(chain') /\ Before(high + 1)' = Before(high + 1)
           /\ \A n \in 1 .. high : Copied(n) => Copied(n)'
<1>1. /\ Len(chain) \in Nat /\ Len(chain') \in Nat /\ Len(chain) <= Len(chain')
      /\ \A n \in 1 .. Len(chain) : chain'[n] = chain[n]
      /\ sink \subseteq sink'
  BY ChainGrows
<1>2. \A n \in 1 .. Len(chain) : n \in 1 .. Len(chain') /\ (Copied(n) => Copied(n)')
  BY <1>1, CopiesKept
<1>3. Before(high + 1)' = Before(high + 1)
  BY <1>1 DEF Before
<1>4. QED BY <1>1, <1>2, <1>3

\* A passed run is within the chain.
LEMMA PassedIsWithin ==
    ASSUME TypeOK, PassedRangeMatches, NEW r \in runs, r.status = "PASS"
    PROVE  r.high \in Nat /\ r.high <= Len(chain)
<1>1. r.high \in Nat /\ Len(chain) \in Nat
  BY LenProperties DEF TypeOK
<1>2. CASE r.high = 0
  BY <1>1, <1>2
<1>3. CASE r.high # 0
  <2>1. r.high \in 1 .. r.high
    BY <1>1, <1>3
  <2>2. QED BY <1>1, <2>1 DEF PassedRangeMatches, Copied
<1>4. QED BY <1>1, <1>2, <1>3

\* The records compared are the first of those that are left.
LEMMA ComparedIsPrefix ==
    ASSUME TypeOK, VerifierStands, verifier.on,
           NEW page \in SUBSET {r \in sink : verifier.done < r.sequence /\ r.sequence <= verifier.high},
           Compared(page) # verifier.done + 1 .. verifier.high
    PROVE  /\ verifier.done + Cardinality(Compared(page)) \in Nat
           /\ verifier.done + Cardinality(Compared(page)) <= verifier.high
           /\ Compared(page) =
                verifier.done + 1 .. verifier.done + Cardinality(Compared(page))
<1> DEFINE left == verifier.done + 1 .. verifier.high
           rest == left \ Compared(page)
<1>1. verifier.done \in Nat /\ verifier.high \in Nat
  BY DEF TypeOK
<1>2. Compared(page) \subseteq left
  BY DEF Compared
<1>3. rest \in SUBSET Nat /\ rest # {}
  <2>1. left \subseteq Nat /\ Compared(page) # left
    BY <1>1
  <2>2. PICK n \in left : n \notin Compared(page)
    BY <1>2, <2>1, Zenon
  <2>3. QED BY <2>1, <2>2
<1>4. PICK m \in rest : \A n \in rest : m <= n
  <2> HIDE DEF rest
  <2>1. QED BY <1>3, LeastNumber
<1>5. m \in left /\ m \notin Compared(page)
  BY <1>4
<1>6. ASSUME NEW n \in left, n < m
      PROVE  n \in Compared(page)
  BY <1>1, <1>4, <1>5, <1>6
<1>7. ASSUME NEW n \in Compared(page)
      PROVE  n < m
  <2>1. \A r \in page : r.sequence \in Nat
    BY DEF TypeOK, SinkEntry
  <2>2. Cardinality(page) = PageSize /\ ~\E r \in page : m <= r.sequence
    BY <1>5 DEF Compared
  <2>3. PICK r \in page : n <= r.sequence
    BY <1>7, <2>2 DEF Compared
  <2>4. QED BY <1>1, <1>2, <1>5, <1>7, <2>1, <2>2, <2>3
<1>8. Compared(page) = verifier.done + 1 .. m - 1
  <2>1. m \in Nat /\ m <= verifier.high
    BY <1>1, <1>5
  <2>2. ASSUME NEW n \in Compared(page)
        PROVE  n \in verifier.done + 1 .. m - 1
    BY <1>1, <1>2, <1>7, <2>1, <2>2
  <2>3. ASSUME NEW n \in verifier.done + 1 .. m - 1
        PROVE  n \in Compared(page)
    <3>1. n \in left /\ n < m
      BY <1>1, <2>1, <2>3
    <3>2. QED BY <1>6, <3>1
  <2>4. QED BY <2>2, <2>3
<1>9. Cardinality(verifier.done + 1 .. m - 1) = m - 1 - verifier.done
  <2>1. verifier.done + 1 \in Int /\ m - 1 \in Int /\ verifier.done + 1 <= m
    BY <1>1, <1>5
  <2>2. Cardinality(verifier.done + 1 .. m - 1) =
           IF verifier.done + 1 > m - 1 THEN 0 ELSE (m - 1) - (verifier.done + 1) + 1
    BY <2>1, FS_Interval
  <2>3. QED BY <1>1, <2>1, <2>2
<1>10. QED BY <1>1, <1>5, <1>8, <1>9

\* The comparison finds missing copies, and nothing else wrong.
LEMMA OnlyMissing ==
    ASSUME TypeOK, ChainLinked, DeliveredIsCopied, NEW n \in 1 .. Len(chain),
           NEW page \in SUBSET sink
    PROVE  /\ Mismatches(n, page) \subseteq {"MISSING_SINK"}
           /\ "MISSING_SINK" \notin Mismatches(n, page) => Copied(n)
<1> DEFINE copies == {r \in page : r.sequence = n}
           before == IF n = 1 THEN Genesis ELSE chain[n - 1]
<1>1. Len(chain) \in Nat /\ ~(n > Len(chain))
  BY LenProperties DEF TypeOK
<1>2. copies \subseteq {CopyOf(chain[n])}
  BY DEF DeliveredIsCopied
<1>3. ~(Cardinality(copies) > 1)
  <2>1. copies = {} \/ copies = {CopyOf(chain[n])}
    BY <1>2
  <2>2. Cardinality(copies) = 0 \/ Cardinality(copies) = 1
    <3> HIDE DEF copies
    <3>1. CASE copies = {}
      BY <3>1, FS_EmptySet
    <3>2. CASE copies = {CopyOf(chain[n])}
      BY <3>2, FS_Singleton
    <3>3. QED BY <2>1, <3>1, <3>2
  <2>3. QED BY <2>2
<1>4. chain[n].previous = before.hash /\ chain[n].hash = Append(before.hash, chain[n].event)
  BY DEF ChainLinked, Before
<1>5. ~(chain[n].source <= before.source)
  <2>1. chain[n].source \in Nat \ {0}
    BY CopyTyped DEF Record
  <2>2. CASE n = 1
    BY <2>1, <2>2 DEF Genesis
  <2>3. CASE n # 1
    <3>1. n - 1 \in 1 .. Len(chain) /\ n - 1 < n
      BY <1>1, <2>3
    <3>2. chain[n - 1].source < chain[n].source /\ chain[n - 1].source \in Nat
      BY <3>1, CopyTyped DEF ChainLinked, Record
    <3>3. QED BY <2>1, <2>3, <3>2
  <2>4. QED BY <2>2, <2>3
<1>6. copies \ {CopyOf(chain[n])} = {}
  BY <1>2
<1>7. Mismatches(n, page) =
        {kind \in {"MISSING_SINK", "DUPLICATE_SINK", "REORDERED_SEQUENCE",
                   "PREVIOUS_HASH_MISMATCH", "RECORD_HASH_MISMATCH", "CHANGED_COPY"} :
            \/ kind = "MISSING_SINK" /\ copies = {}
            \/ kind = "DUPLICATE_SINK" /\ Cardinality(copies) > 1
            \/ kind = "REORDERED_SEQUENCE" /\ chain[n].source <= before.source
            \/ kind = "PREVIOUS_HASH_MISMATCH" /\ chain[n].previous # before.hash
            \/ kind = "RECORD_HASH_MISMATCH" /\ chain[n].hash # Append(before.hash, chain[n].event)
            \/ kind = "CHANGED_COPY" /\ copies \ {CopyOf(chain[n])} # {}}
  BY <1>1 DEF Mismatches
<1>8. copies # {} => Copied(n)
  BY <1>2 DEF Copied
<1> HIDE DEF copies, before
<1>9. QED BY <1>3, <1>4, <1>5, <1>6, <1>7, <1>8

\* A step that records no run and starts no comparison keeps what is known.
LEMMA VerifierKept ==
    ASSUME TypeOK, HeadStands, VerifierInv, [Next]_vars, UNCHANGED runs,
           verifier' = verifier \/ verifier' = NoRun
    PROVE  VerifierInv'
<1>1. PassedRangeMatches'
  <2>1. SUFFICES ASSUME NEW r \in runs, r.status = "PASS"
                 PROVE  /\ \A n \in 1 .. r.high : Copied(n)'
                        /\ r.hash = Before(r.high + 1)'.hash
    BY DEF PassedRangeMatches, Before
  <2>2. r.high \in Nat /\ r.high <= Len(chain)
    BY <2>1, PassedIsWithin DEF VerifierInv
  <2>3. QED BY <2>1, <2>2, RangeStands DEF VerifierInv, PassedRangeMatches
<1>2. OnlyLagIsReported'
  BY DEF VerifierInv, OnlyLagIsReported
<1>3. VerifierStands'
  <2>1. CASE verifier' = NoRun
    BY <2>1 DEF VerifierStands, NoRun
  <2>2. CASE verifier' = verifier /\ verifier.on
    <3>1. verifier.high \in Nat /\ verifier.high <= Len(chain) /\ verifier.done \in Nat
          /\ verifier.done <= verifier.high
      BY <2>2 DEF VerifierInv, VerifierStands, TypeOK
    <3>2. /\ verifier.high <= Len(chain') /\ Before(verifier.high + 1)' = Before(verifier.high + 1)
          /\ \A n \in 1 .. verifier.high : Copied(n) => Copied(n)'
      BY <2>2, <3>1, RangeStands
    <3>3. \A n \in 1 .. verifier.done : Copied(n)'
      BY <2>2, <3>1, <3>2 DEF VerifierInv, VerifierStands
    <3>4. QED BY <2>2, <3>1, <3>2, <3>3 DEF VerifierInv, VerifierStands
  <2>3. CASE verifier' = verifier /\ ~verifier.on
    BY <2>3 DEF VerifierStands
  <2>4. QED BY <2>1, <2>2, <2>3
<1>4. QED BY <1>1, <1>2, <1>3 DEF VerifierInv

\* A run that a page ends with is right about the range it captured.
LEMMA RunRecorded ==
    ASSUME TypeOK, ChainLinked, DeliveredIsCopied, VerifierInv, [Next]_vars,
           UNCHANGED <<chain, sink>>, verifier.on,
           NEW status \in {"PASS", "FAIL"}, NEW n, NEW kind, Report(status, n, kind),
           status = "FAIL" => kind = "MISSING_SINK",
           status = "PASS" => \A i \in 1 .. verifier.high : Copied(i)
    PROVE  VerifierInv'
<1> DEFINE run == [status |-> status, high |-> verifier.high,
                   hash |-> verifier.hash, at |-> n, kind |-> kind]
<1>1. runs' = runs \cup {run} /\ verifier' = NoRun
  BY DEF Report
<1>2. \A i : Copied(i)' <=> Copied(i)
  BY DEF Copied
<1>3. \A i : Before(i)' = Before(i)
  BY DEF Before
<1>4. PassedRangeMatches'
  <2>1. run.status = "PASS" => /\ \A i \in 1 .. run.high : Copied(i)
                               /\ run.hash = Before(run.high + 1).hash
    BY DEF VerifierInv, VerifierStands
  <2> HIDE DEF run
  <2>2. \A r \in runs' : r.status = "PASS" => /\ \A i \in 1 .. r.high : Copied(i)
                                              /\ r.hash = Before(r.high + 1).hash
    BY <1>1, <2>1 DEF VerifierInv, PassedRangeMatches
  <2>3. QED BY <1>2, <1>3, <2>2 DEF PassedRangeMatches
<1>5. OnlyLagIsReported'
  BY <1>1 DEF VerifierInv, OnlyLagIsReported
<1>6. VerifierStands'
  BY <1>1 DEF VerifierStands, NoRun
<1>7. QED BY <1>4, <1>5, <1>6 DEF VerifierInv

\* A page reports nothing but a missing copy, and what it finds right is right.
LEMMA VerifyPageKeeps ==
    ASSUME TypeOK, ChainLinked, HeadStands, DeliveredIsCopied, VerifierInv, [Next]_vars, VerifyPage
    PROVE  VerifierInv'
<1> DEFINE copies == {r \in sink : verifier.done < r.sequence /\ r.sequence <= verifier.high}
           wrong(page) == {n \in Compared(page) : Mismatches(n, page) # {}}
           left == verifier.done + 1 .. verifier.high
<1>1. verifier.on /\ UNCHANGED <<chain, sink>>
  BY DEF VerifyPage, delivery
<1>2. /\ verifier.high \in Nat /\ verifier.done \in Nat /\ Len(chain) \in Nat
      /\ verifier.high <= Len(chain) /\ verifier.done <= verifier.high
      /\ verifier.hash = Before(verifier.high + 1).hash
      /\ \A n \in 1 .. verifier.done : Copied(n)
  BY <1>1, LenProperties DEF TypeOK, VerifierInv, VerifierStands
<1>3. PICK page \in SUBSET copies :
        \/ \E n \in wrong(page) : \E kind \in Mismatches(n, page) : Report("FAIL", n, kind)
        \/ /\ wrong(page) = {} /\ Compared(page) # left
           /\ verifier' = [verifier EXCEPT !.done = @ + Cardinality(Compared(page))]
           /\ UNCHANGED runs
        \/ /\ wrong(page) = {} /\ Compared(page) = left
           /\ IF verifier.hash = (IF verifier.high = 0 THEN Genesis ELSE chain[verifier.high]).hash
              THEN Report("PASS", 0, "NONE")
              ELSE Report("FAIL", verifier.high, "CAPTURED_HEAD_MISMATCH")
  BY DEF VerifyPage
<1>4. page \in SUBSET sink /\ Compared(page) \subseteq left /\ left \subseteq 1 .. Len(chain)
  BY <1>2 DEF Compared
<1>5. \A n \in Compared(page) : /\ Mismatches(n, page) \subseteq {"MISSING_SINK"}
                                /\ Mismatches(n, page) = {} => Copied(n)
  BY <1>4, OnlyMissing
<1>6. CASE \E n \in wrong(page) : \E kind \in Mismatches(n, page) : Report("FAIL", n, kind)
  <2>1. PICK n : Report("FAIL", n, "MISSING_SINK")
    BY <1>5, <1>6
  <2>2. QED BY <1>1, <2>1, RunRecorded
<1>7. CASE /\ wrong(page) = {} /\ Compared(page) # left
           /\ verifier' = [verifier EXCEPT !.done = @ + Cardinality(Compared(page))]
           /\ UNCHANGED runs
  <2> DEFINE done == verifier.done + Cardinality(Compared(page))
  <2>1. done \in Nat /\ done <= verifier.high /\ Compared(page) = verifier.done + 1 .. done
    BY <1>1, <1>7, ComparedIsPrefix DEF VerifierInv
  <2>2. /\ verifier'.on = verifier.on /\ verifier'.high = verifier.high
        /\ verifier'.hash = verifier.hash /\ verifier'.done = done
    BY <1>7 DEF TypeOK
  <2> HIDE DEF done
  <2>3. \A n \in 1 .. done : Copied(n)
    <3>1. ASSUME NEW n \in 1 .. done
          PROVE  n \in 1 .. verifier.done \/ n \in Compared(page)
      BY <1>2, <2>1
    <3>2. QED BY <1>2, <1>5, <1>7, <3>1
  <2>4. \A n : (Copied(n)' <=> Copied(n)) /\ Before(n)' = Before(n)
    BY <1>1 DEF Copied, Before
  <2>5. VerifierStands'
    BY <1>1, <1>2, <2>1, <2>2, <2>3, <2>4 DEF VerifierStands
  <2>6. PassedRangeMatches' /\ OnlyLagIsReported'
    BY <1>7, <2>4 DEF VerifierInv, PassedRangeMatches, OnlyLagIsReported
  <2>7. QED BY <2>5, <2>6 DEF VerifierInv
<1>8. CASE /\ wrong(page) = {} /\ Compared(page) = left
           /\ IF verifier.hash = (IF verifier.high = 0 THEN Genesis ELSE chain[verifier.high]).hash
              THEN Report("PASS", 0, "NONE")
              ELSE Report("FAIL", verifier.high, "CAPTURED_HEAD_MISMATCH")
  <2>1. verifier.hash = (IF verifier.high = 0 THEN Genesis ELSE chain[verifier.high]).hash
    BY <1>2 DEF Before
  <2>2. Report("PASS", 0, "NONE")
    BY <1>8, <2>1
  <2>3. ASSUME NEW n \in 1 .. verifier.high
        PROVE  Copied(n)
    <3>1. n \in 1 .. verifier.done \/ n \in left
      BY <1>2, <2>3
    <3>2. QED BY <1>2, <1>5, <1>8, <3>1
  <2>4. QED BY <1>1, <2>2, <2>3, RunRecorded
<1>9. QED BY <1>3, <1>6, <1>7, <1>8

\* Every step keeps what the verifier relies on and reports.
LEMMA NextVerifier ==
    ASSUME TypeOK, AuditInv, VerifierInv, [Next]_vars
    PROVE  VerifierInv'
<1>0. ChainLinked /\ HeadStands /\ DeliveredIsCopied
  BY DEF AuditInv
<1>1. CASE StartVerification
  <2>1. /\ UNCHANGED <<chain, sink, runs>>
        /\ verifier' = [on |-> TRUE, high |-> head.sequence, hash |-> head.hash, done |-> 0]
    BY <1>1 DEF StartVerification, delivery
  <2>2. head.sequence = Len(chain) /\ head.hash = Before(Len(chain) + 1).hash /\ Len(chain) \in Nat
    BY <1>0, HeadIsLast
  <2>3. \A n : (Copied(n)' <=> Copied(n)) /\ Before(n)' = Before(n)
    BY <2>1 DEF Copied, Before
  <2>4. VerifierStands'
    BY <2>1, <2>2, <2>3 DEF VerifierStands
  <2>5. PassedRangeMatches' /\ OnlyLagIsReported'
    BY <2>1, <2>3 DEF VerifierInv, PassedRangeMatches, OnlyLagIsReported
  <2>6. QED BY <2>4, <2>5 DEF VerifierInv
<1>2. CASE VerifyPage
  BY <1>0, <1>2, VerifyPageKeeps
<1>3. CASE AbandonVerification
  BY <1>0, <1>3, VerifierKept DEF AbandonVerification
<1>4. CASE Business \/ UNCHANGED vars \/ \E n \in 1 .. Len(chain) : RetryComesDue(n)
  <2>1. UNCHANGED verify
    BY <1>4 DEF Business, AppendEvent, EndTransaction, RetryComesDue, vars
  <2>2. QED BY <1>0, <2>1, VerifierKept DEF verify
<1>5. ASSUME NEW w \in Workers, Work(w)
      PROVE  VerifierInv'
  <2>1. UNCHANGED verify
    BY <1>5 DEF Work, ReadOutbox, FindNothing, Halt, AppendRecords, ListPending, Deliver, SinkAppend,
                MarkSinkDelivered, ScheduleSinkRetry, Crash, Restart
  <2>2. QED BY <1>0, <2>1, VerifierKept DEF verify
<1>6. QED BY <1>1, <1>2, <1>3, <1>4, <1>5 DEF Next

\* The invariant of workers and verifier holds in every reachable state.
LEMMA VerifierInductive == Spec => []VerifierInv
<1>1. Init => VerifierInv
  BY DEF Init, VerifierInv, VerifierStands, PassedRangeMatches, OnlyLagIsReported, NoRun
<1>2. TypeOK /\ AuditInv /\ VerifierInv /\ [Next]_vars => VerifierInv'
  BY NextVerifier
<1>3. QED BY <1>1, <1>2, AuditInductive, PTL DEF Spec

\* README, "Exit code `0` means the captured primary range and sink match": a run
\* that passes captured a range whose every entry has its exact copy in the sink,
\* and it still has, whatever the workers do during and after the run.
THEOREM PassedRunsMatch == Spec => []PassedRangeMatches
<1>1. VerifierInv => PassedRangeMatches
  BY DEF VerifierInv
<1>2. QED BY <1>1, VerifierInductive, PTL

\* A verification that runs beside the workers reports a missing copy or nothing.
THEOREM OnlyLagReported == Spec => []OnlyLagIsReported
<1>1. VerifierInv => OnlyLagIsReported
  BY DEF VerifierInv
<1>2. QED BY <1>1, VerifierInductive, PTL

-----------------------------------------------------------------------------
(***************************************************************************)
(* The log is implemented                                                  *)
(***************************************************************************)

\* The abstract log and copies, named for the proof.
AbstractLog    == [n \in 1 .. Len(chain) |-> chain[n].event]
AbstractCopies == {<<c.sequence, c.event>> : c \in sink}
Committed      == {e \in Events : tx[e] = "committed"}

AbstractLogFits == Len(AbstractLog) = Len(chain)

\* The abstract log is a sequence as long as the chain.
LEMMA AbstractLogLength ==
    ASSUME TypeOK
    PROVE  Len(AbstractLog) = Len(chain) /\ Len(chain) \in Nat
<1>1. Len(chain) \in Nat
  BY LenProperties DEF TypeOK
<1>2. AbstractLog \in [1 .. Len(chain) -> Events]
  BY CopyTyped DEF AbstractLog, Record
<1>3. QED BY <1>1, <1>2, FunctionIsSequence

\* So it is after a step.
LEMMA AbstractLogLengthNext == TypeOK' => AbstractLogFits'
<1>1. TypeOK => AbstractLogFits
  BY AbstractLogLength DEF AbstractLogFits
<1>2. QED BY <1>1, PTL

\* Every step is a step of the log or a stutter.
LEMMA StepImplementsLog ==
    TypeOK /\ TypeOK' /\ AuditInv /\ AuditInv' /\ [Next]_vars => [Log!Next]_(Log!state)
<1> SUFFICES ASSUME TypeOK, TypeOK', AuditInv, AuditInv', [Next]_vars
             PROVE  Log!Next \/ UNCHANGED <<Committed, AbstractLog, AbstractCopies, sent>>
  BY DEF Log!state, Committed, AbstractLog, AbstractCopies
<1>0. /\ Len(AbstractLog) = Len(chain) /\ Len(chain) \in Nat
      /\ \A n \in 1 .. Len(chain) : AbstractLog[n] = chain[n].event
  BY AbstractLogLength DEF AbstractLog
<1>1. ASSUME NEW e \in Events, EndTransaction(e, "committed")
      PROVE  Log!Capture(e)
  <2>1. e \notin Committed /\ Committed' = Committed \cup {e}
    BY <1>1 DEF EndTransaction, Committed, TypeOK
  <2>2. UNCHANGED <<AbstractLog, AbstractCopies, sent>>
    BY <1>1 DEF EndTransaction, delivery, AbstractLog, AbstractCopies
  <2>3. QED BY <2>1, <2>2 DEF Log!Capture, Committed, AbstractLog, AbstractCopies
<1>2. ASSUME NEW w \in Workers, AppendRecords(w)
      PROVE  Log!Finalize
  <2>1. /\ Len(chain') \in Nat /\ Len(chain') > Len(chain)
        /\ \A n \in 1 .. Len(chain) : chain'[n] = chain[n]
    <3> DEFINE new == Records(head, rows[w])
    <3>1. /\ Len(new) \in Nat \ {0} /\ Len(chain') = Len(chain) + Len(new)
          /\ \A n \in 1 .. Len(chain) : chain'[n] = chain[n]
      BY <1>2, AppendRecordsExtends DEF AuditInv
    <3> HIDE DEF new
    <3>2. QED BY <1>0, <3>1
  <2>2. Len(AbstractLog)' = Len(chain') /\ \A n \in 1 .. Len(chain') : AbstractLog'[n] = chain'[n].event
    BY AbstractLogLengthNext DEF AbstractLog, AbstractLogFits
  <2>3. UNCHANGED <<Committed, AbstractCopies, sent>>
    BY <1>2 DEF AppendRecords, outbox, Committed, AbstractCopies
  <2>4. \A n \in 1 .. Len(chain') : AbstractLog'[n] \in Committed
    <3>1. \A n \in 1 .. Len(chain') : tx'[chain'[n].event] = "committed" /\ chain'[n] \in Record
      <4>1. \A n \in 1 .. Len(chain') : tx'[chain'[n].event] = "committed"
        BY DEF AuditInv, ChainLinked
      <4>2. \A n \in 1 .. Len(chain') : chain'[n] \in Record
        <5>1. chain' \in Seq(Record)
          BY DEF TypeOK
        <5>2. QED BY <5>1, ElementOfSeq
      <4>3. QED BY <4>1, <4>2
    <3>2. QED BY <2>2, <2>3, <3>1 DEF Committed, Record
  <2>5. \A m, n \in 1 .. Len(chain') : AbstractLog'[m] = AbstractLog'[n] => m = n
    <3>1. SUFFICES ASSUME NEW m \in 1 .. Len(chain'), NEW n \in 1 .. Len(chain'),
                          chain'[m].event = chain'[n].event, m < n
                   PROVE  FALSE
      BY <2>1, <2>2
    <3>2. chain'[m].source = chain'[n].source /\ chain'[m].source < chain'[n].source
      BY <3>1 DEF AuditInv, ChainLinked
    <3>3. chain'[m].source \in Nat
      <4>1. chain' \in Seq(Record)
        BY DEF TypeOK
      <4>2. chain'[m] \in Record
        BY <4>1, ElementOfSeq
      <4>3. QED BY <4>2 DEF Record
    <3>4. QED BY <3>2, <3>3
  <2>6. QED BY <1>0, <2>1, <2>2, <2>3, <2>4, <2>5
            DEF Log!Finalize, Committed, AbstractLog, AbstractCopies
<1>3. ASSUME NEW w \in Workers, NEW n \in todo[w], Deliver(w, n)
      PROVE  Log!Next \/ UNCHANGED <<Committed, AbstractLog, AbstractCopies, sent>>
  <2>1. n \in 1 .. Len(chain) /\ chain[n].sequence = n
    BY DEF AuditInv, WorkersDeliver, ChainLinked
  <2>2. UNCHANGED <<Committed, AbstractLog>>
    BY <1>3 DEF Deliver, SinkAppend, MarkSinkDelivered, ScheduleSinkRetry, outbox, Committed, AbstractLog
  <2>3. CASE sink' = sink \cup {CopyOf(chain[n])} /\ sent' = sent
    <3>1. AbstractCopies' = AbstractCopies \cup {<<n, AbstractLog[n]>>}
      <4>1. CopyOf(chain[n]).sequence = n /\ CopyOf(chain[n]).event = AbstractLog[n]
        BY <1>0, <2>1 DEF CopyOf
      <4>2. AbstractCopies' = {<<c.sequence, c.event>> : c \in sink \cup {CopyOf(chain[n])}}
        BY <2>3 DEF AbstractCopies
      <4>3. QED BY <4>1, <4>2, Zenon DEF AbstractCopies
    <3>2. Log!Copy(n)
      BY <2>2, <2>3, <3>1 DEF Log!Copy, Committed, AbstractLog, AbstractCopies
    <3>3. QED BY <1>0, <2>1, <3>2 DEF Log!Next, AbstractLog
  <2>4. CASE MarkSinkDelivered(w, n)
    <3>1. Copied(n) /\ sent' = sent \cup {n} /\ sink' = sink
      BY <2>4 DEF MarkSinkDelivered, AuditInv, WorkersDeliver
    <3>2. <<n, AbstractLog[n]>> \in AbstractCopies
      BY <1>0, <2>1, <3>1 DEF Copied, CopyOf, AbstractCopies
    <3>3. Log!Confirm(n)
      BY <2>2, <3>1, <3>2 DEF Log!Confirm, Committed, AbstractLog, AbstractCopies
    <3>4. QED BY <1>0, <2>1, <3>3 DEF Log!Next, AbstractLog
  <2>5. CASE sink' = sink /\ sent' = sent
    BY <2>2, <2>5 DEF AbstractCopies
  <2>6. QED BY <1>3, <2>3, <2>4, <2>5 DEF Deliver, SinkAppend, ScheduleSinkRetry
<1>4. ASSUME NEW e \in Events, AppendEvent(e) \/ EndTransaction(e, "aborted")
      PROVE  UNCHANGED <<Committed, AbstractLog, AbstractCopies, sent>>
  BY <1>4 DEF AppendEvent, EndTransaction, delivery, Committed, AbstractLog, AbstractCopies, TypeOK
<1>5. CASE UNCHANGED <<tx, chain, sink, sent>>
  BY <1>5 DEF Committed, AbstractLog, AbstractCopies
<1>6. CASE \E e \in Events : EndTransaction(e, "committed")
  BY <1>1, <1>6 DEF Log!Next
<1>7. CASE \E w \in Workers : AppendRecords(w)
  BY <1>2, <1>7 DEF Log!Next
<1>8. QED
  BY <1>3, <1>4, <1>5, <1>6, <1>7
     DEF Next, Business, Work, ReadOutbox, FindNothing, Halt, ListPending, Crash, Restart,
         RetryComesDue, StartVerification, VerifyPage, AbandonVerification, vars, outbox, delivery

\* Outbox, chain and sink, with their locks, batches, retries and crashes,
\* implement the append-only log whose copies are confirmed only once made.
THEOREM LogImplemented == Spec => ImplementsLog
<1>1. Init => Log!Init
  <2> SUFFICES ASSUME Init PROVE Log!Init
    OBVIOUS
  <2>1. Len(chain) = 0
    BY EmptySeq DEF Init
  <2>2. AbstractLog = <<>>
    <3>1. AbstractLog \in [1 .. 0 -> Events]
      BY <2>1 DEF AbstractLog
    <3>2. AbstractLog \in Seq(Events) /\ Len(AbstractLog) = 0
      BY <3>1, FunctionIsSequence
    <3>3. QED BY <3>2, EmptySeq
  <2>3. Committed = {} /\ AbstractCopies = {} /\ sent = {}
    BY DEF Init, Committed, AbstractCopies
  <2>4. QED BY <2>2, <2>3 DEF Log!Init, Committed, AbstractLog, AbstractCopies
<1>2. QED
  BY <1>1, StepImplementsLog, AuditInductive, PTL DEF Spec, ImplementsLog, Log!Spec

=============================================================================
