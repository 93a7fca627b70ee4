----------------------------- MODULE IngestProofs -----------------------------
(***************************************************************************)
(* Proofs about Ingest, for any collectors, any batch and channel          *)
(* sizes, any epochs, any number of restarts and any faults:               *)
(*   - the watermark on disk is the highest row stored;                    *)
(*   - no row is stored twice while the watermarks can be read;            *)
(*   - a flush answers Ok only over rows that are stored;                  *)
(*   - a hole in what is stored shows as a gap.                            *)
(***************************************************************************)
EXTENDS Ingest, FiniteSetTheorems, TLAPS

\* The part of the type invariant that the proofs need.
Typed ==
    /\ stored \in [Row -> Nat]
    /\ diskMarks \in MarkValues /\ marks \in MarkValues
    /\ batch \in Seq(Row) /\ chan \in Seq(Row \cup {Flush})

\* The gate of the writer stands above everything stored.  A restart takes its
\* marks from the disk, which is why MarkIsHighestRow is part of the induction.
GateStands ==
    "unreadable" \notin faults =>
        \A r \in Row : stored[r] <= 1 /\ (stored[r] > 0 => r.seq <= marks[r.col])

GateInv == Typed /\ MarkIsHighestRow /\ GateStands

\* The sequence numbers stored of one collector.
SeqsOf(c) == {r.seq : r \in {w \in Row : w.col = c /\ stored[w] > 0}}

\* What MarkIsHighestRow says of one row.
LEMMA StoredBelowMark ==
    ASSUME Typed, MarkIsHighestRow, NEW r \in Row, stored[r] > 0
    PROVE  r.seq <= diskMarks[r.col]
<1>1. r.col \in Collectors
  BY Zenon DEF Row
<1>2. r.seq \in {w.seq : w \in {v \in Row : v.col = r.col /\ stored[v] > 0}}
  BY Zenon
<1> QED
  BY <1>1, <1>2, Zenon DEF MarkIsHighestRow

LEMMA GateInit == Init => GateInv
<1> SUFFICES ASSUME Init PROVE GateInv
  BY Zenon
<1>1. Typed
  BY DEF Init, Typed, MarkValues
<1>2. MarkIsHighestRow
  BY DEF Init, MarkIsHighestRow
<1>3. GateStands
  BY DEF Init, GateStands
<1> QED
  BY <1>1, <1>2, <1>3 DEF GateInv

\* Steps that write nothing and leave the marks alone.
LEMMA QuietStep ==
    ASSUME GateInv, UNCHANGED <<stored, diskMarks, marks, faults>>,
           batch' \in Seq(Row), chan' \in Seq(Row \cup {Flush})
    PROVE  GateInv'
BY Zenon DEF GateInv, Typed, MarkIsHighestRow, GateStands

\* How many there are of none, and of one.
LEMMA CardinalityOfNone == Cardinality({}) = 0
<1> DEFINE F(cs) == [T \in SUBSET {} |-> IF T = {} THEN 0 ELSE 1 + cs[T \ {CHOOSE x : x \in T}]]
<1>1. [T \in SUBSET {} |-> 0] = F([T \in SUBSET {} |-> 0])
    BY Zenon
<1>2. PICK cs : cs = F(cs) /\ cs = CHOOSE g : g = F(g)
    BY <1>1, Zenon
<1>3. cs[{}] = 0
    BY <1>2, Zenon
<1> QED BY <1>2, <1>3, Zenon DEF Cardinality

LEMMA CardinalityOfOne == ASSUME NEW x PROVE Cardinality({x}) = 1
<1> DEFINE F(cs) == [T \in SUBSET {x} |-> IF T = {} THEN 0 ELSE 1 + cs[T \ {CHOOSE y : y \in T}]]
<1> DEFINE f == [T \in SUBSET {x} |-> IF T = {} THEN 0 ELSE 1]
<1>0. \A T \in SUBSET {x} : T # {} => T = {x} /\ T \ {CHOOSE y : y \in T} = {}
    BY Zenon
<1>1. f = F(f)
    BY <1>0
<1>2. PICK cs : cs = F(cs) /\ cs = CHOOSE g : g = F(g)
    BY <1>1, Zenon
<1>3. cs[{x}] = 1
    <2>1. {x} \in SUBSET {x} /\ {} \in SUBSET {x} /\ {x} # {} /\ {x} \ {CHOOSE y : y \in {x}} = {}
        BY Zenon
    <2>2. cs[{}] = 0
        BY <1>2, <2>1, Zenon
    <2> QED BY <1>2, <2>1, <2>2
<1> QED BY <1>2, <1>3, Zenon DEF Cardinality

\* How often a commit writes a row: once if it survives, and not at all if it
\* does not, because repeats within the batch do not survive.
LEMMA WrittenOnce ==
    ASSUME Typed, NEW r \in Row
    PROVE  LET at == {i \in Survivors : batch[i] = r}
           IN  /\ Cardinality(at) = IF r \in ToWrite THEN 1 ELSE 0
               /\ r \in ToWrite => r.seq > marks[r.col]
<1> DEFINE at == {i \in Survivors : batch[i] = r}
<1>1. \A i, j \in at : i = j
  BY DEF Survivors, Typed
<1>2. r \in ToWrite <=> at # {}
  BY Zenon DEF ToWrite
<1>3. CASE at = {}
  BY <1>2, <1>3, CardinalityOfNone, Zenon
<1>4. CASE at # {}
  <2>1. PICK i \in at : TRUE
    BY <1>4, Zenon
  <2>2. at = {i}
    BY <1>1, <2>1, Zenon
  <2>3. Cardinality(at) = 1
    BY <2>2, CardinalityOfOne, Zenon
  <2>4. r.seq > marks[r.col]
    BY <2>1, Zenon DEF Survivors
  <2> QED
    BY <1>2, <1>4, <2>3, <2>4, Zenon
<1> QED
  BY <1>3, <1>4

\* A commit: rows and watermarks change together.
LEMMA CommitKeeps ==
    ASSUME GateInv, CommitRows
    PROVE  GateInv'
<1> USE DEF GateInv
<1>1. \A r \in Row : /\ stored'[r] = stored[r] + (IF r \in ToWrite THEN 1 ELSE 0)
                     /\ r \in ToWrite => r.seq > marks[r.col]
  <2> TAKE r \in Row
  <2>1. stored'[r] = stored[r] + Cardinality({i \in Survivors : batch[i] = r})
    BY Zenon DEF CommitRows
  <2>2. /\ Cardinality({i \in Survivors : batch[i] = r}) = IF r \in ToWrite THEN 1 ELSE 0
        /\ r \in ToWrite => r.seq > marks[r.col]
    BY WrittenOnce, Zenon
  <2> QED
    BY <2>1, <2>2, Zenon
<1>2. /\ diskMarks' \in MarkValues /\ RaisedTo(diskMarks, ToWrite, diskMarks')
      /\ marks' \in MarkValues /\ RaisedTo(marks, ToWrite, marks')
      /\ batch' = <<>> /\ chan' = chan /\ faults' = faults
  BY Zenon DEF CommitRows, envVars
<1>3. ToWrite \subseteq Row /\ \A r \in Row : r.col \in Collectors /\ r.seq \in Nat /\ stored[r] \in Nat
  <2>1. \A i \in Survivors : batch[i] \in Row
    BY DEF Survivors, Typed
  <2>2. ToWrite \subseteq Row
    BY <2>1, Zenon DEF ToWrite
  <2>3. \A r \in Row : r.col \in Collectors /\ r.seq \in Nat
    BY BoundsAssumption DEF Row, Seqs
  <2> QED
    BY <2>2, <2>3, Zenon DEF Typed
<1>4. Typed'
  <2>1. stored' \in [Row -> Nat]
    <3>1. DOMAIN stored' = Row /\ stored' = [r \in Row |-> stored'[r]]
      BY Zenon DEF CommitRows
    <3> QED
      BY <1>1, <1>3, <3>1
  <2> QED
    BY <1>2, <2>1 DEF Typed
<1>5. \A c \in Collectors : /\ marks[c] \in Int /\ marks'[c] \in Int
                            /\ diskMarks[c] \in Int /\ diskMarks'[c] \in Int
  BY <1>2, BoundsAssumption DEF Typed, MarkValues, Seqs, None
<1>6. GateStands'
  <2> SUFFICES ASSUME "unreadable" \notin faults, NEW r \in Row
               PROVE  stored'[r] <= 1 /\ (stored'[r] > 0 => r.seq <= marks'[r.col])
    BY <1>2, Zenon DEF GateStands
  <2>1. stored[r] <= 1 /\ (stored[r] > 0 => r.seq <= marks[r.col])
    BY Zenon DEF GateStands
  <2>2. marks[r.col] <= marks'[r.col] /\ (r \in ToWrite => r.seq <= marks'[r.col])
    BY <1>2, <1>3, Zenon DEF RaisedTo
  <2>3. CASE r \in ToWrite
    BY <1>1, <1>3, <1>5, <2>1, <2>2, <2>3
  <2>4. CASE r \notin ToWrite
    BY <1>1, <1>3, <1>5, <2>1, <2>2, <2>4
  <2> QED
    BY <2>3, <2>4, Zenon
<1>7. MarkIsHighestRow'
  <2> SUFFICES ASSUME NEW c \in Collectors
               PROVE  IF SeqsOf(c)' = {} THEN diskMarks'[c] = None
                      ELSE diskMarks'[c] \in SeqsOf(c)' /\ \A s \in SeqsOf(c)' : s <= diskMarks'[c]
    BY Zenon DEF MarkIsHighestRow, SeqsOf
  <2> DEFINE new == {r.seq : r \in {w \in ToWrite : w.col = c}}
  <2>1. SeqsOf(c)' = SeqsOf(c) \cup new
    <3>1. \A r \in Row : stored'[r] > 0 <=> stored[r] > 0 \/ r \in ToWrite
      BY <1>1, <1>3
    <3> QED
      BY <1>3, <3>1, Zenon DEF SeqsOf
  <2>2. /\ diskMarks'[c] \in {diskMarks[c]} \cup new
        /\ \A s \in {diskMarks[c]} \cup new : s <= diskMarks'[c]
    BY <1>2, Zenon DEF RaisedTo
  <2>3. IF SeqsOf(c) = {} THEN diskMarks[c] = None
        ELSE diskMarks[c] \in SeqsOf(c) /\ \A s \in SeqsOf(c) : s <= diskMarks[c]
    BY Zenon DEF MarkIsHighestRow, SeqsOf
  <2>4. SeqsOf(c) \subseteq Nat /\ new \subseteq Nat
    BY <1>3, Zenon DEF SeqsOf
  <2> HIDE DEF new
  <2>5. CASE SeqsOf(c) = {}
    BY <1>5, <2>1, <2>2, <2>3, <2>4, <2>5 DEF None
  <2>6. CASE SeqsOf(c) # {}
    <3>1. diskMarks[c] <= diskMarks'[c] /\ \A s \in SeqsOf(c) : s <= diskMarks[c]
      BY <2>2, <2>3, <2>6, Zenon
    <3>2. \A s \in SeqsOf(c) : s <= diskMarks'[c]
      BY <1>5, <2>4, <3>1
    <3>3. diskMarks'[c] \in SeqsOf(c) \cup new
      BY <2>2, <2>3, <2>6, Zenon
    <3> QED
      BY <2>1, <2>2, <2>6, <3>2, <3>3, Zenon
  <2> QED
    BY <2>5, <2>6, Zenon
<1> QED
  BY <1>4, <1>6, <1>7

\* A restart: the gate is the watermark on disk.
LEMMA RestartKeeps ==
    ASSUME GateInv, CrashAndRestart
    PROVE  GateInv'
<1> USE DEF GateInv
<1>1. UNCHANGED <<stored, diskMarks, faults>> /\ batch' = <<>> /\ chan' = <<>>
  BY Zenon DEF CrashAndRestart, diskVars
<1>2. Typed'
  BY <1>1 DEF CrashAndRestart, Typed, MarkValues
<1>3. MarkIsHighestRow'
  BY <1>1, Zenon DEF MarkIsHighestRow
<1>4. GateStands'
  <2> SUFFICES ASSUME "unreadable" \notin faults, NEW r \in Row
               PROVE  stored[r] <= 1 /\ (stored[r] > 0 => r.seq <= marks'[r.col])
    BY <1>1, Zenon DEF GateStands
  <2>1. marks' = diskMarks
    BY Zenon DEF CrashAndRestart
  <2> QED
    BY <2>1, StoredBelowMark, Zenon DEF GateStands
<1> QED
  BY <1>2, <1>3, <1>4, Zenon

LEMMA GateNext == GateInv /\ [Next]_vars => GateInv'
<1> SUFFICES ASSUME GateInv, [Next]_vars PROVE GateInv'
  BY Zenon
<1> USE DEF diskVars, writerVars, envVars
<1>0. batch \in Seq(Row) /\ chan \in Seq(Row \cup {Flush})
  BY Zenon DEF GateInv, Typed
<1>1. ASSUME NEW row, Enqueue(row) PROVE GateInv'
  <2>1. batch' = batch /\ chan' \in Seq(Row \cup {Flush})
    BY <1>0, <1>1 DEF Enqueue
  <2> QED
    BY <1>0, <1>1, <2>1, QuietStep DEF Enqueue
<1>2. CASE \E c \in Collectors : SubmitNext(c) \/ SubmitNextEpoch(c) \/ SubmitAfterSkip(c)
  <2>1. PICK c \in Collectors : SubmitNext(c) \/ SubmitNextEpoch(c) \/ SubmitAfterSkip(c)
    BY <1>2, Zenon
  <2>2. CASE SubmitNext(c)
    BY <1>1, <2>2 DEF SubmitNext, Submit
  <2>3. CASE SubmitNextEpoch(c)
    BY <1>1, <2>3 DEF SubmitNextEpoch, Submit
  <2>4. CASE SubmitAfterSkip(c)
    BY <1>1, <2>4, Zenon DEF SubmitAfterSkip, Submit
  <2> QED
    BY <2>1, <2>2, <2>3, <2>4
<1>3. CASE Redeliver
  BY <1>1, <1>3, Zenon DEF Redeliver
<1>4. CASE RequestFlush
  BY <1>0, <1>4, QuietStep DEF RequestFlush
<1>5. CASE Stop
  BY <1>0, <1>5, QuietStep, Zenon DEF Stop
<1>6. CASE Take
  <2>1. chan' \in Seq(Row \cup {Flush}) /\ batch' \in Seq(Row)
    <3>1. chan \in Seq(Row \cup {Flush}) /\ chan # <<>> /\ batch \in Seq(Row)
      BY <1>0, <1>6, Zenon DEF Take
    <3>2. /\ chan' = Tail(chan)
          /\ \/ Head(chan) = Flush /\ batch' = batch
             \/ Head(chan) # Flush /\ batch' = Append(batch, Head(chan))
      BY <1>6, Zenon DEF Take
    <3>3. Tail(chan) \in Seq(Row \cup {Flush}) /\ Head(chan) \in Row \cup {Flush}
      BY ONLY <3>1
    <3>4. CASE Head(chan) # Flush
      <4>1. Head(chan) \in Row
        BY <3>3, <3>4, Zenon
      <4>2. Append(batch, Head(chan)) \in Seq(Row)
        BY ONLY <3>1, <4>1
      <4> QED
        BY <3>2, <3>3, <3>4, <4>2, Zenon
    <3> QED
      BY <3>1, <3>2, <3>3, <3>4, Zenon
  <2> QED
    BY <1>6, <2>1, QuietStep DEF Take
<1>7. CASE CommitNothing \/ CommitFails
  <2>1. UNCHANGED <<stored, diskMarks, marks, faults, chan>> /\ batch' = <<>>
    BY <1>7, Zenon DEF CommitNothing, CommitFails
  <2> QED
    BY <1>0, <2>1, QuietStep
<1>8. CASE UNCHANGED vars
  BY <1>0, <1>8, QuietStep, Zenon DEF vars
<1> QED
  BY <1>2, <1>3, <1>4, <1>5, <1>6, <1>7, <1>8, CommitKeeps, RestartKeeps, Zenon DEF Next, Commit

\* The watermark a restart reads is the highest row stored, whatever fails and
\* whenever the process dies (put_batch, persist_watermarks).
THEOREM MarkExact == Spec => []MarkIsHighestRow
<1>1. GateInv => MarkIsHighestRow
  BY DEF GateInv
<1> QED
  BY <1>1, GateInit, GateNext, PTL DEF Spec

\* The idempotency gate: no row is stored twice while the watermarks can be
\* read at start (commit_batch, spawn).
THEOREM NothingTwice == Spec => []StoredOnce
<1>1. GateInv => StoredOnce
  BY Zenon DEF GateInv, GateStands, StoredOnce
<1> QED
  BY <1>1, GateInit, GateNext, PTL DEF Spec

-----------------------------------------------------------------------------
(* What is on its way to the store.                                        *)

\* The rows and the flush the writer has not dealt with: those of its batch,
\* then those of the channel.
Pipe == batch \o chan

\* Row r is at place k of q, and at no place before.
First(q, k, r) == q[k] = r /\ \A j \in 1 .. k - 1 : q[j] # r

\* Nothing follows a flush that is not answered yet.
Barrier ==
    /\ asked => waiting /\ chan = <<>>
    /\ \A i \in 1 .. Len(chan) : chan[i] = Flush => waiting /\ i = Len(chan)

\* A new row is above whatever was submitted or stored before.
Ahead ==
    /\ sent \subseteq Row /\ unsettled \subseteq sent /\ next \in [Collectors -> Nat]
    /\ \A c \in Collectors : marks[c] <= diskMarks[c] /\ diskMarks[c] < next[c]
    /\ \A k \in 1 .. Len(Pipe) : Pipe[k] # Flush => Pipe[k] \in sent
    /\ \A r \in sent : r.seq < next[r.col]

\* As long as commits succeed, every row that was submitted is stored or on its
\* way, and what is at or below one on its way comes no later.
AllThere ==
    "commit" \notin faults =>
        /\ ~failed
        /\ \A r \in sent : stored[r] > 0 \/ \E k \in 1 .. Len(Pipe) : First(Pipe, k, r)
        /\ \A i \in 1 .. Len(Pipe) : \A r \in sent :
              Pipe[i] # Flush /\ r.col = Pipe[i].col /\ r.seq <= Pipe[i].seq
              => stored[r] > 0 \/ \E k \in 1 .. i : First(Pipe, k, r)
        /\ \A r \in sent : r.seq <= marks[r.col] => stored[r] > 0

\* As long as nothing is delivered again, the rows on their way are above the
\* mark and increase, and what else has been submitted is stored, unless a
\* commit has failed.
AllFresh ==
    "redeliver" \notin faults =>
        /\ \A r \in unsettled : failed \/ stored[r] > 0 \/ \E k \in 1 .. Len(Pipe) : Pipe[k] = r
        /\ \A i \in 1 .. Len(Pipe) : Pipe[i] # Flush =>
              /\ marks[Pipe[i].col] < Pipe[i].seq
              /\ \A j \in 1 .. i - 1 : Pipe[j].col = Pipe[i].col => Pipe[j].seq < Pipe[i].seq

PipeInv == GateInv /\ Barrier /\ Ahead /\ AllThere /\ AllFresh

LEMMA FlushIsNoRow == Flush \notin Row
<1> SUFFICES ASSUME Flush \in Row PROVE FALSE
  BY Zenon
<1>1. DOMAIN Flush = {"flush"}
  BY Zenon DEF Flush
<1>2. DOMAIN Flush = {"col", "seq"}
  BY DEF Row
<1> QED
  BY <1>1, <1>2, Zenon

LEMMA RowFields == \A r \in Row : r.col \in Collectors /\ r.seq \in Nat
BY BoundsAssumption DEF Row, Seqs

\* The places of the pipe.
LEMMA PipePlaces ==
    ASSUME Typed
    PROVE  /\ Pipe \in Seq(Row \cup {Flush})
           /\ Len(batch) \in Nat /\ Len(chan) \in Nat /\ Len(Pipe) = Len(batch) + Len(chan)
           /\ \A k \in 1 .. Len(batch) : Pipe[k] = batch[k] /\ batch[k] \in Row
           /\ \A k \in 1 .. Len(chan) : Pipe[Len(batch) + k] = chan[k]
           /\ \A k \in Len(batch) + 1 .. Len(Pipe) : Pipe[k] = chan[k - Len(batch)]
           /\ \A k \in 1 .. Len(Pipe) : Pipe[k] # Flush => Pipe[k] \in Row
<1> DEFINE S == Row \cup {Flush}
<1>1. batch \in Seq(Row) /\ batch \in Seq(S) /\ chan \in Seq(S)
  BY DEF Typed
<1> HIDE DEF S
<1>2. /\ batch \o chan \in Seq(S)
      /\ Len(batch) \in Nat /\ Len(chan) \in Nat /\ Len(batch \o chan) = Len(batch) + Len(chan)
      /\ \A k \in 1 .. Len(batch) : (batch \o chan)[k] = batch[k] /\ batch[k] \in Row
      /\ \A k \in 1 .. Len(chan) : (batch \o chan)[Len(batch) + k] = chan[k]
      /\ \A k \in Len(batch) + 1 .. Len(batch) + Len(chan) :
            (batch \o chan)[k] = chan[k - Len(batch)]
      /\ \A k \in 1 .. Len(batch) + Len(chan) : (batch \o chan)[k] \in S
  BY <1>1
<1> QED
  BY <1>2, Zenon DEF Pipe, S

\* A row or a flush enters the channel.
LEMMA PipeGrows ==
    ASSUME Typed, NEW x \in Row \cup {Flush}, batch' = batch, chan' = Append(chan, x)
    PROVE  /\ Len(Pipe') = Len(Pipe) + 1 /\ Pipe'[Len(Pipe) + 1] = x
           /\ \A k \in 1 .. Len(Pipe) : Pipe'[k] = Pipe[k]
<1>1. batch \in Seq(Row \cup {Flush}) /\ chan \in Seq(Row \cup {Flush})
  BY DEF Typed
<1>2. Pipe' = batch \o Append(chan, x) /\ Pipe = batch \o chan
  BY Zenon DEF Pipe
<1> QED
  BY <1>1, <1>2

\* The writer takes the head of the channel.
LEMMA PipeTakes ==
    ASSUME Typed, Barrier, Take
    PROVE  /\ Len(Pipe') \in Nat /\ Len(Pipe') <= Len(Pipe)
           /\ \A k \in 1 .. Len(Pipe') : k \in 1 .. Len(Pipe) /\ Pipe'[k] = Pipe[k]
           /\ \A k \in 1 .. Len(Pipe) : k \in 1 .. Len(Pipe') \/ Pipe[k] = Flush
<1>1. /\ batch \in Seq(Row \cup {Flush}) /\ chan \in Seq(Row \cup {Flush}) /\ chan # <<>>
      /\ chan' = Tail(chan) /\ Pipe' = batch' \o chan' /\ Pipe = batch \o chan
  BY DEF Typed, Take, Pipe
<1>2. CASE Head(chan) = Flush
  <2>1. Len(chan) \in Nat \ {0} /\ Head(chan) = chan[1]
    BY <1>1
  <2>2. 1 \in 1 .. Len(chan) /\ chan[1] = Flush
    BY <1>2, <2>1
  <2>3. Len(chan) = 1
    BY <2>2, Zenon DEF Barrier
  <2>4. batch' = batch
    BY <1>2, Zenon DEF Take
  <2>5. Tail(chan) \in Seq(Row \cup {Flush}) /\ Len(Tail(chan)) = 0
    BY <1>1, <2>3
  <2>6. Len(Pipe) = Len(batch) + 1 /\ Len(batch) \in Nat /\ Pipe[Len(batch) + 1] = Flush
    BY <1>1, <2>2, <2>3
  <2>7. Len(Pipe') = Len(batch) /\ \A k \in 1 .. Len(batch) : Pipe'[k] = batch[k] /\ Pipe[k] = batch[k]
    BY <1>1, <2>4, <2>5
  <2> QED
    BY <2>6, <2>7
<1>3. CASE Head(chan) # Flush
  <2>1. batch' = Append(batch, Head(chan))
    BY <1>3, Zenon DEF Take
  <2>2. Len(Pipe') = Len(Pipe) /\ Len(Pipe) \in Nat /\ \A k \in 1 .. Len(Pipe) : Pipe'[k] = Pipe[k]
    BY <1>1, <2>1
  <2> QED
    BY <2>2
<1> QED
  BY <1>2, <1>3, Zenon

\* A commit takes the batch out of the pipe.
LEMMA PipeCommits ==
    ASSUME Typed, batch' = <<>>, chan' = chan
    PROVE  /\ Pipe' = chan /\ Len(Pipe') = Len(Pipe) - Len(batch)
           /\ \A k \in 1 .. Len(Pipe') :
                 Len(batch) + k \in 1 .. Len(Pipe) /\ Pipe'[k] = Pipe[Len(batch) + k]
<1>1. Pipe' = <<>> \o chan /\ chan \in Seq(Row \cup {Flush})
  BY Zenon DEF Pipe, Typed
<1>2. Pipe' = chan
  BY <1>1
<1> QED
  BY <1>2, PipePlaces

\* The next epoch begins above.
LEMMA EpochAhead == \A s \in Nat : NextEpoch(s) \in Nat /\ s < NextEpoch(s)
<1> TAKE s \in Nat
<1> DEFINE q == s \div EpochSize
           r == s % EpochSize
<1>1. EpochSize \in Nat /\ EpochSize > 0
  BY EpochAssumption
<1>2. q \in Nat /\ r \in Nat /\ s = EpochSize * q + r /\ r < EpochSize
  BY <1>1
<1>3. NextEpoch(s) = (q + 1) * EpochSize
  BY Zenon DEF NextEpoch
<1> HIDE DEF q, r
<1>4. (q + 1) * EpochSize = EpochSize * q + EpochSize
  BY <1>1, <1>2
<1>5. EpochSize * q \in Nat
  BY <1>1, <1>2
<1> QED
  BY <1>1, <1>2, <1>3, <1>4, <1>5

\* A row is submitted, for the first time or again.
LEMMA EnqueueKeeps ==
    ASSUME PipeInv, NEW row, Enqueue(row), next' \in [Collectors -> Nat],
           \A c \in Collectors : next[c] <= next'[c],
           row.seq < next'[row.col],
           ("redeliver" \in faults /\ row \in sent) \/ next[row.col] <= row.seq
    PROVE  Barrier' /\ Ahead' /\ AllThere' /\ AllFresh'
<1> DEFINE n == Len(Pipe)
<1>0. Typed /\ Barrier /\ Ahead /\ AllThere /\ AllFresh
  BY Zenon DEF PipeInv, GateInv
<1>1. /\ row \in Row /\ row.col \in Collectors /\ row.seq \in Nat /\ row # Flush
      /\ ~waiting /\ chan' = Append(chan, row) /\ sent' = sent \cup {row}
      /\ unsettled' = unsettled \cup {row}
      /\ UNCHANGED <<stored, diskMarks, batch, asked, marks, failed, waiting, faults>>
  BY RowFields, FlushIsNoRow, Zenon DEF Enqueue, diskVars, writerVars, envVars
<1>2. /\ Len(Pipe') = n + 1 /\ Pipe'[n + 1] = row /\ \A k \in 1 .. n : Pipe'[k] = Pipe[k]
  BY <1>0, <1>1, PipeGrows, Zenon
<1>3. n \in Nat /\ \A k \in 1 .. n + 1 : k \in 1 .. n \/ k = n + 1
  BY <1>0, PipePlaces
<1>4. \A r \in sent : r \in Row /\ r.col \in Collectors /\ r.seq \in Nat
  BY <1>0, RowFields, Zenon DEF Ahead
<1>5. /\ \A c \in Collectors : /\ marks[c] \in Int /\ diskMarks[c] \in Int /\ next[c] \in Nat
                               /\ next'[c] \in Nat /\ marks[c] < next[c]
      /\ \A r \in sent : r.seq < next[r.col]
  <2>1. \A c \in Collectors : marks[c] \in Int /\ diskMarks[c] \in Int
    BY <1>0, BoundsAssumption DEF Typed, MarkValues, Seqs, None
  <2>2. \A c \in Collectors : next[c] \in Nat /\ next'[c] \in Nat
    BY <1>0, Zenon DEF Ahead
  <2>3. \A c \in Collectors : marks[c] <= diskMarks[c] /\ diskMarks[c] < next[c]
    BY <1>0, Zenon DEF Ahead
  <2>4. \A c \in Collectors : marks[c] < next[c]
    BY <2>1, <2>2, <2>3
  <2> QED
    BY <1>0, <2>1, <2>2, <2>4, Zenon DEF Ahead
<1>6. \A i \in 1 .. n : Pipe[i] # Flush => Pipe[i] \in sent
  BY <1>0, Zenon DEF Ahead
<1>7. n + 1 \in 1 .. n + 1 /\ \A k \in 1 .. n : k \in 1 .. n + 1
  BY <1>3
<1> HIDE DEF n
<1>8. Barrier'
  <2>1. ~asked' /\ \A i \in 1 .. Len(chan) : chan[i] # Flush
    BY <1>0, <1>1, Zenon DEF Barrier
  <2>2. \A i \in 1 .. Len(chan') : chan'[i] # Flush
    <3>1. chan \in Seq(Row \cup {Flush})
      BY <1>0, Zenon DEF Typed
    <3>2. /\ Len(chan') = Len(chan) + 1 /\ chan'[Len(chan) + 1] = row /\ Len(chan) \in Nat
          /\ \A i \in 1 .. Len(chan) : chan'[i] = chan[i]
      <4>1. chan' = Append(chan, row) /\ row \in Row
        BY <1>1, Zenon
      <4> QED
        BY ONLY <3>1, <4>1
    <3>3. \A i \in 1 .. Len(chan') : i \in 1 .. Len(chan) \/ i = Len(chan) + 1
      BY <3>2
    <3> TAKE i \in 1 .. Len(chan')
    <3>4. CASE i \in 1 .. Len(chan)
      BY <2>1, <3>2, <3>4, Zenon
    <3>5. CASE i = Len(chan) + 1
      BY <1>1, <3>2, <3>5, Zenon
    <3> QED
      BY <3>3, <3>4, <3>5, Zenon
  <2> QED
    BY <2>1, <2>2, Zenon DEF Barrier
<1>9. Ahead'
  <2>1. \A c \in Collectors : marks'[c] <= diskMarks'[c] /\ diskMarks'[c] < next'[c]
    <3> TAKE c \in Collectors
    <3>1. marks[c] <= diskMarks[c] /\ diskMarks[c] < next[c] /\ next[c] <= next'[c]
      BY <1>0, Zenon DEF Ahead
    <3> QED
      BY <1>1, <1>5, <3>1
  <2>2. \A r \in sent' : r.seq < next'[r.col]
    <3> SUFFICES ASSUME NEW r \in sent PROVE r.seq < next'[r.col]
      BY <1>1, Zenon
    <3>1. r.seq < next[r.col] /\ next[r.col] <= next'[r.col] /\ r.seq \in Nat
          /\ next[r.col] \in Nat /\ next'[r.col] \in Nat
      BY <1>4, <1>5, Zenon
    <3> QED
      BY <3>1
  <2>3. \A k \in 1 .. Len(Pipe') : Pipe'[k] # Flush => Pipe'[k] \in sent'
    BY <1>1, <1>2, <1>3, <1>6, Zenon
  <2>4. sent' \subseteq Row /\ unsettled' \subseteq sent'
    BY <1>0, <1>1, Zenon DEF Ahead
  <2> QED
    BY <2>1, <2>2, <2>3, <2>4, Zenon DEF Ahead
<1>10. \A k \in 1 .. n : \A r : First(Pipe, k, r) => First(Pipe', k, r)
  <2>1. \A k \in 1 .. n : k \in 1 .. n /\ \A j \in 1 .. k - 1 : j \in 1 .. n
    BY <1>3
  <2> QED
    BY <1>2, <2>1, Zenon DEF First
<1>11. ASSUME "commit" \notin faults PROVE AllThere'
  <2> DEFINE Found(r, i) == \E k \in 1 .. i : First(Pipe, k, r)
             FoundNow(r, i) == \E k \in 1 .. i : First(Pipe', k, r)
  <2>1. /\ ~failed /\ \A r \in sent : stored[r] > 0 \/ Found(r, n)
        /\ \A i \in 1 .. n : \A r \in sent :
              Pipe[i] # Flush /\ r.col = Pipe[i].col /\ r.seq <= Pipe[i].seq => stored[r] > 0 \/ Found(r, i)
        /\ \A r \in sent : r.seq <= marks[r.col] => stored[r] > 0
    BY <1>0, <1>11, Zenon DEF AllThere, n
  <2>2. \A i \in 1 .. n : \A r : Found(r, i) => FoundNow(r, i) /\ FoundNow(r, n + 1)
    <3>1. \A i \in 1 .. n : \A k \in 1 .. i : k \in 1 .. n /\ k \in 1 .. n + 1
      BY <1>3
    <3> QED
      BY <1>10, <3>1, Zenon
  <2>3. \A r : Found(r, n) => FoundNow(r, n + 1)
    BY <1>7, <1>10, Zenon
  <2>4. row \notin sent => FoundNow(row, n + 1)
    <3> SUFFICES ASSUME row \notin sent PROVE First(Pipe', n + 1, row)
      BY <1>7, Zenon
    <3>1. \A j \in 1 .. n : Pipe[j] # row
      BY <1>1, <1>6, Zenon
    <3>2. \A j \in 1 .. n + 1 - 1 : j \in 1 .. n
      BY <1>3
    <3> QED
      BY <1>2, <1>3, <3>1, <3>2 DEF First
  <2>5. row \notin sent => next[row.col] <= row.seq
    BY Zenon
  <2> HIDE DEF Found, FoundNow
  <2>6. \A r \in sent' : stored[r] > 0 \/ FoundNow(r, n + 1)
    BY <1>1, <2>1, <2>3, <2>4, Zenon
  <2>7. ASSUME NEW i \in 1 .. n + 1, NEW r \in sent', Pipe'[i] # Flush, r.col = Pipe'[i].col,
               r.seq <= Pipe'[i].seq
        PROVE  stored[r] > 0 \/ FoundNow(r, i)
    <3>1. CASE i = n + 1
      BY <2>6, <3>1, Zenon
    <3>2. CASE i # n + 1
      <4>1. i \in 1 .. n /\ Pipe'[i] = Pipe[i] /\ Pipe[i] \in sent
        BY <1>2, <1>3, <1>6, <2>7, <3>2, Zenon
      <4>2. r \in sent
        <5> SUFFICES ASSUME r = row, row \notin sent PROVE FALSE
          BY <1>1, <2>7, Zenon
        <5>1. Pipe[i].seq < next[row.col] /\ next[row.col] <= row.seq /\ row.seq <= Pipe[i].seq
          BY <1>5, <2>5, <2>7, <4>1, Zenon
        <5>2. Pipe[i].seq \in Nat /\ row.seq \in Nat /\ next[row.col] \in Nat
          BY <1>1, <1>4, <1>5, <4>1, Zenon
        <5> QED
          BY <5>1, <5>2
      <4> QED
        BY <2>1, <2>2, <2>7, <4>1, <4>2, Zenon
    <3> QED
      BY <3>1, <3>2, Zenon
  <2>8. \A r \in sent' : r.seq <= marks[r.col] => stored[r] > 0
    <3> SUFFICES ASSUME row \notin sent, row.seq <= marks[row.col] PROVE FALSE
      BY <1>1, <2>1, Zenon
    <3> QED
      BY <1>1, <1>5, <2>5
  <2> QED
    BY <1>1, <1>2, <2>1, <2>6, <2>7, <2>8, Zenon DEF AllThere, FoundNow
<1>12. ASSUME "redeliver" \notin faults PROVE AllFresh'
  <2>0. next[row.col] <= row.seq
    BY <1>12, Zenon
  <2>1. /\ \A r \in unsettled : failed \/ stored[r] > 0 \/ \E k \in 1 .. n : Pipe[k] = r
        /\ \A i \in 1 .. n : Pipe[i] # Flush =>
              /\ marks[Pipe[i].col] < Pipe[i].seq
              /\ \A j \in 1 .. i - 1 : Pipe[j].col = Pipe[i].col => Pipe[j].seq < Pipe[i].seq
    BY <1>0, <1>12, Zenon DEF AllFresh, n
  <2>2. \A r \in unsettled' : failed' \/ stored'[r] > 0 \/ \E k \in 1 .. Len(Pipe') : Pipe'[k] = r
    BY <1>1, <1>2, <1>7, <2>1, Zenon
  <2>3. ASSUME NEW i \in 1 .. n + 1, Pipe'[i] # Flush
        PROVE  /\ marks[Pipe'[i].col] < Pipe'[i].seq
               /\ \A j \in 1 .. i - 1 : Pipe'[j].col = Pipe'[i].col => Pipe'[j].seq < Pipe'[i].seq
    <3>1. CASE i = n + 1
      <4>1. marks[row.col] < row.seq
        BY <1>1, <1>5, <2>0
      <4>2. ASSUME NEW j \in 1 .. n, Pipe[j].col = row.col PROVE Pipe[j].seq < row.seq
        <5>1. Pipe[j] # Flush
          <6>1. \A q \in 1 .. Len(chan) : chan[q] # Flush
            BY <1>0, <1>1, Zenon DEF Barrier
          <6>2. CASE j \in 1 .. Len(batch)
            BY <1>0, <6>2, PipePlaces, FlushIsNoRow, Zenon
          <6>3. CASE j \notin 1 .. Len(batch)
            <7>1. j \in Len(batch) + 1 .. Len(Pipe) /\ j - Len(batch) \in 1 .. Len(chan)
              BY <1>0, <6>3, PipePlaces DEF n
            <7> QED
              BY <1>0, <6>1, <7>1, PipePlaces, Zenon
          <6> QED
            BY <6>2, <6>3, Zenon
        <5>2. Pipe[j].seq < next[row.col] /\ Pipe[j].seq \in Nat /\ next[row.col] \in Nat
          BY <1>1, <1>4, <1>5, <1>6, <4>2, <5>1, Zenon
        <5> QED
          BY <1>1, <2>0, <5>2
      <4>3. i - 1 = n
        BY <1>3, <3>1
      <4> QED
        BY <1>2, <3>1, <4>1, <4>2, <4>3, Zenon
    <3>2. CASE i # n + 1
      <4>1. i \in 1 .. n /\ Pipe'[i] = Pipe[i]
        BY <1>2, <1>3, <3>2, Zenon
      <4>2. \A j \in 1 .. i - 1 : j \in 1 .. n
        BY <1>3, <4>1
      <4> QED
        BY <1>2, <2>1, <2>3, <4>1, <4>2, Zenon
    <3> QED
      BY <3>1, <3>2, Zenon
  <2> QED
    BY <1>1, <1>2, <2>2, <2>3, Zenon DEF AllFresh
<1>13. AllThere' /\ AllFresh'
  BY <1>1, <1>11, <1>12, Zenon DEF AllThere, AllFresh
<1> QED
  BY <1>8, <1>9, <1>13, Zenon

\* A step that takes nothing from the pipe but a flush, and adds nothing but one.
LEMMA PlacesKeep ==
    ASSUME PipeInv, UNCHANGED <<stored, diskMarks, marks, failed, faults, next, sent, unsettled>>,
           \A k \in 1 .. Len(Pipe') : Pipe'[k] = Flush \/ (k \in 1 .. Len(Pipe) /\ Pipe'[k] = Pipe[k]),
           \A k \in 1 .. Len(Pipe) : Pipe[k] = Flush \/ (k \in 1 .. Len(Pipe') /\ Pipe'[k] = Pipe[k]),
           \A k \in 1 .. Len(Pipe) : k \in 1 .. Len(Pipe') => Pipe'[k] = Pipe[k],
           Len(Pipe) \in Nat, Len(Pipe') \in Nat
    PROVE  Ahead' /\ AllThere' /\ AllFresh'
<1> DEFINE n == Len(Pipe)
           m == Len(Pipe')
<1>0. Typed /\ Ahead /\ AllThere /\ AllFresh
  BY Zenon DEF PipeInv, GateInv
<1>1. \A r \in sent : r # Flush
  BY <1>0, FlushIsNoRow, Zenon DEF Ahead
<1>2. \A k \in 1 .. m : \A j \in 1 .. k : j \in 1 .. m
  OBVIOUS
<1>3. \A k \in 1 .. n : \A j \in 1 .. k : j \in 1 .. n
  OBVIOUS
<1>4. \A k \in 1 .. n : \A j \in 1 .. k - 1 : j \in 1 .. k
  OBVIOUS
<1>5. Ahead'
  BY <1>0, Zenon DEF Ahead
<1>6. \A k \in 1 .. n : \A r \in sent : First(Pipe, k, r) => k \in 1 .. m /\ First(Pipe', k, r)
  <2> SUFFICES ASSUME NEW k \in 1 .. n, NEW r \in sent, Pipe[k] = r, \A j \in 1 .. k - 1 : Pipe[j] # r
               PROVE  k \in 1 .. m /\ Pipe'[k] = r /\ \A j \in 1 .. k - 1 : Pipe'[j] # r
    BY Zenon DEF First
  <2>1. k \in 1 .. m /\ Pipe'[k] = r
    BY <1>1, Zenon
  <2>2. \A j \in 1 .. k - 1 : j \in 1 .. n /\ j \in 1 .. m
    BY <1>2, <1>3, <1>4, <2>1, Zenon
  <2> QED
    BY <2>1, <2>2, Zenon
<1>7. ASSUME "commit" \notin faults PROVE AllThere'
  <2> DEFINE Found(r, i) == \E k \in 1 .. i : First(Pipe, k, r)
             FoundNow(r, i) == \E k \in 1 .. i : First(Pipe', k, r)
  <2>1. /\ ~failed /\ \A r \in sent : stored[r] > 0 \/ Found(r, n)
        /\ \A i \in 1 .. n : \A r \in sent :
              Pipe[i] # Flush /\ r.col = Pipe[i].col /\ r.seq <= Pipe[i].seq => stored[r] > 0 \/ Found(r, i)
        /\ \A r \in sent : r.seq <= marks[r.col] => stored[r] > 0
    BY <1>0, <1>7, Zenon DEF AllThere
  <2>2. \A r \in sent : Found(r, n) => FoundNow(r, m)
    BY <1>6, Zenon
  <2>3. \A i \in 1 .. n : \A r \in sent : Found(r, i) => FoundNow(r, i)
    BY <1>3, <1>6, Zenon
  <2> HIDE DEF Found, FoundNow
  <2>4. \A i \in 1 .. m : \A r \in sent :
           Pipe'[i] # Flush /\ r.col = Pipe'[i].col /\ r.seq <= Pipe'[i].seq
           => stored[r] > 0 \/ FoundNow(r, i)
    BY <2>1, <2>3, Zenon
  <2> QED
    BY <2>1, <2>2, <2>4, Zenon DEF AllThere, FoundNow
<1>8. ASSUME "redeliver" \notin faults PROVE AllFresh'
  <2>1. /\ \A r \in unsettled : failed \/ stored[r] > 0 \/ \E k \in 1 .. n : Pipe[k] = r
        /\ \A i \in 1 .. n : Pipe[i] # Flush =>
              /\ marks[Pipe[i].col] < Pipe[i].seq
              /\ \A j \in 1 .. i - 1 : Pipe[j].col = Pipe[i].col => Pipe[j].seq < Pipe[i].seq
    BY <1>0, <1>8, Zenon DEF AllFresh
  <2>2. \A r \in unsettled : r # Flush
    BY <1>0, <1>1, Zenon DEF Ahead
  <2>3. \A r \in unsettled : failed \/ stored[r] > 0 \/ \E k \in 1 .. m : Pipe'[k] = r
    BY <2>1, <2>2, Zenon
  <2>4. ASSUME NEW i \in 1 .. m, Pipe'[i] # Flush
        PROVE  /\ marks[Pipe'[i].col] < Pipe'[i].seq
               /\ \A j \in 1 .. i - 1 : Pipe'[j].col = Pipe'[i].col => Pipe'[j].seq < Pipe'[i].seq
    <3>1. i \in 1 .. n /\ Pipe'[i] = Pipe[i]
      BY <2>4, Zenon
    <3>2. \A j \in 1 .. i - 1 : j \in 1 .. n /\ j \in 1 .. m
      BY <1>2, <1>3, <1>4, <3>1, Zenon
    <3> QED
      BY <2>1, <2>4, <3>1, <3>2, Zenon
  <2> QED
    BY <2>3, <2>4, Zenon DEF AllFresh
<1> QED
  BY <1>5, <1>7, <1>8, Zenon DEF AllThere, AllFresh

\* A flush is requested, or the writer takes the head of the channel.
LEMMA TakeKeeps ==
    ASSUME PipeInv, RequestFlush \/ Take
    PROVE  Barrier' /\ Ahead' /\ AllThere' /\ AllFresh'
<1>0. Typed /\ Barrier /\ chan \in Seq(Row \cup {Flush})
  BY Zenon DEF PipeInv, GateInv, Typed
<1>1. UNCHANGED <<stored, diskMarks, marks, failed, faults, next, sent, unsettled>>
  BY Zenon DEF RequestFlush, Take, diskVars, writerVars, envVars, historyVars
<1>2. Len(Pipe) \in Nat
  BY <1>0, PipePlaces
<1>3. CASE RequestFlush
  <2>1. batch' = batch /\ chan' = Append(chan, Flush) /\ waiting' /\ ~waiting /\ asked' = asked
    BY <1>3, Zenon DEF RequestFlush, writerVars
  <2>2. /\ Len(Pipe') = Len(Pipe) + 1 /\ Pipe'[Len(Pipe) + 1] = Flush
        /\ \A k \in 1 .. Len(Pipe) : Pipe'[k] = Pipe[k]
    <3>1. Flush \in Row \cup {Flush}
      BY Zenon
    <3> QED
      BY <1>0, <2>1, <3>1, PipeGrows, Zenon
  <2>3. /\ \A k \in 1 .. Len(Pipe') : k = Len(Pipe) + 1 \/ k \in 1 .. Len(Pipe)
        /\ \A k \in 1 .. Len(Pipe) : k \in 1 .. Len(Pipe')
        /\ Len(Pipe') \in Nat
    BY <1>2, <2>2
  <2>4. Ahead' /\ AllThere' /\ AllFresh'
    BY <1>1, <1>2, <2>2, <2>3, PlacesKeep, Zenon
  <2>5. Barrier'
    <3>1. ~asked /\ \A i \in 1 .. Len(chan) : chan[i] # Flush
      BY <1>0, <2>1, Zenon DEF Barrier
    <3>2. /\ Len(chan') = Len(chan) + 1 /\ Len(chan) \in Nat
          /\ \A i \in 1 .. Len(chan) : chan'[i] = chan[i]
      <4>1. chan' = Append(chan, Flush) /\ Flush \in Row \cup {Flush}
        BY <2>1, Zenon
      <4> QED
        BY ONLY <1>0, <4>1
    <3>3. \A i \in 1 .. Len(chan') : i \in 1 .. Len(chan) \/ i = Len(chan')
      BY <3>2
    <3> QED
      BY <2>1, <3>1, <3>2, <3>3, Zenon DEF Barrier
  <2> QED
    BY <2>4, <2>5, Zenon
<1>4. CASE Take
  <2>1. /\ Len(Pipe') \in Nat
        /\ \A k \in 1 .. Len(Pipe') : k \in 1 .. Len(Pipe) /\ Pipe'[k] = Pipe[k]
        /\ \A k \in 1 .. Len(Pipe) : k \in 1 .. Len(Pipe') \/ Pipe[k] = Flush
    BY <1>0, <1>4, PipeTakes, Zenon
  <2>2. Ahead' /\ AllThere' /\ AllFresh'
    BY <1>1, <1>2, <2>1, PlacesKeep, Zenon
  <2>3. Barrier'
    <3>1. chan # <<>> /\ chan' = Tail(chan) /\ waiting' = waiting /\ ~asked
          /\ IF Head(chan) = Flush THEN asked' = TRUE ELSE asked' = asked
      BY <1>4, Zenon DEF Take
    <3>2. /\ Len(chan) \in Nat \ {0} /\ Head(chan) = chan[1] /\ Len(chan') = Len(chan) - 1
          /\ \A i \in 1 .. Len(chan') : chan'[i] = chan[i + 1] /\ i + 1 \in 1 .. Len(chan)
          /\ 1 \in 1 .. Len(chan)
      BY ONLY <1>0, <3>1
    <3>3. \A i \in 1 .. Len(chan') : chan'[i] = Flush => waiting' /\ i = Len(chan')
      <4> SUFFICES ASSUME NEW i \in 1 .. Len(chan'), chan'[i] = Flush PROVE waiting' /\ i = Len(chan')
        BY Zenon
      <4>1. i + 1 \in 1 .. Len(chan) /\ chan[i + 1] = Flush
        BY <3>2
      <4>2. waiting /\ i + 1 = Len(chan)
        BY <1>0, <4>1, Zenon DEF Barrier
      <4>3. i = Len(chan')
        BY <3>2, <4>2
      <4> QED
        BY <3>1, <4>2, <4>3, Zenon
    <3>4. asked' => waiting' /\ chan' = <<>>
      <4> SUFFICES ASSUME asked' PROVE waiting' /\ chan' = <<>>
        BY Zenon
      <4>1. chan[1] = Flush
        BY <3>1, <3>2, Zenon
      <4>2. waiting /\ 1 = Len(chan)
        BY <1>0, <3>2, <4>1, Zenon DEF Barrier
      <4>3. chan' \in Seq(Row \cup {Flush}) /\ Len(chan') = 0
        BY <1>0, <3>1, <3>2, <4>2
      <4> QED
        BY <3>1, <4>2, <4>3
    <3> QED
      BY <3>3, <3>4, Zenon DEF Barrier
  <2> QED
    BY <2>2, <2>3, Zenon
<1> QED
  BY <1>3, <1>4, Zenon

\* What a commit writes and how it raises the marks.
LEMMA CommitEffect ==
    ASSUME GateInv, CommitNothing \/ CommitRows
    PROVE  /\ ToWrite \subseteq Row
           /\ \A r \in Row : stored[r] > 0 \/ r \in ToWrite <=> stored'[r] > 0
           /\ \A c \in Collectors :
                 /\ marks'[c] = marks[c] \/ \E r \in ToWrite : r.col = c /\ marks'[c] = r.seq
                 /\ diskMarks'[c] = diskMarks[c] \/ \E r \in ToWrite : r.col = c /\ diskMarks'[c] = r.seq
                 /\ marks[c] <= marks'[c] /\ diskMarks[c] <= diskMarks'[c]
           /\ \A r \in ToWrite : r.seq <= marks'[r.col] /\ r.seq <= diskMarks'[r.col]
           /\ batch' = <<>> /\ UNCHANGED <<chan, next, sent, faults, crashes>>
<1>0. Typed
  BY Zenon DEF GateInv
<1>1. ToWrite \subseteq Row
  <2>1. \A i \in Survivors : batch[i] \in Row
    BY <1>0 DEF Survivors, Typed
  <2> QED
    BY <2>1, Zenon DEF ToWrite
<1>2. batch' = <<>> /\ UNCHANGED <<chan, next, sent, faults, crashes>>
  BY Zenon DEF CommitNothing, CommitRows, envVars
<1>3. CASE CommitNothing
  <2>1. ToWrite = {} /\ UNCHANGED <<stored, marks, diskMarks>>
    BY <1>3, Zenon DEF CommitNothing, diskVars
  <2>2. \A c \in Collectors : marks[c] <= marks[c] /\ diskMarks[c] <= diskMarks[c]
    <3>1. \A c \in Collectors : marks[c] \in Int /\ diskMarks[c] \in Int
      BY <1>0, BoundsAssumption DEF Typed, MarkValues, Seqs, None
    <3> QED
      BY <3>1
  <2>3. \A r \in Row : stored[r] > 0 \/ r \in ToWrite <=> stored'[r] > 0
    BY <2>1, Zenon
  <2>4. \A r \in ToWrite : r.seq <= marks'[r.col] /\ r.seq <= diskMarks'[r.col]
    BY <2>1, Zenon
  <2>5. \A c \in Collectors : /\ marks'[c] = marks[c] /\ diskMarks'[c] = diskMarks[c]
                              /\ marks[c] <= marks'[c] /\ diskMarks[c] <= diskMarks'[c]
    BY <2>1, <2>2, Zenon
  <2> QED
    BY <1>1, <1>2, <2>3, <2>4, <2>5, Zenon
<1>4. CASE CommitRows
  <2>1. \A r \in Row : stored[r] > 0 \/ r \in ToWrite <=> stored'[r] > 0
    <3> TAKE r \in Row
    <3>1. stored'[r] = stored[r] + Cardinality({i \in Survivors : batch[i] = r})
      BY <1>4, Zenon DEF CommitRows
    <3>2. Cardinality({i \in Survivors : batch[i] = r}) = IF r \in ToWrite THEN 1 ELSE 0
      BY <1>0, WrittenOnce, Zenon
    <3>3. stored[r] \in Nat
      BY <1>0, Zenon DEF Typed
    <3> QED
      BY <3>1, <3>2, <3>3
  <2>2. RaisedTo(marks, ToWrite, marks') /\ RaisedTo(diskMarks, ToWrite, diskMarks')
    BY <1>4, Zenon DEF CommitRows
  <2>3. \A r \in ToWrite : r.col \in Collectors
    BY <1>1, RowFields, Zenon
  <2>4. \A c \in Collectors :
           /\ marks'[c] = marks[c] \/ \E r \in ToWrite : r.col = c /\ marks'[c] = r.seq
           /\ diskMarks'[c] = diskMarks[c] \/ \E r \in ToWrite : r.col = c /\ diskMarks'[c] = r.seq
           /\ marks[c] <= marks'[c] /\ diskMarks[c] <= diskMarks'[c]
    BY <2>2, Zenon DEF RaisedTo
  <2>5. \A r \in ToWrite : r.seq <= marks'[r.col] /\ r.seq <= diskMarks'[r.col]
    BY <2>2, <2>3, Zenon DEF RaisedTo
  <2> QED
    BY <1>1, <1>2, <2>1, <2>4, <2>5, Zenon
<1> QED
  BY <1>3, <1>4, Zenon

\* A row of the batch is written, unless the gate turns it away.
LEMMA BatchLands ==
    ASSUME Typed, NEW k \in 1 .. Len(batch), NEW r, First(Pipe, k, r), marks[r.col] < r.seq
    PROVE  r \in ToWrite
<1>1. \A j \in 1 .. k : j \in 1 .. Len(batch)
  BY PipePlaces
<1>2. k \in DOMAIN batch /\ k \in 1 .. k
  BY DEF Typed
<1>3. \A j \in 1 .. k : Pipe[j] = batch[j]
  BY <1>1, PipePlaces, Zenon
<1>4. \A j \in 1 .. k - 1 : j \in 1 .. k
  BY PipePlaces
<1>5. batch[k] = r /\ \A j \in 1 .. k - 1 : batch[j] # batch[k]
  BY <1>2, <1>3, <1>4, Zenon DEF First
<1>6. batch[k].seq > marks[batch[k].col]
  <2>1. batch[k].col \in Collectors /\ batch[k].seq \in Nat
    BY RowFields, PipePlaces, Zenon
  <2>2. marks[batch[k].col] \in Int
    BY <2>1, BoundsAssumption DEF Typed, MarkValues, Seqs, None
  <2> QED
    BY <1>5, <2>1, <2>2
<1>7. k \in Survivors
  BY <1>2, <1>5, <1>6, Zenon DEF Survivors
<1> QED
  BY <1>5, <1>7, Zenon DEF ToWrite

\* What of a row that was on its way is left after a commit.
LEMMA AfterCommit ==
    ASSUME GateInv, CommitNothing \/ CommitRows, NEW r \in Row,
           r.seq <= marks[r.col] => stored[r] > 0,
           NEW k \in 1 .. Len(Pipe), First(Pipe, k, r)
    PROVE  stored'[r] > 0 \/ (k - Len(batch) \in 1 .. Len(Pipe') /\ First(Pipe', k - Len(batch), r))
<1>0. Typed
  BY Zenon DEF GateInv
<1>1. /\ \A s \in Row : stored[s] > 0 \/ s \in ToWrite <=> stored'[s] > 0
      /\ batch' = <<>> /\ chan' = chan
  BY CommitEffect, Zenon
<1>2. CASE k \in 1 .. Len(batch)
  <2>1. r.seq \in Nat /\ marks[r.col] \in Int
    BY <1>0, RowFields, BoundsAssumption DEF Typed, MarkValues, Seqs, None
  <2>2. CASE r.seq <= marks[r.col]
    BY <1>1, <2>2, Zenon
  <2>3. CASE ~(r.seq <= marks[r.col])
    <3>1. marks[r.col] < r.seq
      BY <2>1, <2>3
    <3> QED
      BY <1>0, <1>1, <1>2, <3>1, BatchLands, Zenon
  <2> QED
    BY <2>2, <2>3, Zenon
<1>3. CASE k \notin 1 .. Len(batch)
  <2> DEFINE i == k - Len(batch)
  <2>1. /\ Len(Pipe') = Len(Pipe) - Len(batch)
        /\ \A j \in 1 .. Len(Pipe') : Pipe'[j] = Pipe[Len(batch) + j]
    BY <1>0, <1>1, PipeCommits, Zenon
  <2>2. Len(Pipe) \in Nat /\ Len(batch) \in Nat
    BY <1>0, PipePlaces
  <2>3. /\ i \in 1 .. Len(Pipe') /\ Len(batch) + i = k
        /\ \A j \in 1 .. i - 1 : j \in 1 .. Len(Pipe') /\ Len(batch) + j \in 1 .. k - 1
    BY <1>3, <2>1, <2>2
  <2> HIDE DEF i
  <2>4. Pipe'[i] = r
    BY <2>1, <2>3, Zenon DEF First
  <2>5. \A j \in 1 .. i - 1 : Pipe'[j] # r
    BY <2>1, <2>3, Zenon DEF First
  <2> QED
    BY <2>3, <2>4, <2>5, Zenon DEF First, i
<1> QED
  BY <1>2, <1>3, Zenon

\* A commit that succeeds keeps what is said of the rows on their way.
LEMMA CommitKeepsAhead ==
    ASSUME PipeInv, CommitNothing \/ CommitRows, unsettled' \in {unsettled, {}}
    PROVE  Ahead'
<1>0. GateInv /\ Typed /\ Ahead
  BY Zenon DEF PipeInv, GateInv
<1>1. /\ ToWrite \subseteq Row /\ batch' = <<>> /\ UNCHANGED <<chan, next, sent>>
      /\ \A c \in Collectors :
            /\ marks'[c] = marks[c] \/ \E r \in ToWrite : r.col = c /\ marks'[c] = r.seq
            /\ diskMarks'[c] = diskMarks[c] \/ \E r \in ToWrite : r.col = c /\ diskMarks'[c] = r.seq
            /\ diskMarks[c] <= diskMarks'[c]
      /\ \A r \in ToWrite : r.seq <= diskMarks'[r.col]
  BY <1>0, CommitEffect, Zenon
<1>2. /\ \A k \in 1 .. Len(Pipe') :
            Len(batch) + k \in 1 .. Len(Pipe) /\ Pipe'[k] = Pipe[Len(batch) + k]
  BY <1>0, <1>1, PipeCommits, Zenon
<1>3. ToWrite \subseteq sent
  <2>1. \A i \in Survivors : i \in 1 .. Len(batch)
    BY <1>0 DEF Survivors, Typed
  <2>2. \A i \in 1 .. Len(batch) : i \in 1 .. Len(Pipe) /\ Pipe[i] = batch[i] /\ batch[i] \in Row
    BY <1>0, PipePlaces
  <2>3. \A i \in Survivors : batch[i] \in sent
    BY <1>0, <2>1, <2>2, FlushIsNoRow, Zenon DEF Ahead
  <2> QED
    BY <2>3, Zenon DEF ToWrite
<1>4. \A c \in Collectors : marks'[c] <= diskMarks'[c] /\ diskMarks'[c] < next'[c]
  <2> TAKE c \in Collectors
  <2>1. /\ marks[c] \in Int /\ diskMarks[c] \in Int /\ marks'[c] \in Int /\ diskMarks'[c] \in Int
    <3>1. GateInv'
      BY <1>0, GateNext, Zenon DEF Next, Commit
    <3> QED
      BY <1>0, <3>1, BoundsAssumption DEF GateInv, Typed, MarkValues, Seqs, None
  <2>2. marks[c] <= diskMarks[c] /\ diskMarks[c] < next[c] /\ diskMarks[c] <= diskMarks'[c] /\ next[c] \in Nat
    BY <1>0, <1>1, Zenon DEF Ahead
  <2>3. marks'[c] <= diskMarks'[c]
    <3>1. CASE marks'[c] = marks[c]
      BY <2>1, <2>2, <3>1
    <3>2. CASE \E r \in ToWrite : r.col = c /\ marks'[c] = r.seq
      BY <1>1, <3>2, Zenon
    <3> QED
      BY <1>1, <3>1, <3>2, Zenon
  <2>4. diskMarks'[c] < next'[c]
    <3>1. CASE diskMarks'[c] = diskMarks[c]
      BY <1>1, <2>2, <3>1, Zenon
    <3>2. CASE \E r \in ToWrite : r.col = c /\ diskMarks'[c] = r.seq
      BY <1>0, <1>1, <1>3, <3>2, Zenon DEF Ahead
    <3> QED
      BY <1>1, <3>1, <3>2, Zenon
  <2> QED
    BY <2>3, <2>4, Zenon
<1>5. \A k \in 1 .. Len(Pipe') : Pipe'[k] # Flush => Pipe'[k] \in sent
  BY <1>0, <1>2, Zenon DEF Ahead
<1>6. unsettled' \subseteq sent
  BY <1>0, Zenon DEF Ahead
<1> QED
  BY <1>0, <1>1, <1>4, <1>5, <1>6, Zenon DEF Ahead

LEMMA CommitKeepsAll ==
    ASSUME PipeInv, CommitNothing \/ CommitRows, "commit" \notin faults, failed' \in {failed, FALSE}
    PROVE  AllThere'
<1>0. GateInv /\ Typed /\ Ahead /\ AllThere /\ sent \subseteq Row
  BY Zenon DEF PipeInv, GateInv, Ahead
<1>1. /\ ToWrite \subseteq Row /\ batch' = <<>> /\ UNCHANGED <<chan, next, sent, faults>>
      /\ \A r \in Row : stored[r] > 0 \/ r \in ToWrite <=> stored'[r] > 0
      /\ \A c \in Collectors :
            marks'[c] = marks[c] \/ \E r \in ToWrite : r.col = c /\ marks'[c] = r.seq
  BY <1>0, CommitEffect, Zenon
<1>2. /\ ~failed
      /\ \A r \in sent : stored[r] > 0 \/ \E k \in 1 .. Len(Pipe) : First(Pipe, k, r)
      /\ \A i \in 1 .. Len(Pipe) : \A r \in sent :
            Pipe[i] # Flush /\ r.col = Pipe[i].col /\ r.seq <= Pipe[i].seq
            => stored[r] > 0 \/ \E k \in 1 .. i : First(Pipe, k, r)
      /\ \A r \in sent : r.seq <= marks[r.col] => stored[r] > 0
  BY <1>0, Zenon DEF AllThere
<1>3. /\ Len(Pipe') = Len(Pipe) - Len(batch)
      /\ \A k \in 1 .. Len(Pipe') :
            Len(batch) + k \in 1 .. Len(Pipe) /\ Pipe'[k] = Pipe[Len(batch) + k]
  BY <1>0, <1>1, PipeCommits, Zenon
<1>4. Len(Pipe) \in Nat /\ Len(batch) \in Nat /\ Len(batch) <= Len(Pipe)
  BY <1>0, PipePlaces
<1>5. \A r \in sent : stored[r] > 0 => stored'[r] > 0
  BY <1>0, <1>1, Zenon
<1>6. ASSUME NEW r \in sent, NEW k \in 1 .. Len(Pipe), First(Pipe, k, r)
      PROVE  stored'[r] > 0 \/ (k - Len(batch) \in 1 .. Len(Pipe') /\ First(Pipe', k - Len(batch), r))
  BY <1>0, <1>2, <1>6, AfterCommit, Zenon
<1>7. \A r \in sent : stored'[r] > 0 \/ \E k \in 1 .. Len(Pipe') : First(Pipe', k, r)
  BY <1>2, <1>5, <1>6, Zenon
<1>8. ASSUME NEW i \in 1 .. Len(Pipe'), NEW r \in sent, Pipe'[i] # Flush, r.col = Pipe'[i].col,
             r.seq <= Pipe'[i].seq
      PROVE  stored'[r] > 0 \/ \E k \in 1 .. i : First(Pipe', k, r)
  <2>1. stored[r] > 0 \/ \E k \in 1 .. Len(batch) + i : First(Pipe, k, r)
    BY <1>2, <1>3, <1>8, Zenon
  <2>2. ASSUME NEW k \in 1 .. Len(batch) + i, First(Pipe, k, r)
        PROVE  stored'[r] > 0 \/ \E q \in 1 .. i : First(Pipe', q, r)
    <3>1. k \in 1 .. Len(Pipe) /\ (k - Len(batch) \in 1 .. Len(Pipe') => k - Len(batch) \in 1 .. i)
      BY <1>3, <1>4
    <3> QED
      BY <1>6, <2>2, <3>1, Zenon
  <2> QED
    BY <1>5, <2>1, <2>2, Zenon
<1>9. ASSUME NEW r \in sent, r.seq <= marks'[r.col] PROVE stored'[r] > 0
  <2>1. r.col \in Collectors
    BY <1>0, RowFields, Zenon
  <2>2. CASE marks'[r.col] = marks[r.col]
    BY <1>2, <1>5, <1>9, <2>2, Zenon
  <2>3. CASE \E w \in ToWrite : w.col = r.col /\ marks'[r.col] = w.seq
    <3>1. PICK i \in Survivors : batch[i].col = r.col /\ r.seq <= batch[i].seq
      BY <1>9, <2>3, Zenon DEF ToWrite
    <3>2. i \in 1 .. Len(batch)
      BY <1>0, <3>1 DEF Survivors, Typed
    <3>3. i \in 1 .. Len(Pipe) /\ Pipe[i] = batch[i] /\ batch[i] # Flush
      <4>1. i \in 1 .. Len(Pipe)
        BY <1>4, <3>2
      <4> QED
        BY <1>0, <3>2, <4>1, PipePlaces, FlushIsNoRow, Zenon
    <3>4. stored[r] > 0 \/ \E k \in 1 .. i : First(Pipe, k, r)
      BY <1>2, <3>1, <3>3, Zenon
    <3>5. ASSUME NEW k \in 1 .. i, First(Pipe, k, r) PROVE stored'[r] > 0
      <4>1. k \in 1 .. Len(Pipe) /\ k - Len(batch) \notin 1 .. Len(Pipe')
        BY <1>4, <3>2
      <4> QED
        BY <1>6, <3>5, <4>1, Zenon
    <3> QED
      BY <1>5, <3>4, <3>5, Zenon
  <2> QED
    BY <1>1, <2>1, <2>2, <2>3, Zenon
<1>10. ~failed'
  BY <1>2, Zenon
<1> QED
  BY <1>1, <1>7, <1>8, <1>9, <1>10, Zenon DEF AllThere

LEMMA CommitKeepsFresh ==
    ASSUME PipeInv, Commit, "redeliver" \notin faults,
           unsettled' = {} \/ (unsettled' = unsettled /\ (failed => failed') /\ (CommitFails => failed'))
    PROVE  AllFresh'
<1>0. GateInv /\ Typed /\ Ahead /\ AllFresh /\ sent \subseteq Row /\ unsettled \subseteq sent
  BY Zenon DEF PipeInv, GateInv, Ahead
<1>1. /\ \A r \in unsettled : failed \/ stored[r] > 0 \/ \E k \in 1 .. Len(Pipe) : Pipe[k] = r
      /\ \A i \in 1 .. Len(Pipe) : Pipe[i] # Flush =>
            /\ marks[Pipe[i].col] < Pipe[i].seq
            /\ \A j \in 1 .. i - 1 : Pipe[j].col = Pipe[i].col => Pipe[j].seq < Pipe[i].seq
  BY <1>0, Zenon DEF AllFresh
<1>2. batch' = <<>> /\ UNCHANGED <<chan, faults>>
  BY Zenon DEF Commit, CommitNothing, CommitRows, CommitFails, envVars
<1>3. /\ Len(Pipe') = Len(Pipe) - Len(batch)
      /\ \A k \in 1 .. Len(Pipe') :
            Len(batch) + k \in 1 .. Len(Pipe) /\ Pipe'[k] = Pipe[Len(batch) + k]
  BY <1>0, <1>2, PipeCommits, Zenon
<1>4. Len(Pipe) \in Nat /\ Len(batch) \in Nat /\ Len(batch) <= Len(Pipe)
  BY <1>0, PipePlaces
<1>5. ASSUME NEW c \in Collectors
      PROVE  \/ marks'[c] = marks[c]
             \/ \E i \in 1 .. Len(batch) : batch[i].col = c /\ marks'[c] = batch[i].seq
  <2>1. CASE CommitFails
    BY <2>1, Zenon DEF CommitFails
  <2>2. CASE CommitNothing \/ CommitRows
    <3>1. marks'[c] = marks[c] \/ \E r \in ToWrite : r.col = c /\ marks'[c] = r.seq
      BY <1>0, <2>2, CommitEffect, Zenon
    <3>2. \A i \in Survivors : i \in 1 .. Len(batch)
      BY <1>0 DEF Survivors, Typed
    <3> QED
      BY <3>1, <3>2, Zenon DEF ToWrite
  <2> QED
    BY <2>1, <2>2, Zenon DEF Commit
<1>6. ASSUME NEW i \in 1 .. Len(Pipe'), Pipe'[i] # Flush
      PROVE  /\ marks'[Pipe'[i].col] < Pipe'[i].seq
             /\ \A j \in 1 .. i - 1 : Pipe'[j].col = Pipe'[i].col => Pipe'[j].seq < Pipe'[i].seq
  <2> DEFINE m == Len(batch) + i
  <2>1. /\ m \in 1 .. Len(Pipe) /\ Pipe'[i] = Pipe[m] /\ Pipe[m] # Flush
        /\ marks[Pipe[m].col] < Pipe[m].seq
        /\ \A j \in 1 .. m - 1 : Pipe[j].col = Pipe[m].col => Pipe[j].seq < Pipe[m].seq
    BY <1>1, <1>3, <1>6, Zenon
  <2>2. /\ \A j \in 1 .. i - 1 : j \in 1 .. Len(Pipe') /\ Len(batch) + j \in 1 .. m - 1
        /\ \A j \in 1 .. Len(batch) : j \in 1 .. m - 1
    BY <1>3, <1>4
  <2> HIDE DEF m
  <2>3. \A j \in 1 .. i - 1 : Pipe'[j].col = Pipe'[i].col => Pipe'[j].seq < Pipe'[i].seq
    BY <1>3, <2>1, <2>2, Zenon
  <2>4. Pipe[m].col \in Collectors
    BY <1>0, <2>1, RowFields, Zenon DEF Ahead
  <2>5. marks'[Pipe[m].col] < Pipe[m].seq
    <3>1. CASE marks'[Pipe[m].col] = marks[Pipe[m].col]
      BY <2>1, <3>1, Zenon
    <3>2. CASE \E j \in 1 .. Len(batch) : batch[j].col = Pipe[m].col /\ marks'[Pipe[m].col] = batch[j].seq
      <4>1. \A j \in 1 .. Len(batch) : Pipe[j] = batch[j]
        BY <1>0, PipePlaces, Zenon
      <4> QED
        BY <2>1, <2>2, <3>2, <4>1, Zenon
    <3> QED
      BY <1>5, <2>4, <3>1, <3>2, Zenon
  <2> QED
    BY <2>1, <2>3, <2>5, Zenon
<1>7. ASSUME NEW r \in unsettled'
      PROVE  failed' \/ stored'[r] > 0 \/ \E k \in 1 .. Len(Pipe') : Pipe'[k] = r
  <2>0. r \in unsettled /\ r \in Row /\ r # Flush /\ (failed => failed') /\ (CommitFails => failed')
    BY <1>0, <1>7, FlushIsNoRow, Zenon
  <2>1. CASE failed \/ CommitFails
    BY <2>0, <2>1, Zenon
  <2>2. CASE ~failed /\ ~CommitFails
    <3>0. CommitNothing \/ CommitRows
      BY <2>2, Zenon DEF Commit
    <3>1. CASE stored[r] > 0
      BY <1>0, <2>0, <3>0, <3>1, CommitEffect, Zenon
    <3>2. CASE \E k \in 1 .. Len(Pipe) : Pipe[k] = r
      <4>1. PICK k \in 1 .. Len(Pipe) : Pipe[k] = r
        BY <3>2, Zenon
      <4>2. /\ marks[r.col] < r.seq /\ r.seq \in Nat /\ marks[r.col] \in Int
            /\ \A j \in 1 .. k - 1 : Pipe[j].col = r.col => Pipe[j].seq < r.seq
        <5>1. r.seq \in Nat /\ r.col \in Collectors
          BY <2>0, RowFields, Zenon
        <5>2. marks[r.col] \in Int
          BY <1>0, <5>1, BoundsAssumption DEF Typed, MarkValues, Seqs, None
        <5> QED
          BY <1>1, <2>0, <4>1, <5>1, <5>2, Zenon
      <4>3. First(Pipe, k, r)
        <5>1. \A j \in 1 .. k - 1 : Pipe[j] # r
          <6>1. ~(r.seq < r.seq)
            BY <4>2
          <6> QED
            BY <4>2, <6>1, Zenon
        <5> QED
          BY <4>1, <5>1, Zenon DEF First
      <4>4. ~(r.seq <= marks[r.col])
        BY <4>2
      <4>5. \/ stored'[r] > 0
            \/ k - Len(batch) \in 1 .. Len(Pipe') /\ First(Pipe', k - Len(batch), r)
        BY <1>0, <2>0, <3>0, <4>3, <4>4, AfterCommit, Zenon
      <4> QED
        BY <4>5, Zenon DEF First
    <3> QED
      BY <1>1, <2>0, <2>2, <3>1, <3>2, Zenon
  <2> QED
    BY <2>1, <2>2, Zenon
<1> QED
  BY <1>6, <1>7, Zenon DEF AllFresh

\* Any commit.
LEMMA CommitKeepsPipe ==
    ASSUME PipeInv, Commit
    PROVE  Barrier' /\ Ahead' /\ AllThere' /\ AllFresh'
<1>0. GateInv /\ Typed /\ Barrier /\ Ahead /\ AllThere /\ AllFresh
  BY Zenon DEF PipeInv, GateInv
<1>1. /\ \/ asked /\ asked' = FALSE /\ waiting' = FALSE /\ failed' = FALSE /\ unsettled' = {}
         \/ /\ ~asked /\ UNCHANGED <<asked, waiting, unsettled>>
            /\ failed' = IF CommitFails THEN TRUE ELSE failed
      /\ chan' = chan /\ batch' = <<>> /\ faults' = faults
  <2>1. CASE CommitFails
    BY <2>1, Zenon DEF CommitFails, Answer, envVars
  <2>2. CASE ~CommitFails
    BY <2>2, Zenon DEF Commit, CommitNothing, CommitRows, Answer, envVars
  <2> QED
    BY <2>1, <2>2, Zenon
<1>2. unsettled' = {} \/ (unsettled' = unsettled /\ (failed => failed') /\ (CommitFails => failed'))
  <2>1. CASE asked
    BY <1>1, <2>1, Zenon
  <2>2. CASE ~asked
    <3>1. unsettled' = unsettled /\ failed' = IF CommitFails THEN TRUE ELSE failed
      BY <1>1, <2>2, Zenon
    <3>2. (failed => failed') /\ (CommitFails => failed')
      BY <3>1, Zenon
    <3> QED
      BY <3>1, <3>2, Zenon
  <2> QED
    BY <2>1, <2>2, Zenon
<1>3. Barrier'
  <2>1. CASE asked
    <3>1. chan' = <<>>
      BY <1>0, <1>1, <2>1, Zenon DEF Barrier
    <3>2. Len(chan') = 0
      BY <3>1
    <3>3. \A i \in 1 .. Len(chan') : FALSE
      BY <3>2
    <3> QED
      BY <1>1, <2>1, <3>3, Zenon DEF Barrier
  <2>2. CASE ~asked
    <3>1. ~asked' /\ waiting' = waiting /\ chan' = chan
      <4>1. asked' = asked /\ waiting' = waiting /\ chan' = chan
        BY <1>1, <2>2, Zenon
      <4>2. ~asked'
        BY ONLY <2>2, <4>1
      <4> QED
        BY <4>1, <4>2, Zenon
    <3>2. \A i \in 1 .. Len(chan) : chan[i] = Flush => waiting /\ i = Len(chan)
      BY <1>0, Zenon DEF Barrier
    <3> QED
      BY <3>1, <3>2, Zenon DEF Barrier
  <2> QED
    BY <2>1, <2>2, Zenon
<1>4. CASE CommitFails
  <2>1. "commit" \in faults /\ UNCHANGED <<stored, diskMarks, marks, next, sent>>
    BY <1>4, Zenon DEF CommitFails, diskVars
  <2>2. \A k \in 1 .. Len(Pipe') :
           Len(batch) + k \in 1 .. Len(Pipe) /\ Pipe'[k] = Pipe[Len(batch) + k]
    BY <1>0, <1>1, PipeCommits, Zenon
  <2>3. Ahead'
    BY <1>0, <1>1, <2>1, <2>2, Zenon DEF Ahead
  <2>4. AllThere'
    BY <1>1, <2>1, Zenon DEF AllThere
  <2>5. "redeliver" \notin faults => AllFresh'
    BY <1>2, CommitKeepsFresh, Zenon
  <2> QED
    BY <1>1, <1>3, <2>3, <2>4, <2>5, Zenon DEF AllFresh
<1>5. CASE ~CommitFails
  <2>0. CommitNothing \/ CommitRows
    BY <1>5, Zenon DEF Commit
  <2>1. Ahead'
    BY <1>1, <2>0, CommitKeepsAhead, Zenon
  <2>2. "commit" \notin faults => AllThere'
    <3> SUFFICES ASSUME "commit" \notin faults PROVE AllThere'
      BY Zenon
    <3>1. failed' \in {failed, FALSE}
      <4>1. ~failed
        BY <1>0, Zenon DEF AllThere
      <4> QED
        BY <1>1, <1>5, <4>1, Zenon
    <3> QED
      BY <2>0, <3>1, CommitKeepsAll, Zenon
  <2>3. "redeliver" \notin faults => AllFresh'
    BY <1>2, CommitKeepsFresh, Zenon
  <2> QED
    BY <1>1, <1>3, <2>1, <2>2, <2>3, Zenon DEF AllThere, AllFresh
<1> QED
  BY <1>4, <1>5, Zenon

\* The process dies and starts again.
LEMMA RestartKeepsPipe ==
    ASSUME PipeInv, CrashAndRestart
    PROVE  Barrier' /\ Ahead' /\ AllThere' /\ AllFresh'
<1>0. GateInv /\ Typed /\ MarkIsHighestRow
  BY Zenon DEF PipeInv, GateInv
<1>1. /\ chan' = <<>> /\ batch' = <<>> /\ asked' = FALSE /\ failed' = FALSE /\ unsettled' = {}
      /\ sent' = {r \in Row : stored[r] > 0} /\ stored' = stored /\ diskMarks' = diskMarks
      /\ marks' = diskMarks \/ marks' = [c \in Collectors |-> None]
      /\ next' = [c \in Collectors |-> IF diskMarks[c] = None THEN 0 ELSE NextEpoch(diskMarks[c])]
  BY Zenon DEF CrashAndRestart, diskVars
<1>2. Len(chan') = 0 /\ Len(Pipe') = 0
  BY <1>1 DEF Pipe
<1>3. (\A i \in 1 .. Len(chan') : FALSE) /\ (\A i \in 1 .. Len(Pipe') : FALSE)
  BY <1>2
<1>4. Barrier'
  BY <1>1, <1>3, Zenon DEF Barrier
<1>5. \A c \in Collectors :
         /\ next'[c] \in Nat /\ diskMarks[c] < next'[c] /\ marks'[c] <= diskMarks[c]
  <2> TAKE c \in Collectors
  <2>1. diskMarks[c] = None \/ diskMarks[c] \in Nat
    BY <1>0, BoundsAssumption DEF Typed, MarkValues, Seqs
  <2>2. next'[c] = IF diskMarks[c] = None THEN 0 ELSE NextEpoch(diskMarks[c])
    BY <1>1, Zenon
  <2>3. next'[c] \in Nat /\ diskMarks[c] < next'[c]
    BY <2>1, <2>2, EpochAhead DEF None
  <2>4. marks'[c] = diskMarks[c] \/ marks'[c] = None
    BY <1>1, Zenon
  <2> QED
    BY <2>1, <2>3, <2>4 DEF None
<1>6. next' \in [Collectors -> Nat]
  <2>1. next' = [c \in Collectors |-> next'[c]]
    BY <1>1, Zenon
  <2> QED
    BY <1>5, <2>1, Zenon
<1>7. \A r \in sent' : r.seq < next'[r.col]
  <2> SUFFICES ASSUME NEW r \in Row, stored[r] > 0 PROVE r.seq < next'[r.col]
    BY <1>1, Zenon
  <2>1. r.seq <= diskMarks[r.col] /\ r.seq \in Nat /\ r.col \in Collectors
    BY <1>0, StoredBelowMark, RowFields, Zenon
  <2>2. diskMarks[r.col] \in Int
    BY <1>0, <2>1, BoundsAssumption DEF Typed, MarkValues, Seqs, None
  <2> QED
    BY <1>5, <2>1, <2>2
<1>8. Ahead'
  BY <1>1, <1>3, <1>5, <1>6, <1>7, Zenon DEF Ahead
<1>9. AllThere'
  BY <1>1, <1>3, Zenon DEF AllThere
<1>10. AllFresh'
  BY <1>1, <1>3, Zenon DEF AllFresh
<1> QED
  BY <1>4, <1>8, <1>9, <1>10, Zenon

LEMMA PipeInit == Init => PipeInv
<1> SUFFICES ASSUME Init PROVE PipeInv
  BY Zenon
<1>1. /\ chan = <<>> /\ batch = <<>> /\ asked = FALSE /\ failed = FALSE /\ unsettled = {} /\ sent = {}
      /\ marks = [c \in Collectors |-> None] /\ diskMarks = [c \in Collectors |-> None]
      /\ next = [c \in Collectors |-> 0]
  BY Zenon DEF Init
<1>2. (\A i \in 1 .. Len(chan) : FALSE) /\ (\A i \in 1 .. Len(Pipe) : FALSE)
  <2>1. Len(chan) = 0 /\ Len(Pipe) = 0
    BY <1>1 DEF Pipe
  <2> QED
    BY <2>1
<1>3. Barrier
  BY <1>1, <1>2, Zenon DEF Barrier
<1>4. Ahead
  <2>1. next \in [Collectors -> Nat] /\ \A c \in Collectors : marks[c] <= diskMarks[c] /\ diskMarks[c] < next[c]
    BY <1>1 DEF None
  <2> QED
    BY <1>1, <1>2, <2>1, Zenon DEF Ahead
<1>5. AllThere /\ AllFresh
  BY <1>1, <1>2, Zenon DEF AllThere, AllFresh
<1> QED
  BY <1>3, <1>4, <1>5, GateInit, Zenon DEF PipeInv

LEMMA PipeNext == PipeInv /\ [Next]_vars => PipeInv'
<1> SUFFICES ASSUME PipeInv, [Next]_vars PROVE PipeInv'
  BY Zenon
<1>0. Typed /\ Ahead /\ next \in [Collectors -> Nat]
  BY Zenon DEF PipeInv, GateInv, Ahead
<1>1. GateInv'
  BY GateNext, Zenon DEF PipeInv
<1> SUFFICES Barrier' /\ Ahead' /\ AllThere' /\ AllFresh'
  BY <1>1, Zenon DEF PipeInv
<1>2. ASSUME NEW c \in Collectors, NEW s \in Nat, next[c] <= s, Submit(c, s)
      PROVE  Barrier' /\ Ahead' /\ AllThere' /\ AllFresh'
  <2> DEFINE row == [col |-> c, seq |-> s]
  <2>1. /\ Enqueue(row) /\ row.col = c /\ row.seq = s /\ next' = [next EXCEPT ![c] = s + 1]
    BY <1>2, Zenon DEF Submit
  <2> HIDE DEF row
  <2>2. next' \in [Collectors -> Nat] /\ next'[c] = s + 1 /\ s < s + 1
    BY <1>0, <1>2, <2>1
  <2>3. \A d \in Collectors : next[d] <= next'[d]
    BY <1>0, <1>2, <2>1
  <2>4. row.seq < next'[row.col] /\ next[row.col] <= row.seq
    BY <1>2, <2>1, <2>2, Zenon
  <2> QED
    BY <2>1, <2>2, <2>3, <2>4, EnqueueKeeps, Zenon
<1>3. CASE \E c \in Collectors : SubmitNext(c) \/ SubmitNextEpoch(c) \/ SubmitAfterSkip(c)
  <2>1. PICK c \in Collectors : SubmitNext(c) \/ SubmitNextEpoch(c) \/ SubmitAfterSkip(c)
    BY <1>3, Zenon
  <2>2. next[c] \in Nat
    BY <1>0, Zenon
  <2>3. PICK s : s \in Nat /\ next[c] <= s /\ Submit(c, s)
    <3>1. CASE SubmitNext(c)
      <4>1. next[c] <= next[c]
        BY <2>2
      <4> QED
        BY <2>2, <3>1, <4>1, Zenon DEF SubmitNext
    <3>2. CASE SubmitNextEpoch(c)
      <4>1. NextEpoch(next[c]) \in Nat /\ next[c] <= NextEpoch(next[c])
        BY <2>2, EpochAhead
      <4> QED
        BY <3>2, <4>1, Zenon DEF SubmitNextEpoch
    <3>3. CASE SubmitAfterSkip(c)
      <4>1. next[c] + 1 \in Nat /\ next[c] <= next[c] + 1
        BY <2>2
      <4> QED
        BY <3>3, <4>1, Zenon DEF SubmitAfterSkip
    <3> QED
      BY <2>1, <3>1, <3>2, <3>3, Zenon
  <2> QED
    BY <1>2, <2>3, Zenon
<1>4. CASE Redeliver
  <2>1. PICK row \in sent : Enqueue(row)
    BY <1>4, Zenon DEF Redeliver
  <2>2. "redeliver" \in faults /\ next' = next /\ row.seq < next[row.col]
    BY <1>0, <1>4, <2>1, Zenon DEF Redeliver, Ahead
  <2>3. \A c \in Collectors : next[c] <= next[c]
    BY <1>0
  <2> QED
    BY <1>0, <2>1, <2>2, <2>3, EnqueueKeeps, Zenon
<1>5. CASE Stop \/ UNCHANGED vars
  <2>1. /\ UNCHANGED <<stored, diskMarks, marks, failed, faults, next, sent, unsettled>>
        /\ UNCHANGED <<chan, batch, asked, waiting>>
    BY <1>5, Zenon DEF Stop, vars, diskVars, writerVars, envVars, historyVars
  <2>2. Pipe' = Pipe /\ Len(Pipe) \in Nat
    <3>1. Pipe' = Pipe
      BY <2>1, Zenon DEF Pipe
    <3> QED
      BY <1>0, <3>1, PipePlaces
  <2>3. Ahead' /\ AllThere' /\ AllFresh'
    BY <2>1, <2>2, PlacesKeep, Zenon
  <2>4. Barrier'
    BY <2>1 DEF PipeInv, Barrier
  <2> QED
    BY <2>3, <2>4, Zenon
<1> QED
  BY <1>3, <1>4, <1>5, TakeKeeps, CommitKeepsPipe, RestartKeepsPipe, Zenon DEF Next

\* A flush answers Ok only when every row submitted since the one before is in
\* the store, for any sizes of batch and channel, any number of collectors and
\* restarts (submit, flush, commit_batch, answer_flush).
THEOREM SuccessMeansStored == Spec => FlushHonest
<1> DEFINE Honest == ~({"commit", "redeliver"} \subseteq faults) /\ reply = "none" /\ reply' = "ok"
                     => \A r \in unsettled : stored'[r] > 0
<1>1. PipeInv /\ [Next]_vars => [Honest]_vars
  <2> SUFFICES ASSUME PipeInv, [Next]_vars, "commit" \notin faults \/ "redeliver" \notin faults,
                      reply = "none", reply' = "ok", NEW r \in unsettled
               PROVE  stored'[r] > 0
    BY Zenon
  <2>0. GateInv /\ Typed /\ Barrier /\ Ahead /\ AllThere /\ AllFresh
    BY Zenon DEF PipeInv, GateInv
  <2>1. (CommitNothing \/ CommitRows) /\ asked /\ ~failed
    <3>1. reply' # reply /\ reply' # "none" /\ reply' # "failed"
      BY Zenon
    <3>2. Commit
      BY <3>1, Zenon DEF Next, SubmitNext, SubmitNextEpoch, SubmitAfterSkip, Submit, Enqueue, Redeliver,
         RequestFlush, Stop, Take, CrashAndRestart, vars, historyVars
    <3>3. ~CommitFails
      BY <3>1, Zenon DEF CommitFails, Answer
    <3>4. CommitNothing \/ CommitRows
      BY <3>2, <3>3, Zenon DEF Commit
    <3>5. Answer(gaps, failed) \/ Answer(GapsAfter(BatchGaps), failed)
      BY <3>4, Zenon DEF CommitNothing, CommitRows
    <3> QED
      BY <3>1, <3>4, <3>5, Zenon DEF Answer
  <2>2. chan = <<>> /\ Len(chan) = 0
    BY <2>0, <2>1 DEF Barrier
  <2>3. /\ r \in sent /\ r \in Row /\ r # Flush /\ r.seq \in Nat /\ r.col \in Collectors
    BY <2>0, RowFields, FlushIsNoRow, Zenon DEF Ahead
  <2>4. marks[r.col] \in Int
    BY <2>0, <2>3, BoundsAssumption DEF Typed, MarkValues, Seqs, None
  <2>5. Len(Pipe) = Len(batch) /\ Len(batch) \in Nat /\ Len(Pipe') = 0
    <3>1. Len(Pipe') = Len(Pipe) - Len(batch)
      BY <2>0, <2>1, CommitEffect, PipeCommits, Zenon
    <3> QED
      BY <2>0, <2>2, <3>1, PipePlaces
  <2>6. \A k : k \notin 1 .. Len(Pipe')
    BY <2>5
  <2>7. stored[r] > 0 => stored'[r] > 0
    BY <2>0, <2>1, <2>3, CommitEffect, Zenon
  <2>8. CASE "commit" \notin faults
    <3>1. /\ stored[r] > 0 \/ \E k \in 1 .. Len(Pipe) : First(Pipe, k, r)
          /\ r.seq <= marks[r.col] => stored[r] > 0
      BY <2>0, <2>3, <2>8, Zenon DEF AllThere
    <3> QED
      BY <2>0, <2>1, <2>3, <2>6, <2>7, <3>1, AfterCommit, Zenon
  <2>9. CASE "redeliver" \notin faults
    <3>1. CASE stored[r] > 0
      BY <2>7, <3>1, Zenon
    <3>2. CASE ~(stored[r] > 0)
      <4>1. PICK k \in 1 .. Len(Pipe) : Pipe[k] = r
        BY <2>0, <2>1, <2>9, <3>2, Zenon DEF AllFresh
      <4>2. marks[r.col] < r.seq /\ \A j \in 1 .. k - 1 : Pipe[j].col = r.col => Pipe[j].seq < r.seq
        BY <2>0, <2>3, <2>9, <4>1, Zenon DEF AllFresh
      <4>3. ~(r.seq < r.seq) /\ ~(r.seq <= marks[r.col])
        BY <2>3, <2>4, <4>2
      <4>4. First(Pipe, k, r)
        BY <4>1, <4>2, <4>3, Zenon DEF First
      <4> QED
        BY <2>0, <2>1, <2>3, <2>6, <4>3, <4>4, AfterCommit, Zenon
    <3> QED
      BY <3>1, <3>2, Zenon
  <2> QED
    BY <2>8, <2>9, Zenon
<1> QED
  BY <1>1, PipeInit, PipeNext, PTL DEF Spec, FlushHonest

-----------------------------------------------------------------------------
(* Gaps.                                                                   *)

\* The gaps somebody has heard of, will hear of with the next flush, or finds
\* counted.
KnownGaps == reported \cup {gaps[n] : n \in DOMAIN gaps} \cup unlisted

\* The list of pending gaps keeps its limit; before the first crash the writer's
\* marks are those on disk.
GapList ==
    /\ (\E S : gaps \in Seq(S)) /\ Len(gaps) <= MaxGaps
    /\ crashes \in Nat /\ (crashes = 0 => marks = diskMarks)

LEMMA SkipsFinite ==
    ASSUME Typed
    PROVE  /\ Skips \subseteq 1 .. Len(batch) /\ Len(batch) \in Nat
           /\ IsFiniteSet(Skips) /\ Cardinality(Skips) \in Nat
<1>1. Skips \subseteq 1 .. Len(batch) /\ Len(batch) \in Nat
  BY DEF Skips, Survivors, Typed
<1>2. IsFiniteSet(1 .. Len(batch))
  BY <1>1, FS_Interval
<1> QED
  BY <1>1, <1>2, FS_Subset, FS_CardinalityType, Zenon

\* Every gap of a batch gets its place in the order of arrival.
LEMMA GapListed ==
    ASSUME Typed, NEW i \in Skips
    PROVE  \E n \in DOMAIN BatchGaps : BatchGaps[n] = GapBefore(i)
<1> DEFINE Upto(k) == {j \in Skips : j <= k}
           nth(n) == CHOOSE k \in Skips : Cardinality(Upto(k)) = n
           n == Cardinality(Upto(i))
<1>1. Skips \subseteq 1 .. Len(batch) /\ Len(batch) \in Nat
  BY SkipsFinite, Zenon
<1>2. IsFiniteSet(Skips)
  BY SkipsFinite, Zenon
<1>3. \A k \in Skips : /\ IsFiniteSet(Upto(k)) /\ Cardinality(Upto(k)) \in Nat
                       /\ Cardinality(Upto(k)) <= Cardinality(Skips) /\ Cardinality(Skips) \in Nat
  <2> TAKE k \in Skips
  <2>1. Upto(k) \in SUBSET Skips
    BY Zenon
  <2> QED
    BY <1>2, <2>1, FS_Subset, FS_CardinalityType, Zenon
<1>4. n \in 1 .. Cardinality(Skips)
  <2>1. i \in Upto(i)
    BY <1>1
  <2>2. n # 0
    BY <1>3, <2>1, FS_EmptySet, Zenon
  <2> QED
    BY <1>3, <2>2
<1>5. \A k \in Skips : Cardinality(Upto(k)) = n => k = i
  <2> SUFFICES ASSUME NEW k \in Skips, Cardinality(Upto(k)) = n, k # i PROVE FALSE
    BY Zenon
  <2>1. CASE k <= i
    <3>1. Upto(k) \in SUBSET Upto(i)
      <4>1. \A j \in Skips : j <= k => j <= i
        BY <1>1, <2>1
      <4> QED
        BY <4>1, Zenon
    <3>2. Upto(k) = Upto(i)
      <4>1. IsFiniteSet(Upto(i)) /\ Cardinality(Upto(k)) = Cardinality(Upto(i))
        BY <1>3, Zenon
      <4> HIDE DEF Upto
      <4> QED
        BY <3>1, <4>1, FS_Subset, Zenon
    <3>3. i \in Upto(i)
      BY <1>1
    <3> QED
      BY <1>1, <2>1, <3>2, <3>3
  <2>2. CASE ~(k <= i)
    <3>1. Upto(i) \in SUBSET Upto(k)
      <4>1. \A j \in Skips : j <= i => j <= k
        BY <1>1, <2>2
      <4> QED
        BY <4>1, Zenon
    <3>2. Upto(k) = Upto(i)
      <4>1. IsFiniteSet(Upto(k)) /\ Cardinality(Upto(k)) = Cardinality(Upto(i))
        BY <1>3, Zenon
      <4> HIDE DEF Upto
      <4> QED
        BY <3>1, <4>1, FS_Subset, Zenon
    <3>3. k \in Upto(k)
      BY <1>1
    <3> QED
      BY <2>2, <3>2, <3>3, Zenon
  <2> QED
    BY <2>1, <2>2, Zenon
<1>6. nth(n) = i
  BY <1>5, Zenon
<1>7. BatchGaps = [m \in 1 .. Cardinality(Skips) |-> GapBefore(nth(m))]
  BY Zenon DEF BatchGaps
<1>8. n \in DOMAIN BatchGaps /\ BatchGaps[n] = GapBefore(nth(n))
  BY <1>4, <1>7, Zenon
<1> QED
  BY <1>6, <1>8, Zenon

\* No gap of a batch, and none that was pending, is dropped silently.
LEMMA GapsKept ==
    ASSUME Typed, GapList
    PROVE  /\ (\E S : GapsAfter(BatchGaps) \in Seq(S)) /\ Len(GapsAfter(BatchGaps)) <= MaxGaps
           /\ \A g \in {gaps[n] : n \in DOMAIN gaps} \cup {BatchGaps[n] : n \in DOMAIN BatchGaps} :
                 \/ g \in {GapsAfter(BatchGaps)[n] : n \in DOMAIN GapsAfter(BatchGaps)}
                 \/ g \in Unlisted(BatchGaps)
<1> DEFINE found == BatchGaps
           after == GapsAfter(found)
<1>1. DOMAIN found = 1 .. Cardinality(Skips) /\ Cardinality(Skips) \in Nat
      /\ found = [k \in 1 .. Cardinality(Skips) |-> found[k]]
  <2>1. DOMAIN found = 1 .. Cardinality(Skips)
    BY Zenon DEF BatchGaps
  <2>2. found = [k \in DOMAIN found |-> found[k]]
    <3> DEFINE nth(n) == CHOOSE i \in Skips : Cardinality({j \in Skips : j <= i}) = n
               gap(n) == GapBefore(nth(n))
    <3>1. found = [n \in 1 .. Cardinality(Skips) |-> gap(n)]
      BY Zenon DEF BatchGaps
    <3> HIDE DEF gap, nth, found
    <3> QED
      BY <3>1
  <2> QED
    BY <2>1, <2>2, SkipsFinite, Zenon
<1> HIDE DEF found, after
<1>2. PICK S : gaps \in Seq(S) /\ found \in Seq(S)
  <2>1. PICK A : gaps \in Seq(A)
    BY Zenon DEF GapList
  <2>2. PICK n \in Nat : DOMAIN found = 1 .. n /\ found = [k \in 1 .. n |-> found[k]]
    BY <1>1, Zenon
  <2> DEFINE B == {found[k] : k \in 1 .. n}
  <2>3. \A k \in 1 .. n : found[k] \in A \cup B
    BY Zenon
  <2> HIDE DEF B
  <2>4. found \in Seq(A \cup B)
    BY <2>2, <2>3
  <2>5. gaps \in Seq(A \cup B)
    BY <2>1
  <2> QED
    BY <2>4, <2>5, Zenon
<1>3. MaxGaps \in Nat /\ Len(gaps) <= MaxGaps
  BY BoundsAssumption, Zenon DEF GapList
<1>4. PICK all : all = gaps \o found
  BY Zenon
<1>5. /\ all \in Seq(S) /\ Len(gaps) \in Nat /\ Len(found) \in Nat /\ Len(all) = Len(gaps) + Len(found)
      /\ \A n \in 1 .. Len(gaps) : all[n] = gaps[n]
      /\ \A n \in 1 .. Len(found) : all[Len(gaps) + n] = found[n]
      /\ DOMAIN gaps = 1 .. Len(gaps) /\ DOMAIN found = 1 .. Len(found)
  BY <1>2, <1>4
<1>6. after = IF Len(all) <= MaxGaps THEN all ELSE SubSeq(all, 1, MaxGaps)
  BY <1>4, Zenon DEF after, GapsAfter
<1>7. /\ after \in Seq(S) /\ Len(after) <= MaxGaps /\ DOMAIN after = 1 .. Len(after)
      /\ \A n \in 1 .. Len(all) : n <= MaxGaps => n \in 1 .. Len(after) /\ after[n] = all[n]
  <2>1. CASE Len(all) <= MaxGaps
    BY <1>3, <1>5, <1>6, <2>1
  <2>2. CASE ~(Len(all) <= MaxGaps)
    <3>1. after = SubSeq(all, 1, MaxGaps) /\ Len(all) \in Nat /\ MaxGaps < Len(all)
      BY <1>3, <1>5, <1>6, <2>2
    <3> QED
      BY <1>3, <1>5, <3>1
  <2> QED
    BY <2>1, <2>2, Zenon
<1>8. ASSUME NEW n \in DOMAIN gaps PROVE gaps[n] \in {after[k] : k \in DOMAIN after}
  <2>1. n \in 1 .. Len(all) /\ n <= MaxGaps /\ all[n] = gaps[n]
    BY <1>3, <1>5, <1>8
  <2> QED
    BY <1>7, <2>1, Zenon
<1>9. ASSUME NEW n \in DOMAIN found
       PROVE  found[n] \in {after[k] : k \in DOMAIN after} \/ found[n] \in Unlisted(found)
  <2>1. CASE Len(gaps) + n > MaxGaps
    BY <1>9, <2>1, Zenon DEF Unlisted
  <2>2. CASE ~(Len(gaps) + n > MaxGaps)
    <3>1. Len(gaps) + n \in 1 .. Len(all) /\ Len(gaps) + n <= MaxGaps /\ all[Len(gaps) + n] = found[n]
      BY <1>3, <1>5, <1>9, <2>2
    <3> QED
      BY <1>7, <3>1, Zenon
  <2> QED
    BY <2>1, <2>2, Zenon
<1> QED
  BY <1>7, <1>8, <1>9, Zenon DEF found, after

\* A bounded set of numbers has a highest.
LEMMA HighestOf ==
    ASSUME NEW m \in Nat, NEW S, S \subseteq 0 .. m, S # {}
    PROVE  \E x \in S : \A y \in S : y <= x
<1> DEFINE T == {m - x : x \in S}
<1>1. \A x \in S : x \in Nat /\ m - x \in Nat
  OBVIOUS
<1>2. T \subseteq Nat /\ T # {}
  BY <1>1, Zenon
<1> HIDE DEF T
<1>3. PICK z \in T : \A t \in T : ~(<<t, z>> \in OpToRel(<, Nat))
  BY <1>2, WFMin, NatLessThanWellFounded, Zenon
<1>4. \A t \in T : t \in Nat /\ z \in Nat /\ ~(t < z)
  BY <1>2, <1>3 DEF OpToRel
<1>5. PICK x \in S : z = m - x
  BY <1>3, Zenon DEF T
<1>6. \A y \in S : ~(m - y < m - x)
  BY <1>4, <1>5, Zenon DEF T
<1>7. \A y \in S : y <= x
  BY <1>1, <1>6
<1> QED
  BY <1>7, Zenon

\* As long as commits succeed and the process lives, what one batch writes of a
\* collector comes in increasing order: a row that comes too late was on its way
\* before, or is stored.
LEMMA SurvivorsRise ==
    ASSUME PipeInv, marks = diskMarks, "commit" \notin faults,
           NEW i \in Survivors, NEW j \in Survivors, i < j, batch[i].col = batch[j].col
    PROVE  batch[i].seq < batch[j].seq
<1>0. Typed /\ MarkIsHighestRow /\ Ahead /\ AllThere
  BY Zenon DEF PipeInv, GateInv
<1>1. i \in 1 .. Len(batch) /\ j \in 1 .. Len(batch) /\ Len(batch) \in Nat /\ Len(chan) \in Nat
  BY <1>0 DEF Survivors, Typed
<1>2. /\ i \in 1 .. Len(Pipe) /\ j \in 1 .. Len(Pipe)
      /\ \A k \in 1 .. i : k \in 1 .. Len(batch) /\ k \in 1 .. j - 1
  BY <1>0, <1>1, PipePlaces
<1>3. Pipe[i] = batch[i] /\ Pipe[j] = batch[j] /\ batch[i] \in Row /\ batch[j] \in Row
  BY <1>0, <1>1, PipePlaces, Zenon
<1>4. batch[i] # Flush /\ batch[j] # Flush
  BY <1>3, FlushIsNoRow, Zenon
<1>5. batch[j] \in sent
  BY <1>0, <1>2, <1>3, <1>4, Zenon DEF Ahead
<1>6. /\ batch[i].seq \in Nat /\ batch[j].seq \in Nat
      /\ batch[j].col \in Collectors /\ marks[batch[j].col] \in Int
  <2>1. batch[i].seq \in Nat /\ batch[j].seq \in Nat /\ batch[j].col \in Collectors
    BY <1>3, RowFields, Zenon
  <2> QED
    BY <1>0, <2>1, BoundsAssumption DEF Typed, MarkValues, Seqs, None
<1> SUFFICES ASSUME batch[j].seq <= batch[i].seq PROVE FALSE
  BY <1>6
<1>7. stored[batch[j]] > 0 \/ \E k \in 1 .. i : First(Pipe, k, batch[j])
  BY <1>0, <1>2, <1>3, <1>4, <1>5, Zenon DEF AllThere
<1>8. batch[j].seq > marks[batch[j].col] /\ \A k \in 1 .. j - 1 : batch[k] # batch[j]
  BY Zenon DEF Survivors
<1>9. CASE stored[batch[j]] > 0
  <2>1. batch[j].seq <= marks[batch[j].col]
    BY <1>0, <1>3, <1>9, StoredBelowMark, Zenon
  <2> QED
    BY <1>6, <1>8, <2>1
<1>10. ASSUME NEW k \in 1 .. i, First(Pipe, k, batch[j]) PROVE FALSE
  <2>1. Pipe[k] = batch[k] /\ Pipe[k] = batch[j]
    BY <1>0, <1>2, <1>10, PipePlaces, Zenon DEF First
  <2> QED
    BY <1>2, <1>8, <1>10, <2>1, Zenon
<1> QED
  BY <1>7, <1>9, <1>10, Zenon

\* The sequence number a row is compared with is the highest that was written of
\* its collector before it.
LEMMA PreviousIs ==
    ASSUME Typed, NEW i \in Survivors
    PROVE  LET c == batch[i].col
               before == {k \in Survivors : k < i /\ batch[k].col = c}
           IN  \/ before = {} /\ Previous(i) = marks[c]
               \/ \E j \in before : /\ Previous(i) = batch[j].seq
                                    /\ \A k \in before : batch[k].seq <= Previous(i)
<1> DEFINE c == batch[i].col
           before == {k \in Survivors : k < i /\ batch[k].col = c}
           earlier == {batch[j].seq : j \in before}
<1>1. Previous(i) = IF earlier = {} THEN marks[c]
                    ELSE CHOOSE s \in earlier : \A t \in earlier : t <= s
  BY Zenon DEF Previous
<1>2. CASE before = {}
  BY <1>1, <1>2, Zenon
<1>3. CASE before # {}
  <2>1. \A k \in before : batch[k].seq \in 0 .. MaxSeq
    <3>1. \A k \in Survivors : batch[k] \in Row
      BY DEF Survivors, Typed
    <3> QED
      BY <3>1, Zenon DEF Row, Seqs
  <2>2. earlier \subseteq 0 .. MaxSeq /\ earlier # {} /\ MaxSeq \in Nat
    BY <1>3, <2>1, BoundsAssumption, Zenon
  <2>3. \E s \in earlier : \A t \in earlier : t <= s
    <3> HIDE DEF earlier
    <3> QED
      BY <2>2, HighestOf, Zenon
  <2>4. Previous(i) \in earlier /\ \A t \in earlier : t <= Previous(i)
    <3> HIDE DEF earlier
    <3> QED
      BY <1>1, <2>2, <2>3, Zenon
  <2> QED
    BY <2>4, Zenon
<1> QED
  BY <1>2, <1>3, Zenon

\* A step keeps the list of pending gaps and the marks in order.
LEMMA GapListNext ==
    ASSUME PipeInv, GapList, [Next]_vars
    PROVE  GapList'
<1> USE DEF diskVars, writerVars, envVars, historyVars
<1>0. Typed /\ crashes \in Nat /\ MaxGaps \in Nat /\ (\E S : gaps \in Seq(S)) /\ Len(gaps) <= MaxGaps
  BY BoundsAssumption, Zenon DEF GapList, PipeInv, GateInv
<1>1. (\E S : <<>> \in Seq(S)) /\ Len(<<>>) <= MaxGaps
  <2>1. <<>> \in Seq({}) /\ Len(<<>>) <= MaxGaps
    BY <1>0
  <2> QED
    BY <2>1, Zenon
<1>2. CASE UNCHANGED <<gaps, crashes, marks, diskMarks>>
  BY <1>2, Zenon DEF GapList
<1>3. CASE CrashAndRestart
  <2>1. gaps' = <<>> /\ crashes' = crashes + 1
    BY <1>3, Zenon DEF CrashAndRestart
  <2>2. crashes' \in Nat /\ crashes' # 0
    BY <1>0, <2>1
  <2> QED
    BY <1>1, <2>1, <2>2, Zenon DEF GapList
<1>4. CASE CommitNothing
  <2>1. UNCHANGED <<crashes, marks, diskMarks>> /\ gaps' \in {<<>>, gaps}
    BY <1>4, Zenon DEF CommitNothing, Answer
  <2> QED
    BY <1>0, <1>1, <2>1, Zenon DEF GapList
<1>5. CASE CommitRows \/ CommitFails
  <2>1. UNCHANGED crashes /\ gaps' \in {<<>>, GapsAfter(BatchGaps)}
    BY <1>5, Zenon DEF CommitRows, CommitFails, Answer
  <2>2. crashes = 0 => marks' = diskMarks'
    <3>1. CASE CommitFails
      BY <3>1, Zenon DEF CommitFails, GapList
    <3>2. CASE CommitRows
      <4> SUFFICES ASSUME marks = diskMarks PROVE marks' = diskMarks'
        BY Zenon DEF GapList
      <4>1. /\ diskMarks' \in MarkValues /\ RaisedTo(marks, ToWrite, diskMarks')
            /\ marks' \in MarkValues /\ RaisedTo(marks, ToWrite, marks')
        BY <3>2, Zenon DEF CommitRows
      <4>2. ASSUME NEW c \in Collectors PROVE marks'[c] = diskMarks'[c]
        <5>1. marks'[c] <= diskMarks'[c] /\ diskMarks'[c] <= marks'[c]
          BY <4>1, <4>2, Zenon DEF RaisedTo
        <5>2. marks'[c] \in Int /\ diskMarks'[c] \in Int
          BY <4>1, <4>2, BoundsAssumption DEF MarkValues, Seqs, None
        <5> QED
          BY <5>1, <5>2
      <4> QED
        BY <4>1, <4>2 DEF MarkValues
    <3> QED
      BY <1>5, <3>1, <3>2, Zenon
  <2> QED
    BY <1>0, <1>1, <2>1, <2>2, GapsKept, Zenon DEF GapList
<1>6. ASSUME NEW row, Enqueue(row) PROVE GapList'
  BY <1>2, <1>6, Zenon DEF Enqueue
<1>7. CASE \E c \in Collectors : SubmitNext(c) \/ SubmitNextEpoch(c) \/ SubmitAfterSkip(c)
  BY <1>6, <1>7, Zenon DEF SubmitNext, SubmitNextEpoch, SubmitAfterSkip, Submit
<1>8. CASE Redeliver \/ RequestFlush \/ Stop \/ Take \/ UNCHANGED vars
  BY <1>2, <1>6, <1>8, Zenon DEF Redeliver, RequestFlush, Stop, Take, vars
<1> QED
  BY <1>3, <1>4, <1>5, <1>7, <1>8, Zenon DEF Next, Commit

\* A commit that succeeds forgets no gap, and learns of those of its batch.
LEMMA GapsLearnt ==
    ASSUME PipeInv, GapList, "commit" \notin faults, CommitNothing \/ CommitRows
    PROVE  /\ KnownGaps \subseteq KnownGaps'
           /\ CommitRows => \A i \in Skips : GapBefore(i) \in KnownGaps'
<1>0. Typed /\ ~failed
  BY Zenon DEF PipeInv, GateInv, AllThere
<1>1. ASSUME NEW pending, Answer(pending, failed)
       PROVE  reported \cup {pending[n] : n \in DOMAIN pending}
                 \subseteq reported' \cup {gaps'[n] : n \in DOMAIN gaps'}
  <2>1. CASE asked
    <3>1. reported' = reported \cup {pending[n] : n \in DOMAIN pending}
      BY <1>0, <1>1, <2>1, Zenon DEF Answer
    <3> QED
      BY <3>1, Zenon
  <2>2. CASE ~asked
    <3>1. gaps' = pending /\ reported' = reported
      BY <1>1, <2>2, Zenon DEF Answer
    <3> QED
      BY <3>1, Zenon
  <2> QED
    BY <2>1, <2>2, Zenon
<1>2. CASE CommitNothing
  <2>1. Answer(gaps, failed) /\ unlisted' = unlisted /\ ToWrite = {}
    BY <1>2, Zenon DEF CommitNothing
  <2>2. ~CommitRows
    BY <2>1, Zenon DEF CommitRows
  <2>3. reported \cup {gaps[n] : n \in DOMAIN gaps} \subseteq reported' \cup {gaps'[n] : n \in DOMAIN gaps'}
    BY <1>1, <2>1, Zenon
  <2> QED
    BY <2>1, <2>2, <2>3, Zenon DEF KnownGaps
<1>3. CASE CommitRows
  <2> DEFINE after == GapsAfter(BatchGaps)
             more == Unlisted(BatchGaps)
  <2>1. Answer(after, failed) /\ unlisted' = unlisted \cup more
    BY <1>3, Zenon DEF CommitRows
  <2>2. \A g \in {gaps[n] : n \in DOMAIN gaps} \cup {BatchGaps[n] : n \in DOMAIN BatchGaps} :
           g \in {after[n] : n \in DOMAIN after} \/ g \in more
    BY <1>0, GapsKept, Zenon
  <2> HIDE DEF after, more
  <2>3. reported \cup {after[n] : n \in DOMAIN after} \subseteq reported' \cup {gaps'[n] : n \in DOMAIN gaps'}
    BY <1>1, <2>1, Zenon
  <2>4. \A g : g \in reported \/ g \in {after[n] : n \in DOMAIN after} \/ g \in unlisted \/ g \in more
               => g \in KnownGaps'
    BY <2>1, <2>3, Zenon DEF KnownGaps
  <2>5. KnownGaps \subseteq KnownGaps'
    BY <2>2, <2>4, Zenon DEF KnownGaps
  <2>6. ASSUME NEW i \in Skips PROVE GapBefore(i) \in KnownGaps'
    <3>1. GapBefore(i) \in {BatchGaps[n] : n \in DOMAIN BatchGaps}
      BY <1>0, <2>6, GapListed, Zenon
    <3> QED
      BY <2>2, <2>4, <3>1, Zenon
  <2> QED
    BY <2>5, <2>6, Zenon
<1> QED
  BY <1>2, <1>3, Zenon

\* The gap that a commit leaves below a row it writes is one its batch shows.
LEMMA HoleSeen ==
    ASSUME PipeInv, marks = diskMarks, "commit" \notin faults, CommitRows,
           NEW i \in Survivors, NEW s \in Seqs,
           LET c == batch[i].col
               t == batch[i].seq
           IN  /\ stored'[[col |-> c, seq |-> s]] > 0 /\ s < t
               /\ \A q \in s + 1 .. t - 1 : stored'[[col |-> c, seq |-> q]] = 0
               /\ ~Contiguous(s, t)
    PROVE  i \in Skips /\ GapBefore(i) = [col |-> batch[i].col, expected |-> s + 1, observed |-> batch[i].seq]
<1> DEFINE c == batch[i].col
           t == batch[i].seq
           p == Previous(i)
           before == {k \in Survivors : k < i /\ batch[k].col = c}
           row(q) == [col |-> c, seq |-> q]
<1>0. GateInv /\ Typed /\ MarkIsHighestRow
  BY Zenon DEF PipeInv, GateInv
<1>1. \A k \in Survivors : batch[k] \in Row /\ k \in Nat
  BY <1>0 DEF Survivors, Typed
<1>2. \A k \in Survivors : batch[k].seq \in Nat /\ batch[k].seq \in Seqs /\ batch[k].col \in Collectors
                           /\ batch[k] = [col |-> batch[k].col, seq |-> batch[k].seq]
  <2>1. \A r \in Row : r.seq \in Nat /\ r.seq \in Seqs /\ r.col \in Collectors
                       /\ r = [col |-> r.col, seq |-> r.seq]
    BY ONLY BoundsAssumption DEF Row, Seqs
  <2> QED
    BY <1>1, <2>1, Zenon
<1>3. c \in Collectors /\ t \in Nat /\ s \in Nat /\ marks[c] \in Int /\ row(s) \in Row
  <2>1. c \in Collectors /\ t \in Nat
    BY <1>2, Zenon
  <2>2. s \in Nat /\ row(s) \in Row
    BY ONLY <2>1, s \in Seqs, BoundsAssumption DEF Seqs, Row
  <2>3. marks[c] \in Seqs \cup {None}
    BY <1>0, <2>1, Zenon DEF Typed, MarkValues
  <2>4. marks[c] \in Int
    BY ONLY <2>3, BoundsAssumption DEF Seqs, None
  <2> QED
    BY ONLY <2>1, <2>2, <2>4, Zenon
<1>4. \A k \in Survivors : batch[k].seq > marks[batch[k].col]
  BY Zenon DEF Survivors
<1>5. \A r \in Row : stored[r] > 0 \/ r \in ToWrite <=> stored'[r] > 0
  BY <1>0, CommitEffect, Zenon
<1>6. \/ before = {} /\ p = marks[c]
      \/ \E j \in before : p = batch[j].seq /\ \A k \in before : batch[k].seq <= p
  BY <1>0, PreviousIs, Zenon
\* The mark, or a row written before in the batch: below t, and stored.
<1>7. p \in Int /\ p < t /\ marks[c] <= p /\ (p # None => p \in Seqs /\ stored'[row(p)] > 0)
  <2>1. CASE before = {} /\ p = marks[c]
    <3>1. marks[c] # None => marks[c] \in SeqsOf(c)
      BY <1>0, <1>3, Zenon DEF MarkIsHighestRow, SeqsOf
    <3>2. ASSUME NEW r \in Row, r.col = c, stored[r] > 0 PROVE r = row(r.seq) /\ r.seq \in Seqs /\ stored'[r] > 0
      <4>1. r = row(r.seq) /\ r.seq \in Seqs
        BY <3>2 DEF Row
      <4> QED
        BY <1>5, <3>2, <4>1, Zenon
    <3>3. marks[c] # None => marks[c] \in Seqs /\ stored'[row(marks[c])] > 0
      <4> SUFFICES ASSUME marks[c] \in SeqsOf(c) PROVE marks[c] \in Seqs /\ stored'[row(marks[c])] > 0
        BY <3>1, Zenon
      <4>1. PICK r \in Row : r.col = c /\ stored[r] > 0 /\ marks[c] = r.seq
        BY Zenon DEF SeqsOf
      <4>2. r = row(marks[c]) /\ marks[c] \in Seqs /\ stored'[r] > 0
        BY <3>2, <4>1, Zenon
      <4> QED
        BY <4>2, Zenon
    <3>4. marks[c] < t /\ marks[c] <= marks[c]
      BY <1>3, <1>4
    <3> QED
      BY <1>3, <2>1, <3>3, <3>4, Zenon
  <2>2. ASSUME NEW j \in before, p = batch[j].seq PROVE p \in Int /\ p < t /\ marks[c] <= p /\ p \in Seqs /\ stored'[row(p)] > 0
    <3>1. j \in Survivors /\ j < i /\ batch[j].col = c
      BY <2>2, Zenon
    <3>2. p < t
      BY <2>2, <3>1, SurvivorsRise, Zenon
    <3>3. p \in Seqs /\ p \in Nat /\ batch[j] = row(p) /\ marks[c] < p
      <4>1. batch[j].seq > marks[c]
        BY <1>4, <3>1, Zenon
      <4>2. p \in Seqs /\ p \in Nat /\ batch[j] = row(p)
        BY <1>2, <2>2, <3>1, Zenon
      <4> QED
        BY <1>3, <2>2, <4>1, <4>2
    <3>4. stored'[row(p)] > 0
      <4>1. batch[j] \in ToWrite /\ batch[j] \in Row
        BY <1>1, <3>1, Zenon DEF ToWrite
      <4> QED
        BY <1>5, <3>3, <4>1, Zenon
    <3> QED
      BY ONLY <1>3, <3>2, <3>3, <3>4
  <2> QED
    BY <1>6, <2>1, <2>2, Zenon
\* What is stored below t is not above it.
<1>8. s <= p
  <2>1. stored[row(s)] > 0 \/ row(s) \in ToWrite
    BY <1>3, <1>5, Zenon
  <2>2. CASE stored[row(s)] > 0
    <3>1. row(s).seq <= marks[row(s).col]
      BY <1>0, <1>3, <2>2, StoredBelowMark, Zenon
    <3>2. s <= marks[c]
      BY ONLY <3>1, Zenon
    <3>3. s \in Nat /\ marks[c] \in Int /\ p \in Int /\ marks[c] <= p
      BY ONLY <1>3, <1>7, Zenon
    <3> HIDE DEF c, p
    <3> QED
      BY ONLY <3>2, <3>3
  <2>3. CASE row(s) \in ToWrite
    <3>1. PICK j \in Survivors : batch[j] = row(s)
      BY <2>3, Zenon DEF ToWrite
    <3>2. batch[j].col = c /\ batch[j].seq = s
      BY ONLY <3>1
    <3>3. j < i
      <4>1. ~(i < j)
        <5>1. i < j => t < s
          BY <3>2, SurvivorsRise, Zenon
        <5> QED
          BY <1>3, <5>1
      <4>2. j # i
        BY <1>3, <3>2
      <4>3. i \in Nat /\ j \in Nat
        BY <1>1, Zenon
      <4> QED
        BY ONLY <4>1, <4>2, <4>3
    <3>4. j \in before
      BY <3>2, <3>3, Zenon
    <3> QED
      BY <1>6, <3>2, <3>4, Zenon
  <2> QED
    BY <2>1, <2>2, <2>3, Zenon
<1>9. p = s
  <2>1. p # None /\ (p # s => p \in s + 1 .. t - 1)
    BY <1>3, <1>7, <1>8 DEF None
  <2>2. p \in s + 1 .. t - 1 => stored'[row(p)] = 0
    BY Zenon
  <2>3. stored'[row(p)] > 0
    BY <1>7, <2>1, Zenon
  <2>4. stored'[row(p)] = 0 => ~(stored'[row(p)] > 0)
    OBVIOUS
  <2> QED
    BY <2>1, <2>2, <2>3, <2>4, Zenon
<1>10. p # None
  BY ONLY <1>3, <1>9 DEF None
<1> QED
  BY <1>9, <1>10, Zenon DEF Skips, GapBefore

LEMMA HolesInit == Init => GapList /\ HolesReported
<1> SUFFICES ASSUME Init PROVE GapList /\ HolesReported
  BY Zenon
<1>1. GapList
  <2>1. gaps = <<>> /\ crashes = 0 /\ marks = diskMarks
    BY Zenon DEF Init
  <2>2. <<>> \in Seq({}) /\ Len(<<>>) <= MaxGaps /\ 0 \in Nat
    BY BoundsAssumption
  <2> QED
    BY <2>1, <2>2, Zenon DEF GapList
<1>2. \A c \in Collectors : \A s \in Seqs : stored[[col |-> c, seq |-> s]] = 0
  BY DEF Init, Row
<1>3. HolesReported
  BY <1>2 DEF HolesReported
<1> QED
  BY <1>1, <1>3, Zenon

\* A step that writes nothing and forgets no gap.
LEMMA HolesQuiet ==
    ASSUME HolesReported, UNCHANGED <<stored, crashes, faults>>, KnownGaps \subseteq KnownGaps'
    PROVE  HolesReported'
<1>1. stored' = stored /\ crashes' = crashes /\ faults' = faults
  BY Zenon
<1> SUFFICES ASSUME NEW c \in Collectors, NEW s \in Seqs, NEW t \in Seqs,
                    crashes' = 0, "commit" \notin faults',
                    stored'[[col |-> c, seq |-> s]] > 0, stored'[[col |-> c, seq |-> t]] > 0, s < t,
                    \A q \in s + 1 .. t - 1 : stored'[[col |-> c, seq |-> q]] = 0,
                    ~Contiguous(s, t)
             PROVE  \E g \in KnownGaps' : g.col = c /\ g.expected <= s + 1 /\ t <= g.observed
  BY Zenon DEF HolesReported, KnownGaps
<1>2. \A q \in s + 1 .. t - 1 : stored[[col |-> c, seq |-> q]] = 0
  BY <1>1, Zenon
<1>3. crashes = 0 /\ "commit" \notin faults /\ stored[[col |-> c, seq |-> s]] > 0 /\ stored[[col |-> c, seq |-> t]] > 0
  BY <1>1, Zenon
<1>4. \E g \in KnownGaps : g.col = c /\ g.expected <= s + 1 /\ t <= g.observed
  BY <1>2, <1>3, Zenon DEF HolesReported, KnownGaps
<1> QED
  BY <1>4, Zenon

\* A commit that writes: a hole is one from before, or lies below a new row.
LEMMA HolesCommit ==
    ASSUME PipeInv, GapList, HolesReported, CommitRows
    PROVE  HolesReported'
<1> SUFFICES ASSUME NEW c \in Collectors, NEW s \in Seqs, NEW t \in Seqs,
                    crashes = 0, "commit" \notin faults,
                    stored'[[col |-> c, seq |-> s]] > 0, stored'[[col |-> c, seq |-> t]] > 0, s < t,
                    \A q \in s + 1 .. t - 1 : stored'[[col |-> c, seq |-> q]] = 0,
                    ~Contiguous(s, t)
             PROVE  \E g \in KnownGaps' : g.col = c /\ g.expected <= s + 1 /\ t <= g.observed
  <2>1. crashes' = crashes /\ faults' = faults
    BY Zenon DEF CommitRows, envVars
  <2> QED
    BY <2>1, Zenon DEF HolesReported, KnownGaps
<1> DEFINE row(q) == [col |-> c, seq |-> q]
<1>0. GateInv /\ Typed /\ MarkIsHighestRow /\ marks = diskMarks
  BY Zenon DEF PipeInv, GateInv, GapList
<1>1. /\ \A q \in Seqs : row(q) \in Row /\ row(q).seq = q /\ row(q).col = c
      /\ s \in Nat /\ t \in Nat /\ marks[c] \in Int
      /\ \A q \in s + 1 .. t - 1 : q \in Seqs
  BY <1>0, BoundsAssumption DEF Row, Seqs, Typed, MarkValues, None
<1>2. \A r \in Row : stored[r] > 0 \/ r \in ToWrite <=> stored'[r] > 0
  BY <1>0, CommitEffect, Zenon
<1>3. CASE stored[row(t)] > 0
  <2>1. row(t).seq <= diskMarks[row(t).col]
    BY <1>0, <1>1, <1>3, StoredBelowMark, Zenon
  <2>2. t <= marks[c]
    BY <1>0, <1>1, <2>1, Zenon
  <2>3. row(s) \notin ToWrite
    <3> SUFFICES ASSUME row(s) \in ToWrite PROVE FALSE
      BY Zenon
    <3>1. PICK j \in Survivors : batch[j] = row(s)
      BY Zenon DEF ToWrite
    <3>2. batch[j].seq > marks[batch[j].col]
      BY Zenon DEF Survivors
    <3>3. s > marks[c]
      BY <1>1, <3>1, <3>2, Zenon
    <3> QED
      BY <1>1, <2>2, <3>3
  <2>4. stored[row(s)] > 0
    BY <1>1, <1>2, <2>3, Zenon
  <2>5. ASSUME NEW q \in s + 1 .. t - 1 PROVE stored[row(q)] = 0
    <3>1. row(q) \in Row /\ stored'[row(q)] = 0
      BY <1>1, <2>5, Zenon
    <3>2. ~(stored'[row(q)] > 0)
      BY <3>1
    <3>3. ~(stored[row(q)] > 0) /\ stored[row(q)] \in Nat
      BY <1>0, <1>2, <3>1, <3>2, Zenon DEF Typed
    <3> QED
      BY <3>3
  <2>6. \E g \in KnownGaps : g.col = c /\ g.expected <= s + 1 /\ t <= g.observed
    BY <1>3, <2>4, <2>5, Zenon DEF HolesReported, KnownGaps
  <2>7. KnownGaps \subseteq KnownGaps'
    BY GapsLearnt, Zenon
  <2> QED
    BY <2>6, <2>7, Zenon
<1>4. CASE ~(stored[row(t)] > 0)
  <2>1. row(t) \in ToWrite
    BY <1>1, <1>2, <1>4, Zenon
  <2>2. PICK i \in Survivors : batch[i] = row(t)
    BY <2>1, Zenon DEF ToWrite
  <2>3. batch[i].col = c /\ batch[i].seq = t
    BY <1>1, <2>2, Zenon
  <2>4. i \in Skips /\ GapBefore(i) = [col |-> batch[i].col, expected |-> s + 1, observed |-> batch[i].seq]
    BY <1>0, <2>3, HoleSeen, Zenon
  <2>5. GapBefore(i) \in KnownGaps'
    BY <2>4, GapsLearnt, Zenon
  <2> DEFINE g == [col |-> c, expected |-> s + 1, observed |-> t]
  <2>6. g \in KnownGaps'
    BY <2>3, <2>4, <2>5, Zenon
  <2>7. g.col = c /\ g.expected <= s + 1 /\ t <= g.observed
    BY <1>1
  <2> QED
    BY <2>6, <2>7, Zenon
<1> QED
  BY <1>3, <1>4, Zenon

LEMMA HolesNext == PipeInv /\ GapList /\ HolesReported /\ [Next]_vars => GapList' /\ HolesReported'
<1> SUFFICES ASSUME PipeInv, GapList, HolesReported, [Next]_vars PROVE HolesReported'
  BY GapListNext, Zenon
<1> USE DEF diskVars, writerVars, envVars, historyVars
<1>1. CASE UNCHANGED <<stored, crashes, faults, gaps, reported, unlisted>>
  BY <1>1, HolesQuiet, Zenon DEF KnownGaps
<1>2. CASE CrashAndRestart
  <2>1. crashes' = crashes + 1 /\ crashes \in Nat
    BY <1>2, Zenon DEF CrashAndRestart, GapList
  <2>2. crashes' # 0
    BY <2>1
  <2> QED
    BY <2>2, Zenon DEF HolesReported
<1>3. CASE CommitFails
  <2>1. "commit" \in faults'
    BY <1>3, Zenon DEF CommitFails
  <2> QED
    BY <2>1, Zenon DEF HolesReported
<1>4. CASE CommitNothing
  <2>1. UNCHANGED <<stored, crashes, faults>>
    BY <1>4, Zenon DEF CommitNothing
  <2>2. CASE "commit" \in faults
    BY <2>1, <2>2, Zenon DEF HolesReported
  <2>3. CASE "commit" \notin faults
    BY <1>4, <2>1, <2>3, GapsLearnt, HolesQuiet, Zenon
  <2> QED
    BY <2>2, <2>3, Zenon
<1>5. ASSUME NEW row, Enqueue(row) PROVE HolesReported'
  BY <1>1, <1>5, Zenon DEF Enqueue
<1>6. CASE \E c \in Collectors : SubmitNext(c) \/ SubmitNextEpoch(c) \/ SubmitAfterSkip(c)
  BY <1>5, <1>6, Zenon DEF SubmitNext, SubmitNextEpoch, SubmitAfterSkip, Submit
<1>7. CASE Redeliver \/ RequestFlush \/ Stop \/ Take \/ UNCHANGED vars
  BY <1>1, <1>5, <1>7, Zenon DEF Redeliver, RequestFlush, Stop, Take, vars
<1> QED
  BY <1>2, <1>3, <1>4, <1>6, <1>7, HolesCommit, Zenon DEF Next, Commit

\* A hole in what is stored of a collector is never silent, as long as commits
\* succeed and the process lives: the gap has been reported by a flush, is pending
\* or was counted (observe_sequence, answer_flush).
THEOREM HolesAreKnown == Spec => []HolesReported
BY PipeInit, PipeNext, HolesInit, HolesNext, PTL DEF Spec
=============================================================================
