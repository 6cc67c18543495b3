---------------------------- MODULE CollectorProofs ----------------------------
(***************************************************************************)
(* Theorems about the collector for every value of its constants: any      *)
(* reports and contents, any number of requests for a report and of        *)
(* restarts, any size of batch and buffer, and any faults.                 *)
(***************************************************************************)
EXTENDS CollectorService, FiniteSetTheorems, SequenceTheorems, TLAPS

Keys(r) == Range(BatchKeys(content[r]))

\* Where the writer is: what it has to do while it writes, and what is left
\* when it flushes and when it is done.
WriterInv ==
  /\ toWrite = <<>> => pending = {}
  /\ toWrite # <<>> => pending # {} /\ pending \subseteq ToWriteOf(batches[Head(toWrite)])
  /\ IsInjective(toWrite)
  /\ \A n \in DOMAIN toWrite : ToWriteOf(batches[toWrite[n]]) # {}
  /\ Up /\ writer = "flushing" =>
       /\ main = "flushing" /\ reportsCh = <<>>
       /\ \A k \in BatchKey : k \notin Range(toWrite) => batches[k] = NoBatch
  /\ Up /\ writer = "done" => main = "flushing" /\ reportsCh = <<>> /\ batches = NoBatches
  /\ ~ Up => reportsCh = <<>> /\ batches = NoBatches /\ sending = {}

\* The lists of a batch: the same reports for both helpers, each with a line
\* in that batch; full when they are written before the flush, and not full
\* while they wait.
BatchInv ==
  /\ \A k \in BatchKey, i \in Index :
       batches[k][i] = IF i \in Indexes(k) THEN batches[k][0] ELSE <<>>
  /\ \A k \in BatchKey, i \in Index : \A r \in Range(batches[k][i]) : k \in Keys(r)
  /\ \A k \in BatchKey :
       Len(batches[k][0]) <= BatchSize
  /\ writer # "writing" \/ ~ Up =>
       \A k \in BatchKey : Len(batches[k][0]) < BatchSize
  /\ Up /\ writer = "writing" =>
       \A k \in BatchKey :
         IF k \in Range(toWrite) THEN Len(batches[k][0]) = BatchSize
                                 ELSE Len(batches[k][0]) < BatchSize

\* The payloads at index i of the reports s, in the batch of key k, are lost.
AllDropped(k, i, s) ==
  \A r \in Range(s) : [key |-> k, index |-> i, report |-> r] \in dropped

\* The writer has written list i of the batch it is writing, or has failed to.
Written(i) ==
  LET key == Head(toWrite)
  IN  \/ [key |-> key, index |-> i, timestamp |-> timestamp, reports |-> batches[key][i]]
           \in files
      \/ AllDropped(key, i, batches[key][i])

\* The files: those of the batch that is being written hold its lists, and
\* the lists that are not pending any more are in one, or lost.
FilesInv ==
  /\ \A f \in files :
       /\ f.index \in Indexes(f.key)
       /\ \A r \in Range(f.reports) : f.key \in Keys(r)
       /\ f.timestamp <= timestamp
       /\ Len(f.reports) <= BatchSize
       /\ f.timestamp = timestamp /\ toWrite # <<>> =>
            /\ f.key = Head(toWrite)
            /\ f.reports = batches[f.key][f.index]
            /\ f.index \notin pending
  /\ toWrite # <<>> =>
       \A i \in ToWriteOf(batches[Head(toWrite)]) \ pending : Written(i)
  /\ \A line \in dropped : line \in LinesOf(line.report)

IsDebugKey(k) == k[2] # "encrypted"

\* A debug batch and the one with the other form are equal, unless one of
\* them has been written and the other one has not.
DebugInv ==
  /\ \A k \in BatchKey :
       IsDebugKey(k) =>
         /\ (k \in Range(toWrite) <=> OtherForm(k) \in Range(toWrite)) =>
              batches[k] = batches[OtherForm(k)]
         /\ k \in Range(toWrite) /\ OtherForm(k) \notin Range(toWrite) =>
              /\ batches[OtherForm(k)] = NoBatch
              /\ \A i \in ToWriteOf(batches[k]) :
                   \/ \E g \in files : /\ g.key = OtherForm(k) /\ g.index = i
                                       /\ g.reports = batches[k][i]
                   \/ AllDropped(OtherForm(k), i, batches[k][i])
  /\ \A f \in files :
       IsDebugKey(f.key) =>
         \/ \E g \in files : /\ g.key = OtherForm(f.key) /\ g.index = f.index
                             /\ g.reports = f.reports
         \/ AllDropped(OtherForm(f.key), f.index, f.reports)
         \/ /\ OtherForm(f.key) \in Range(toWrite)
            /\ OtherForm(f.key) = Head(toWrite) => f.index \in pending
            /\ batches[OtherForm(f.key)][f.index] = f.reports

CollectorInv ==
  /\ TypeOK /\ WriterInv /\ BatchInv /\ FilesInv /\ DebugInv
  /\ AcceptedIsKept /\ FilesPaired /\ BatchesFill
-----------------------------------------------------------------------------
(* Sequences. *)

\* Appending adds one element to the range.
LEMMA RangeAppend ==
  ASSUME NEW S, NEW s \in Seq(S), NEW e \in S
  PROVE  Range(Append(s, e)) = Range(s) \cup {e}
  <1> DEFINE t == Append(s, e)
  <1>1. /\ DOMAIN s = 1 .. Len(s) /\ DOMAIN t = 1 .. Len(s) + 1 /\ Len(s) \in Nat
        /\ \A i \in 1 .. Len(s) : t[i] = s[i]
        /\ t[Len(s) + 1] = e
    OBVIOUS
  <1> HIDE DEF t
  <1>2. Range(t) \subseteq Range(s) \cup {e}
    <2>1. \A i \in 1 .. Len(s) + 1 : i \in 1 .. Len(s) \/ i = Len(s) + 1
      BY <1>1
    <2> QED
      BY <1>1, <2>1 DEF Range
  <1>3. Range(s) \subseteq Range(t)
    <2>1. 1 .. Len(s) \subseteq 1 .. Len(s) + 1
      BY <1>1
    <2> QED
      BY <1>1, <2>1 DEF Range
  <1>4. e \in Range(t)
    <2>1. Len(s) + 1 \in 1 .. Len(s) + 1
      BY <1>1
    <2> QED
      BY <1>1, <2>1 DEF Range
  <1> QED
    BY <1>2, <1>3, <1>4 DEF t

\* The range of a sequence is its head and what its tail has.
LEMMA RangeTail ==
  ASSUME NEW S, NEW s \in Seq(S), s # <<>>
  PROVE  Range(s) = {Head(s)} \cup Range(Tail(s))
  <1>1. ASSUME NEW i \in 1 .. Len(s), i # 1
        PROVE  \E j \in 1 .. Len(Tail(s)) : s[i] = Tail(s)[j]
    <2>1. i - 1 \in 1 .. Len(Tail(s)) /\ s[i] = Tail(s)[i - 1]
      BY <1>1, HeadTailProperties
    <2> QED
      BY <2>1
  <1>2. \A i \in 1 .. Len(Tail(s)) : i + 1 \in 1 .. Len(s) /\ Tail(s)[i] = s[i + 1]
    BY HeadTailProperties
  <1>3. Head(s) = s[1] /\ 1 \in 1 .. Len(s)
    OBVIOUS
  <1>4. DOMAIN s = 1 .. Len(s) /\ DOMAIN Tail(s) = 1 .. Len(Tail(s))
    BY HeadTailProperties
  <1>5. ASSUME NEW x \in Range(s), x # Head(s) PROVE x \in Range(Tail(s))
    <2>1. PICK i \in 1 .. Len(s) : x = s[i]
      BY <1>4 DEF Range
    <2>2. PICK j \in 1 .. Len(Tail(s)) : x = Tail(s)[j]
      BY <1>1, <1>3, <1>5, <2>1
    <2> QED
      BY <1>4, <2>2 DEF Range
  <1>6. Range(Tail(s)) \subseteq Range(s) /\ Head(s) \in Range(s)
    BY <1>2, <1>3, <1>4 DEF Range
  <1> QED
    BY <1>5, <1>6

\* The head of a sequence without repetitions is not in its tail.
LEMMA HeadNotInTail ==
  ASSUME NEW S, NEW s \in Seq(S), s # <<>>, IsInjective(s)
  PROVE  Head(s) \notin Range(Tail(s)) /\ IsInjective(Tail(s))
  BY DEF Range, IsInjective

\* SetToSeqs: the order in which a finite set is gone through.
LEMMA OrderOfSet ==
  ASSUME NEW S, IsFiniteSet(S), S # {}, NEW order \in SetToSeqs(S)
  PROVE  order \in Seq(S) /\ order # <<>> /\ IsInjective(order) /\ Range(order) = S
  <1> DEFINE D == 1 .. Cardinality(S)
  <1>1. Cardinality(S) \in Nat /\ Cardinality(S) # 0
    BY FS_CardinalityType, FS_EmptySet
  <1>2. IsFiniteSet(D) /\ Cardinality(D) = Cardinality(S)
    BY <1>1, FS_Interval
  <1>3. order \in [D -> S] /\ IsInjective(order)
    BY DEF SetToSeqs, IsInjective
  <1>4. order \in Injection(D, S)
    BY <1>3 DEF Injection
  <1>5. order \in Surjection(D, S)
    BY <1>2, <1>4, FS_Injection
  <1>6. Range(order) = S
    BY <1>3, <1>5 DEF Surjection, Range
  <1> QED
    BY <1>1, <1>3, <1>6
-----------------------------------------------------------------------------
(* Reports. *)

\* The three ways in which a report is batched.
LEMMA BatchKeysCases ==
  ASSUME NEW c
  PROVE  \/ BatchKeys(c) = <<>>
         \/ \E p \in Protocol : BatchKeys(c) = <<<<p, "encrypted">>>>
         \/ \E p \in Protocol :
              BatchKeys(c) = <<<<p, "debug-encrypted">>, <<p, "debug-cleartext">>>>
  <1>1. GetProtocol(c) = "error" => BatchKeys(c) = <<>>
    BY DEF BatchKeys
  <1>2. GetProtocol(c) # "error" => GetProtocol(c) \in Protocol
    BY DEF GetProtocol, Protocol
  <1>3. Forms(c) \in {<<>>, <<"encrypted">>, <<"debug-encrypted", "debug-cleartext">>}
    BY DEF Forms
  <1>4. ASSUME GetProtocol(c) # "error"
        PROVE  BatchKeys(c) = [n \in DOMAIN Forms(c) |-> <<GetProtocol(c), Forms(c)[n]>>]
    BY <1>4 DEF BatchKeys
  <1>5. ASSUME GetProtocol(c) # "error", Forms(c) = <<>> PROVE BatchKeys(c) = <<>>
    BY <1>4, <1>5
  <1>6. ASSUME GetProtocol(c) # "error", Forms(c) = <<"encrypted">>
        PROVE  BatchKeys(c) = <<<<GetProtocol(c), "encrypted">>>>
    BY <1>4, <1>6
  <1>7. ASSUME GetProtocol(c) # "error", Forms(c) = <<"debug-encrypted", "debug-cleartext">>
        PROVE  BatchKeys(c) = <<<<GetProtocol(c), "debug-encrypted">>,
                                <<GetProtocol(c), "debug-cleartext">>>>
    BY <1>4, <1>7
  <1> QED
    BY <1>1, <1>2, <1>3, <1>5, <1>6, <1>7

\* The keys of a report are different, and a debug report has both forms.
LEMMA KeysOfReport ==
  ASSUME NEW r
  PROVE  /\ BatchKeys(content[r]) \in Seq(BatchKey)
         /\ IsInjective(BatchKeys(content[r]))
         /\ Keys(r) \subseteq BatchKey
         /\ \A k \in Keys(r) : IsDebugKey(k) => OtherForm(k) \in Keys(r)
         /\ \A k, l \in Keys(r) : l = k \/ (IsDebugKey(k) /\ l = OtherForm(k))
  <1> DEFINE s == BatchKeys(content[r])
  <1>1. CASE s = <<>>
    BY <1>1 DEF Keys, Range, IsInjective
  <1>2. CASE \E p \in Protocol : s = <<<<p, "encrypted">>>>
    <2>1. PICK p \in Protocol : s = <<<<p, "encrypted">>>>
      BY <1>2
    <2>2. Keys(r) = {<<p, "encrypted">>}
      BY <2>1 DEF Keys, Range
    <2>3. s \in Seq(BatchKey) /\ IsInjective(s) /\ Keys(r) \subseteq BatchKey
      BY <2>1, <2>2 DEF IsInjective, BatchKey, Form
    <2>4. \A k \in Keys(r) : ~ IsDebugKey(k)
      BY <2>2 DEF IsDebugKey
    <2>5. \A k, l \in Keys(r) : l = k
      BY <2>2
    <2> QED
      BY <2>3, <2>4, <2>5
  <1>3. CASE \E p \in Protocol : s = <<<<p, "debug-encrypted">>, <<p, "debug-cleartext">>>>
    <2>1. PICK p \in Protocol : s = <<<<p, "debug-encrypted">>, <<p, "debug-cleartext">>>>
      BY <1>3
    <2>2. Keys(r) = {<<p, "debug-encrypted">>, <<p, "debug-cleartext">>}
      BY <2>1 DEF Keys, Range
    <2>3. s \in Seq(BatchKey) /\ IsInjective(s) /\ Keys(r) \subseteq BatchKey
      BY <2>1, <2>2 DEF IsInjective, BatchKey, Form
    <2>4. \A k \in Keys(r) : OtherForm(k) \in Keys(r)
      BY <2>2 DEF OtherForm
    <2>5. ASSUME NEW k \in Keys(r), NEW l \in Keys(r), l # k
          PROVE  IsDebugKey(k) /\ l = OtherForm(k)
      <3>1. CASE k = <<p, "debug-encrypted">>
        <4>1. l = <<p, "debug-cleartext">>
          BY <2>2, <2>5, <3>1
        <4> QED
          BY <3>1, <4>1 DEF OtherForm, IsDebugKey
      <3>2. CASE k = <<p, "debug-cleartext">>
        <4>1. l = <<p, "debug-encrypted">>
          BY <2>2, <2>5, <3>2
        <4> QED
          BY <3>2, <4>1 DEF OtherForm, IsDebugKey
      <3> QED
        BY <2>2, <3>1, <3>2
    <2>6. \A k, l \in Keys(r) : l = k \/ (IsDebugKey(k) /\ l = OtherForm(k))
      BY <2>5, Zenon
    <2> QED
      BY <2>3, <2>4, <2>6
  <1> QED
    BY <1>1, <1>2, <1>3, BatchKeysCases

\* The other form of a debug key, and back.
LEMMA OtherFormFacts ==
  ASSUME NEW k \in BatchKey, IsDebugKey(k)
  PROVE  /\ OtherForm(k) \in BatchKey
         /\ IsDebugKey(OtherForm(k))
         /\ OtherForm(OtherForm(k)) = k
         /\ OtherForm(k) # k
         /\ Indexes(OtherForm(k)) = Indexes(k)
  BY DEF BatchKey, Form, IsDebugKey, OtherForm, Indexes

\* Every key has index 0, and no other than the two helpers'.
LEMMA IndexFacts ==
  ASSUME NEW k \in BatchKey
  PROVE  Indexes(k) \subseteq Index /\ 0 \in Indexes(k)
  BY DEF Indexes, Index

\* A line is to be stored exactly in the batches of its report.
LEMMA LinesOfReport ==
  ASSUME NEW r \in Report, NEW line
  PROVE  line \in LinesOf(r) <=>
           /\ line \in Line /\ line.report = r
           /\ line.key \in Keys(r) /\ line.index \in Indexes(line.key)
  BY DEF LinesOf, Keys
-----------------------------------------------------------------------------
(* What is kept. *)

\* The lines that AcceptedIsKept counts as kept.
Kept == FileLines \cup dropped \cup (IF Up THEN MemoryLines ELSE {})

\* Nothing else than reports that are kept gets an answer of 200.
LEMMA AcceptedStays ==
  ASSUME AcceptedIsKept, content' = content, Kept \subseteq Kept',
         \A q \in Request :
           answer'[q] = "200" /\ Forwards(content[q.report]) =>
             answer[q] = "200" \/ LinesOf(q.report) \subseteq Kept'
  PROVE  AcceptedIsKept'
  <1> SUFFICES ASSUME NEW q \in Request, answer'[q] = "200", Forwards(content'[q.report])
               PROVE  LinesOf(q.report)' \subseteq Kept'
    BY DEF AcceptedIsKept, Kept
  <1>1. LinesOf(q.report)' = LinesOf(q.report)
    BY DEF LinesOf
  <1>2. answer[q] = "200" => LinesOf(q.report) \subseteq Kept
    BY DEF AcceptedIsKept, Kept
  <1> QED
    BY <1>1, <1>2

\* A line is in memory on its way, or in a list the writer is not done with.
LEMMA InMemory ==
  ASSUME NEW line
  PROVE  line \in MemoryLines <=>
           \/ \E r \in Range(reportsCh) : line \in LinesOf(r)
           \/ /\ line \in Line
              /\ ~ Handled(line.key, line.index)
              /\ line.report \in Range(batches[line.key][line.index])
  BY DEF MemoryLines

\* A line is stored when a file of its key and index has its report.
LEMMA InFile ==
  ASSUME NEW line
  PROVE  line \in FileLines <=>
           /\ line \in Line
           /\ \E f \in files : /\ f.key = line.key /\ f.index = line.index
                               /\ line.report \in Range(f.reports)
  BY DEF FileLines
-----------------------------------------------------------------------------
(* The handlers. *)

\* A step that changes what clients know and nothing of the writer's.
LEMMA HandlerFrame ==
  ASSUME CollectorInv, UNCHANGED <<given, main, restarts, writerVars>>,
         answer' \in [Request -> Answer], sending' \subseteq Request,
         ~ Up => sending' = {},
         \A q \in Request :
           answer'[q] = "200" /\ Forwards(content[q.report]) => answer[q] = "200"
  PROVE  CollectorInv'
  <1> USE DEF given, writerVars
  <1>1. TypeOK'
    BY DEF CollectorInv, TypeOK, Up
  <1>2. WriterInv'
    BY DEF CollectorInv, WriterInv, Up
  <1>3. BatchInv' /\ FilesInv' /\ DebugInv' /\ FilesPaired' /\ BatchesFill'
    BY DEF CollectorInv, BatchInv, FilesInv, DebugInv, FilesPaired, BatchesFill, Up, Keys,
           Written, AllDropped, LinesOf
  <1>4. Kept' = Kept
    BY DEF Kept, FileLines, MemoryLines, LinesOf, Handled, Up
  <1>5. AcceptedIsKept'
    BY <1>4, AcceptedStays DEF CollectorInv
  <1> QED
    BY <1>1, <1>2, <1>3, <1>5 DEF CollectorInv

\* A request arrives: only its client and its handler know of it.
LEMMA ServeHTTPKeeps ==
  ASSUME CollectorInv, NEW q \in Request, ServeHTTP(q)
  PROVE  CollectorInv'
  <1>1. Status(content[q.report]) \in Answer
    BY DEF Status, Answer
  <1>2. answer' \in [Request -> Answer]
    BY <1>1 DEF CollectorInv, TypeOK, ServeHTTP, Answer
  <1>3. sending' \subseteq Request /\ (~ Up => sending' = {})
    BY DEF CollectorInv, TypeOK, WriterInv, ServeHTTP, Up
  <1>4. ASSUME NEW p \in Request, answer'[p] = "200", Forwards(content[p.report])
        PROVE  answer[p] = "200"
    BY <1>4 DEF CollectorInv, TypeOK, ServeHTTP
  <1> QED
    BY <1>2, <1>3, <1>4, HandlerFrame DEF ServeHTTP

\* The client of a request goes away.
LEMMA BreakConnectionKeeps ==
  ASSUME CollectorInv, NEW q \in Request, BreakConnection(q)
  PROVE  CollectorInv'
  <1>1. answer' \in [Request -> Answer]
    BY DEF CollectorInv, TypeOK, BreakConnection, Answer
  <1>2. \A p \in Request : answer'[p] = "200" => answer[p] = "200"
    BY DEF CollectorInv, TypeOK, BreakConnection
  <1>3. sending' = sending
    BY DEF BreakConnection
  <1> QED
    BY <1>1, <1>2, <1>3, HandlerFrame DEF BreakConnection, CollectorInv, TypeOK, WriterInv

\* A handler finds the channel closed: its client gets no answer.
LEMMA PanicOnClosedKeeps ==
  ASSUME CollectorInv, NEW q \in Request, PanicOnClosed(q)
  PROVE  CollectorInv'
  <1>1. answer' \in [Request -> Answer]
    BY DEF CollectorInv, TypeOK, PanicOnClosed, Reply, Answer
  <1>2. \A p \in Request : answer'[p] = "200" => answer[p] = "200"
    BY DEF CollectorInv, TypeOK, PanicOnClosed, Reply
  <1>3. sending' \subseteq sending
    BY DEF PanicOnClosed
  <1> QED
    BY <1>1, <1>2, <1>3, HandlerFrame DEF PanicOnClosed, CollectorInv, TypeOK, WriterInv

\* The channel's buffer has a natural number of places.
LEMMA CapacityType == Capacity \in Nat
  BY CollectorAssumption DEF Capacity

\* A report goes from its handler to the channel, with the answer of 200.
LEMMA SendReportKeeps ==
  ASSUME CollectorInv, NEW q \in Request, SendReport(q)
  PROVE  CollectorInv'
  <1>1. main \in {"serving", "closing"} /\ Up /\ Up'
    BY DEF CollectorInv, TypeOK, WriterInv, SendReport, ChannelClosed, Up, given
  <1>2. /\ UNCHANGED <<content, faults, main, restarts, writer, batches, toWrite, pending,
                       timestamp, files, dropped>>
        /\ reportsCh' = Append(reportsCh, q.report)
        /\ q.report \in Report
        /\ reportsCh \in Seq(Report)
    BY DEF CollectorInv, TypeOK, SendReport, given, Request
  <1>3. Status(content[q.report]) \in Answer
    BY DEF Status, Answer
  <1>4. answer' \in [Request -> Answer] /\ sending' \subseteq Request
    BY <1>3 DEF CollectorInv, TypeOK, SendReport, Reply
  <1>5. TypeOK'
    BY <1>1, <1>2, <1>4 DEF CollectorInv, TypeOK
  <1>6. WriterInv'
    BY <1>1, <1>2 DEF CollectorInv, WriterInv
  <1>7. BatchInv' /\ FilesInv' /\ DebugInv' /\ FilesPaired'
    BY <1>1, <1>2 DEF CollectorInv, BatchInv, FilesInv, DebugInv, FilesPaired, Keys, Written,
           AllDropped, LinesOf
  <1>8. BatchesFill'
    <2>1. Len(reportsCh') = Len(reportsCh) + 1
      BY <1>2
    <2>2. Len(reportsCh) < Capacity \/ (Capacity = 0 /\ Len(reportsCh) = 0)
      BY <1>2 DEF SendReport, HasRoom
    <2>3. Len(reportsCh') <= IF Capacity = 0 THEN 1 ELSE Capacity
      BY <1>2, <2>1, <2>2, CapacityType
    <2> QED
      BY <1>2, <2>3 DEF CollectorInv, BatchesFill
  <1>9. AcceptedIsKept'
    <2>1. Range(reportsCh') = Range(reportsCh) \cup {q.report}
      BY <1>2, RangeAppend
    <2>2. \A r : LinesOf(r)' = LinesOf(r)
      BY <1>2 DEF LinesOf
    <2>3. MemoryLines \subseteq MemoryLines' /\ LinesOf(q.report) \subseteq MemoryLines'
      BY <1>2, <2>1, <2>2 DEF MemoryLines, Handled
    <2>4. Kept \subseteq Kept' /\ LinesOf(q.report) \subseteq Kept'
      BY <1>1, <1>2, <2>3 DEF Kept, FileLines
    <2>5. ASSUME NEW p \in Request, answer'[p] = "200"
          PROVE  answer[p] = "200" \/ p = q
      BY <2>5 DEF SendReport, Reply, CollectorInv, TypeOK
    <2> QED
      BY <1>2, <2>4, <2>5, AcceptedStays DEF CollectorInv
  <1> QED
    BY <1>5, <1>6, <1>7, <1>8, <1>9 DEF CollectorInv
-----------------------------------------------------------------------------
(* The writer takes a report. *)

\* The report is added to the lists of its keys, in every index of them.
LEMMA TakenReport ==
  ASSUME CollectorInv, TakeReport, NEW r, r = Head(reportsCh)
  PROVE  /\ r \in Report /\ writer = "ready" /\ Up /\ Up' /\ toWrite = <<>> /\ pending = {}
         /\ UNCHANGED <<content, faults, main, restarts, answer, sending, files, dropped>>
         /\ reportsCh \in Seq(Report) /\ reportsCh # <<>>
         /\ reportsCh' = Tail(reportsCh) /\ reportsCh' \in Seq(Report)
         /\ batches \in [BatchKey -> [Index -> Seq(Report)]]
         /\ batches' \in [BatchKey -> [Index -> Seq(Report)]]
         /\ \A k \in BatchKey, i \in Index :
              batches'[k][i] = IF k \in Keys(r) /\ i \in Indexes(k)
                                 THEN Append(batches[k][i], r) ELSE batches[k][i]
  <1>1. /\ writer = "ready" /\ reportsCh # <<>> /\ reportsCh' = Tail(reportsCh)
        /\ UNCHANGED <<content, faults, main, restarts, answer, sending, files, dropped>>
        /\ batches' = AddReport(batches, r)
    BY DEF TakeReport, given
  <1>2. reportsCh \in Seq(Report) /\ batches \in [BatchKey -> [Index -> Seq(Report)]]
    BY DEF CollectorInv, TypeOK
  <1>3. r \in Report /\ reportsCh' \in Seq(Report)
    BY <1>1, <1>2
  <1>4. Up /\ Up' /\ toWrite = <<>> /\ pending = {}
    BY <1>1 DEF CollectorInv, TypeOK, WriterInv, Up
  <1>5. \A k \in BatchKey, i \in Index :
          batches'[k][i] = IF k \in Keys(r) /\ i \in Indexes(k)
                             THEN Append(batches[k][i], r) ELSE batches[k][i]
    BY <1>1 DEF AddReport, Keys
  <1>6. batches' \in [BatchKey -> [Index -> Seq(Report)]]
    <2>1. batches' = [k \in BatchKey |-> batches'[k]]
      BY <1>1 DEF AddReport
    <2>2. ASSUME NEW k \in BatchKey
          PROVE  batches'[k] = [i \in Index |-> batches'[k][i]]
      BY <1>1, <1>2 DEF AddReport
    <2>3. ASSUME NEW k \in BatchKey, NEW i \in Index
          PROVE  batches'[k][i] \in Seq(Report)
      <3>1. batches[k][i] \in Seq(Report)
        BY <1>2
      <3>2. Append(batches[k][i], r) \in Seq(Report)
        BY <1>3, <3>1
      <3>3. batches'[k][i] = Append(batches[k][i], r) \/ batches'[k][i] = batches[k][i]
        BY <1>5, Zenon
      <3> QED
        BY <3>1, <3>2, <3>3
    <2>4. \A k \in BatchKey : batches'[k] \in [Index -> Seq(Report)]
      BY <2>2, <2>3
    <2> QED
      BY <2>1, <2>4
  <1> QED
    BY <1>1, <1>2, <1>3, <1>4, <1>5, <1>6

\* The batches of the report are full together or not at all, and the writer
\* starts to write them when they are.
LEMMA TakenLengths ==
  ASSUME CollectorInv, TakeReport, NEW r, r = Head(reportsCh)
  PROVE  \/ /\ UNCHANGED <<writer, toWrite, pending, timestamp>>
            /\ \A k \in BatchKey : Len(batches'[k][0]) < BatchSize
         \/ /\ writer' = "writing" /\ timestamp' = timestamp + 1
            /\ toWrite' = BatchKeys(content[r]) /\ toWrite' # <<>>
            /\ pending' = ToWriteOf(batches'[Head(toWrite')])
            /\ \A k \in BatchKey : IF k \in Keys(r) THEN Len(batches'[k][0]) = BatchSize
                                                    ELSE Len(batches'[k][0]) < BatchSize
  <1> DEFINE keys == BatchKeys(content[r])
  <1>0. BatchSize \in Nat \ {0}
    BY CollectorAssumption
  <1>1. \A k \in BatchKey :
          /\ Len(batches[k][0]) < BatchSize
          /\ Len(batches[k][0]) \in Nat
          /\ Len(batches'[k][0]) = IF k \in Keys(r) THEN Len(batches[k][0]) + 1
                                                    ELSE Len(batches[k][0])
    <2> SUFFICES ASSUME NEW k \in BatchKey
                 PROVE  /\ Len(batches[k][0]) < BatchSize
                        /\ Len(batches[k][0]) \in Nat
                        /\ Len(batches'[k][0]) = IF k \in Keys(r) THEN Len(batches[k][0]) + 1
                                                                  ELSE Len(batches[k][0])
      OBVIOUS
    <2>1. writer # "writing" /\ batches[k][0] \in Seq(Report) /\ r \in Report
      BY TakenReport DEF Index
    <2>2. batches'[k][0] = IF k \in Keys(r) THEN Append(batches[k][0], r) ELSE batches[k][0]
      BY TakenReport, IndexFacts
    <2>3. Len(batches[k][0]) < BatchSize
      BY <2>1 DEF CollectorInv, BatchInv
    <2> QED
      BY <2>1, <2>2, <2>3
  <1>2. ASSUME NEW k \in Keys(r), NEW l \in Keys(r)
        PROVE  Len(batches'[k][0]) = Len(batches'[l][0])
    <2>1. k \in BatchKey /\ l \in BatchKey /\ (l = k \/ (IsDebugKey(k) /\ l = OtherForm(k)))
      BY KeysOfReport
    <2>2. Range(toWrite) = {}
      BY TakenReport DEF Range
    <2>3. IsDebugKey(k) => batches[k] = batches[OtherForm(k)]
      BY <2>1, <2>2 DEF CollectorInv, DebugInv
    <2> QED
      BY <1>1, <2>1, <2>3
  <1>3. keys \in Seq(BatchKey) /\ (keys # <<>> => Head(keys) \in Keys(r)) /\ Keys(r) \subseteq BatchKey
    BY KeysOfReport DEF Keys, Range
  <1>4. CASE keys # <<>> /\ IsBatchFull(batches'[Head(keys)])
    <2>1. /\ writer' = "writing" /\ timestamp' = timestamp + 1
          /\ toWrite' = keys /\ pending' = ToWriteOf(batches'[Head(keys)])
      BY <1>4 DEF TakeReport, StartWriting
    <2>2. \A k \in Keys(r) : Len(batches'[k][0]) = BatchSize
      BY <1>2, <1>3, <1>4 DEF IsBatchFull
    <2> QED
      BY <1>1, <1>4, <2>1, <2>2
  <1>5. CASE ~ (keys # <<>> /\ IsBatchFull(batches'[Head(keys)]))
    <2>1. UNCHANGED <<writer, toWrite, pending, timestamp>>
      BY <1>5 DEF TakeReport
    <2>2. ASSUME NEW k \in Keys(r) PROVE Len(batches'[k][0]) # BatchSize
      <3>1. keys # <<>>
        BY DEF Keys, Range
      <3>2. Len(batches'[Head(keys)][0]) # BatchSize
        BY <1>5, <3>1 DEF IsBatchFull
      <3> QED
        BY <1>2, <1>3, <3>1, <3>2
    <2>3. \A k \in BatchKey : Len(batches'[k][0]) < BatchSize
      BY <1>0, <1>1, <1>3, <2>2
    <2> QED
      BY <2>1, <2>3
  <1> QED
    BY <1>4, <1>5

\* The writer takes a report: it is in the channel or in every list it belongs to.
LEMMA TakeReportKeeps ==
  ASSUME CollectorInv, TakeReport
  PROVE  CollectorInv'
  <1> DEFINE r == Head(reportsCh)
  <1>1. /\ r \in Report /\ writer = "ready" /\ Up /\ Up' /\ toWrite = <<>> /\ pending = {}
        /\ UNCHANGED <<content, faults, main, restarts, answer, sending, files, dropped>>
        /\ reportsCh \in Seq(Report) /\ reportsCh # <<>>
        /\ reportsCh' = Tail(reportsCh) /\ reportsCh' \in Seq(Report)
        /\ batches \in [BatchKey -> [Index -> Seq(Report)]]
        /\ batches' \in [BatchKey -> [Index -> Seq(Report)]]
    BY TakenReport
  <1>2. \A k \in BatchKey, i \in Index :
          batches'[k][i] = IF k \in Keys(r) /\ i \in Indexes(k)
                             THEN Append(batches[k][i], r) ELSE batches[k][i]
    BY TakenReport
  <1> DEFINE NotFull == /\ UNCHANGED <<writer, toWrite, pending, timestamp>>
                        /\ \A k \in BatchKey : Len(batches'[k][0]) < BatchSize
             Full == /\ writer' = "writing" /\ timestamp' = timestamp + 1
                     /\ toWrite' = BatchKeys(content[r]) /\ toWrite' # <<>>
                     /\ pending' = ToWriteOf(batches'[Head(toWrite')])
                     /\ \A k \in BatchKey : IF k \in Keys(r) THEN Len(batches'[k][0]) = BatchSize
                                                             ELSE Len(batches'[k][0]) < BatchSize
  <1>3. NotFull \/ Full
    BY TakenLengths
  <1>4. /\ BatchSize \in Nat \ {0}
        /\ timestamp \in Nat
        /\ \A x : Keys(x)' = Keys(x) /\ LinesOf(x)' = LinesOf(x)
        /\ Range(<<>>) = {}
    BY <1>1, CollectorAssumption DEF CollectorInv, TypeOK, Keys, LinesOf, Range
  <1>5. Keys(r) = Range(BatchKeys(content[r])) /\ Keys(r) \subseteq BatchKey
    BY KeysOfReport DEF Keys
  <1>6. \A k \in BatchKey : batches'[k][0] \in Seq(Report)
    BY <1>1 DEF Index
  <1> HIDE DEF r
  <1>7. TypeOK'
    <2>1. CASE NotFull
      BY <1>1, <2>1 DEF CollectorInv, TypeOK, Up
    <2>2. CASE Full
      <3>1. toWrite' \in Seq(BatchKey)
        BY <2>2, KeysOfReport
      <3>2. pending' \subseteq Index
        BY <2>2 DEF ToWriteOf
      <3> QED
        BY <1>1, <1>4, <2>2, <3>1, <3>2 DEF CollectorInv, TypeOK, WriterState
    <2> QED
      BY <1>3, <2>1, <2>2
  <1>8. WriterInv'
    <2>1. CASE NotFull
      BY <1>1, <2>1 DEF CollectorInv, WriterInv, IsInjective
    <2>2. CASE Full
      <3>1. \A k \in Keys(r) : ToWriteOf(batches'[k]) # {}
        BY <1>4, <1>5, <1>6, <2>2 DEF ToWriteOf, Index
      <3>2. \A n \in DOMAIN toWrite' : toWrite'[n] \in Keys(r)
        BY <1>5, <2>2 DEF Range
      <3>3. Head(toWrite') \in Keys(r)
        BY <3>2, <2>2, KeysOfReport
      <3>4. IsInjective(toWrite')
        BY <2>2, KeysOfReport
      <3> QED
        BY <1>1, <2>2, <3>1, <3>2, <3>3, <3>4 DEF WriterInv
    <2> QED
      BY <1>3, <2>1, <2>2
  <1>9. BatchInv'
    <2>1. \A k \in BatchKey, i \in Index :
            batches'[k][i] = IF i \in Indexes(k) THEN batches'[k][0] ELSE <<>>
      BY <1>2, IndexFacts DEF CollectorInv, BatchInv
    <2>2. ASSUME NEW k \in BatchKey, NEW i \in Index, NEW x \in Range(batches'[k][i])
          PROVE  k \in Keys(x)
      <3>1. batches[k][i] \in Seq(Report)
        BY <1>1
      <3>2. Range(Append(batches[k][i], r)) = Range(batches[k][i]) \cup {r}
        BY <1>1, <3>1, RangeAppend
      <3> QED
        BY <1>2, <2>2, <3>2 DEF CollectorInv, BatchInv
    <2>3. \A k \in BatchKey : Len(batches'[k][0]) <= BatchSize
      BY <1>3, <1>4, <1>6
    <2>4. writer' # "writing" =>
            \A k \in BatchKey : Len(batches'[k][0]) < BatchSize
      BY <1>3
    <2>5. writer' = "writing" =>
            \A k \in BatchKey :
              IF k \in Range(toWrite') THEN Len(batches'[k][0]) = BatchSize
                                       ELSE Len(batches'[k][0]) < BatchSize
      BY <1>1, <1>3, <1>5
    <2> QED
      BY <1>1, <1>4, <2>1, <2>2, <2>3, <2>4, <2>5 DEF BatchInv
  <1>10. FilesInv'
    <2>1. \A f \in files : f.timestamp \in Nat /\ f.timestamp <= timestamp
      BY DEF CollectorInv, FilesInv, TypeOK
    <2>2. ASSUME NEW f \in files
          PROVE  f.timestamp <= timestamp' /\ ~ (f.timestamp = timestamp' /\ toWrite' # <<>>)
      BY <1>1, <1>3, <1>4, <2>1
    <2>3. toWrite' # <<>> => ToWriteOf(batches'[Head(toWrite')]) \ pending' = {}
      BY <1>1, <1>3
    <2>4. \A f \in files : /\ f.index \in Indexes(f.key)
                           /\ \A x \in Range(f.reports) : f.key \in Keys(x)
                           /\ Len(f.reports) <= BatchSize
      BY DEF CollectorInv, FilesInv
    <2>5. \A line \in dropped : line \in LinesOf(line.report)
      BY DEF CollectorInv, FilesInv
    <2> QED
      BY <1>1, <1>4, <2>2, <2>3, <2>4, <2>5 DEF FilesInv
  <1>11. DebugInv'
    <2>1. ASSUME NEW k \in BatchKey, IsDebugKey(k)
          PROVE  /\ k \in Range(toWrite') <=> OtherForm(k) \in Range(toWrite')
                 /\ batches'[k] = batches'[OtherForm(k)]
      <3>1. /\ OtherForm(k) \in BatchKey /\ IsDebugKey(OtherForm(k))
            /\ OtherForm(OtherForm(k)) = k /\ Indexes(OtherForm(k)) = Indexes(k)
        BY <2>1, OtherFormFacts
      <3>2. k \in Keys(r) <=> OtherForm(k) \in Keys(r)
        BY <2>1, <3>1, KeysOfReport
      <3>3. batches[k] = batches[OtherForm(k)]
        BY <1>1, <1>4, <2>1 DEF CollectorInv, DebugInv
      <3>4. \A i \in Index : batches'[k][i] = batches'[OtherForm(k)][i]
        BY <1>2, <3>1, <3>2, <3>3
      <3>5. batches'[k] = batches'[OtherForm(k)]
        BY <1>1, <3>1, <3>4
      <3> QED
        BY <1>1, <1>3, <1>4, <1>5, <3>2, <3>5
    <2>2. ASSUME NEW f \in files, IsDebugKey(f.key)
          PROVE  \/ \E g \in files : /\ g.key = OtherForm(f.key) /\ g.index = f.index
                                     /\ g.reports = f.reports
                 \/ AllDropped(OtherForm(f.key), f.index, f.reports)
      BY <1>1, <1>4, <2>2 DEF CollectorInv, DebugInv
    <2> QED
      BY <1>1, <2>1, <2>2 DEF DebugInv, AllDropped
  <1>12. FilesPaired'
    BY <1>1 DEF CollectorInv, FilesPaired
  <1>13. BatchesFill'
    <2>1. Len(reportsCh') <= Len(reportsCh) /\ Len(reportsCh) \in Nat /\ Len(reportsCh') \in Nat
      BY <1>1
    <2>2. \A k \in BatchKey, i \in Index : Len(batches'[k][i]) <= BatchSize
      BY <1>4, <1>9 DEF BatchInv
    <2>3. Len(reportsCh') <= IF Capacity = 0 THEN 1 ELSE Capacity
      BY <2>1, CapacityType DEF CollectorInv, BatchesFill
    <2> QED
      BY <1>1, <2>2, <2>3 DEF CollectorInv, BatchesFill
  <1>14. AcceptedIsKept'
    <2>1. ASSUME NEW k \in BatchKey, NEW i \in Index, Handled(k, i)'
          PROVE  batches'[k][i] = <<>>
      BY <1>1, <1>3, <2>1 DEF Handled, ToWriteOf
    <2>2. ASSUME NEW x \in Range(reportsCh), NEW line \in LinesOf(x)
          PROVE  line \in MemoryLines'
      <3>1. CASE x \in Range(reportsCh')
        BY <1>4, <2>2, <3>1, InMemory DEF MemoryLines
      <3>2. CASE x = r
        <4>1. line \in Line /\ line.report = r /\ line.key \in Keys(r)
              /\ line.index \in Indexes(line.key)
          BY <1>1, <2>2, <3>2, LinesOfReport
        <4>2. line.key \in BatchKey /\ line.index \in Index
          BY <4>1 DEF Line
        <4>3. batches'[line.key][line.index] = Append(batches[line.key][line.index], r)
          BY <1>2, <4>1, <4>2
        <4>4. batches[line.key][line.index] \in Seq(Report)
          BY <1>1, <4>2
        <4>5. r \in Range(batches'[line.key][line.index])
          BY <1>1, <4>3, <4>4, RangeAppend
        <4>6. batches'[line.key][line.index] # <<>>
          BY <4>5, <1>4
        <4> QED
          BY <2>1, <4>1, <4>2, <4>5, <4>6 DEF MemoryLines
      <3> QED
        BY <1>1, <3>1, <3>2, RangeTail DEF r
    <2>3. ASSUME NEW line \in Line, line.report \in Range(batches[line.key][line.index])
          PROVE  line \in MemoryLines'
      <3>1. line.key \in BatchKey /\ line.index \in Index
        BY DEF Line
      <3>2. batches[line.key][line.index] \in Seq(Report)
        BY <1>1, <3>1
      <3>3. line.report \in Range(batches'[line.key][line.index])
        <4>1. Range(Append(batches[line.key][line.index], r))
                = Range(batches[line.key][line.index]) \cup {r}
          BY <1>1, <3>2, RangeAppend
        <4> QED
          BY <1>2, <2>3, <3>1, <4>1
      <3>4. batches'[line.key][line.index] # <<>>
        BY <3>3, <1>4
      <3> QED
        BY <2>1, <3>1, <3>3, <3>4 DEF MemoryLines
    <2>4. MemoryLines \subseteq MemoryLines'
      BY <2>2, <2>3 DEF MemoryLines
    <2>5. Kept \subseteq Kept'
      BY <1>1, <2>4 DEF Kept, FileLines
    <2> QED
      BY <1>1, <2>5, AcceptedStays DEF CollectorInv
  <1> QED
    BY <1>7, <1>8, <1>9, <1>10, <1>11, <1>12, <1>13, <1>14 DEF CollectorInv
-----------------------------------------------------------------------------
(* The writer writes a file. *)

\* The payloads of the list are in a new file, or lost.
Stored(file) ==
  \/ file \in files
  \/ AllDropped(file.key, file.index, file.reports)

FileOf(k, i) ==
  [key |-> k, index |-> i, timestamp |-> timestamp, reports |-> batches[k][i]]

\* The list that is written ends in a file or lost, as a whole.
LEMMA FileIsStored ==
  ASSUME CollectorInv, NEW i \in Index, WriteFile(i),
         NEW k, k = Head(toWrite), NEW file, file = FileOf(k, i)
  PROVE  /\ Up /\ writer \in {"writing", "flushing"}
         /\ toWrite \in Seq(BatchKey) /\ toWrite # <<>>
         /\ k \in BatchKey /\ k \in Range(toWrite)
         /\ i \in pending /\ i \in Indexes(k)
         /\ batches[k][i] \in Seq(Report) /\ batches[k][i] # <<>>
         /\ \A r \in Range(batches[k][i]) : r \in Report /\ k \in Keys(r)
         /\ UNCHANGED <<content, faults, main, restarts, answer, sending, reportsCh>>
         /\ files \subseteq files' /\ files' \subseteq files \cup {file}
         /\ dropped \subseteq dropped' /\ dropped' \subseteq Line
         /\ \A line \in dropped' : line \in LinesOf(line.report)
         /\ Stored(file)'
  <1>1. i \in pending /\ UNCHANGED <<content, faults, main, restarts, answer, sending, reportsCh>>
    BY DEF WriteFile, given
  <1>2. toWrite # <<>> /\ toWrite \in Seq(BatchKey)
    BY <1>1 DEF CollectorInv, WriterInv, TypeOK
  <1>3. Up /\ writer \in {"writing", "flushing"}
    BY <1>2 DEF CollectorInv, TypeOK
  <1>4. k \in BatchKey /\ k \in Range(toWrite)
    BY <1>2 DEF Range
  <1>5. batches[k][i] \in Seq(Report)
    BY <1>4 DEF CollectorInv, TypeOK
  <1>6. batches[k][i] # <<>>
    BY <1>1, <1>2 DEF CollectorInv, WriterInv, ToWriteOf
  <1>7. i \in Indexes(k)
    BY <1>4, <1>6 DEF CollectorInv, BatchInv
  <1>8. \A r \in Range(batches[k][i]) : r \in Report /\ k \in Keys(r)
    BY <1>4, <1>5 DEF CollectorInv, BatchInv, Range
  <1>9. \/ files' = files \cup {file} /\ dropped' = dropped
        \/ /\ files' = files
           /\ dropped' = dropped \cup
                {[key |-> k, index |-> i, report |-> r] : r \in Range(batches[k][i])}
    BY DEF WriteFile, FileOf
  <1>10. files \subseteq files' /\ files' \subseteq files \cup {file} /\ dropped \subseteq dropped'
    BY <1>9
  <1>11. ASSUME NEW line \in dropped' PROVE line \in Line /\ line \in LinesOf(line.report)
    <2>1. CASE line \in dropped
      BY <2>1 DEF CollectorInv, TypeOK, FilesInv
    <2>2. CASE \E r \in Range(batches[k][i]) : line = [key |-> k, index |-> i, report |-> r]
      <3>1. PICK r \in Range(batches[k][i]) : line = [key |-> k, index |-> i, report |-> r]
        BY <2>2
      <3>2. line \in Line /\ line.key = k /\ line.index = i /\ line.report = r
        BY <1>4, <1>8, <3>1 DEF Line
      <3> QED
        BY <1>7, <1>8, <3>2, LinesOfReport
    <2> QED
      BY <1>9, <2>1, <2>2
  <1>12. file.key = k /\ file.index = i /\ file.reports = batches[k][i]
    BY DEF FileOf
  <1>13. Stored(file)'
    BY <1>9, <1>12 DEF Stored, AllDropped
  <1> QED
    BY <1>1, <1>2, <1>3, <1>4, <1>5, <1>6, <1>7, <1>8, <1>10, <1>11, <1>13

\* When no list is left, every list of the batch is in a file or lost.
LEMMA BatchIsStored ==
  ASSUME CollectorInv, NEW i \in Index, WriteFile(i),
         NEW k, k = Head(toWrite), NEW j \in Indexes(k), j = i \/ j \notin pending,
         NEW file, file = FileOf(k, j)
  PROVE  /\ Stored(file)'
         /\ batches[k][j] = batches[k][i]
  <1>1. PICK f : f = FileOf(k, i)
    OBVIOUS
  <1>2. /\ k \in BatchKey /\ i \in Indexes(k) /\ batches[k][i] # <<>> /\ toWrite # <<>>
        /\ files \subseteq files' /\ dropped \subseteq dropped'
        /\ Stored(f)'
    BY <1>1, FileIsStored
  <1>3. j \in Index /\ batches[k][j] = batches[k][i]
    BY <1>2, IndexFacts DEF CollectorInv, BatchInv
  <1>4. CASE j = i
    BY <1>1, <1>2, <1>3, <1>4
  <1>5. CASE j \notin pending
    <2>1. j \in ToWriteOf(batches[Head(toWrite)]) \ pending
      BY <1>2, <1>3, <1>5 DEF ToWriteOf
    <2>2. Written(j)
      BY <1>2, <2>1 DEF CollectorInv, FilesInv
    <2>3. file \in files \/ AllDropped(k, j, batches[k][j])
      BY <2>2 DEF Written, FileOf
    <2>4. file.key = k /\ file.index = j /\ file.reports = batches[k][j]
      BY DEF FileOf
    <2> QED
      BY <1>2, <1>3, <2>3, <2>4 DEF Stored, AllDropped
  <1> QED
    BY <1>3, <1>4, <1>5

\* The file that is written is paired with the ones written before it.
LEMMA WriteFilePairs ==
  ASSUME CollectorInv, NEW i \in Index, WriteFile(i),
         pending # {i} => timestamp' = timestamp /\ pending' = pending \ {i}
  PROVE  FilesPaired'
  <1>1. PICK k : k = Head(toWrite)
    OBVIOUS
  <1>2. PICK file : file = FileOf(k, i)
    OBVIOUS
  <1>3. /\ toWrite # <<>> /\ k \in BatchKey /\ i \in Indexes(k)
        /\ files \subseteq files' /\ files' \subseteq files \cup {file}
        /\ dropped \subseteq dropped'
    BY <1>1, <1>2, FileIsStored
  <1>4. /\ file.key = k /\ file.index = i /\ file.reports = batches[k][i]
        /\ file.timestamp = timestamp
    BY <1>2 DEF FileOf
  <1>5. ASSUME NEW f \in files', NEW j \in Indexes(f.key),
               f.key = k, f.timestamp = timestamp, f.reports = batches[k][f.index],
               f.index \in Indexes(k), f = FileOf(k, f.index),
               j = i \/ j \notin pending
        PROVE  \/ \E g \in files' : g.index = j /\ g = [f EXCEPT !.index = j]
               \/ \A r \in Range(f.reports) : [key |-> f.key, index |-> j, report |-> r] \in dropped'
    <2>1. PICK other : other = FileOf(k, j)
      OBVIOUS
    <2>2. Stored(other)' /\ batches[k][j] = batches[k][i]
      BY <1>1, <1>5, <2>1, BatchIsStored
    <2>3. batches[k][f.index] = batches[k][i]
      BY <1>3, <1>5, IndexFacts DEF CollectorInv, BatchInv
    <2>4. other.index = j /\ other.key = k /\ other.reports = f.reports
      BY <1>5, <2>1, <2>2, <2>3 DEF FileOf
    <2>5. other = [f EXCEPT !.index = j]
      BY <1>5, <2>1, <2>2, <2>3 DEF FileOf
    <2> QED
      BY <1>5, <2>2, <2>4, <2>5 DEF Stored, AllDropped
  <1>6. ASSUME NEW f \in files', NEW j \in Indexes(f.key)
        PROVE  \/ f.timestamp = timestamp' /\ j \in pending'
               \/ \E g \in files' : g.index = j /\ g = [f EXCEPT !.index = j]
               \/ \A r \in Range(f.reports) : [key |-> f.key, index |-> j, report |-> r] \in dropped'
    <2>1. CASE f = file
      <3>1. CASE j # i /\ j \in pending
        BY <1>4, <1>6, <2>1, <3>1
      <3>2. CASE j = i \/ j \notin pending
        BY <1>2, <1>3, <1>4, <1>5, <1>6, <2>1, <3>2
      <3> QED
        BY <3>1, <3>2
    <2>2. CASE f \in files
      <3>1. CASE f.timestamp = timestamp /\ j \in pending
        <4>1. CASE j # i
          BY <1>6, <3>1, <4>1
        <4>2. CASE j = i
          <5>1. /\ f.key = k /\ f.reports = batches[k][f.index] /\ f.index \in Indexes(k)
            BY <1>1, <1>3, <2>2, <3>1 DEF CollectorInv, FilesInv
          <5>2. f = FileOf(k, f.index)
            <6>1. f \in [key : BatchKey, index : Index, timestamp : Nat,
                         reports : Seq(Report) \ {<<>>}]
              BY <2>2 DEF CollectorInv, TypeOK
            <6> QED
              BY <3>1, <5>1, <6>1 DEF FileOf
          <5> QED
            BY <1>5, <1>6, <3>1, <4>2, <5>1, <5>2
        <4> QED
          BY <4>1, <4>2
      <3>2. CASE \E g \in files : g.index = j /\ g = [f EXCEPT !.index = j]
        BY <1>3, <3>2
      <3>3. CASE \A r \in Range(f.reports) : [key |-> f.key, index |-> j, report |-> r] \in dropped
        BY <1>3, <3>3
      <3> QED
        BY <1>6, <2>2, <3>1, <3>2, <3>3 DEF CollectorInv, FilesPaired
    <2> QED
      BY <1>3, <2>1, <2>2
  <1> QED
    BY <1>6 DEF FilesPaired

\* A line of the list that was written leaves the memory for a file, or is lost.
LEMMA WriteFileAccepts ==
  ASSUME CollectorInv, NEW i \in Index, WriteFile(i), Up', NEW k, k = Head(toWrite),
         \A line \in Line :
           /\ line.key # k \/ line.index # i
           /\ ~ Handled(line.key, line.index)
           /\ line.report \in Range(batches[line.key][line.index])
           => line \in MemoryLines'
  PROVE  AcceptedIsKept'
  <1>1. PICK file : file = FileOf(k, i)
    OBVIOUS
  <1>2. /\ Up /\ UNCHANGED <<content, answer, reportsCh>>
        /\ files \subseteq files' /\ dropped \subseteq dropped'
        /\ Stored(file)'
    BY <1>1, FileIsStored
  <1>3. /\ file.key = k /\ file.index = i /\ file.reports = batches[k][i]
    BY <1>1 DEF FileOf
  <1>4. \A r : LinesOf(r)' = LinesOf(r)
    BY <1>2 DEF LinesOf
  <1>5. ASSUME NEW line \in Line, line.key = k, line.index = i, line.report \in Range(batches[k][i])
        PROVE  line \in FileLines' \cup dropped'
    <2>1. CASE file \in files'
      BY <1>3, <1>5, <2>1 DEF FileLines
    <2>2. CASE \A r \in Range(batches[k][i]) : [key |-> k, index |-> i, report |-> r] \in dropped'
      <3>1. line = [key |-> k, index |-> i, report |-> line.report]
        BY <1>5 DEF Line
      <3> QED
        BY <1>5, <2>2, <3>1
    <2> QED
      BY <1>2, <1>3, <2>1, <2>2 DEF Stored, AllDropped
  <1>6. MemoryLines \subseteq FileLines' \cup dropped' \cup MemoryLines'
    <2>1. \A r \in Range(reportsCh) : \A line \in LinesOf(r) : line \in MemoryLines'
      BY <1>2, <1>4 DEF MemoryLines
    <2> QED
      BY <1>5, <2>1 DEF MemoryLines
  <1>7. Kept \subseteq Kept'
    BY <1>2, <1>6 DEF Kept, FileLines
  <1> QED
    BY <1>2, <1>7, AcceptedStays DEF CollectorInv

\* The sizes of the files: only the flush writes a batch that is not full.
LEMMA WriteFileFills ==
  ASSUME CollectorInv, NEW i \in Index, WriteFile(i),
         batches' = batches \/ batches' = [batches EXCEPT ![Head(toWrite)] = NoBatch]
  PROVE  BatchesFill'
  <1>1. PICK k : k = Head(toWrite)
    OBVIOUS
  <1>2. PICK file : file = FileOf(k, i)
    OBVIOUS
  <1>3. /\ k \in BatchKey /\ i \in Indexes(k) /\ k \in Range(toWrite)
        /\ Up /\ writer \in {"writing", "flushing"}
        /\ UNCHANGED <<main, restarts, reportsCh>>
        /\ files' \subseteq files \cup {file}
    BY <1>1, <1>2, FileIsStored
  <1>4. file.reports = batches[k][i]
    BY <1>2 DEF FileOf
  <1>5. \A b \in BatchKey, j \in Index : Len(batches[b][j]) <= BatchSize
    BY DEF CollectorInv, BatchesFill
  <1>6. \A b \in BatchKey, j \in Index : Len(batches'[b][j]) <= BatchSize
    <2>1. BatchSize \in Nat /\ \A j \in Index : Len(NoBatch[j]) = 0
      BY CollectorAssumption DEF NoBatch
    <2>2. batches \in [BatchKey -> [Index -> Seq(Report)]]
      BY DEF CollectorInv, TypeOK
    <2>3. \A b \in BatchKey : batches'[b] = batches[b] \/ batches'[b] = NoBatch
      BY <2>2
    <2>4. ASSUME NEW b \in BatchKey, NEW j \in Index PROVE Len(batches'[b][j]) <= BatchSize
      <3>1. CASE batches'[b] = batches[b]
        BY <1>5, <3>1
      <3>2. CASE batches'[b] = NoBatch
        BY <2>1, <3>2
      <3> QED
        BY <2>3, <3>1, <3>2
    <2> QED
      BY <2>4
  <1>7. \A f \in files' : Len(f.reports) <= BatchSize
    BY <1>3, <1>4, <1>5, IndexFacts DEF CollectorInv, BatchesFill
  <1>8. ASSUME main \in {"serving", "closing"} PROVE Len(file.reports) = BatchSize
    <2>1. writer = "writing"
      BY <1>3, <1>8 DEF CollectorInv, WriterInv
    <2>2. Len(batches[k][0]) = BatchSize
      BY <1>3, <2>1 DEF CollectorInv, BatchInv
    <2>3. batches[k][i] = batches[k][0]
      BY <1>3, IndexFacts DEF CollectorInv, BatchInv
    <2> QED
      BY <1>4, <2>2, <2>3
  <1> QED
    BY <1>3, <1>6, <1>7, <1>8 DEF CollectorInv, BatchesFill, Capacity

\* One list of the batch is written and another one is left.
LEMMA WriteFirstKeeps ==
  ASSUME CollectorInv, NEW i \in Index, WriteFile(i), pending # {i}
  PROVE  CollectorInv'
  <1>1. PICK k : k = Head(toWrite)
    OBVIOUS
  <1>2. PICK file : file = FileOf(k, i)
    OBVIOUS
  <1>3. /\ Up /\ writer \in {"writing", "flushing"}
        /\ toWrite \in Seq(BatchKey) /\ toWrite # <<>>
        /\ k \in BatchKey /\ k \in Range(toWrite)
        /\ i \in pending /\ i \in Indexes(k)
        /\ batches[k][i] \in Seq(Report) /\ batches[k][i] # <<>>
        /\ \A r \in Range(batches[k][i]) : r \in Report /\ k \in Keys(r)
        /\ UNCHANGED <<content, faults, main, restarts, answer, sending, reportsCh>>
        /\ files \subseteq files' /\ files' \subseteq files \cup {file}
        /\ dropped \subseteq dropped' /\ dropped' \subseteq Line
        /\ \A line \in dropped' : line \in LinesOf(line.report)
        /\ Stored(file)'
    BY <1>1, <1>2, FileIsStored
  <1>4. UNCHANGED <<writer, batches, toWrite, timestamp>> /\ pending' = pending \ {i}
    BY DEF WriteFile
  <1>5. /\ file.key = k /\ file.index = i /\ file.reports = batches[k][i]
        /\ file.timestamp = timestamp
    BY <1>2 DEF FileOf
  <1>6. /\ Up' /\ \A x : Keys(x)' = Keys(x) /\ LinesOf(x)' = LinesOf(x)
    BY <1>3 DEF Up, Keys, LinesOf
  <1>7. TypeOK'
    <2>1. file \in [key : BatchKey, index : Index, timestamp : Nat,
                    reports : Seq(Report) \ {<<>>}]
      BY <1>2, <1>3 DEF CollectorInv, TypeOK, FileOf
    <2> QED
      BY <1>3, <1>4, <2>1 DEF CollectorInv, TypeOK, Up
  <1>8. WriterInv'
    BY <1>3, <1>4, <1>6 DEF CollectorInv, WriterInv
  <1>9. BatchInv'
    BY <1>3, <1>4, <1>6 DEF CollectorInv, BatchInv
  <1>10. FilesInv'
    <2>1. ASSUME NEW f \in files'
          PROVE  /\ f.index \in Indexes(f.key)
                 /\ \A r \in Range(f.reports) : f.key \in Keys(r)
                 /\ f.timestamp <= timestamp
                 /\ Len(f.reports) <= BatchSize
                 /\ f.timestamp = timestamp =>
                      /\ f.key = k
                      /\ f.reports = batches[f.key][f.index]
                      /\ f.index \notin pending'
      <3>1. CASE f \in files
        BY <1>1, <1>3, <1>4, <3>1 DEF CollectorInv, FilesInv
      <3>2. CASE f = file
        <4>1. timestamp \in Nat /\ Len(batches[k][i]) <= BatchSize
          BY <1>3 DEF CollectorInv, TypeOK, BatchesFill
        <4> QED
          BY <1>3, <1>4, <1>5, <3>2, <4>1
      <3> QED
        BY <1>3, <3>1, <3>2
    <2>2. ASSUME NEW j \in ToWriteOf(batches[k]) \ pending' PROVE Written(j)'
      <3>1. j \in Indexes(k)
        BY <1>3 DEF ToWriteOf, CollectorInv, BatchInv
      <3>2. PICK other : other = FileOf(k, j)
        OBVIOUS
      <3>3. Stored(other)'
        BY <1>1, <1>4, <2>2, <3>1, <3>2, BatchIsStored
      <3>4. other.key = k /\ other.index = j /\ other.reports = batches[k][j]
        BY <3>2 DEF FileOf
      <3> QED
        BY <1>1, <1>4, <3>2, <3>3, <3>4 DEF Written, Stored, FileOf, AllDropped
    <2> QED
      BY <1>1, <1>3, <1>4, <1>6, <2>1, <2>2 DEF FilesInv
  <1>11. DebugInv'
    <2>1. ASSUME NEW b \in BatchKey, IsDebugKey(b)
          PROVE  /\ (b \in Range(toWrite) <=> OtherForm(b) \in Range(toWrite)) =>
                      batches[b] = batches[OtherForm(b)]
                 /\ b \in Range(toWrite) /\ OtherForm(b) \notin Range(toWrite) =>
                      /\ batches[OtherForm(b)] = NoBatch
                      /\ \A j \in ToWriteOf(batches[b]) :
                           \/ \E g \in files' : /\ g.key = OtherForm(b) /\ g.index = j
                                                /\ g.reports = batches[b][j]
                           \/ AllDropped(OtherForm(b), j, batches[b][j])'
      BY <1>3, <1>4, <2>1 DEF CollectorInv, DebugInv, AllDropped
    <2>2. ASSUME NEW f \in files', IsDebugKey(f.key)
          PROVE  \/ \E g \in files' : /\ g.key = OtherForm(f.key) /\ g.index = f.index
                                      /\ g.reports = f.reports
                 \/ AllDropped(OtherForm(f.key), f.index, f.reports)'
                 \/ /\ OtherForm(f.key) \in Range(toWrite)
                    /\ OtherForm(f.key) = Head(toWrite) => f.index \in pending'
                    /\ batches[OtherForm(f.key)][f.index] = f.reports
      <3>1. CASE f \in files
        <4>1. CASE f.index = i /\ OtherForm(f.key) = k /\ batches[k][i] = f.reports
          BY <1>3, <1>5, <4>1 DEF Stored, AllDropped
        <4>2. CASE ~ (f.index = i /\ OtherForm(f.key) = k /\ batches[k][i] = f.reports)
          BY <1>1, <1>3, <1>4, <2>2, <3>1, <4>2 DEF CollectorInv, DebugInv, AllDropped
        <4> QED
          BY <4>1, <4>2
      <3>2. CASE f = file
        <4>1. /\ OtherForm(k) # k /\ IsDebugKey(k)
          BY <1>3, <1>5, <2>2, <3>2, OtherFormFacts
        <4>2. CASE OtherForm(k) \in Range(toWrite)
          BY <1>1, <1>3, <1>5, <3>2, <4>1, <4>2 DEF CollectorInv, DebugInv
        <4>3. CASE OtherForm(k) \notin Range(toWrite)
          <5>1. i \in ToWriteOf(batches[k])
            BY <1>3 DEF ToWriteOf
          <5> QED
            BY <1>3, <1>4, <1>5, <2>1, <3>2, <4>1, <4>3, <5>1
        <4> QED
          BY <4>2, <4>3
      <3> QED
        BY <1>3, <3>1, <3>2
    <2> QED
      BY <1>4, <2>1, <2>2 DEF DebugInv, AllDropped
  <1>12. FilesPaired'
    BY <1>4, WriteFilePairs
  <1>13. BatchesFill'
    BY <1>4, WriteFileFills
  <1>14. AcceptedIsKept'
    <2>1. ASSUME NEW line \in Line,
                 line.key # k \/ line.index # i,
                 ~ Handled(line.key, line.index),
                 line.report \in Range(batches[line.key][line.index])
          PROVE  line \in MemoryLines'
      BY <1>1, <1>4, <2>1 DEF MemoryLines, Handled
    <2> QED
      BY <1>1, <1>6, <2>1, WriteFileAccepts
  <1> QED
    BY <1>7, <1>8, <1>9, <1>10, <1>11, <1>12, <1>13, <1>14 DEF CollectorInv

\* The last list of the batch is written: the writer goes on to the next
\* batch, or has written them all.
LEMMA WrittenBatch ==
  ASSUME CollectorInv, NEW i \in Index, WriteFile(i), pending = {i},
         NEW k, k = Head(toWrite)
  PROVE  /\ batches' = [batches EXCEPT ![k] = NoBatch]
         /\ toWrite' \in Seq(BatchKey) /\ IsInjective(toWrite')
         /\ k \notin Range(toWrite')
         /\ \A b : b \in Range(toWrite) <=> (b = k \/ b \in Range(toWrite'))
         /\ \/ /\ writer' = writer /\ timestamp' = timestamp + 1
               /\ toWrite' # <<>> /\ Head(toWrite') \in Range(toWrite')
               /\ pending' = ToWriteOf(batches'[Head(toWrite')])
            \/ /\ writer' = IF writer = "flushing" THEN "done" ELSE "ready"
               /\ toWrite' = <<>> /\ pending' = {} /\ timestamp' = timestamp
  <1>1. toWrite \in Seq(BatchKey) /\ toWrite # <<>> /\ IsInjective(toWrite)
    BY FileIsStored DEF CollectorInv, WriterInv
  <1>2. AfterBatch
    BY DEF WriteFile
  <1>3. batches' = [batches EXCEPT ![k] = NoBatch]
    BY <1>2 DEF AfterBatch
  <1>4. /\ Tail(toWrite) \in Seq(BatchKey) /\ IsInjective(Tail(toWrite))
        /\ k \notin Range(Tail(toWrite))
        /\ Range(toWrite) = {k} \cup Range(Tail(toWrite))
    BY <1>1, HeadNotInTail, RangeTail
  <1>5. Len(toWrite) \in Nat /\ Len(toWrite) # 0 /\ Len(Tail(toWrite)) = Len(toWrite) - 1
    BY <1>1, HeadTailProperties
  <1>6. toWrite' = Tail(toWrite)
    <2>1. CASE Len(toWrite) > 1
      BY <1>2, <2>1 DEF AfterBatch, StartWriting
    <2>2. CASE ~ (Len(toWrite) > 1)
      <3>1. toWrite' = <<>>
        BY <1>2, <2>2 DEF AfterBatch
      <3>2. Len(Tail(toWrite)) = 0
        BY <1>5, <2>2
      <3>3. Tail(toWrite) = <<>>
        BY <1>4, <3>2, EmptySeq
      <3> QED
        BY <3>1, <3>3
    <2> QED
      BY <2>1, <2>2
  <1>7. \/ /\ writer' = writer /\ timestamp' = timestamp + 1
           /\ toWrite' # <<>> /\ Head(toWrite') \in Range(toWrite')
           /\ pending' = ToWriteOf(batches'[Head(toWrite')])
        \/ /\ writer' = IF writer = "flushing" THEN "done" ELSE "ready"
           /\ toWrite' = <<>> /\ pending' = {} /\ timestamp' = timestamp
    <2>1. CASE Len(toWrite) > 1
      <3>1. writer' = writer
        BY <1>2, <2>1 DEF AfterBatch
      <3>2. StartWriting(batches, Tail(toWrite))
        BY <1>2, <2>1 DEF AfterBatch
      <3>3. timestamp' = timestamp + 1 /\ pending' = ToWriteOf(batches[Head(toWrite')])
        BY <1>6, <3>2 DEF StartWriting
      <3>4. Len(toWrite') # 0
        BY <1>5, <1>6, <2>1
      <3>5. toWrite' # <<>>
        BY <3>4
      <3>6. Head(toWrite') \in Range(toWrite') /\ Head(toWrite') \in BatchKey
        <4>1. toWrite' \in Seq(BatchKey)
          BY <1>4, <1>6
        <4>2. Range(toWrite') = {Head(toWrite')} \cup Range(Tail(toWrite'))
          BY <3>5, <4>1, RangeTail
        <4> QED
          BY <3>5, <4>1, <4>2
      <3>7. batches'[Head(toWrite')] = batches[Head(toWrite')]
        BY <1>3, <1>4, <1>6, <3>6 DEF CollectorInv, TypeOK
      <3> QED
        BY <3>1, <3>3, <3>5, <3>6, <3>7
    <2>2. CASE ~ (Len(toWrite) > 1)
      BY <1>2, <2>2 DEF AfterBatch
    <2> QED
      BY <2>1, <2>2
  <1> QED
    BY <1>3, <1>4, <1>6, <1>7

\* A batch that is written is dropped with nothing of the other form left to
\* write, or with all of it in files of the first one's making or lost.
LEMMA WriteLastDebug ==
  ASSUME CollectorInv, NEW i \in Index, WriteFile(i), pending = {i}
  PROVE  DebugInv'
  <1>1. PICK k : k = Head(toWrite)
    OBVIOUS
  <1>2. PICK file : file = FileOf(k, i)
    OBVIOUS
  <1>3. /\ k \in BatchKey /\ k \in Range(toWrite)
        /\ i \in Indexes(k)
        /\ batches[k][i] # <<>>
        /\ files \subseteq files' /\ files' \subseteq files \cup {file}
        /\ dropped \subseteq dropped'
        /\ UNCHANGED content
    BY <1>1, <1>2, FileIsStored
  <1>4. /\ batches' = [batches EXCEPT ![k] = NoBatch]
        /\ toWrite' \in Seq(BatchKey)
        /\ k \notin Range(toWrite')
        /\ \A b : b \in Range(toWrite) <=> (b = k \/ b \in Range(toWrite'))
        /\ \/ pending' = ToWriteOf(batches'[Head(toWrite')])
           \/ toWrite' = <<>>
    BY <1>1, WrittenBatch
  <1>5. /\ batches'[k] = NoBatch
        /\ \A b \in BatchKey : b # k => batches'[b] = batches[b]
        /\ \A j \in Index : NoBatch[j] = <<>>
        /\ Range(<<>>) = {}
    BY <1>3, <1>4 DEF CollectorInv, TypeOK, NoBatch, Range
  <1>6. ASSUME NEW j \in ToWriteOf(batches[k])
        PROVE  \/ \E g \in files' : g.key = k /\ g.index = j /\ g.reports = batches[k][j]
               \/ \A r \in Range(batches[k][j]) : [key |-> k, index |-> j, report |-> r] \in dropped'
    <2>1. PICK other : other = FileOf(k, j)
      OBVIOUS
    <2>2. j \in Indexes(k) /\ j \in Index
      BY <1>3 DEF ToWriteOf, CollectorInv, BatchInv
    <2>3. Stored(other)'
      BY <1>1, <2>1, <2>2, BatchIsStored
    <2>4. other.key = k /\ other.index = j /\ other.reports = batches[k][j]
      BY <2>1 DEF FileOf
    <2> QED
      BY <2>3, <2>4 DEF Stored, AllDropped
  <1>7. ASSUME NEW b \in BatchKey, IsDebugKey(b)
        PROVE  /\ (b \in Range(toWrite') <=> OtherForm(b) \in Range(toWrite')) =>
                    batches'[b] = batches'[OtherForm(b)]
               /\ b \in Range(toWrite') /\ OtherForm(b) \notin Range(toWrite') =>
                    /\ batches'[OtherForm(b)] = NoBatch
                    /\ \A j \in ToWriteOf(batches'[b]) :
                         \/ \E g \in files' : /\ g.key = OtherForm(b) /\ g.index = j
                                              /\ g.reports = batches'[b][j]
                         \/ \A r \in Range(batches'[b][j]) :
                              [key |-> OtherForm(b), index |-> j, report |-> r] \in dropped'
    <2> DEFINE o == OtherForm(b)
    <2>1. o \in BatchKey /\ IsDebugKey(o) /\ OtherForm(o) = b /\ o # b
      BY <1>7, OtherFormFacts
    <2>2. /\ (b \in Range(toWrite) <=> o \in Range(toWrite)) => batches[b] = batches[o]
          /\ b \in Range(toWrite) /\ o \notin Range(toWrite) =>
               /\ batches[o] = NoBatch
               /\ \A j \in ToWriteOf(batches[b]) :
                    \/ \E g \in files : g.key = o /\ g.index = j /\ g.reports = batches[b][j]
                    \/ \A r \in Range(batches[b][j]) : [key |-> o, index |-> j, report |-> r] \in dropped
      BY <1>7 DEF CollectorInv, DebugInv, AllDropped
    <2>3. o \in Range(toWrite) /\ b \notin Range(toWrite) => batches[b] = NoBatch
      BY <2>1 DEF CollectorInv, DebugInv
    <2> HIDE DEF o
    <2>4. CASE b = k
      BY <1>3, <1>4, <1>5, <2>1, <2>2, <2>4 DEF o
    <2>5. CASE o = k
      <3>1. CASE b \in Range(toWrite')
        <4>1. batches'[b] = batches[b] /\ batches[b] = batches[k]
          BY <1>3, <1>4, <1>5, <2>1, <2>2, <2>5, <3>1
        <4> QED
          BY <1>4, <1>5, <1>6, <2>5, <3>1, <4>1 DEF o
      <3>2. CASE b \notin Range(toWrite')
        BY <1>3, <1>4, <1>5, <2>1, <2>3, <2>5, <3>2 DEF o
      <3> QED
        BY <3>1, <3>2
    <2>6. CASE b # k /\ o # k
      <3>1. batches'[b] = batches[b] /\ batches'[o] = batches[o]
        BY <1>5, <2>1, <2>6
      <3>2. /\ b \in Range(toWrite') <=> b \in Range(toWrite)
            /\ o \in Range(toWrite') <=> o \in Range(toWrite)
        BY <1>4, <2>6
      <3> QED
        BY <1>3, <2>2, <3>1, <3>2 DEF o
    <2> QED
      BY <2>4, <2>5, <2>6
  <1>8. ASSUME NEW b \in Range(toWrite'), b \in BatchKey, NEW j \in Index, batches[b][j] # <<>>
        PROVE  b = Head(toWrite') => j \in pending'
    <2>1. b # k /\ toWrite' # <<>>
      BY <1>4, <1>5, <1>8
    <2> QED
      BY <1>4, <1>5, <1>8, <2>1 DEF ToWriteOf
  <1>9. ASSUME NEW f \in files', IsDebugKey(f.key)
        PROVE  \/ \E g \in files' : /\ g.key = OtherForm(f.key) /\ g.index = f.index
                                    /\ g.reports = f.reports
               \/ \A r \in Range(f.reports) :
                    [key |-> OtherForm(f.key), index |-> f.index, report |-> r] \in dropped'
               \/ /\ OtherForm(f.key) \in Range(toWrite')
                  /\ OtherForm(f.key) = Head(toWrite') => f.index \in pending'
                  /\ batches'[OtherForm(f.key)][f.index] = f.reports
    <2> DEFINE o == OtherForm(f.key)
    <2>1. CASE f \in files
      <3>1. /\ f.key \in BatchKey /\ f.index \in Index /\ f.reports # <<>>
        BY <2>1 DEF CollectorInv, TypeOK
      <3>2. o \in BatchKey
        BY <1>9, <3>1, OtherFormFacts
      <3> HIDE DEF o
      <3>3. \/ \E g \in files : g.key = o /\ g.index = f.index /\ g.reports = f.reports
            \/ \A r \in Range(f.reports) : [key |-> o, index |-> f.index, report |-> r] \in dropped
            \/ /\ o \in Range(toWrite) /\ (o = k => f.index = i)
               /\ batches[o][f.index] = f.reports
        BY <1>1, <1>9, <2>1 DEF CollectorInv, DebugInv, AllDropped, o
      <3>4. CASE /\ o \in Range(toWrite) /\ (o = k => f.index = i)
                 /\ batches[o][f.index] = f.reports
        <4>1. CASE o = k
          <5>1. f.index \in ToWriteOf(batches[k])
            BY <3>1, <3>4, <4>1 DEF ToWriteOf
          <5> QED
            BY <1>6, <3>4, <4>1, <5>1 DEF o
        <4>2. CASE o # k
          <5>1. o \in Range(toWrite') /\ batches'[o] = batches[o]
            BY <1>4, <1>5, <3>2, <3>4, <4>2
          <5> QED
            BY <1>8, <3>1, <3>2, <3>4, <5>1 DEF o
        <4> QED
          BY <4>1, <4>2
      <3> QED
        BY <1>3, <3>3, <3>4 DEF o
    <2>2. CASE f = file
      <3>1. f.key = k /\ f.index = i /\ f.reports = batches[k][i] /\ i \in Index
        BY <1>2, <2>2 DEF FileOf
      <3>2. o \in BatchKey /\ o # k /\ IsDebugKey(k) /\ o = OtherForm(k)
        BY <1>3, <1>9, <3>1, OtherFormFacts
      <3>3. CASE o \in Range(toWrite)
        <4>1. o \in Range(toWrite') /\ batches'[o] = batches[o] /\ batches[k] = batches[o]
          BY <1>3, <1>4, <1>5, <3>2, <3>3 DEF CollectorInv, DebugInv
        <4>2. o = Head(toWrite') => i \in pending'
          BY <1>3, <1>8, <3>1, <3>2, <4>1
        <4> QED
          BY <3>1, <3>2, <4>1, <4>2
      <3>4. CASE o \notin Range(toWrite)
        <4>1. i \in ToWriteOf(batches[k])
          BY <1>3, <3>1 DEF ToWriteOf
        <4>2. \/ \E g \in files : g.key = o /\ g.index = i /\ g.reports = batches[k][i]
              \/ \A r \in Range(batches[k][i]) : [key |-> o, index |-> i, report |-> r] \in dropped
          BY <1>3, <3>2, <3>4, <4>1 DEF CollectorInv, DebugInv, AllDropped
        <4> QED
          BY <1>3, <3>1, <4>2
      <3> QED
        BY <3>3, <3>4
    <2> QED
      BY <1>3, <2>1, <2>2
  <1> QED
    BY <1>7, <1>9 DEF DebugInv, AllDropped

\* The last list of the batch is written, and the batch is reset.
LEMMA WriteLastKeeps ==
  ASSUME CollectorInv, NEW i \in Index, WriteFile(i), pending = {i}
  PROVE  CollectorInv'
  <1>1. PICK k : k = Head(toWrite)
    OBVIOUS
  <1>2. PICK file : file = FileOf(k, i)
    OBVIOUS
  <1>3. /\ Up /\ writer \in {"writing", "flushing"}
        /\ toWrite \in Seq(BatchKey) /\ toWrite # <<>>
        /\ k \in BatchKey /\ k \in Range(toWrite)
        /\ i \in Indexes(k)
        /\ batches[k][i] \in Seq(Report) /\ batches[k][i] # <<>>
        /\ \A r \in Range(batches[k][i]) : r \in Report /\ k \in Keys(r)
        /\ UNCHANGED <<content, faults, main, restarts, answer, sending, reportsCh>>
        /\ files \subseteq files' /\ files' \subseteq files \cup {file}
        /\ dropped \subseteq dropped' /\ dropped' \subseteq Line
        /\ \A line \in dropped' : line \in LinesOf(line.report)
        /\ Stored(file)'
    BY <1>1, <1>2, FileIsStored
  <1>4. /\ batches' = [batches EXCEPT ![k] = NoBatch]
        /\ toWrite' \in Seq(BatchKey) /\ IsInjective(toWrite')
        /\ k \notin Range(toWrite')
        /\ \A b : b \in Range(toWrite) <=> (b = k \/ b \in Range(toWrite'))
    BY <1>1, WrittenBatch
  <1> DEFINE Continue == /\ writer' = writer /\ timestamp' = timestamp + 1
                         /\ toWrite' # <<>> /\ Head(toWrite') \in Range(toWrite')
                         /\ pending' = ToWriteOf(batches'[Head(toWrite')])
             Finish == /\ writer' = IF writer = "flushing" THEN "done" ELSE "ready"
                       /\ toWrite' = <<>> /\ pending' = {} /\ timestamp' = timestamp
  <1>5. Continue \/ Finish
    BY <1>1, WrittenBatch
  <1>6. /\ file.key = k /\ file.index = i /\ file.reports = batches[k][i]
        /\ file.timestamp = timestamp
    BY <1>2 DEF FileOf
  <1>7. /\ Up' /\ timestamp \in Nat /\ Range(<<>>) = {}
        /\ \A x : Keys(x)' = Keys(x) /\ LinesOf(x)' = LinesOf(x)
    BY <1>3 DEF Up, Keys, LinesOf, CollectorInv, TypeOK, Range
  <1>8. /\ batches \in [BatchKey -> [Index -> Seq(Report)]]
        /\ batches' \in [BatchKey -> [Index -> Seq(Report)]]
        /\ batches'[k] = NoBatch
        /\ \A b \in BatchKey : b # k => batches'[b] = batches[b]
        /\ \A j \in Index : NoBatch[j] = <<>>
    <2>1. NoBatch \in [Index -> Seq(Report)] /\ \A j \in Index : NoBatch[j] = <<>>
      BY DEF NoBatch
    <2> QED
      BY <1>3, <1>4, <2>1 DEF CollectorInv, TypeOK
  <1>9. toWrite' # <<>> /\ Head(toWrite') \in Range(toWrite') <=> Continue
    BY <1>5
  <1>10. Range(toWrite') \subseteq BatchKey
    BY <1>4 DEF Range
  <1>11. TypeOK'
    <2>1. file \in [key : BatchKey, index : Index, timestamp : Nat,
                    reports : Seq(Report) \ {<<>>}]
      BY <1>2, <1>3 DEF CollectorInv, TypeOK, FileOf
    <2>2. pending' \subseteq Index /\ timestamp' \in Nat /\ writer' \in WriterState
      BY <1>3, <1>5, <1>7 DEF ToWriteOf, WriterState
    <2>3. toWrite' # <<>> <=> writer' \in {"writing", "flushing"}
      BY <1>3, <1>5
    <2> QED
      BY <1>3, <1>4, <1>7, <1>8, <2>1, <2>2, <2>3 DEF CollectorInv, TypeOK
  <1>12. WriterInv'
    <2>1. \A b \in Range(toWrite') : ToWriteOf(batches'[b]) # {}
      <3>1. \A b \in Range(toWrite) : ToWriteOf(batches[b]) # {}
        BY <1>3 DEF CollectorInv, WriterInv, Range
      <3> QED
        BY <1>4, <1>8, <1>10, <3>1
    <2>2. \A n \in DOMAIN toWrite' : toWrite'[n] \in Range(toWrite')
      BY DEF Range
    <2>3. writer = "flushing" =>
            /\ main = "flushing" /\ reportsCh = <<>>
            /\ \A b \in BatchKey : b \notin Range(toWrite') => batches'[b] = NoBatch
      BY <1>3, <1>4, <1>8 DEF CollectorInv, WriterInv
    <2>4. writer' \in {"flushing", "done"} => writer = "flushing"
      BY <1>3, <1>5
    <2>5. writer' = "done" => batches' = NoBatches
      <3>1. writer' = "done" => \A b \in BatchKey : batches'[b] = NoBatch
        BY <1>3, <1>5, <1>7, <2>3, <2>4
      <3> QED
        BY <1>8, <3>1 DEF NoBatches
    <2>6. toWrite' = <<>> => pending' = {}
      BY <1>5
    <2>7. toWrite' # <<>> => pending' # {} /\ pending' \subseteq ToWriteOf(batches'[Head(toWrite')])
      BY <1>5, <2>1
    <2> QED
      BY <1>3, <1>4, <1>7, <2>1, <2>2, <2>3, <2>4, <2>5, <2>6, <2>7 DEF WriterInv
  <1>13. BatchInv'
    <2>1. ASSUME NEW b \in BatchKey, NEW j \in Index
          PROVE  /\ batches'[b][j] = IF j \in Indexes(b) THEN batches'[b][0] ELSE <<>>
                 /\ \A r \in Range(batches'[b][j]) : b \in Keys(r)
      <3>1. CASE b = k
        BY <1>7, <1>8, <3>1 DEF Index
      <3>2. CASE b # k
        BY <1>8, <3>2 DEF CollectorInv, BatchInv
      <3> QED
        BY <3>1, <3>2
    <2>2. ASSUME NEW b \in BatchKey
          PROVE  /\ Len(batches'[b][0]) <= BatchSize
                 /\ writer' # "writing" => Len(batches'[b][0]) < BatchSize
                 /\ writer' = "writing" =>
                      IF b \in Range(toWrite') THEN Len(batches'[b][0]) = BatchSize
                                               ELSE Len(batches'[b][0]) < BatchSize
      <3>1. BatchSize \in Nat /\ BatchSize > 0 /\ Len(<<>>) = 0
        BY CollectorAssumption
      <3>2. CASE b = k
        BY <1>4, <1>8, <3>1, <3>2 DEF Index
      <3>3. CASE b # k
        <4>1. batches'[b] = batches[b]
          BY <1>8, <3>3
        <4>2. Len(batches[b][0]) <= BatchSize
          BY DEF CollectorInv, BatchInv
        <4>3. writer = "flushing" => Len(batches[b][0]) < BatchSize
          BY DEF CollectorInv, BatchInv
        <4>4. writer = "writing" =>
                IF b \in Range(toWrite') THEN Len(batches[b][0]) = BatchSize
                                         ELSE Len(batches[b][0]) < BatchSize
          BY <1>3, <1>4, <3>3 DEF CollectorInv, BatchInv
        <4>5. writer' = writer \/ Range(toWrite') = {}
          BY <1>5, <1>7
        <4> QED
          BY <1>3, <4>1, <4>2, <4>3, <4>4, <4>5
      <3> QED
        BY <3>2, <3>3
    <2> QED
      BY <1>7, <2>1, <2>2 DEF BatchInv
  <1>14. FilesInv'
    <2>1. ASSUME NEW f \in files'
          PROVE  /\ f.index \in Indexes(f.key)
                 /\ \A r \in Range(f.reports) : f.key \in Keys(r)
                 /\ f.timestamp <= timestamp'
                 /\ Len(f.reports) <= BatchSize
                 /\ ~ (f.timestamp = timestamp' /\ toWrite' # <<>>)
      <3>1. /\ f.index \in Indexes(f.key)
            /\ \A r \in Range(f.reports) : f.key \in Keys(r)
            /\ f.timestamp <= timestamp
            /\ f.timestamp \in Nat
            /\ Len(f.reports) <= BatchSize
        <4>1. CASE f \in files
          BY <4>1 DEF CollectorInv, FilesInv, TypeOK
        <4>2. CASE f = file
          <5>1. Len(batches[k][i]) <= BatchSize
            BY <1>3 DEF CollectorInv, BatchesFill
          <5> QED
            BY <1>3, <1>6, <1>7, <4>2, <5>1
        <4> QED
          BY <1>3, <4>1, <4>2
      <3> QED
        BY <1>5, <1>7, <3>1
    <2>2. toWrite' # <<>> => ToWriteOf(batches'[Head(toWrite')]) \ pending' = {}
      BY <1>5
    <2> QED
      BY <1>3, <1>7, <2>1, <2>2 DEF FilesInv
  <1>15. FilesPaired'
    BY WriteFilePairs
  <1>16. BatchesFill'
    BY <1>1, <1>4, WriteFileFills
  <1>17. AcceptedIsKept'
    <2>1. ASSUME NEW line \in Line,
                 line.key # k \/ line.index # i,
                 ~ Handled(line.key, line.index),
                 line.report \in Range(batches[line.key][line.index])
          PROVE  line \in MemoryLines'
      <3>1. line.key \in BatchKey /\ line.index \in Index
        BY DEF Line
      <3>2. line.key # k
        BY <1>1, <1>3, <2>1 DEF Handled
      <3>3. batches'[line.key] = batches[line.key]
        BY <1>8, <3>1, <3>2
      <3>4. batches'[line.key][line.index] # <<>>
        BY <1>7, <2>1, <3>3
      <3>5. ~ Handled(line.key, line.index)'
        BY <1>5, <3>1, <3>4 DEF Handled, ToWriteOf
      <3> QED
        BY <2>1, <3>3, <3>5 DEF MemoryLines
    <2> QED
      BY <1>1, <1>7, <2>1, WriteFileAccepts
  <1> QED
    BY <1>11, <1>12, <1>13, <1>14, <1>15, <1>16, <1>17, WriteLastDebug DEF CollectorInv

\* The two cases of a file that is written.
LEMMA WriteFileKeeps ==
  ASSUME CollectorInv, NEW i \in Index, WriteFile(i)
  PROVE  CollectorInv'
  BY WriteFirstKeeps, WriteLastKeeps
-----------------------------------------------------------------------------
(* The writer flushes. *)

\* There are finitely many batch keys to go through in the flush.
LEMMA BatchKeyFinite == IsFiniteSet(BatchKey)
  <1>1. IsFiniteSet(Protocol)
    <2>1. Protocol = {} \cup {"one-party"} \cup {"mpc"}
      BY DEF Protocol
    <2> QED
      BY <2>1, FS_EmptySet, FS_AddElement
  <1>2. IsFiniteSet(Form)
    <2>1. Form = {} \cup {"encrypted"} \cup {"debug-encrypted"} \cup {"debug-cleartext"}
      BY DEF Form
    <2> QED
      BY <2>1, FS_EmptySet, FS_AddElement
  <1> QED
    BY <1>1, <1>2, FS_Product DEF BatchKey

\* What is in memory at the flush is all in the batches it will write.
LEMMA FlushKeeps ==
  ASSUME CollectorInv, Flush
  PROVE  CollectorInv'
  <1>1. /\ writer = "ready" /\ main \in {"flushing", "exited"} /\ reportsCh = <<>>
        /\ UNCHANGED <<content, faults, main, restarts, answer, sending, reportsCh, batches,
                       files, dropped>>
    BY DEF Flush, ChannelClosed, given
  <1>2. toWrite = <<>> /\ pending = {} /\ Range(<<>>) = {}
    BY <1>1 DEF CollectorInv, TypeOK, WriterInv, Range
  <1> DEFINE keys == {k \in BatchKey : ToWriteOf(batches[k]) # {}}
  <1>3. /\ Up' <=> Up
        /\ timestamp \in Nat
        /\ \A x : Keys(x)' = Keys(x) /\ LinesOf(x)' = LinesOf(x)
    BY <1>1 DEF Up, Keys, LinesOf, CollectorInv, TypeOK
  <1>4. CASE keys = {}
    <2>1. writer' = "done" /\ UNCHANGED <<toWrite, pending, timestamp>>
      BY <1>4 DEF Flush
    <2>2. batches = NoBatches
      <3>1. \A k \in BatchKey, i \in Index : batches[k][i] = <<>>
        BY <1>4 DEF ToWriteOf
      <3>2. batches = [k \in BatchKey |-> [i \in Index |-> batches[k][i]]]
        BY DEF CollectorInv, TypeOK
      <3>3. \A k \in BatchKey : batches[k] = NoBatch
        BY <3>1, <3>2 DEF NoBatch
      <3> QED
        BY <3>2, <3>3 DEF NoBatches
    <2>3. TypeOK'
      BY <1>1, <1>2, <1>3, <2>1 DEF CollectorInv, TypeOK, WriterState
    <2>4. WriterInv'
      BY <1>1, <1>2, <1>3, <2>1, <2>2 DEF CollectorInv, WriterInv, Up
    <2>5. BatchInv' /\ FilesInv' /\ DebugInv' /\ FilesPaired' /\ BatchesFill'
      BY <1>1, <1>2, <1>3, <2>1 DEF CollectorInv, BatchInv, FilesInv, DebugInv, FilesPaired,
         BatchesFill, AllDropped, Written
    <2>6. Kept' = Kept
      BY <1>1, <1>2, <1>3, <2>1 DEF Kept, FileLines, MemoryLines, Handled
    <2>7. AcceptedIsKept'
      BY <1>1, <2>6, AcceptedStays DEF CollectorInv
    <2> QED
      BY <2>3, <2>4, <2>5, <2>7 DEF CollectorInv
  <1>5. CASE keys # {}
    <2>1. PICK order \in SetToSeqs(keys) : writer' = "flushing" /\ StartWriting(batches, order)
      BY <1>5 DEF Flush
    <2>2. IsFiniteSet(keys)
      BY BatchKeyFinite, FS_Subset
    <2>3. order \in Seq(keys) /\ order # <<>> /\ IsInjective(order) /\ Range(order) = keys
      BY <1>5, <2>2, OrderOfSet
    <2>4. /\ toWrite' = order /\ pending' = ToWriteOf(batches[Head(order)])
          /\ timestamp' = timestamp + 1 /\ writer' = "flushing"
      BY <2>1 DEF StartWriting
    <2>5. order \in Seq(BatchKey) /\ Head(order) \in keys
      BY <2>3
    <2>6. Up /\ Up' /\ main = "flushing"
      <3>1. \A k \in BatchKey : ToWriteOf(NoBatches[k]) = {}
        BY DEF NoBatches, NoBatch, ToWriteOf
      <3>2. Up
        BY <1>5, <3>1 DEF CollectorInv, WriterInv
      <3> QED
        BY <1>1, <1>3, <3>2 DEF Up
    <2>7. TypeOK'
      <3>1. pending' \subseteq Index
        BY <2>4 DEF ToWriteOf
      <3> QED
        BY <1>1, <1>3, <2>3, <2>4, <2>5, <2>6, <3>1 DEF CollectorInv, TypeOK, WriterState
    <2>8. WriterInv'
      <3>1. \A n \in DOMAIN order : order[n] \in keys
        BY <2>3 DEF Range
      <3>2. \A k \in BatchKey : k \notin keys => batches[k] = NoBatch
        <4>1. \A k \in BatchKey : k \notin keys => \A i \in Index : batches[k][i] = <<>>
          BY DEF ToWriteOf
        <4>2. \A k \in BatchKey : batches[k] = [i \in Index |-> batches[k][i]]
          BY DEF CollectorInv, TypeOK
        <4> QED
          BY <4>1, <4>2 DEF NoBatch
      <3> QED
        BY <1>1, <2>3, <2>4, <2>5, <2>6, <3>1, <3>2 DEF WriterInv
    <2>9. BatchInv'
      BY <1>1, <1>3, <2>4 DEF CollectorInv, BatchInv
    <2>10. FilesInv'
      <3>1. \A f \in files : f.timestamp \in Nat /\ f.timestamp <= timestamp
        BY DEF CollectorInv, FilesInv, TypeOK
      <3>2. \A f \in files : f.timestamp <= timestamp' /\ f.timestamp # timestamp'
        BY <1>3, <2>4, <3>1
      <3>3. ToWriteOf(batches[Head(order)]) \ pending' = {}
        BY <2>4
      <3> QED
        BY <1>1, <1>3, <2>4, <3>2, <3>3 DEF CollectorInv, FilesInv
    <2>11. DebugInv'
      <3>1. ASSUME NEW k \in BatchKey, IsDebugKey(k)
            PROVE  /\ batches[k] = batches[OtherForm(k)]
                   /\ k \in Range(order) <=> OtherForm(k) \in Range(order)
        <4>1. batches[k] = batches[OtherForm(k)]
          BY <1>2, <3>1 DEF CollectorInv, DebugInv
        <4>2. OtherForm(k) \in BatchKey
          BY <3>1, OtherFormFacts
        <4> QED
          BY <2>3, <4>1, <4>2
      <3>2. ASSUME NEW f \in files, IsDebugKey(f.key)
            PROVE  \/ \E g \in files : /\ g.key = OtherForm(f.key) /\ g.index = f.index
                                       /\ g.reports = f.reports
                   \/ AllDropped(OtherForm(f.key), f.index, f.reports)
        BY <1>2, <3>2 DEF CollectorInv, DebugInv
      <3> QED
        BY <1>1, <2>4, <3>1, <3>2 DEF DebugInv, AllDropped
    <2>12. FilesPaired' /\ BatchesFill'
      BY <1>1, <1>2 DEF CollectorInv, FilesPaired, BatchesFill, Capacity
    <2>13. AcceptedIsKept'
      <3>1. \A k \in BatchKey, i \in Index : Handled(k, i)' => batches[k][i] = <<>>
        BY <2>4 DEF Handled, ToWriteOf
      <3>2. MemoryLines \subseteq MemoryLines'
        <4>1. ASSUME NEW line \in Line, line.report \in Range(batches[line.key][line.index])
              PROVE  ~ Handled(line.key, line.index)'
          BY <1>2, <3>1, <4>1 DEF Line
        <4> QED
          BY <1>1, <1>3, <4>1 DEF MemoryLines
      <3>3. Kept \subseteq Kept'
        BY <1>1, <2>6, <3>2 DEF Kept, FileLines
      <3> QED
        BY <1>1, <3>3, AcceptedStays DEF CollectorInv
    <2> QED
      BY <2>7, <2>8, <2>9, <2>10, <2>11, <2>12, <2>13 DEF CollectorInv
  <1> QED
    BY <1>4, <1>5
-----------------------------------------------------------------------------
(* The process. *)

\* The signal and the close of the channel leave the writer alone.
LEMMA ShutdownStartsKeeps ==
  ASSUME CollectorInv, Signal \/ CloseChannel
  PROVE  CollectorInv'
  <1>1. /\ main \in {"serving", "closing"} /\ main' \in {"closing", "flushing"}
        /\ main = "closing" => main' = "flushing"
        /\ UNCHANGED <<given, restarts, answer, sending, writerVars>>
    BY DEF Signal, CloseChannel
  <1> USE DEF given, writerVars
  <1>2. Up /\ Up'
    BY <1>1 DEF Up
  <1>3. writer \notin {"flushing", "done"}
    BY <1>1, <1>2 DEF CollectorInv, WriterInv
  <1>4. TypeOK'
    BY <1>1, <1>2 DEF CollectorInv, TypeOK
  <1>5. WriterInv'
    BY <1>1, <1>2, <1>3 DEF CollectorInv, WriterInv
  <1>6. BatchInv' /\ FilesInv' /\ DebugInv' /\ FilesPaired' /\ BatchesFill'
    BY <1>1, <1>2 DEF CollectorInv, BatchInv, FilesInv, DebugInv, FilesPaired, BatchesFill,
       Capacity, Keys, Written, AllDropped, LinesOf
  <1>7. Kept' = Kept
    BY <1>1, <1>2 DEF Kept, FileLines, MemoryLines, LinesOf, Handled
  <1>8. AcceptedIsKept'
    BY <1>1, <1>7, AcceptedStays DEF CollectorInv
  <1> QED
    BY <1>4, <1>5, <1>6, <1>8 DEF CollectorInv

\* Nothing is in memory when the writer is done, or the process has ended.
LEMMA NothingInMemory ==
  ASSUME reportsCh = <<>>, batches = NoBatches
  PROVE  MemoryLines = {}
  <1>1. Range(<<>>) = {}
    BY DEF Range
  <1>2. \A line \in Line : batches[line.key][line.index] = <<>>
    BY DEF Line, NoBatches, NoBatch
  <1> QED
    BY <1>1, <1>2 DEF MemoryLines

\* A process that ends gives no client an answer of 200.
LEMMA EndedAnswers ==
  ASSUME CollectorInv,
         answer' = [q \in Request |-> IF q \in sending THEN Reply(q, "lost")[q] ELSE answer[q]]
  PROVE  /\ answer' \in [Request -> Answer]
         /\ \A q \in Request : answer'[q] = "200" => answer[q] = "200"
  BY DEF CollectorInv, TypeOK, Reply, Answer

\* The process exits only when the writer has nothing left in memory.
LEMMA ExitKeeps ==
  ASSUME CollectorInv, Exit
  PROVE  CollectorInv'
  <1>1. /\ main = "flushing" /\ writer = "done" /\ main' = "exited" /\ sending' = {}
        /\ answer' = [q \in Request |-> IF q \in sending THEN Reply(q, "lost")[q] ELSE answer[q]]
        /\ UNCHANGED <<content, faults, restarts, reportsCh, writer, batches, toWrite, pending,
                       timestamp, files, dropped>>
    BY DEF Exit, given, writerVars
  <1>2. Up /\ ~ Up' /\ reportsCh = <<>> /\ batches = NoBatches /\ toWrite = <<>>
    BY <1>1 DEF Up, CollectorInv, TypeOK, WriterInv
  <1>3. answer' \in [Request -> Answer] /\ \A q \in Request : answer'[q] = "200" => answer[q] = "200"
    BY <1>1, EndedAnswers
  <1>4. TypeOK'
    BY <1>1, <1>2, <1>3 DEF CollectorInv, TypeOK
  <1>5. WriterInv'
    BY <1>1, <1>2 DEF CollectorInv, WriterInv
  <1>6. BatchInv' /\ FilesInv' /\ DebugInv' /\ FilesPaired' /\ BatchesFill'
    BY <1>1, <1>2 DEF CollectorInv, BatchInv, FilesInv, DebugInv, FilesPaired, BatchesFill,
       Capacity, Keys, Written, AllDropped, LinesOf
  <1>7. Kept \subseteq Kept'
    BY <1>1, <1>2, NothingInMemory DEF Kept, FileLines
  <1>8. AcceptedIsKept'
    BY <1>1, <1>3, <1>7, AcceptedStays DEF CollectorInv
  <1> QED
    BY <1>4, <1>5, <1>6, <1>8 DEF CollectorInv

\* A crash loses what is in memory, and nothing else.
LEMMA CrashKeeps ==
  ASSUME CollectorInv, Crash
  PROVE  CollectorInv'
  <1>1. /\ Up /\ main' = "crashed" /\ sending' = {}
        /\ dropped' = dropped \cup MemoryLines
        /\ reportsCh' = <<>> /\ batches' = NoBatches /\ toWrite' = <<>> /\ pending' = {}
        /\ answer' = [q \in Request |-> IF q \in sending THEN Reply(q, "lost")[q] ELSE answer[q]]
        /\ UNCHANGED <<content, faults, restarts, writer, timestamp, files>>
    BY DEF Crash, given
  <1>2. ~ Up' /\ \A x : Keys(x)' = Keys(x) /\ LinesOf(x)' = LinesOf(x)
    BY <1>1 DEF Up, Keys, LinesOf
  <1>3. /\ \A k \in BatchKey : batches'[k] = NoBatch
        /\ \A i \in Index : NoBatch[i] = <<>>
        /\ Range(<<>>) = {} /\ Len(<<>>) = 0
        /\ NoBatch \in [Index -> Seq(Report)]
        /\ batches' \in [BatchKey -> [Index -> Seq(Report)]]
    BY <1>1 DEF NoBatches, NoBatch, Range
  <1>4. answer' \in [Request -> Answer] /\ \A q \in Request : answer'[q] = "200" => answer[q] = "200"
    BY <1>1, EndedAnswers
  <1>5. ASSUME NEW line \in MemoryLines PROVE line \in Line /\ line \in LinesOf(line.report)
    <2>1. CASE \E r \in Range(reportsCh) : line \in LinesOf(r)
      BY <2>1 DEF LinesOf
    <2>2. CASE line \in Line /\ line.report \in Range(batches[line.key][line.index])
      <3>1. /\ line.key \in BatchKey /\ line.index \in Index /\ line.report \in Report
        BY <2>2 DEF Line
      <3>2. line.key \in Keys(line.report)
        BY <2>2, <3>1 DEF CollectorInv, BatchInv
      <3>3. line.index \in Indexes(line.key)
        BY <1>3, <2>2, <3>1 DEF CollectorInv, BatchInv
      <3> QED
        BY <2>2, <3>1, <3>2, <3>3, LinesOfReport
    <2> QED
      BY <1>5, <2>1, <2>2 DEF MemoryLines
  <1>6. TypeOK'
    BY <1>1, <1>2, <1>3, <1>4, <1>5 DEF CollectorInv, TypeOK
  <1>7. WriterInv'
    BY <1>1, <1>2, <1>3 DEF WriterInv, IsInjective
  <1>8. BatchInv'
    <2>1. BatchSize \in Nat \ {0}
      BY CollectorAssumption
    <2>2. \A k \in BatchKey : Len(batches'[k][0]) < BatchSize /\ Len(batches'[k][0]) <= BatchSize
      BY <1>3, <2>1 DEF Index
    <2>3. \A k \in BatchKey, i \in Index :
            /\ batches'[k][i] = IF i \in Indexes(k) THEN batches'[k][0] ELSE <<>>
            /\ Range(batches'[k][i]) = {}
      BY <1>3 DEF Index
    <2> QED
      BY <1>2, <2>2, <2>3 DEF BatchInv
  <1>9. FilesInv'
    BY <1>1, <1>2, <1>5 DEF CollectorInv, FilesInv
  <1>10. \A k \in BatchKey, i \in Index :
           ~ Handled(k, i) =>
             \A r \in Range(batches[k][i]) : [key |-> k, index |-> i, report |-> r] \in dropped'
    <2> SUFFICES ASSUME NEW k \in BatchKey, NEW i \in Index, ~ Handled(k, i),
                        NEW r \in Range(batches[k][i])
                 PROVE  [key |-> k, index |-> i, report |-> r] \in dropped'
      OBVIOUS
    <2>1. batches[k][i] \in Seq(Report)
      BY DEF CollectorInv, TypeOK
    <2>2. r \in Report
      BY <2>1 DEF Range
    <2>3. [key |-> k, index |-> i, report |-> r] \in Line
      BY <2>2 DEF Line
    <2>4. PICK line \in Line : line = [key |-> k, index |-> i, report |-> r]
      BY <2>3
    <2> QED
      BY <1>1, <2>4 DEF MemoryLines
  <1>11. DebugInv'
    <2>1. ASSUME NEW f \in files, IsDebugKey(f.key)
          PROVE  \/ \E g \in files : /\ g.key = OtherForm(f.key) /\ g.index = f.index
                                     /\ g.reports = f.reports
                 \/ \A r \in Range(f.reports) :
                      [key |-> OtherForm(f.key), index |-> f.index, report |-> r] \in dropped'
      <3>1. f.key \in BatchKey /\ f.index \in Index
        BY DEF CollectorInv, TypeOK
      <3>2. OtherForm(f.key) \in BatchKey
        BY <2>1, <3>1, OtherFormFacts
      <3>3. CASE /\ OtherForm(f.key) = Head(toWrite) => f.index \in pending
                 /\ batches[OtherForm(f.key)][f.index] = f.reports
        BY <1>10, <3>1, <3>2, <3>3 DEF Handled
      <3> QED
        BY <1>1, <2>1, <3>3 DEF CollectorInv, DebugInv, AllDropped
    <2>2. \A k \in BatchKey : IsDebugKey(k) => OtherForm(k) \in BatchKey
      BY OtherFormFacts
    <2> QED
      BY <1>1, <1>3, <2>1, <2>2 DEF DebugInv, AllDropped
  <1>12. FilesPaired'
    <2>1. ASSUME NEW f \in files, NEW j \in Indexes(f.key), f.timestamp = timestamp, j \in pending
          PROVE  \A r \in Range(f.reports) : [key |-> f.key, index |-> j, report |-> r] \in dropped'
      <3>1. toWrite # <<>>
        BY <2>1 DEF CollectorInv, WriterInv
      <3>2. /\ f.key \in BatchKey /\ f.index \in Indexes(f.key)
            /\ f.reports = batches[f.key][f.index]
        BY <2>1, <3>1 DEF CollectorInv, TypeOK, FilesInv
      <3>3. j \in Index /\ f.reports = batches[f.key][j]
        BY <3>2, IndexFacts DEF CollectorInv, BatchInv
      <3> QED
        BY <1>10, <2>1, <3>2, <3>3 DEF Handled
    <2> QED
      BY <1>1, <2>1 DEF CollectorInv, FilesPaired
  <1>13. BatchesFill'
    <2>1. \A k \in BatchKey, i \in Index : Len(batches'[k][i]) <= BatchSize
      BY <1>3, CollectorAssumption
    <2>2. Len(reportsCh') <= IF Capacity = 0 THEN 1 ELSE Capacity
      BY <1>1, <1>3, CapacityType
    <2> QED
      BY <1>1, <2>1, <2>2 DEF CollectorInv, BatchesFill, Capacity
  <1>14. Kept \subseteq Kept'
    BY <1>1 DEF Kept, FileLines
  <1>15. AcceptedIsKept'
    BY <1>1, <1>4, <1>14, AcceptedStays DEF CollectorInv
  <1> QED
    BY <1>6, <1>7, <1>8, <1>9, <1>11, <1>12, <1>13, <1>15 DEF CollectorInv

\* The next instance starts with empty batches.
LEMMA RestartKeeps ==
  ASSUME CollectorInv, Restart
  PROVE  CollectorInv'
  <1>1. /\ main \in {"exited", "crashed"} /\ main' = "serving" /\ writer' = "ready"
        /\ restarts < MaxRestarts /\ restarts' = restarts + 1
        /\ UNCHANGED <<content, faults, answer, sending, reportsCh, batches, toWrite, pending,
                       timestamp, files, dropped>>
    BY DEF Restart, given
  <1>2. /\ ~ Up /\ Up' /\ reportsCh = <<>> /\ batches = NoBatches /\ toWrite = <<>>
        /\ restarts' \in 0 .. MaxRestarts /\ restarts' # 0
    BY <1>1, CollectorAssumption DEF Up, CollectorInv, TypeOK, WriterInv
  <1>3. TypeOK'
    BY <1>1, <1>2 DEF CollectorInv, TypeOK, WriterState
  <1>4. WriterInv'
    BY <1>1, <1>2 DEF CollectorInv, WriterInv
  <1>5. BatchInv' /\ FilesInv' /\ DebugInv' /\ FilesPaired' /\ BatchesFill'
    BY <1>1, <1>2 DEF CollectorInv, BatchInv, FilesInv, DebugInv, FilesPaired, BatchesFill,
       Capacity, Keys, Written, AllDropped, LinesOf
  <1>6. Kept \subseteq Kept'
    BY <1>1, <1>2 DEF Kept, FileLines
  <1>7. AcceptedIsKept'
    BY <1>1, <1>6, AcceptedStays DEF CollectorInv
  <1> QED
    BY <1>3, <1>4, <1>5, <1>7 DEF CollectorInv
-----------------------------------------------------------------------------
(* The invariant. *)

\* The invariant holds of a collector that has just started.
LEMMA CollectorInitially == Init => CollectorInv
  <1> SUFFICES ASSUME Init PROVE CollectorInv
    OBVIOUS
  <1>1. /\ \A k \in BatchKey : batches[k] = NoBatch
        /\ \A i \in Index : NoBatch[i] = <<>>
        /\ Range(<<>>) = {} /\ Len(<<>>) = 0
        /\ NoBatch \in [Index -> Seq(Report)]
        /\ batches \in [BatchKey -> [Index -> Seq(Report)]]
    BY DEF Init, NoBatches, NoBatch, Range
  <1>2. BatchSize \in Nat \ {0} /\ MaxRestarts \in Nat
    BY CollectorAssumption
  <1>3. TypeOK
    BY <1>1, <1>2 DEF Init, TypeOK, Answer, WriterState
  <1>4. WriterInv
    BY DEF Init, WriterInv, Up, IsInjective
  <1>5. BatchInv
    <2>1. \A k \in BatchKey : Len(batches[k][0]) < BatchSize /\ Len(batches[k][0]) <= BatchSize
      BY <1>1, <1>2 DEF Index
    <2>2. \A k \in BatchKey, i \in Index :
            /\ batches[k][i] = IF i \in Indexes(k) THEN batches[k][0] ELSE <<>>
            /\ Range(batches[k][i]) = {}
      BY <1>1 DEF Index
    <2> QED
      BY <2>1, <2>2 DEF BatchInv, Init
  <1>6. FilesInv /\ FilesPaired /\ AcceptedIsKept
    BY DEF Init, FilesInv, FilesPaired, AcceptedIsKept
  <1>7. DebugInv
    <2>1. \A k \in BatchKey : IsDebugKey(k) => OtherForm(k) \in BatchKey
      BY OtherFormFacts
    <2> QED
      BY <1>1, <2>1 DEF Init, DebugInv
  <1>8. BatchesFill
    <2>1. \A k \in BatchKey, i \in Index : Len(batches[k][i]) <= BatchSize
      BY <1>1, <1>2
    <2>2. Len(reportsCh) <= IF Capacity = 0 THEN 1 ELSE Capacity
      BY <1>1, CapacityType DEF Init
    <2> QED
      BY <2>1, <2>2 DEF Init, BatchesFill
  <1> QED
    BY <1>3, <1>4, <1>5, <1>6, <1>7, <1>8 DEF CollectorInv

\* The invariant is one of the collector's variables alone.
LEMMA CollectorStutters ==
  ASSUME CollectorInv, UNCHANGED collectorVars
  PROVE  CollectorInv'
  <1>1. UNCHANGED <<given, main, restarts, writerVars>> /\ answer' = answer /\ sending' = sending
    BY DEF collectorVars
  <1>2. answer' \in [Request -> Answer] /\ sending' \subseteq Request /\ (~ Up => sending' = {})
    BY <1>1 DEF CollectorInv, TypeOK, WriterInv
  <1> QED
    BY <1>1, <1>2, HandlerFrame

\* Every step of the collector keeps the invariant.
LEMMA CollectorStepKeeps ==
  ASSUME CollectorInv, CollectorStep
  PROVE  CollectorInv'
  <1>1. CASE \E q \in Request : SendReport(q) \/ PanicOnClosed(q)
    BY <1>1, SendReportKeeps, PanicOnClosedKeeps
  <1>2. CASE TakeReport \/ Flush
    BY <1>2, TakeReportKeeps, FlushKeeps
  <1>3. CASE \E i \in Index : WriteFile(i)
    BY <1>3, WriteFileKeeps
  <1>4. CASE CloseChannel \/ Signal
    BY <1>4, ShutdownStartsKeeps
  <1>5. CASE Exit \/ Crash \/ Restart
    BY <1>5, ExitKeeps, CrashKeeps, RestartKeeps
  <1>6. CASE \E q \in Request : BreakConnection(q)
    BY <1>6, BreakConnectionKeeps
  <1> QED
    BY <1>1, <1>2, <1>3, <1>4, <1>5, <1>6
    DEF CollectorStep, HandlerStep, WriterStep, ShutdownStep

\* The inductive invariant of the collector, of which its properties follow.
THEOREM CollectorInvariant == Spec => []CollectorInv
  <1> DEFINE Next == CollectorStep \/ \E q \in Request : ServeHTTP(q)
  <1>1. CollectorInv /\ [Next]_collectorVars => CollectorInv'
    BY CollectorStepKeeps, ServeHTTPKeeps, CollectorStutters
  <1> QED
    BY <1>1, CollectorInitially, PTL DEF Spec
-----------------------------------------------------------------------------
(* What the invariant gives. *)

\* Every variable keeps its type, and the writer has keys to write exactly
\* while it writes.
THEOREM CollectorTypes == Spec => []TypeOK
  <1>1. CollectorInv => TypeOK
    BY DEF CollectorInv
  <1> QED
    BY <1>1, CollectorInvariant, PTL

\* A report whose client was answered with 200 is on its way to its files, in
\* them, or lost by a crash or a write that failed: no interleaving of the
\* handlers, the writer, the shutdown and the restarts loses it otherwise.
THEOREM NothingAcceptedIsLost == Spec => []AcceptedIsKept
  <1>1. CollectorInv => AcceptedIsKept
    BY DEF CollectorInv
  <1> QED
    BY <1>1, CollectorInvariant, PTL

\* The files of the two helpers of a batch hold the same reports in the same
\* order, up to failed writes and crashes.
THEOREM HelpersPaired == Spec => []FilesPaired
  <1>1. CollectorInv => FilesPaired
    BY DEF CollectorInv
  <1> QED
    BY <1>1, CollectorInvariant, PTL

\* Neither the channel nor a batch outgrows its bound, and every file that is
\* written before the first shutdown is of a full batch.
THEOREM BatchSizes == Spec => []BatchesFill
  <1>1. CollectorInv => BatchesFill
    BY DEF CollectorInv
  <1> QED
    BY <1>1, CollectorInvariant, PTL

\* When nothing is to be written the third case of DebugInv cannot arise.
LEMMA DebugAgrees == CollectorInv => DebugBatchesAgree
  <1> SUFFICES ASSUME CollectorInv, toWrite = <<>>, NEW f \in files, f.key[2] # "encrypted"
               PROVE  \/ \E g \in files : /\ g.key = OtherForm(f.key) /\ g.index = f.index
                                          /\ g.reports = f.reports
                      \/ \A r \in Range(f.reports) :
                           [key |-> OtherForm(f.key), index |-> f.index, report |-> r] \in dropped
    BY DEF DebugBatchesAgree
  <1>1. Range(toWrite) = {}
    BY DEF Range
  <1> QED
    BY <1>1 DEF CollectorInv, DebugInv, IsDebugKey, AllDropped

\* The comment of bufferedReportWriter.start, made exact: whenever nothing is
\* being written, the debug files of both forms hold the same reports.
THEOREM DebugFormsAgree == Spec => []DebugBatchesAgree
  BY DebugAgrees, CollectorInvariant, PTL

\* Only a report that validates has a batch.
LEMMA KeysValidate ==
  ASSUME NEW r, NEW k \in Keys(r)
  PROVE  Validates(content[r])
  <1>1. BatchKeys(content[r]) # <<>>
    BY DEF Keys, Range
  <1>2. GetProtocol(content[r]) # "error"
    BY <1>1 DEF BatchKeys
  <1> QED
    BY <1>2 DEF GetProtocol, Validates

\* Every stored line is of a batch key of its report.
LEMMA RejectedNot == CollectorInv => RejectedNeverStored
  <1> SUFFICES ASSUME CollectorInv, NEW line \in FileLines \cup dropped \cup MemoryLines
               PROVE  Validates(content[line.report])
    BY DEF RejectedNeverStored
  <1>1. CASE line \in FileLines
    BY <1>1, KeysValidate DEF FileLines, CollectorInv, FilesInv
  <1>2. ASSUME NEW r, line \in LinesOf(r) PROVE Validates(content[line.report])
    BY <1>2, KeysValidate DEF LinesOf, Keys
  <1>3. CASE line \in dropped
    BY <1>2, <1>3 DEF CollectorInv, FilesInv
  <1>4. CASE line \in MemoryLines
    <2>1. CASE line \in Line /\ line.report \in Range(batches[line.key][line.index])
      <3>1. line.key \in BatchKey /\ line.index \in Index
        BY <2>1 DEF Line
      <3>2. line.key \in Keys(line.report)
        BY <2>1, <3>1 DEF CollectorInv, BatchInv
      <3> QED
        BY <3>2, KeysValidate
    <2> QED
      BY <1>2, <1>4, <2>1 DEF MemoryLines
  <1> QED
    BY <1>1, <1>3, <1>4

\* A report that was answered with 400, and went on to the writer all the
\* same, never reaches a batch or a file.
THEOREM InvalidNeverStored == Spec => []RejectedNeverStored
  BY RejectedNot, CollectorInvariant, PTL
-----------------------------------------------------------------------------
(* How often the collector stores a report: once per request at most.  The *)
(* argument counts: a request that arrives adds one to the copies of a     *)
(* line that are stored or on their way, and no step of the handlers, the  *)
(* writer, the shutdown or a restart adds another one.                     *)

\* How often x occurs in a sequence.
Occurrences(s, x) == Cardinality({n \in DOMAIN s : s[n] = x})

\* The copies of a line in its list, unless the writer is done with it, and
\* those that are still on their way to it.
InBatch(line) ==
  IF Handled(line.key, line.index) THEN 0
  ELSE Occurrences(batches[line.key][line.index], line.report)

SendingOf(r) == {q \in sending : q.report = r}

OnTheWay(line) ==
  IF line \in LinesOf(line.report)
    THEN Occurrences(reportsCh, line.report) + Cardinality(SendingOf(line.report))
    ELSE 0

RequestsOf(r) == {q \in Request : q.report = r /\ answer[q] # "none"}

\* Every copy of a line, stored or to be stored, has a request of its own.
CountInv ==
  /\ IsFiniteSet(files)
  /\ \A line \in Line :
       Copies(line) + InBatch(line) + OnTheWay(line) <= Cardinality(RequestsOf(line.report))
-----------------------------------------------------------------------------
(* Counting. *)

\* An element occurs finitely often in a sequence.
LEMMA OccurrencesType ==
  ASSUME NEW S, NEW s \in Seq(S), NEW x
  PROVE  /\ IsFiniteSet({n \in DOMAIN s : s[n] = x})
         /\ Occurrences(s, x) \in Nat
  <1> DEFINE P == {n \in DOMAIN s : s[n] = x}
  <1>1. IsFiniteSet(1 .. Len(s)) /\ P \in SUBSET (1 .. Len(s))
    BY FS_Interval
  <1>2. IsFiniteSet(P)
    BY <1>1, FS_Subset
  <1> QED
    BY <1>2, FS_CardinalityType DEF Occurrences

\* Nothing occurs in the empty sequence.
LEMMA OccurrencesEmpty ==
  ASSUME NEW x
  PROVE  Occurrences(<<>>, x) = 0
  <1>1. {n \in DOMAIN <<>> : <<>>[n] = x} = {}
    OBVIOUS
  <1> QED
    BY <1>1, FS_EmptySet DEF Occurrences

\* Appending adds one occurrence at most: of what is appended.
LEMMA OccurrencesAppend ==
  ASSUME NEW S, NEW s \in Seq(S), NEW e \in S, NEW x
  PROVE  Occurrences(Append(s, e), x) <= Occurrences(s, x) + (IF e = x THEN 1 ELSE 0)
  <1> DEFINE t == Append(s, e)
             P == {n \in DOMAIN s : s[n] = x}
             Q == {n \in DOMAIN t : t[n] = x}
  <1>1. IsFiniteSet(P) /\ Cardinality(P) \in Nat
    BY OccurrencesType, FS_CardinalityType
  <1>2. Q \subseteq P \cup {Len(s) + 1} /\ (e # x => Q \subseteq P)
    OBVIOUS
  <1>3. Occurrences(s, x) = Cardinality(P) /\ Occurrences(t, x) = Cardinality(Q)
    BY DEF Occurrences
  <1> HIDE DEF P, Q
  <1>4. CASE e = x
    <2>1. PICK new : new = Len(s) + 1
      OBVIOUS
    <2>2. IsFiniteSet(P \cup {new}) /\ Cardinality(P \cup {new}) <= Cardinality(P) + 1
      <3>1. Cardinality(P \cup {new}) = IF new \in P THEN Cardinality(P) ELSE Cardinality(P) + 1
        BY <1>1, FS_AddElement
      <3> QED
        BY <1>1, <3>1, FS_AddElement
    <2>3. Q \in SUBSET (P \cup {new})
      BY <1>2, <2>1
    <2>4. IsFiniteSet(Q) /\ Cardinality(Q) <= Cardinality(P \cup {new})
      BY <2>2, <2>3, FS_Subset
    <2>5. Cardinality(Q) \in Nat /\ Cardinality(P \cup {new}) \in Nat
      BY <2>2, <2>4, FS_CardinalityType
    <2> QED
      BY <1>1, <1>3, <1>4, <2>2, <2>4, <2>5
  <1>5. CASE e # x
    <2>1. Cardinality(Q) <= Cardinality(P) /\ IsFiniteSet(Q)
      BY <1>1, <1>2, <1>5, FS_Subset
    <2>2. Cardinality(Q) \in Nat
      BY <2>1, FS_CardinalityType
    <2> QED
      BY <1>1, <1>3, <1>5, <2>1, <2>2
  <1> QED
    BY <1>4, <1>5

\* Taking the head removes the occurrence at the front.
LEMMA OccurrencesTail ==
  ASSUME NEW S, NEW s \in Seq(S), s # <<>>, NEW x
  PROVE  Occurrences(Tail(s), x) + (IF Head(s) = x THEN 1 ELSE 0) <= Occurrences(s, x)
  <1> DEFINE t == Tail(s)
             P == {n \in DOMAIN s : s[n] = x}
             Q == {n \in DOMAIN t : t[n] = x}
  <1>1. IsFiniteSet(P) /\ Cardinality(P) \in Nat
    BY OccurrencesType, FS_CardinalityType
  <1>2. t \in Seq(S) /\ Len(s) \in Nat /\ Len(s) # 0 /\ Len(t) = Len(s) - 1
        /\ \A n \in 1 .. Len(t) : t[n] = s[n + 1]
    BY HeadTailProperties
  <1>3. IsFiniteSet(Q) /\ Cardinality(Q) \in Nat
    <2>1. t \in Seq(S)
      BY <1>2
    <2>2. IsFiniteSet(Q)
      <3> HIDE DEF t
      <3> QED
        BY <2>1, OccurrencesType
    <2> HIDE DEF Q
    <2> QED
      BY <2>2, FS_CardinalityType
  <1>4. IsFiniteSet(P \ {1}) /\ Cardinality(P \ {1}) = IF Head(s) = x THEN Cardinality(P) - 1 ELSE Cardinality(P)
    <2>1. 1 \in P <=> Head(s) = x
      BY <1>2
    <2> QED
      BY <1>1, <2>1, FS_RemoveElement
  <1>5. \A n \in Q : n \in Nat /\ n + 1 \in P \ {1}
    BY <1>2
  <1> DEFINE shift == [n \in Q |-> n + 1]
  <1>6. shift \in Injection(Q, P \ {1})
    <2>1. shift \in [Q -> P \ {1}]
      BY <1>5
    <2>2. \A m, n \in Q : shift[m] = shift[n] => m = n
      BY <1>5
    <2> QED
      BY <2>1, <2>2 DEF Injection, IsInjective
  <1>7. Cardinality(Q) <= Cardinality(P \ {1})
    <2> HIDE DEF shift, P, Q
    <2> QED
      BY <1>4, <1>6, FS_Injection
  <1>8. Occurrences(s, x) = Cardinality(P) /\ Occurrences(t, x) = Cardinality(Q)
    BY DEF Occurrences
  <1> HIDE DEF P, Q
  <1> QED
    BY <1>1, <1>3, <1>4, <1>7, <1>8

\* A report is asked for MaxAttempts times at most.
LEMMA RequestsFinite ==
  ASSUME NEW r \in Report
  PROVE  IsFiniteSet({q \in Request : q.report = r})
  <1> DEFINE A == 1 .. MaxAttempts
             R == {q \in Request : q.report = r}
             f == [a \in A |-> [report |-> r, attempt |-> a]]
  <1>1. IsFiniteSet(A)
    BY CollectorAssumption, FS_Interval
  <1>2. f \in Surjection(A, R)
    <2>1. f \in [A -> R]
      BY DEF Request
    <2>2. ASSUME NEW q \in R PROVE \E a \in A : f[a] = q
      <3>1. q.attempt \in A /\ q = [report |-> r, attempt |-> q.attempt]
        BY DEF Request
      <3> QED
        BY <3>1
    <2> QED
      BY <2>1, <2>2 DEF Surjection
  <1> HIDE DEF f, A, R
  <1>3. IsFiniteSet(R)
    BY <1>1, <1>2, FS_Surjection
  <1> QED
    BY <1>3 DEF R

\* The places of a line in the files.
Places(line) ==
  {c \in files \X (1 .. BatchSize) :
     /\ c[1].key = line.key /\ c[1].index = line.index
     /\ c[2] \in DOMAIN c[1].reports /\ c[1].reports[c[2]] = line.report}

\* Copies counts a finite set.
LEMMA PlacesFinite ==
  ASSUME IsFiniteSet(files), NEW line
  PROVE  IsFiniteSet(Places(line)) /\ Copies(line) = Cardinality(Places(line)) /\ Copies(line) \in Nat
  <1>1. IsFiniteSet(1 .. BatchSize)
    BY CollectorAssumption, FS_Interval
  <1>2. IsFiniteSet(files \X (1 .. BatchSize))
    BY <1>1, FS_Product
  <1>3. IsFiniteSet(Places(line))
    BY <1>2, FS_Subset DEF Places
  <1>4. Copies(line) = Cardinality(Places(line))
    BY DEF Copies, Places
  <1> QED
    BY <1>3, <1>4, FS_CardinalityType

\* What is counted are natural numbers, of finite sets.
LEMMA CountTypes ==
  CollectorInv /\ IsFiniteSet(files) =>
    \A line \in Line : /\ Copies(line) \in Nat
                       /\ InBatch(line) \in Nat
                       /\ OnTheWay(line) \in Nat
                       /\ IsFiniteSet(SendingOf(line.report))
                       /\ Cardinality(SendingOf(line.report)) \in Nat
                       /\ IsFiniteSet(RequestsOf(line.report))
                       /\ Cardinality(RequestsOf(line.report)) \in Nat
  <1> SUFFICES ASSUME CollectorInv, IsFiniteSet(files), NEW line \in Line
               PROVE  /\ Copies(line) \in Nat
                      /\ InBatch(line) \in Nat
                      /\ OnTheWay(line) \in Nat
                      /\ IsFiniteSet(SendingOf(line.report))
                      /\ Cardinality(SendingOf(line.report)) \in Nat
                      /\ IsFiniteSet(RequestsOf(line.report))
                      /\ Cardinality(RequestsOf(line.report)) \in Nat
    OBVIOUS
  <1>1. line.key \in BatchKey /\ line.index \in Index /\ line.report \in Report
    BY DEF Line
  <1>2. batches[line.key][line.index] \in Seq(Report) /\ reportsCh \in Seq(Report)
        /\ sending \subseteq Request
    BY <1>1 DEF CollectorInv, TypeOK
  <1>3. InBatch(line) \in Nat /\ Occurrences(reportsCh, line.report) \in Nat
    BY <1>2, OccurrencesType DEF InBatch
  <1> DEFINE All == {q \in Request : q.report = line.report}
  <1>4. IsFiniteSet(All)
    BY <1>1, RequestsFinite
  <1>5. SendingOf(line.report) \in SUBSET All /\ RequestsOf(line.report) \in SUBSET All
    BY <1>2 DEF SendingOf, RequestsOf
  <1>6. IsFiniteSet(SendingOf(line.report)) /\ IsFiniteSet(RequestsOf(line.report))
    BY <1>4, <1>5, FS_Subset
  <1>7. Cardinality(SendingOf(line.report)) \in Nat /\ Cardinality(RequestsOf(line.report)) \in Nat
    BY <1>6, FS_CardinalityType
  <1> QED
    BY <1>3, <1>6, <1>7, PlacesFinite DEF OnTheWay

\* The same, of the next state.
LEMMA CountTypesNext ==
  (CollectorInv /\ IsFiniteSet(files))' =>
    (\A line \in Line : /\ Copies(line) \in Nat
                        /\ InBatch(line) \in Nat
                        /\ OnTheWay(line) \in Nat
                        /\ IsFiniteSet(SendingOf(line.report))
                        /\ Cardinality(SendingOf(line.report)) \in Nat
                        /\ IsFiniteSet(RequestsOf(line.report))
                        /\ Cardinality(RequestsOf(line.report)) \in Nat)'
  BY CountTypes, PTL

\* A new file adds the occurrences in it to the copies of a line.
LEMMA CopiesMore ==
  ASSUME IsFiniteSet(files), NEW file, files' \subseteq files \cup {file},
         file.reports \in Seq(Report), NEW line
  PROVE  /\ IsFiniteSet(files')
         /\ Copies(line)' \in Nat
         /\ Copies(line)' <= Copies(line) + Occurrences(file.reports, line.report)
         /\ file.key # line.key \/ file.index # line.index => Copies(line)' <= Copies(line)
  <1> DEFINE P == Places(line)
             Q == Places(line)'
             N == {n \in DOMAIN file.reports : file.reports[n] = line.report}
             M == {<<file, n>> : n \in N}
  <1>1. IsFiniteSet(P) /\ Cardinality(P) \in Nat /\ Copies(line) = Cardinality(P)
    BY PlacesFinite
  <1>2. IsFiniteSet(files')
    <2>1. IsFiniteSet(files \cup {file})
      BY FS_AddElement
    <2> QED
      BY <2>1, FS_Subset
  <1>3. Copies(line)' = Cardinality(Q)
    BY DEF Copies, Places
  <1>4. Q \subseteq P \cup M /\ (file.key # line.key \/ file.index # line.index => Q \subseteq P)
    BY DEF Places
  <1>5. IsFiniteSet(N) /\ Cardinality(N) \in Nat
        /\ Cardinality(N) = Occurrences(file.reports, line.report)
    BY OccurrencesType DEF Occurrences
  <1> HIDE DEF P, Q, N
  <1>6. IsFiniteSet(M) /\ Cardinality(M) <= Cardinality(N) /\ Cardinality(M) \in Nat
    <2> DEFINE place == [n \in N |-> <<file, n>>]
    <2>1. place \in [N -> M] /\ \A m \in M : \E n \in N : place[n] = m
      OBVIOUS
    <2>2. place \in Surjection(N, M)
      BY <2>1 DEF Surjection
    <2> HIDE DEF place, M
    <2>3. IsFiniteSet(M) /\ Cardinality(M) <= Cardinality(N)
      BY <1>5, <2>2, FS_Surjection
    <2> QED
      BY <2>3, FS_CardinalityType
  <1> HIDE DEF M
  <1>7. IsFiniteSet(P \cup M) /\ Cardinality(P \cup M) <= Cardinality(P) + Cardinality(M)
    <2>1. IsFiniteSet(P \cap M) /\ Cardinality(P \cap M) \in Nat
      BY <1>1, FS_Subset, FS_CardinalityType
    <2>2. Cardinality(P \cup M) = Cardinality(P) + Cardinality(M) - Cardinality(P \cap M)
      BY <1>1, <1>6, FS_Union
    <2>3. IsFiniteSet(P \cup M)
      BY <1>1, <1>6, FS_Union
    <2> QED
      BY <1>1, <1>6, <2>1, <2>2, <2>3
  <1>8. IsFiniteSet(Q) /\ Cardinality(Q) <= Cardinality(P \cup M)
    BY <1>4, <1>7, FS_Subset
  <1>9. Cardinality(Q) \in Nat /\ Cardinality(P \cup M) \in Nat
    BY <1>7, <1>8, FS_CardinalityType
  <1>10. Q \subseteq P => Cardinality(Q) <= Cardinality(P)
    BY <1>1, FS_Subset
  <1> QED
    BY <1>1, <1>2, <1>3, <1>4, <1>5, <1>6, <1>7, <1>8, <1>9, <1>10

\* No request is forgotten.
Remembered == \A q \in Request : answer[q] # "none" => answer'[q] # "none"

\* A request that was made stays made.
LEMMA RequestsKept ==
  ASSUME Remembered, NEW r
  PROVE  RequestsOf(r) \subseteq RequestsOf(r)'
  BY DEF Remembered, RequestsOf

\* A step that adds nothing to the copies, stored and to be stored.
LEMMA NothingAdded ==
  ASSUME CollectorInv, CollectorInv', CountInv, Remembered, IsFiniteSet(files'),
         \A line \in Line : Copies(line)' + InBatch(line)' + OnTheWay(line)'
                              <= Copies(line) + InBatch(line) + OnTheWay(line)
  PROVE  CountInv'
  <1> SUFFICES ASSUME NEW line \in Line
               PROVE  Copies(line)' + InBatch(line)' + OnTheWay(line)'
                        <= Cardinality(RequestsOf(line.report)')
    BY DEF CountInv
  <1>1. /\ Copies(line) \in Nat /\ InBatch(line) \in Nat /\ OnTheWay(line) \in Nat
        /\ Cardinality(RequestsOf(line.report)) \in Nat
    BY CountTypes DEF CountInv
  <1>2. /\ Copies(line)' \in Nat /\ InBatch(line)' \in Nat /\ OnTheWay(line)' \in Nat
        /\ IsFiniteSet(RequestsOf(line.report)')
        /\ Cardinality(RequestsOf(line.report)') \in Nat
    BY CountTypesNext
  <1>3. Cardinality(RequestsOf(line.report)) <= Cardinality(RequestsOf(line.report)')
    BY <1>2, RequestsKept, FS_Subset
  <1> QED
    BY <1>1, <1>2, <1>3 DEF CountInv

\* A step that leaves files and batches alone.
LEMMA FilesUntouched ==
  ASSUME UNCHANGED <<files, batches, toWrite, pending>>, NEW line \in Line
  PROVE  Copies(line)' = Copies(line) /\ InBatch(line)' = InBatch(line)
  BY DEF Copies, InBatch, Handled, Occurrences

\* A step that neither adds to the files nor to the channel.
LEMMA FewerSending ==
  ASSUME CollectorInv, CollectorInv', CountInv, Remembered, sending' \subseteq sending,
         UNCHANGED <<content, files, reportsCh>>,
         \A line \in Line : InBatch(line)' <= InBatch(line)
  PROVE  CountInv'
  <1>1. IsFiniteSet(files')
    BY DEF CountInv
  <1>2. ASSUME NEW line \in Line
        PROVE  Copies(line)' + InBatch(line)' + OnTheWay(line)'
                 <= Copies(line) + InBatch(line) + OnTheWay(line)
    <2>1. Copies(line)' = Copies(line)
      BY DEF Copies
    <2>2. /\ Copies(line) \in Nat /\ InBatch(line) \in Nat /\ InBatch(line)' \in Nat
          /\ OnTheWay(line) \in Nat /\ OnTheWay(line)' \in Nat
          /\ IsFiniteSet(SendingOf(line.report)) /\ Cardinality(SendingOf(line.report)) \in Nat
          /\ Cardinality(SendingOf(line.report)') \in Nat
      BY <1>1, CountTypes, CountTypesNext DEF CountInv
    <2>3. SendingOf(line.report)' \subseteq SendingOf(line.report)
      BY DEF SendingOf
    <2>4. Cardinality(SendingOf(line.report)') <= Cardinality(SendingOf(line.report))
      BY <2>2, <2>3, FS_Subset
    <2>5. /\ LinesOf(line.report)' = LinesOf(line.report)
          /\ Occurrences(reportsCh, line.report)' = Occurrences(reportsCh, line.report)
      BY DEF LinesOf, Occurrences
    <2>6. Occurrences(reportsCh, line.report) \in Nat
      BY OccurrencesType DEF CollectorInv, TypeOK
    <2>7. OnTheWay(line)' <= OnTheWay(line)
      BY <2>2, <2>4, <2>5, <2>6 DEF OnTheWay
    <2> QED
      BY <2>1, <2>2, <2>7
  <1> QED
    BY <1>1, <1>2, NothingAdded

\* The request that arrives is counted once on both sides.
LEMMA ServeHTTPCounts ==
  ASSUME CollectorInv, CollectorInv', CountInv, NEW q \in Request, ServeHTTP(q)
  PROVE  CountInv'
  <1>1. /\ answer[q] = "none" /\ UNCHANGED <<content, files, batches, toWrite, pending, reportsCh>>
        /\ sending' \subseteq sending \cup {q}
    BY DEF ServeHTTP, NextAttempt, given, writerVars
  <1>2. answer'[q] # "none" /\ \A p \in Request : p # q => answer'[p] = answer[p]
    BY DEF ServeHTTP, Status, CollectorInv, TypeOK
  <1>3. Remembered /\ IsFiniteSet(files')
    BY <1>1, <1>2 DEF Remembered, CountInv
  <1> SUFFICES ASSUME NEW line \in Line
               PROVE  Copies(line)' + InBatch(line)' + OnTheWay(line)'
                        <= Cardinality(RequestsOf(line.report)')
    BY <1>3 DEF CountInv
  <1> DEFINE r == line.report
             S == SendingOf(r)
             T == SendingOf(r)'
             M == RequestsOf(r)
             N == RequestsOf(r)'
  <1>4. Copies(line)' = Copies(line) /\ InBatch(line)' = InBatch(line)
    BY <1>1, FilesUntouched
  <1>5. /\ Copies(line) \in Nat /\ InBatch(line) \in Nat
        /\ OnTheWay(line) \in Nat /\ OnTheWay(line)' \in Nat
        /\ IsFiniteSet(S) /\ Cardinality(S) \in Nat
        /\ IsFiniteSet(M) /\ Cardinality(M) \in Nat
        /\ Cardinality(T) \in Nat
        /\ IsFiniteSet(N) /\ Cardinality(N) \in Nat
    BY <1>3, CountTypes, CountTypesNext DEF CountInv
  <1>6. /\ LinesOf(r)' = LinesOf(r)
        /\ Occurrences(reportsCh, r)' = Occurrences(reportsCh, r)
        /\ Occurrences(reportsCh, r) \in Nat
    BY <1>1, OccurrencesType DEF LinesOf, Occurrences, CollectorInv, TypeOK
  <1>7. Copies(line) + InBatch(line) + OnTheWay(line) <= Cardinality(M)
    BY DEF CountInv
  <1>8. M \subseteq N
    BY <1>3, RequestsKept
  <1>9. CASE q.report = r
    <2>1. T \subseteq S \cup {q} /\ q \notin M /\ M \cup {q} \subseteq N
      BY <1>1, <1>2, <1>8, <1>9 DEF SendingOf, RequestsOf
    <2> HIDE DEF S, T, M, N, r
    <2>2. IsFiniteSet(S \cup {q}) /\ Cardinality(S \cup {q}) \in Nat
          /\ Cardinality(S \cup {q}) <= Cardinality(S) + 1
      <3>1. IsFiniteSet(S \cup {q})
            /\ Cardinality(S \cup {q}) = IF q \in S THEN Cardinality(S) ELSE Cardinality(S) + 1
        BY <1>5, FS_AddElement
      <3> QED
        BY <1>5, <3>1
    <2>3. Cardinality(T) <= Cardinality(S) + 1
      <3>1. Cardinality(T) <= Cardinality(S \cup {q})
        BY <2>1, <2>2, FS_Subset
      <3> QED
        BY <1>5, <2>2, <3>1
    <2>4. Cardinality(M \cup {q}) = Cardinality(M) + 1 /\ Cardinality(M \cup {q}) <= Cardinality(N)
      <3>1. Cardinality(M \cup {q}) = Cardinality(M) + 1
        BY <1>5, <2>1, FS_AddElement
      <3> QED
        BY <1>5, <2>1, <3>1, FS_Subset
    <2>5. OnTheWay(line)' <= OnTheWay(line) + 1
      BY <1>5, <1>6, <2>3 DEF OnTheWay, S, T, r
    <2> QED
      BY <1>4, <1>5, <1>7, <2>4, <2>5 DEF N, r
  <1>10. CASE q.report # r
    <2>1. T \subseteq S
      BY <1>1, <1>10 DEF SendingOf
    <2>2. Cardinality(T) <= Cardinality(S)
      BY <1>5, <2>1, FS_Subset
    <2>3. Cardinality(M) <= Cardinality(N)
      BY <1>5, <1>8, FS_Subset
    <2>4. OnTheWay(line)' <= OnTheWay(line)
      BY <1>5, <1>6, <2>2 DEF OnTheWay
    <2> QED
      BY <1>4, <1>5, <1>7, <2>3, <2>4
  <1> QED
    BY <1>9, <1>10

\* The report leaves the handler for the channel.
LEMMA SendReportCounts ==
  ASSUME CollectorInv, CollectorInv', CountInv, NEW q \in Request, SendReport(q)
  PROVE  CountInv'
  <1>1. /\ q \in sending /\ sending' = sending \ {q}
        /\ reportsCh' = Append(reportsCh, q.report)
        /\ UNCHANGED <<content, files, batches, toWrite, pending>>
    BY DEF SendReport, given
  <1>2. Remembered
    BY DEF Remembered, SendReport, Reply, Status, CollectorInv, TypeOK
  <1>3. IsFiniteSet(files')
    BY <1>1 DEF CountInv
  <1>4. ASSUME NEW line \in Line
        PROVE  Copies(line)' + InBatch(line)' + OnTheWay(line)'
                 <= Copies(line) + InBatch(line) + OnTheWay(line)
    <2> DEFINE r == line.report
               S == SendingOf(r)
               T == SendingOf(r)'
    <2>1. Copies(line)' = Copies(line) /\ InBatch(line)' = InBatch(line)
      BY <1>1, FilesUntouched
    <2>2. /\ Copies(line) \in Nat /\ InBatch(line) \in Nat
          /\ OnTheWay(line) \in Nat /\ OnTheWay(line)' \in Nat
          /\ IsFiniteSet(S) /\ Cardinality(S) \in Nat
          /\ Cardinality(T) \in Nat
      BY <1>3, CountTypes, CountTypesNext DEF CountInv
    <2>3. reportsCh \in Seq(Report) /\ q.report \in Report
      BY DEF CollectorInv, TypeOK, Request
    <2>4. /\ Occurrences(reportsCh, r) \in Nat /\ Occurrences(reportsCh', r) \in Nat
          /\ Occurrences(reportsCh', r) <= Occurrences(reportsCh, r) + (IF q.report = r THEN 1 ELSE 0)
      <3>1. reportsCh' \in Seq(Report)
        BY <1>1, <2>3
      <3>2. Occurrences(Append(reportsCh, q.report), r)
              <= Occurrences(reportsCh, r) + (IF q.report = r THEN 1 ELSE 0)
        BY <2>3, OccurrencesAppend
      <3>3. Occurrences(reportsCh, r) \in Nat /\ Occurrences(reportsCh', r) \in Nat
        BY <2>3, <3>1, OccurrencesType
      <3> QED
        BY <1>1, <3>2, <3>3
    <2>5. T = S \ {q} /\ (q.report = r <=> q \in S)
      BY <1>1 DEF SendingOf
    <2>6. LinesOf(r)' = LinesOf(r) /\ Occurrences(reportsCh, r)' = Occurrences(reportsCh', r)
      BY <1>1 DEF LinesOf, Occurrences
    <2> HIDE DEF r, S, T
    <2>7. Cardinality(T) = IF q \in S THEN Cardinality(S) - 1 ELSE Cardinality(S)
      BY <2>2, <2>5, FS_RemoveElement
    <2>8. OnTheWay(line)' <= OnTheWay(line)
      BY <2>2, <2>4, <2>5, <2>6, <2>7 DEF OnTheWay, r, S, T
    <2> QED
      BY <2>1, <2>2, <2>8
  <1> QED
    BY <1>2, <1>3, <1>4, NothingAdded

\* A report that is taken leaves the channel for the lists it belongs to.
LEMMA TakeReportCounts ==
  ASSUME CollectorInv, CollectorInv', CountInv, TakeReport
  PROVE  CountInv'
  <1>1. PICK r : r = Head(reportsCh)
    OBVIOUS
  <1>2. /\ r \in Report /\ toWrite = <<>>
        /\ UNCHANGED <<content, answer, sending, files>>
        /\ reportsCh \in Seq(Report) /\ reportsCh # <<>>
        /\ reportsCh' = Tail(reportsCh) /\ reportsCh' \in Seq(Report)
        /\ batches \in [BatchKey -> [Index -> Seq(Report)]]
        /\ batches' \in [BatchKey -> [Index -> Seq(Report)]]
        /\ \A k \in BatchKey, i \in Index :
             batches'[k][i] = IF k \in Keys(r) /\ i \in Indexes(k)
                                THEN Append(batches[k][i], r) ELSE batches[k][i]
    BY <1>1, TakenReport
  <1>3. Remembered /\ IsFiniteSet(files')
    BY <1>2 DEF Remembered, CountInv
  <1>4. ASSUME NEW line \in Line
        PROVE  Copies(line)' + InBatch(line)' + OnTheWay(line)'
                 <= Copies(line) + InBatch(line) + OnTheWay(line)
    <2> DEFINE x == line.report
               old == batches[line.key][line.index]
               new == batches'[line.key][line.index]
               one == IF r = x THEN 1 ELSE 0
    <2>1. Copies(line)' = Copies(line)
      BY <1>2 DEF Copies
    <2>2. /\ Copies(line) \in Nat /\ InBatch(line) \in Nat /\ InBatch(line)' \in Nat
          /\ OnTheWay(line) \in Nat /\ OnTheWay(line)' \in Nat
          /\ Cardinality(SendingOf(x)) \in Nat
      BY <1>3, CountTypes, CountTypesNext DEF CountInv
    <2>3. line.key \in BatchKey /\ line.index \in Index
      BY DEF Line
    <2>4. old \in Seq(Report) /\ new \in Seq(Report)
      BY <1>2, <2>3
    <2>5. Occurrences(old, x) \in Nat /\ Occurrences(new, x) \in Nat
      BY <2>4, OccurrencesType
    <2>6. InBatch(line) = Occurrences(old, x)
      BY <1>2 DEF InBatch, Handled
    <2>7. InBatch(line)' <= Occurrences(new, x)
      BY <2>5 DEF InBatch, Occurrences
    <2>8. /\ LinesOf(x)' = LinesOf(x) /\ SendingOf(x)' = SendingOf(x)
          /\ Occurrences(reportsCh, x)' = Occurrences(reportsCh', x)
      BY <1>2 DEF LinesOf, SendingOf, Occurrences
    <2>9. Occurrences(Tail(reportsCh), x) + one <= Occurrences(reportsCh, x)
      BY <1>1, <1>2, OccurrencesTail
    <2>10. Occurrences(reportsCh, x) \in Nat /\ Occurrences(reportsCh', x) \in Nat
      BY <1>2, OccurrencesType
    <2>11. Occurrences(Append(old, r), x) <= Occurrences(old, x) + one
      BY <1>2, <2>4, OccurrencesAppend
    <2>12. new = old \/ new = Append(old, r)
      BY <1>2, <2>3
    <2>13. line \notin LinesOf(x) /\ r = x => new = old
      <3>1. line.report \in Report
        BY DEF Line
      <3>2. line \notin LinesOf(x) => line.key \notin Keys(x) \/ line.index \notin Indexes(line.key)
        BY <3>1, LinesOfReport
      <3> QED
        BY <1>2, <2>3, <3>2
    <2>14. \/ Occurrences(new, x) = Occurrences(old, x)
           \/ /\ Occurrences(new, x) = Occurrences(Append(old, r), x)
              /\ r = x => line \in LinesOf(x)
      BY <2>12, <2>13, Zenon
    <2>15. Occurrences(Append(old, r), x) \in Nat
      <3>1. Append(old, r) \in Seq(Report)
        BY <1>2, <2>4
      <3> QED
        BY <3>1, OccurrencesType
    <2> HIDE DEF x, old, new
    <2>16. CASE line \in LinesOf(x)
      <3>1. OnTheWay(line) = Occurrences(reportsCh, x) + Cardinality(SendingOf(x))
        BY <2>16 DEF OnTheWay, x
      <3>2. OnTheWay(line)' = Occurrences(reportsCh', x) + Cardinality(SendingOf(x))
        BY <2>8, <2>16 DEF OnTheWay, x
      <3>3. Occurrences(new, x) <= Occurrences(old, x) + one
        BY <2>5, <2>11, <2>14, <2>15
      <3>4. Occurrences(reportsCh', x) + one <= Occurrences(reportsCh, x)
        BY <1>2, <2>9
      <3>5. one \in Nat
        OBVIOUS
      <3> HIDE DEF one
      <3> QED
        BY <2>1, <2>2, <2>5, <2>6, <2>7, <2>10, <3>1, <3>2, <3>3, <3>4, <3>5
    <2>17. CASE line \notin LinesOf(x)
      <3>1. OnTheWay(line) = 0 /\ OnTheWay(line)' = 0
        BY <2>8, <2>17 DEF OnTheWay, x
      <3>2. Occurrences(new, x) <= Occurrences(old, x)
        BY <2>5, <2>11, <2>17, <2>14, <2>15
      <3> QED
        BY <2>1, <2>2, <2>5, <2>6, <2>7, <3>1, <3>2
    <2> QED
      BY <2>16, <2>17
  <1> QED
    BY <1>3, <1>4, NothingAdded

\* A list that is written leaves the memory for one file at most.
LEMMA WriteFileCounts ==
  ASSUME CollectorInv, CollectorInv', CountInv, NEW i \in Index, WriteFile(i)
  PROVE  CountInv'
  <1>1. PICK k : k = Head(toWrite)
    OBVIOUS
  <1>2. PICK file : file = FileOf(k, i)
    OBVIOUS
  <1>3. /\ k \in BatchKey /\ i \in pending /\ toWrite # <<>>
        /\ batches[k][i] \in Seq(Report)
        /\ UNCHANGED <<content, answer, sending, reportsCh>>
        /\ files' \subseteq files \cup {file}
    BY <1>1, <1>2, FileIsStored
  <1>4. file.key = k /\ file.index = i /\ file.reports = batches[k][i]
    BY <1>2 DEF FileOf
  <1>5. Remembered /\ IsFiniteSet(files) /\ IsFiniteSet(files')
    BY <1>3, <1>4, CopiesMore DEF Remembered, CountInv
  <1>6. \/ UNCHANGED <<batches, toWrite>> /\ pending' = pending \ {i}
        \/ batches' = [batches EXCEPT ![k] = NoBatch]
    BY <1>1 DEF WriteFile, AfterBatch
  <1>7. ASSUME NEW line \in Line
        PROVE  Copies(line)' + InBatch(line)' + OnTheWay(line)'
                 <= Copies(line) + InBatch(line) + OnTheWay(line)
    <2> DEFINE x == line.report
    <2>1. /\ Copies(line) \in Nat /\ InBatch(line) \in Nat /\ InBatch(line)' \in Nat
          /\ OnTheWay(line) \in Nat /\ Copies(line)' \in Nat
      BY <1>5, CountTypes, CountTypesNext DEF CountInv
    <2>2. line.key \in BatchKey /\ line.index \in Index
      BY DEF Line
    <2>3. OnTheWay(line)' = OnTheWay(line)
      BY <1>3 DEF OnTheWay, LinesOf, SendingOf, Occurrences
    <2>4. /\ Copies(line)' <= Copies(line) + Occurrences(batches[k][i], x)
          /\ line.key # k \/ line.index # i => Copies(line)' <= Copies(line)
      BY <1>3, <1>4, <1>5, CopiesMore
    <2>5. Occurrences(batches[k][i], x) \in Nat
      BY <1>3, OccurrencesType
    <2>6. batches' = [batches EXCEPT ![k] = NoBatch] /\ line.key = k => InBatch(line)' = 0
      <3>1. ASSUME batches' = [batches EXCEPT ![k] = NoBatch], line.key = k
            PROVE  batches'[line.key][line.index] = <<>>
        BY <1>3, <2>2, <3>1 DEF NoBatch, CollectorInv, TypeOK
      <3>2. Occurrences(<<>>, x) = 0
        BY OccurrencesEmpty
      <3>3. Occurrences(batches[line.key][line.index], line.report)'
              = Occurrences(batches'[line.key][line.index], x)
        BY DEF Occurrences
      <3> QED
        BY <3>1, <3>2, <3>3 DEF InBatch
    <2>7. CASE line.key = k /\ line.index = i
      <3>1. InBatch(line) = Occurrences(batches[k][i], x)
        BY <1>3, <2>7 DEF InBatch, Handled
      <3>2. InBatch(line)' = 0
        <4>1. CASE UNCHANGED <<batches, toWrite>> /\ pending' = pending \ {i}
          BY <1>1, <1>3, <2>7, <4>1 DEF InBatch, Handled
        <4> QED
          BY <1>6, <2>6, <2>7, <4>1
      <3> QED
        BY <2>1, <2>3, <2>4, <2>5, <3>1, <3>2
    <2>8. CASE ~ (line.key = k /\ line.index = i)
      <3>1. InBatch(line)' <= InBatch(line)
        <4>1. CASE UNCHANGED <<batches, toWrite>> /\ pending' = pending \ {i}
          BY <1>1, <2>1, <2>8, <4>1 DEF InBatch, Handled, Occurrences
        <4>2. CASE batches' = [batches EXCEPT ![k] = NoBatch] /\ line.key # k
          <5>1. batches'[line.key] = batches[line.key]
            BY <2>2, <4>2 DEF CollectorInv, TypeOK
          <5>2. InBatch(line) = Occurrences(batches[line.key][line.index], x)
            BY <1>1, <4>2 DEF InBatch, Handled
          <5>3. InBatch(line)' = 0 \/ InBatch(line)' = Occurrences(batches'[line.key][line.index], x)
            BY DEF InBatch, Occurrences
          <5> QED
            BY <2>1, <5>1, <5>2, <5>3
        <4> QED
          BY <1>6, <2>1, <2>6, <4>1, <4>2
      <3> QED
        BY <2>1, <2>3, <2>4, <2>8, <3>1
    <2> QED
      BY <2>7, <2>8
  <1> QED
    BY <1>5, <1>7, NothingAdded

\* The flush starts: nothing is copied yet.
LEMMA FlushCounts ==
  ASSUME CollectorInv, CollectorInv', CountInv, Flush
  PROVE  CountInv'
  <1>1. /\ writer = "ready"
        /\ UNCHANGED <<content, answer, sending, reportsCh, batches, files>>
    BY DEF Flush, given
  <1>2. toWrite = <<>>
    BY <1>1 DEF CollectorInv, TypeOK
  <1>3. Remembered
    BY <1>1 DEF Remembered
  <1>4. ASSUME NEW line \in Line PROVE InBatch(line)' <= InBatch(line)
    <2>1. InBatch(line) = Occurrences(batches[line.key][line.index], line.report)
      BY <1>2 DEF InBatch, Handled
    <2>2. InBatch(line)' = 0 \/ InBatch(line)' = InBatch(line)
      BY <1>1, <2>1 DEF InBatch, Occurrences
    <2>3. InBatch(line) \in Nat
      BY CountTypes DEF CountInv
    <2> QED
      BY <2>2, <2>3
  <1> QED
    BY <1>1, <1>3, <1>4, FewerSending

\* A crash keeps what is in files, and forgets the rest.
LEMMA CrashCounts ==
  ASSUME CollectorInv, CollectorInv', CountInv, Crash
  PROVE  CountInv'
  <1>1. /\ sending' = {} /\ reportsCh' = <<>> /\ batches' = NoBatches
        /\ answer' = [q \in Request |-> IF q \in sending THEN Reply(q, "lost")[q] ELSE answer[q]]
        /\ UNCHANGED <<content, files>>
    BY DEF Crash, given
  <1>2. Remembered
    BY <1>1 DEF Remembered, Reply
  <1>3. IsFiniteSet(files')
    BY <1>1 DEF CountInv
  <1>4. ASSUME NEW line \in Line
        PROVE  Copies(line)' + InBatch(line)' + OnTheWay(line)'
                 <= Copies(line) + InBatch(line) + OnTheWay(line)
    <2>1. Copies(line)' = Copies(line)
      BY <1>1 DEF Copies
    <2>2. Copies(line) \in Nat /\ InBatch(line) \in Nat /\ OnTheWay(line) \in Nat
      BY CountTypes DEF CountInv
    <2>3. Occurrences(<<>>, line.report) = 0
      BY OccurrencesEmpty
    <2>4. batches'[line.key][line.index] = <<>>
      BY <1>1 DEF Line, NoBatches, NoBatch
    <2>5. InBatch(line)' = 0
      BY <2>3, <2>4 DEF InBatch, Occurrences
    <2>6. SendingOf(line.report)' = {}
      BY <1>1 DEF SendingOf
    <2>7. Cardinality(SendingOf(line.report)') = 0
      BY <2>6, FS_EmptySet
    <2>8. Occurrences(reportsCh, line.report)' = 0
      BY <1>1, <2>3 DEF Occurrences
    <2>9. OnTheWay(line)' = 0
      BY <2>7, <2>8 DEF OnTheWay
    <2> QED
      BY <2>1, <2>2, <2>5, <2>9
  <1> QED
    BY <1>2, <1>3, <1>4, NothingAdded

\* The steps that end requests, and those of the process.
LEMMA OtherStepsCount ==
  ASSUME CollectorInv, CollectorInv', CountInv,
         \/ \E q \in Request : BreakConnection(q) \/ PanicOnClosed(q)
         \/ Signal \/ CloseChannel \/ Exit \/ Restart \/ UNCHANGED collectorVars
  PROVE  CountInv'
  <1>1. UNCHANGED <<content, files, reportsCh, batches, toWrite, pending>>
    BY DEF BreakConnection, PanicOnClosed, Signal, CloseChannel, Exit, Restart,
           given, writerVars, collectorVars
  <1>2. sending' \subseteq sending
    BY DEF BreakConnection, PanicOnClosed, Signal, CloseChannel, Exit, Restart, collectorVars
  <1>3. Remembered
    BY DEF BreakConnection, PanicOnClosed, Signal, CloseChannel, Exit, Restart, collectorVars,
           Remembered, Reply, CollectorInv, TypeOK
  <1>4. ASSUME NEW line \in Line PROVE InBatch(line)' <= InBatch(line)
    <2>1. InBatch(line)' = InBatch(line) /\ InBatch(line) \in Nat
      BY <1>1, FilesUntouched, CountTypes DEF CountInv
    <2> QED
      BY <2>1
  <1> QED
    BY <1>1, <1>2, <1>3, <1>4, FewerSending

\* Nothing is stored and no request made.
LEMMA CountInitially == Init => CountInv
  <1> SUFFICES ASSUME Init PROVE CountInv
    OBVIOUS
  <1>1. CollectorInv /\ IsFiniteSet(files)
    BY CollectorInitially, FS_EmptySet DEF Init
  <1>2. ASSUME NEW line \in Line
        PROVE  Copies(line) = 0 /\ InBatch(line) = 0 /\ OnTheWay(line) = 0
    <2>1. Places(line) = {}
      BY DEF Places, Init
    <2>2. Copies(line) = 0
      BY <1>1, <2>1, PlacesFinite, FS_EmptySet
    <2>3. Occurrences(<<>>, line.report) = 0
      BY OccurrencesEmpty
    <2>4. InBatch(line) = 0
      <3>1. batches[line.key][line.index] = <<>>
        BY DEF Init, Line, NoBatches, NoBatch
      <3> QED
        BY <2>3, <3>1 DEF InBatch
    <2>5. Cardinality(SendingOf(line.report)) = 0
      <3>1. SendingOf(line.report) = {}
        BY DEF SendingOf, Init
      <3> QED
        BY <3>1, FS_EmptySet
    <2> QED
      BY <2>2, <2>3, <2>4, <2>5 DEF OnTheWay, Init
  <1> QED
    BY <1>1, <1>2, CountTypes DEF CountInv

\* Every step of the collector and its clients keeps the count.
LEMMA CountStep ==
  ASSUME CollectorInv, CollectorInv', CountInv,
         [CollectorStep \/ \E q \in Request : ServeHTTP(q)]_collectorVars
  PROVE  CountInv'
  <1>1. CASE \E q \in Request : ServeHTTP(q)
    BY <1>1, ServeHTTPCounts
  <1>2. CASE \E q \in Request : SendReport(q)
    BY <1>2, SendReportCounts
  <1>3. CASE TakeReport
    BY <1>3, TakeReportCounts
  <1>4. CASE \E i \in Index : WriteFile(i)
    BY <1>4, WriteFileCounts
  <1>5. CASE Flush
    BY <1>5, FlushCounts
  <1>6. CASE Crash
    BY <1>6, CrashCounts
  <1>7. CASE \/ \E q \in Request : BreakConnection(q) \/ PanicOnClosed(q)
             \/ Signal \/ CloseChannel \/ Exit \/ Restart \/ UNCHANGED collectorVars
    BY <1>7, OtherStepsCount
  <1> QED
    BY <1>1, <1>2, <1>3, <1>4, <1>5, <1>6, <1>7
    DEF CollectorStep, HandlerStep, WriterStep, ShutdownStep

\* The count holds in every reachable state.
LEMMA CountInvariant == Spec => []CountInv
  <1>1. CollectorInv /\ CollectorInv' /\ CountInv
        /\ [CollectorStep \/ \E q \in Request : ServeHTTP(q)]_collectorVars => CountInv'
    BY CountStep
  <1> QED
    BY <1>1, CountInitially, CollectorInvariant, PTL DEF Spec

\* The count bounds the copies in the files.
LEMMA CountsOnce == CollectorInv /\ CountInv => StoredOncePerRequest
  <1> SUFFICES ASSUME CollectorInv, CountInv, NEW line \in FileLines
               PROVE  Copies(line) <= Cardinality(RequestsOf(line.report))
    BY DEF StoredOncePerRequest, RequestsOf
  <1>1. line \in Line
    BY DEF FileLines
  <1>2. Copies(line) + InBatch(line) + OnTheWay(line) <= Cardinality(RequestsOf(line.report))
    BY <1>1 DEF CountInv
  <1>3. /\ Copies(line) \in Nat /\ InBatch(line) \in Nat /\ OnTheWay(line) \in Nat
        /\ Cardinality(RequestsOf(line.report)) \in Nat
    BY <1>1, CountTypes DEF CountInv
  <1> QED
    BY <1>2, <1>3

\* A line is in the files once per request made for its report at most:
\* only a client that asks again makes a second copy, whatever crashes,
\* failed writes, restarts and the order of the steps do.
THEOREM StoredOnce == Spec => []StoredOncePerRequest
  BY CountsOnce, CollectorInvariant, CountInvariant, PTL
=============================================================================
