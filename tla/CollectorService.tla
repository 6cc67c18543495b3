--------------------------- MODULE CollectorService ---------------------------
(***************************************************************************)
(* The collector: its HTTP handler and the goroutine that batches and      *)
(* writes the reports (service/collectorservice.go), the process that      *)
(* hosts them and shuts them down (service/collector_server.go), and what  *)
(* they ask of a report (shared/reporttypes.go).                           *)
(*                                                                         *)
(* Every request has a handler of its own, which blocks when the channel   *)
(* to the writer is full; the writer is one goroutine, which takes nothing *)
(* from the channel while the files of a batch are being written.          *)
(***************************************************************************)
EXTENDS Naturals, FiniteSets, SequencesExt

CONSTANTS
  Report,         \* the reports that are sent
  Contents,       \* bound: what the reports may contain, functions of Report
  MaxAttempts,    \* bound: requests made for one report
  MaxRestarts,    \* bound: how often the collector is started again
  FaultSets,      \* bound: what may go wrong together, sets of FaultKinds
  BatchSize,      \* --batch_size
  BufferPercent   \* reportsChannelBufferFactor, 20 in the code

FaultKinds ==
  {"write",    \* a file cannot be written, or is lost when it is closed
   "network",  \* the connection of a request breaks
   "timeout",  \* the handlers outlast the ten seconds they have to end
   "crash",    \* the process stops
   "restart"}  \* an instance that has stopped is replaced

\* A payload: whether its base64 strings decode.  An empty one does.
Payload == [encrypted : {"valid", "invalid"},
            cleartext : {"empty", "valid", "invalid"}]

Content == [method : {"GET", "POST"}, path : BOOLEAN, encoding : {"json", "cbor"},
            payloads : Seq(Payload)]

ASSUME CollectorAssumption ==
  /\ Contents \subseteq [Report -> Content]
  /\ MaxAttempts \in Nat \ {0}
  /\ MaxRestarts \in Nat
  /\ FaultSets \subseteq SUBSET FaultKinds
  /\ BatchSize \in Nat \ {0}
  /\ BufferPercent \in 0 .. 100

Request == [report : Report, attempt : 1 .. MaxAttempts]

Answer == {"none", "waiting", "200", "400", "404", "lost"}

Protocol == {"one-party", "mpc"}
Form == {"encrypted", "debug-encrypted", "debug-cleartext"}
BatchKey == Protocol \X Form
Index == {0, 1}

\* The report's payload at an index, in the form of a batch key.
Line == [key : BatchKey, index : Index, report : Report]

VARIABLES
  content,    \* what every report contains: it never changes
  faults,     \* what may go wrong in this behaviour: it never changes
  main,       \* the state of the process
  restarts,   \* how often it was started again
  answer,     \* what the client knows of each request
  sending,    \* the requests whose handler is to send the report to the writer
  reportsCh,  \* the reports in the channel
  writer,     \* what the writer goroutine does
  batches,    \* per batch key and index, the lines held in memory
  toWrite,    \* the keys whose batches are to be written, the current one first
  pending,    \* the indexes of the current one whose file is not written yet
  timestamp,  \* of the current batch
  files,      \* the files in the batch directory
  dropped     \* the lines that a crash or a failed write has lost

given == <<content, faults>>
writerVars == <<reportsCh, writer, batches, toWrite, pending, timestamp, files, dropped>>
collectorVars == <<given, main, restarts, answer, sending, writerVars>>

NoBatch == [i \in Index |-> <<>>]
NoBatches == [k \in BatchKey |-> NoBatch]

Init ==
  /\ content \in Contents
  /\ faults \in FaultSets
  /\ main = "serving"
  /\ restarts = 0
  /\ answer = [q \in Request |-> "none"]
  /\ sending = {}
  /\ reportsCh = <<>>
  /\ writer = "ready"
  /\ batches = NoBatches
  /\ toWrite = <<>>
  /\ pending = {}
  /\ timestamp = 0
  /\ files = {}
  /\ dropped = {}
-----------------------------------------------------------------------------
(* Reports. *)

\* Mutant: a third payload is taken for one of the MPC protocol.
GetProtocolLenient(c) ==
  CASE Len(c.payloads) = 1 -> "one-party"
    [] Len(c.payloads) \in {2, 3} -> "mpc"
    [] OTHER -> "error"

GetProtocol(c) ==
  CASE Len(c.payloads) = 1 -> "one-party"
    [] Len(c.payloads) = 2 -> "mpc"
    [] OTHER -> "error"

Validates(c) == Len(c.payloads) \in {1, 2}

IsDebugReport(c) == c.payloads[1].cleartext # "empty"

EncryptedRecordsConvert(c) == \A i \in DOMAIN c.payloads : c.payloads[i].encrypted = "valid"

CleartextRecordsConvert(c) == \A i \in DOMAIN c.payloads : c.payloads[i].cleartext # "invalid"

\* Mutant: the cleartext of a debug report is not converted before the
\* encrypted payloads are kept.
FormsUnchecked(c) ==
  IF ~ EncryptedRecordsConvert(c) THEN <<>>
  ELSE IF ~ IsDebugReport(c) THEN <<"encrypted">>
  ELSE IF CleartextRecordsConvert(c) THEN <<"debug-encrypted", "debug-cleartext">>
  ELSE <<"debug-encrypted">>

\* The forms in which a report is batched, in the order they are written:
\* none when some payload of it does not convert.
Forms(c) ==
  IF ~ EncryptedRecordsConvert(c) THEN <<>>
  ELSE IF ~ IsDebugReport(c) THEN <<"encrypted">>
  ELSE IF CleartextRecordsConvert(c) THEN <<"debug-encrypted", "debug-cleartext">>
  ELSE <<>>

BatchKeys(c) ==
  IF GetProtocol(c) = "error" THEN <<>>
  ELSE [n \in DOMAIN Forms(c) |-> <<GetProtocol(c), Forms(c)[n]>>]

Indexes(key) == IF key[1] = "mpc" THEN Index ELSE {0}

\* What is to be stored of a report.
LinesOf(r) ==
  {line \in Line : /\ line.report = r
                   /\ line.key \in Range(BatchKeys(content[r]))
                   /\ line.index \in Indexes(line.key)}
-----------------------------------------------------------------------------
(* The HTTP handler. *)

Decodes(c) == c.encoding = "json"

\* The first status written is the one that is sent.
Status(c) ==
  CASE c.method = "GET" -> "200"
    [] c.method # "GET" /\ ~ c.path -> "404"
    [] c.method # "GET" /\ c.path /\ ~ (Decodes(c) /\ Validates(c)) -> "400"
    [] OTHER -> "200"

\* Only a GET and a body that does not decode end the handler early: a report
\* on another path, and one that does not validate, go on to the writer.
Forwards(c) == c.method # "GET" /\ Decodes(c)

\* A client tries again when it has no answer.
NextAttempt(q) ==
  /\ answer[q] = "none"
  /\ \A p \in Request : p.report = q.report /\ p.attempt < q.attempt => answer[p] = "lost"

\* The request arrives, and its handler comes to the channel or returns; no
\* connection is made when the collector does not listen.
ServeHTTP(q) ==
  LET c == content[q.report]
  IN  /\ NextAttempt(q)
      /\ \/ /\ main # "serving"
            /\ answer' = [answer EXCEPT ![q] = "lost"]
            /\ UNCHANGED sending
         \/ /\ main = "serving" /\ ~ Forwards(c)
            /\ answer' = [answer EXCEPT ![q] = Status(c)]
            /\ UNCHANGED sending
         \/ /\ main = "serving" /\ Forwards(c)
            /\ answer' = [answer EXCEPT ![q] = "waiting"]
            /\ sending' = sending \cup {q}
      /\ UNCHANGED <<given, main, restarts, writerVars>>

\* The client gives up, or its connection breaks: the handler goes on.
BreakConnection(q) ==
  /\ "network" \in faults
  /\ answer[q] = "waiting"
  /\ answer' = [answer EXCEPT ![q] = "lost"]
  /\ UNCHANGED <<given, main, restarts, sending, writerVars>>

ChannelClosed == main \in {"flushing", "exited"}

Capacity == (BatchSize * BufferPercent) \div 100

\* Without a buffer the writer takes the report from the handler's hands.
HasRoom ==
  \/ Len(reportsCh) < Capacity
  \/ Capacity = 0 /\ reportsCh = <<>> /\ writer = "ready"

\* What the client learns when the handler ends, if it still listens.
Reply(q, status) == [answer EXCEPT ![q] = IF @ = "waiting" THEN status ELSE @]

\* Mutant: the report is dropped instead of blocking when there is no room.
SendReportOrDrop(q) ==
  /\ q \in sending
  /\ ~ ChannelClosed
  /\ reportsCh' = IF HasRoom THEN Append(reportsCh, q.report) ELSE reportsCh
  /\ answer' = Reply(q, Status(content[q.report]))
  /\ sending' = sending \ {q}
  /\ UNCHANGED <<given, main, restarts, writer, batches, toWrite, pending,
                 timestamp, files, dropped>>

SendReport(q) ==
  /\ q \in sending
  /\ ~ ChannelClosed
  /\ HasRoom
  /\ reportsCh' = Append(reportsCh, q.report)
  /\ answer' = Reply(q, Status(content[q.report]))
  /\ sending' = sending \ {q}
  /\ UNCHANGED <<given, main, restarts, writer, batches, toWrite, pending,
                 timestamp, files, dropped>>

\* A send on the closed channel panics: the server closes that connection.
PanicOnClosed(q) ==
  /\ q \in sending
  /\ ChannelClosed
  /\ answer' = Reply(q, "lost")
  /\ sending' = sending \ {q}
  /\ UNCHANGED <<given, main, restarts, writerVars>>
-----------------------------------------------------------------------------
(* The writer. *)

\* Mutant: a file is made of an empty list.
ToWriteOfAll(batch) == Index

\* What is left to write of a batch: no file is made of an empty list.
ToWriteOf(batch) == {i \in Index : batch[i] # <<>>}

\* Mutant: the lists of the two helpers grow at different ends.
AddReportUnordered(bs, r) ==
  [k \in BatchKey |->
     IF k \in Range(BatchKeys(content[r]))
       THEN [i \in Index |-> IF i \notin Indexes(k) THEN bs[k][i]
                             ELSE IF i = 0 THEN Append(bs[k][i], r) ELSE <<r>> \o bs[k][i]]
       ELSE bs[k]]

AddReport(bs, r) ==
  [k \in BatchKey |->
     IF k \in Range(BatchKeys(content[r]))
       THEN [i \in Index |-> IF i \in Indexes(k) THEN Append(bs[k][i], r) ELSE bs[k][i]]
       ELSE bs[k]]

\* Mutant: a batch is written when it has outgrown its size.
IsBatchFullLate(batch) == Len(batch[0]) > BatchSize

IsBatchFull(batch) == Len(batch[0]) = BatchSize

\* Start on the batches of these keys, one after the other.
StartWriting(bs, keys) ==
  /\ toWrite' = keys
  /\ pending' = ToWriteOf(bs[Head(keys)])
  /\ timestamp' = timestamp + 1

\* Mutant: return instead of continue when a report cannot be stored.
TakeReportOrStop ==
  /\ writer = "ready"
  /\ reportsCh # <<>>
  /\ reportsCh' = Tail(reportsCh)
  /\ LET r == Head(reportsCh)
         keys == BatchKeys(content[r])
     IN  /\ batches' = AddReport(batches, r)
         /\ IF keys # <<>> /\ IsBatchFull(batches'[Head(keys)])
              THEN writer' = "writing" /\ StartWriting(batches', keys)
              ELSE /\ writer' = IF keys = <<>> THEN "done" ELSE "ready"
                   /\ UNCHANGED <<toWrite, pending, timestamp>>
  /\ UNCHANGED <<given, main, restarts, answer, sending, files, dropped>>

TakeReport ==
  /\ writer = "ready"
  /\ reportsCh # <<>>
  /\ reportsCh' = Tail(reportsCh)
  /\ LET r == Head(reportsCh)
         keys == BatchKeys(content[r])
     IN  /\ batches' = AddReport(batches, r)
         /\ IF keys # <<>> /\ IsBatchFull(batches'[Head(keys)])
              THEN writer' = "writing" /\ StartWriting(batches', keys)
              ELSE UNCHANGED <<writer, toWrite, pending, timestamp>>
  /\ UNCHANGED <<given, main, restarts, answer, sending, files, dropped>>

\* The channel is closed and empty: what is in memory is written, in the
\* order in which the map is iterated.
Flush ==
  /\ writer = "ready"
  /\ ChannelClosed
  /\ reportsCh = <<>>
  /\ LET keys == {k \in BatchKey : ToWriteOf(batches[k]) # {}}
     IN  IF keys = {}
           THEN writer' = "done" /\ UNCHANGED <<toWrite, pending, timestamp>>
           ELSE \E order \in SetToSeqs(keys) :
                  writer' = "flushing" /\ StartWriting(batches, order)
  /\ UNCHANGED <<given, main, restarts, answer, sending, reportsCh, batches, files, dropped>>

\* Mutant: the lists of a batch are kept when it has been written.
AfterBatchKept ==
  /\ UNCHANGED batches
  /\ IF Len(toWrite) > 1
       THEN UNCHANGED writer /\ StartWriting(batches, Tail(toWrite))
       ELSE /\ writer' = IF writer = "flushing" THEN "done" ELSE "ready"
            /\ toWrite' = <<>> /\ pending' = {} /\ UNCHANGED timestamp

\* The lists of a batch are reset, and the writer goes on to the next one.
AfterBatch ==
  /\ batches' = [batches EXCEPT ![Head(toWrite)] = NoBatch]
  /\ IF Len(toWrite) > 1
       THEN UNCHANGED writer /\ StartWriting(batches, Tail(toWrite))
       ELSE /\ writer' = IF writer = "flushing" THEN "done" ELSE "ready"
            /\ toWrite' = <<>> /\ pending' = {} /\ UNCHANGED timestamp

\* A goroutine per index writes its file.  An error is only logged; it also
\* cancels the other goroutine, which may then fail or have written its file.
WriteFile(i) ==
  LET key == Head(toWrite)
      lines == batches[key][i]
  IN  /\ i \in pending
      /\ \/ /\ files' = files \cup
                 {[key |-> key, index |-> i, timestamp |-> timestamp, reports |-> lines]}
            /\ UNCHANGED dropped
         \/ /\ "write" \in faults
            /\ dropped' = dropped \cup
                 {[key |-> key, index |-> i, report |-> r] : r \in Range(lines)}
            /\ UNCHANGED files
      /\ IF pending = {i}
           THEN AfterBatch
           ELSE pending' = pending \ {i} /\ UNCHANGED <<writer, batches, toWrite, timestamp>>
      /\ UNCHANGED <<given, main, restarts, answer, sending, reportsCh>>
-----------------------------------------------------------------------------
(* The process. *)

\* SIGINT or SIGTERM: srv.Shutdown stops listening.
Signal ==
  /\ main = "serving"
  /\ main' = "closing"
  /\ UNCHANGED <<given, restarts, answer, sending, writerVars>>

\* Mutant: wg.Wait comes before the channel is closed.
CloseChannelAfterWriter ==
  /\ main = "closing"
  /\ writer = "done"
  /\ main' = "flushing"
  /\ UNCHANGED <<given, restarts, answer, sending, writerVars>>

\* srv.Shutdown returns when all handlers have ended or the time is up; then
\* handler.Shutdown closes the channel.
CloseChannel ==
  /\ main = "closing"
  /\ sending = {} \/ "timeout" \in faults
  /\ main' = "flushing"
  /\ UNCHANGED <<given, restarts, answer, sending, writerVars>>

\* wg.Wait returns; the handlers that are left end with the process.
Exit ==
  /\ main = "flushing"
  /\ writer = "done"
  /\ main' = "exited"
  /\ sending' = {}
  /\ answer' = [q \in Request |-> IF q \in sending THEN Reply(q, "lost")[q] ELSE answer[q]]
  /\ UNCHANGED <<given, restarts, writerVars>>

Up == main \in {"serving", "closing", "flushing"}

\* Whether the writer is done with this list of the batch it is writing.
Handled(key, i) == toWrite # <<>> /\ key = Head(toWrite) /\ i \notin pending

\* The lines that are in memory only.
MemoryLines ==
  (UNION {LinesOf(r) : r \in Range(reportsCh)})
  \cup {line \in Line : /\ ~ Handled(line.key, line.index)
                        /\ line.report \in Range(batches[line.key][line.index])}

FileLines == {line \in Line :
                \E f \in files : /\ f.key = line.key /\ f.index = line.index
                                 /\ line.report \in Range(f.reports)}

Crash ==
  /\ "crash" \in faults
  /\ Up
  /\ main' = "crashed"
  /\ dropped' = dropped \cup MemoryLines
  /\ sending' = {}
  /\ answer' = [q \in Request |-> IF q \in sending THEN Reply(q, "lost")[q] ELSE answer[q]]
  /\ reportsCh' = <<>> /\ batches' = NoBatches /\ toWrite' = <<>> /\ pending' = {}
  /\ UNCHANGED <<given, restarts, writer, timestamp, files>>

Restart ==
  /\ "restart" \in faults
  /\ main \in {"exited", "crashed"}
  /\ restarts < MaxRestarts
  /\ main' = "serving"
  /\ restarts' = restarts + 1
  /\ writer' = "ready"
  /\ UNCHANGED <<given, answer, sending, reportsCh, batches, toWrite, pending,
                 timestamp, files, dropped>>
-----------------------------------------------------------------------------
HandlerStep == \E q \in Request : SendReport(q) \/ PanicOnClosed(q)

WriterStep == TakeReport \/ Flush \/ \E i \in Index : WriteFile(i)

ShutdownStep == CloseChannel \/ Exit

CollectorStep ==
  \/ HandlerStep
  \/ WriterStep
  \/ ShutdownStep
  \/ Signal
  \/ Crash
  \/ Restart
  \/ \E q \in Request : BreakConnection(q)

\* Goroutines run, writes end, and srv.Shutdown gives up after ten seconds.
\* Signals, faults, restarts and what clients do are not forced.  There are
\* finitely many requests, so that no handler is passed over for ever.
CollectorFairness ==
  /\ WF_collectorVars(HandlerStep)
  /\ WF_collectorVars(WriterStep)
  /\ WF_collectorVars(ShutdownStep)

Spec ==
  /\ Init
  /\ [][CollectorStep \/ \E q \in Request : ServeHTTP(q)]_collectorVars
  /\ CollectorFairness
-----------------------------------------------------------------------------
(* Correctness. *)

WriterState == {"ready", "writing", "flushing", "done"}

\* The variables have their types, the writer has keys to write exactly while
\* it writes (bufferedReportWriter.start), and no file is empty.
TypeOK ==
  /\ content \in Contents
  /\ faults \in FaultSets
  /\ main \in {"serving", "closing", "flushing", "exited", "crashed"}
  /\ restarts \in 0 .. MaxRestarts
  /\ answer \in [Request -> Answer]
  /\ sending \subseteq Request
  /\ reportsCh \in Seq(Report)
  /\ writer \in WriterState
  /\ batches \in [BatchKey -> [Index -> Seq(Report)]]
  /\ toWrite \in Seq(BatchKey)
  /\ pending \subseteq Index
  /\ timestamp \in Nat
  /\ files \subseteq [key : BatchKey, index : Index, timestamp : Nat,
                      reports : Seq(Report) \ {<<>>}]
  /\ dropped \subseteq Line
  /\ toWrite # <<>> <=> Up /\ writer \in {"writing", "flushing"}

\* A report answered with 200 is on its way to its files while the process
\* runs, and is in all of them when it has exited in order: nothing is lost
\* between the handlers, the channel, the batches and the flush, but by a
\* crash or a write that fails.
AcceptedIsKept ==
  \A q \in Request :
    answer[q] = "200" /\ Forwards(content[q.report]) =>
      LinesOf(q.report) \subseteq
        FileLines \cup dropped \cup (IF Up THEN MemoryLines ELSE {})

\* The files of the two helpers of one batch hold the same reports in the
\* same order, unless the write of the other one failed or the process
\* crashed before it: a helper's share without its partner's is of no use.
FilesPaired ==
  \A f \in files : \A i \in Indexes(f.key) :
    \/ f.timestamp = timestamp /\ i \in pending
    \/ \E g \in files : g.index = i /\ g = [f EXCEPT !.index = i]
    \/ \A r \in Range(f.reports) : [key |-> f.key, index |-> i, report |-> r] \in dropped

OtherForm(key) ==
  IF key[2] = "debug-encrypted" THEN <<key[1], "debug-cleartext">>
                                ELSE <<key[1], "debug-encrypted">>

\* "ensures the "debug" and "cleartext" batches contain the same data"
\* (collectorservice.go:168): when nothing is being written, a debug file has
\* a counterpart in the other form with the same reports, up to lost lines.
DebugBatchesAgree ==
  toWrite = <<>> =>
    \A f \in files :
      f.key[2] # "encrypted" =>
        \/ \E g \in files : /\ g.key = OtherForm(f.key) /\ g.index = f.index
                            /\ g.reports = f.reports
        \/ \A r \in Range(f.reports) :
             [key |-> OtherForm(f.key), index |-> f.index, report |-> r] \in dropped

\* A report that does not validate is answered with 400 and handled all the
\* same (collectorservice.go:97): it is never in a file or a batch.
RejectedNeverStored ==
  \A r \in Report :
    ~ Validates(content[r]) =>
      \A line \in FileLines \cup dropped \cup MemoryLines : line.report # r

\* The lists in memory never outgrow a batch and the channel never its
\* buffer, and only the batches flushed at a shutdown are smaller than
\* BatchSize: a file of every full batch has that many lines.
BatchesFill ==
  /\ Len(reportsCh) <= IF Capacity = 0 THEN 1 ELSE Capacity
  /\ \A k \in BatchKey, i \in Index : Len(batches[k][i]) <= BatchSize
  /\ \A f \in files : Len(f.reports) <= BatchSize
  /\ restarts = 0 /\ main \in {"serving", "closing"} =>
       \A f \in files : Len(f.reports) = BatchSize

\* How often a line was stored.
Copies(line) ==
  Cardinality({c \in files \X (1 .. BatchSize) :
                 /\ c[1].key = line.key /\ c[1].index = line.index
                 /\ c[2] \in DOMAIN c[1].reports /\ c[1].reports[c[2]] = line.report})

\* A report is stored once per request made for it at most: only a client
\* that asks again makes a second copy, never the channel, the batches or the
\* flush.
StoredOncePerRequest ==
  \A line \in FileLines :
    Copies(line) <= Cardinality({q \in Request : q.report = line.report /\ answer[q] # "none"})

\* A handler blocked on the channel comes free: the client of every request
\* has an answer or a closed connection in the end, whatever the shutdown,
\* the other handlers and failing writes do.
RequestsEnd == <>[](\A q \in Request : answer[q] # "waiting")

\* A shutdown ends: handlers, writer and main never wait for each other.
ShutdownEnds == main = "closing" ~> ~ Up
=============================================================================
