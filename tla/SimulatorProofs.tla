---------------------------- MODULE SimulatorProofs ----------------------------
(***************************************************************************)
(* Theorems about the simulator and the collector that it sends to: the    *)
(* collector keeps what it promises when the simulator ends with its       *)
(* requests open, and the simulator says that it is done only when it is.  *)
(***************************************************************************)
EXTENDS BrowserSimulator, CollectorProofs

CollectorNext == CollectorStep \/ \E q \in Request : ServeHTTP(q)

\* An answer that a client has, and a connection that is lost, stay so.
Final == {"200", "400", "404", "lost"}
FinalStays == \A q \in Request : answer[q] \in Final => answer'[q] = answer[q]

\* Report n has an answer, or all tries of it have failed.
Complete(n) ==
  LET answers == {answer[q] : q \in {p \in Request : p.report = Simulated[n]}}
  IN  answers \cap {"200", "400", "404"} # {} \/ answers = {"lost"}

\* Every report that was handed over is complete, or some worker has it.
SimulatorInv ==
  /\ simulator \in {"running", "done", "exited"}
  /\ generated \in 0 .. Len(Simulated)
  /\ busy \in [Worker -> 0 .. Len(Simulated)]
  /\ \A n \in 1 .. generated : Complete(n) \/ \E w \in Worker : busy[w] = n
  /\ simulator = "done" => generated = Len(Simulated) /\ \A w \in Worker : busy[w] = 0
-----------------------------------------------------------------------------
(* The collector next to the simulator. *)

\* A step of both is one of the collector, or the simulator's exit.
LEMMA StepOfBoth ==
  ASSUME [SimNext]_allVars
  PROVE  [CollectorNext]_collectorVars \/ ExitSimulator
  <1>1. CASE UNCHANGED allVars
    BY <1>1 DEF allVars
  <1>2. CASE CollectorStep \/ BrowserRequest \/ Done
    BY <1>2 DEF CollectorNext, BrowserRequest, Done
  <1>3. CASE \E w \in Worker : WorkerStep(w)
    BY <1>3 DEF WorkerStep, HandOver, Attempt, FinishRequest, CollectorNext
  <1> QED
    BY <1>1, <1>2, <1>3 DEF SimNext

\* The exit of the simulator breaks its connections, and the collector's
\* handlers go on.
LEMMA ExitSimulatorKeeps ==
  ASSUME CollectorInv, CountInv, ExitSimulator
  PROVE  CollectorInv' /\ CountInv'
  <1>1. /\ UNCHANGED <<given, main, restarts, sending, writerVars>>
        /\ answer' = [q \in Request |->
                        IF q.report \in Range(Simulated) /\ answer[q] = "waiting"
                          THEN "lost" ELSE answer[q]]
    BY DEF ExitSimulator
  <1>2. /\ answer' \in [Request -> Answer]
        /\ \A q \in Request : answer'[q] = "200" => answer[q] = "200"
    BY <1>1 DEF CollectorInv, TypeOK, Answer
  <1>3. CollectorInv'
    <2>1. sending' \subseteq Request /\ (~ Up => sending' = {})
      BY <1>1 DEF CollectorInv, TypeOK, WriterInv
    <2> QED
      BY <1>1, <1>2, <2>1, HandlerFrame
  <1>4. CountInv'
    <2>1. Remembered /\ sending' \subseteq sending
      BY <1>1 DEF Remembered
    <2>2. UNCHANGED <<content, files, reportsCh, batches, toWrite, pending>>
      BY <1>1 DEF given, writerVars
    <2>3. ASSUME NEW line \in Line PROVE InBatch(line)' <= InBatch(line)
      <3>1. InBatch(line)' = InBatch(line) /\ InBatch(line) \in Nat
        BY <2>2, FilesUntouched, CountTypes DEF CountInv
      <3> QED
        BY <3>1
    <2> QED
      BY <1>3, <2>1, <2>2, <2>3, FewerSending
  <1> QED
    BY <1>3, <1>4

\* What is proved of the collector under any clients holds with a simulator
\* among them that may exit at any moment.
LEMMA SimulatedCollector == SimSpec => [](CollectorInv /\ CountInv)
  <1>1. SimInit => CollectorInv /\ CountInv
    BY CollectorInitially, CountInitially DEF SimInit
  <1>2. CollectorInv /\ CountInv /\ [SimNext]_allVars => CollectorInv' /\ CountInv'
    <2>1. CollectorInv /\ [CollectorNext]_collectorVars => CollectorInv'
      BY CollectorStepKeeps, ServeHTTPKeeps, CollectorStutters DEF CollectorNext
    <2>2. CollectorInv /\ CollectorInv' /\ CountInv /\ [CollectorNext]_collectorVars => CountInv'
      BY CountStep DEF CollectorNext
    <2> QED
      BY <2>1, <2>2, StepOfBoth, ExitSimulatorKeeps
  <1> QED
    BY <1>1, <1>2, PTL DEF SimSpec

\* All that the collector promises, for a simulator next to other clients and
\* an exit of it at any moment: what is accepted is stored or lost by a fault,
\* once per request at most, in files that agree, and never unless it is valid.
THEOREM SimulatedCollectorKeeps ==
  SimSpec => []( /\ TypeOK /\ AcceptedIsKept /\ FilesPaired /\ DebugBatchesAgree
                 /\ RejectedNeverStored /\ BatchesFill /\ StoredOncePerRequest )
  <1>1. CollectorInv => TypeOK /\ AcceptedIsKept /\ FilesPaired /\ BatchesFill
    BY DEF CollectorInv
  <1> QED
    BY <1>1, DebugAgrees, RejectedNot, CountsOnce, SimulatedCollector, PTL
-----------------------------------------------------------------------------
(* The simulator. *)

\* No step of either changes an answer that a client has.
LEMMA AnswersStay ==
  ASSUME CollectorInv, [SimNext]_allVars
  PROVE  FinalStays
  <1> USE DEF FinalStays, Final
  <1>0. answer \in [Request -> Answer]
    BY DEF CollectorInv, TypeOK
  <1>1. CASE ExitSimulator
    BY <1>1 DEF ExitSimulator
  <1>2. CASE UNCHANGED collectorVars
    BY <1>2 DEF collectorVars
  <1>3. ASSUME NEW q \in Request, ServeHTTP(q) PROVE FinalStays
    BY <1>0, <1>3 DEF ServeHTTP, NextAttempt
  <1>4. ASSUME NEW q \in Request, SendReport(q) \/ PanicOnClosed(q) \/ BreakConnection(q)
        PROVE  FinalStays
    BY <1>0, <1>4 DEF SendReport, PanicOnClosed, BreakConnection, Reply
  <1>5. CASE WriterStep
    BY <1>5 DEF WriterStep, TakeReport, Flush, WriteFile
  <1>6. CASE Signal \/ CloseChannel \/ Restart
    BY <1>6 DEF Signal, CloseChannel, Restart
  <1>7. CASE Exit \/ Crash
    BY <1>0, <1>7 DEF Exit, Crash, Reply
  <1> QED
    BY <1>1, <1>2, <1>3, <1>4, <1>5, <1>6, <1>7, StepOfBoth
    DEF CollectorNext, CollectorStep, HandlerStep, ShutdownStep

\* So a report that is complete stays complete.
LEMMA CompleteStays ==
  ASSUME FinalStays, NEW n, Complete(n)
  PROVE  Complete(n)'
  <1> DEFINE Tries == {p \in Request : p.report = Simulated[n]}
  <1>1. CASE \E q \in Tries : answer[q] \in {"200", "400", "404"}
    BY <1>1 DEF FinalStays, Final, Complete
  <1>2. CASE {answer[q] : q \in Tries} = {"lost"}
    <2>1. \A q \in Tries : answer'[q] = "lost"
      BY <1>2 DEF FinalStays, Final
    <2>2. \E q \in Tries : TRUE
      BY <1>2
    <2>3. {answer'[q] : q \in Tries} = {"lost"}
      BY <2>1, <2>2
    <2> QED
      BY <2>3 DEF Complete
  <1> QED
    BY <1>1, <1>2 DEF Complete

\* A worker that goes on to another report has completed the one it had.
LEMMA FinishedIsComplete ==
  ASSUME NEW w \in Worker, FinishRequest(w)
  PROVE  Complete(busy[w])
  BY DEF FinishRequest, Outcome, Complete

\* Every step keeps what main and the workers know of the reports.
LEMMA SimulatorStep ==
  ASSUME CollectorInv, SimulatorInv, [SimNext]_allVars
  PROVE  SimulatorInv'
  <1>1. \A n : Complete(n) => Complete(n)'
    BY AnswersStay, CompleteStays
  <1>2. Len(Simulated) \in Nat
    BY SimulatorAssumption
  <1>3. CASE UNCHANGED simulatorVars
    BY <1>1, <1>3 DEF simulatorVars, SimulatorInv
  <1>4. ASSUME NEW w \in Worker, HandOver(w) PROVE SimulatorInv'
    <2>1. /\ simulator = "running" /\ simulator' = simulator
          /\ generated < Len(Simulated) /\ generated' = generated + 1
          /\ busy[w] = 0 /\ busy' = [busy EXCEPT ![w] = generated + 1]
      BY <1>4 DEF HandOver
    <2>2. generated' \in 0 .. Len(Simulated) /\ busy' \in [Worker -> 0 .. Len(Simulated)]
      BY <1>2, <2>1 DEF SimulatorInv
    <2>3. ASSUME NEW n \in 1 .. generated'
          PROVE  Complete(n)' \/ \E v \in Worker : busy'[v] = n
      <3>1. CASE n = generated + 1
        BY <2>1, <3>1 DEF SimulatorInv
      <3>2. CASE n # generated + 1
        <4>1. n \in 1 .. generated
          BY <1>2, <2>1, <3>2 DEF SimulatorInv
        <4>2. CASE Complete(n)
          BY <1>1, <4>2
        <4>3. CASE \E v \in Worker : busy[v] = n
          BY <2>1, <4>1, <4>3 DEF SimulatorInv
        <4> QED
          BY <4>1, <4>2, <4>3 DEF SimulatorInv
      <3> QED
        BY <3>1, <3>2
    <2> QED
      BY <2>1, <2>2, <2>3 DEF SimulatorInv
  <1>5. ASSUME NEW w \in Worker, FinishRequest(w) PROVE SimulatorInv'
    <2>1. /\ simulator = "running" /\ simulator' = simulator /\ generated' = generated
          /\ busy' = [busy EXCEPT ![w] = 0]
      BY <1>5 DEF FinishRequest
    <2>2. busy' \in [Worker -> 0 .. Len(Simulated)]
      BY <1>2, <2>1 DEF SimulatorInv
    <2>3. Complete(busy[w])
      BY <1>5, FinishedIsComplete
    <2>4. ASSUME NEW n \in 1 .. generated
          PROVE  Complete(n)' \/ \E v \in Worker : busy'[v] = n
      <3>1. CASE Complete(n)
        BY <1>1, <3>1
      <3>2. CASE ~ Complete(n)
        <4>1. PICK v \in Worker : busy[v] = n
          BY <3>2 DEF SimulatorInv
        <4>2. v # w
          BY <2>3, <3>2, <4>1
        <4> QED
          BY <2>1, <4>1, <4>2 DEF SimulatorInv
      <3> QED
        BY <3>1, <3>2
    <2> QED
      BY <2>1, <2>2, <2>4 DEF SimulatorInv
  <1>6. CASE Done
    BY <1>1, <1>6 DEF Done, SimulatorInv
  <1>7. CASE ExitSimulator
    BY <1>1, <1>7 DEF ExitSimulator, SimulatorInv
  <1>8. ASSUME NEW w \in Worker, Attempt(w) PROVE SimulatorInv'
    BY <1>3, <1>8 DEF Attempt
  <1> QED
    BY <1>3, <1>4, <1>5, <1>6, <1>7, <1>8 DEF SimNext, BrowserRequest, WorkerStep, allVars

\* The simulator says "All conversions sent" only when every report has an
\* answer or all tries of it have failed, for any number of reports and
\* workers and whatever the collector does meanwhile.
THEOREM DoneMeansSent == SimSpec => []DoneWhenAllSent
  <1>1. SimInit => SimulatorInv
    <2>1. Len(Simulated) \in Nat
      BY SimulatorAssumption
    <2> QED
      BY <2>1 DEF SimInit, SimulatorInv
  <1>2. CollectorInv /\ SimulatorInv /\ [SimNext]_allVars => SimulatorInv'
    BY SimulatorStep
  <1>3. SimulatorInv => DoneWhenAllSent
    <2> SUFFICES ASSUME SimulatorInv, simulator = "done", NEW n \in DOMAIN Simulated
                 PROVE  Complete(n)
      BY DEF DoneWhenAllSent, Complete
    <2>1. n \in 1 .. generated
      BY SimulatorAssumption DEF SimulatorInv
    <2> QED
      BY <2>1 DEF SimulatorInv
  <1> QED
    BY <1>1, <1>2, <1>3, SimulatedCollector, PTL DEF SimSpec
=============================================================================
