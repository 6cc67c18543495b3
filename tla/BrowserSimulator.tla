--------------------------- MODULE BrowserSimulator ---------------------------
(***************************************************************************)
(* The browser simulator (tools/browser_simulator.go) sending its reports  *)
(* to the collector, next to browsers that do the same.  The main goroutine*)
(* generates the reports and hands each to one of the request workers over *)
(* a channel without a buffer; the workers make the requests, again when   *)
(* the connection fails.                                                   *)
(***************************************************************************)
EXTENDS CollectorService

CONSTANTS
  Worker,     \* the request workers, --concurrency of them
  Simulated   \* the reports generated, in order: --send_count times the input

ASSUME SimulatorAssumption ==
  /\ Worker # {}
  /\ Simulated \in Seq(Report)
  /\ IsInjective(Simulated)

VARIABLES
  simulator,       \* "running", "done", or "exited" by log.Exit
  generated,       \* how many reports were handed to the workers
  busy,            \* per worker, the number of the report it sends, or 0
  conversionsSent  \* the reports answered with 200

simulatorVars == <<simulator, generated, busy, conversionsSent>>
allVars == <<collectorVars, simulatorVars>>

\* The report, marshalled with MarshalCBOR.
SimulatedEncoding == "cbor"

SimulatedContents ==
  {c \in Contents : \A n \in DOMAIN Simulated :
     /\ c[Simulated[n]].method = "POST"
     /\ c[Simulated[n]].encoding = SimulatedEncoding
     /\ Validates(c[Simulated[n]])}

SimInit ==
  /\ Init
  /\ content \in SimulatedContents
  /\ simulator = "running"
  /\ generated = 0
  /\ busy = [w \in Worker |-> 0]
  /\ conversionsSent = 0

\* The main goroutine waits for a worker that is free.
HandOver(w) ==
  /\ simulator = "running"
  /\ generated < Len(Simulated)
  /\ busy[w] = 0
  /\ generated' = generated + 1
  /\ busy' = [busy EXCEPT ![w] = generated']
  /\ UNCHANGED <<simulator, conversionsSent, collectorVars>>

\* client.Do, and the tries of the retrying client after a failed connection.
Attempt(w) ==
  /\ simulator = "running"
  /\ busy[w] # 0
  /\ \E q \in Request : q.report = Simulated[busy[w]] /\ ServeHTTP(q)
  /\ UNCHANGED simulatorVars

\* What the last attempt came to: nothing yet, or a status, or an error.
Outcome(w) ==
  LET answers == {answer[q] : q \in {p \in Request : p.report = Simulated[busy[w]]}}
  IN  IF answers \cap {"200", "400", "404"} # {}
        THEN CHOOSE a \in answers : a \in {"200", "400", "404"}
        ELSE IF answers = {"lost"} THEN "error" ELSE "none"

\* Mutant: a worker does not go on after an error.
FinishAnswered(w) ==
  /\ simulator = "running"
  /\ busy[w] # 0
  /\ Outcome(w) \notin {"none", "error"}
  /\ conversionsSent' = conversionsSent + (IF Outcome(w) = "200" THEN 1 ELSE 0)
  /\ busy' = [busy EXCEPT ![w] = 0]
  /\ UNCHANGED <<simulator, generated, collectorVars>>

\* Any other status and an error are only logged.
FinishRequest(w) ==
  /\ simulator = "running"
  /\ busy[w] # 0
  /\ Outcome(w) # "none"
  /\ conversionsSent' = conversionsSent + (IF Outcome(w) = "200" THEN 1 ELSE 0)
  /\ busy' = [busy EXCEPT ![w] = 0]
  /\ UNCHANGED <<simulator, generated, collectorVars>>

\* Mutant: the wait group is not waited for.
DoneEarly ==
  /\ simulator = "running"
  /\ generated = Len(Simulated)
  /\ simulator' = "done"
  /\ UNCHANGED <<generated, busy, conversionsSent, collectorVars>>

\* requestCh is closed, every worker has left its loop, done is closed.
Done ==
  /\ simulator = "running"
  /\ generated = Len(Simulated)
  /\ \A w \in Worker : busy[w] = 0
  /\ simulator' = "done"
  /\ UNCHANGED <<generated, busy, conversionsSent, collectorVars>>

\* A report cannot be generated: log.Exit ends the process with the requests
\* it has open, whose handlers go on.
ExitSimulator ==
  /\ simulator = "running"
  /\ generated < Len(Simulated)
  /\ simulator' = "exited"
  /\ answer' = [q \in Request |->
                  IF q.report \in Range(Simulated) /\ answer[q] = "waiting"
                    THEN "lost" ELSE answer[q]]
  /\ UNCHANGED <<generated, busy, conversionsSent, given, main, restarts, sending,
                 writerVars>>

\* Other clients.
BrowserRequest ==
  /\ \E q \in Request : q.report \notin Range(Simulated) /\ ServeHTTP(q)
  /\ UNCHANGED simulatorVars

WorkerStep(w) == HandOver(w) \/ Attempt(w) \/ FinishRequest(w)

SimNext ==
  \/ CollectorStep /\ UNCHANGED simulatorVars
  \/ BrowserRequest
  \/ \E w \in Worker : WorkerStep(w)
  \/ Done
  \/ ExitSimulator

SimSpec ==
  /\ SimInit
  /\ [][SimNext]_allVars
  /\ CollectorFairness
  /\ \A w \in Worker : WF_allVars(WorkerStep(w))
  /\ WF_allVars(Done)
-----------------------------------------------------------------------------
\* The simulator stops in the end, whatever the collector does: no worker
\* waits for it for ever, and main waits for no worker that has left.
SimulatorEnds == <>(simulator # "running")

\* "All conversions sent": before it says so, every report has an answer or
\* all tries of it have failed (the wait group and the done channel).
DoneWhenAllSent ==
  simulator = "done" =>
    \A n \in DOMAIN Simulated :
      LET answers == {answer[q] : q \in {p \in Request : p.report = Simulated[n]}}
      IN  answers \cap {"200", "400", "404"} # {} \/ answers = {"lost"}

\* "service/browser_simulator simulates the process how the browser creates
\* the partial reports and sends them to the collector_server endpoints"
\* (README.md:28): no report of it is turned away.
SimulatedReportsCollected ==
  \A n \in DOMAIN Simulated, q \in Request :
    q.report = Simulated[n] => answer[q] \notin {"400", "404"}
=============================================================================
