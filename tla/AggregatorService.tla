-------------------------- MODULE AggregatorService --------------------------
(***************************************************************************)
(* The PubSub handler of the aggregator service                            *)
(* (service/aggregatorservice.go, SetupPullRequests) running one query on  *)
(* the two helpers, with what it touches: the helper's subscription, the   *)
(* Beam jobs it starts, the result files the helpers read from each other. *)
(*                                                                         *)
(* A worker is one replica of a helper's aggregator server.  It handles    *)
(* one message at a time; each of its steps is one call the handler makes, *)
(* so that another worker, a job or a crash may come between any two.      *)
(***************************************************************************)
EXTENDS Query

CONSTANTS
  Worker,               \* the replicas of both helpers
  HelperOf,             \* the helper each replica belongs to
  Kinds,                \* the kinds of query sent, see QueryKinds
  PipelineRunner,       \* --pipeline_runner of each helper
  Faults,               \* what the environment may do wrong, see FaultKinds
  DeadLetter,           \* whether the subscription has a dead-letter policy
  MaxDeliveryAttempts,  \* of that policy
  MaxCopies,            \* bound: copies of one request outstanding at a time
  MaxRuns               \* bound: jobs started for one level of one helper

QueryKinds == {"hierarchical", "direct", "oneparty", "reach"}

FaultKinds ==
  {"list",     \* the Dataflow API fails to list or to get a job
   "page",     \* a job is not on the first page of the list
   "config",   \* the expansion configuration cannot be read this time
   "storage",  \* an object store call fails
   "launch",   \* the pipeline binary fails before the job is started
   "run",      \* the binary fails while it waits for a job that goes on
   "job",      \* a job fails
   "publish",  \* Publish returns an error, the message accepted or not
   "ack",      \* an acknowledgement does not reach the subscription
   "crash",    \* a replica stops and is restarted
   "lease"}    \* the lease of a message expires while it is handled

Level == 0 .. Len(PrefixLengths) - 1

ASSUME AggregatorAssumption ==
  /\ HelperOf \in [Worker -> Helper]
  /\ Kinds \subseteq QueryKinds
  /\ PipelineRunner \in [Helper -> {"direct", "dataflow"}]
  /\ Faults \subseteq FaultKinds
  /\ DeadLetter \in BOOLEAN
  /\ MaxDeliveryAttempts \in Nat \ {0}
  /\ MaxCopies \in Nat \ {0}
  /\ MaxRuns \in Nat \ {0}

\* A request for one level; the copy tells apart duplicates of it.
Message == [helper : Helper, level : Level, copy : 1 .. MaxCopies]
NoMessage == [helper |-> 0, level |-> 0, copy |-> 0]

\* "written": the histogram is in place, the job still reported as running.
JobState == {"running", "written", "done", "failed"}
Job == [state : JobState, params : ExpandParameters]

Step == {"idle", "list", "wait", "dispatch", "partner", "own", "params",
         "launch", "run", "publish", "ack", "nack"}

VARIABLES
  kind,          \* what the query asks for: it never changes
  requested,     \* the helpers the query tool has sent the query to
  sub,           \* the messages that are outstanding
  attempts,      \* how often each of them was delivered
  dead,          \* the messages moved to the dead-letter topic
  pc,            \* the next step of each worker
  msg,           \* the message it handles
  lease,         \* whether that delivery is still leased to it
  jobDone,       \* the handler's jobDone
  own,           \* the helper's own partial histogram, once read
  run,           \* the job it started or waits for
  expandParams,  \* per helper, the expand-parameter files by level
  partial,       \* per helper, the partial-histogram files by level
  decrypted,     \* the helpers whose decrypted reports are written
  jobs           \* per helper and level, the jobs in the order of their start

queueVars == <<kind, requested, sub, attempts, dead>>
handlerVars == <<pc, msg, lease, jobDone, own, run>>
fileVars == <<expandParams, partial, decrypted>>
vars == <<kind, requested, sub, attempts, dead, pc, msg, lease, jobDone, own, run,
          expandParams, partial, decrypted, jobs>>

\* The queries of the other kinds have one level.
FinalLevel == IF kind = "hierarchical" THEN Len(PrefixLengths) - 1 ELSE 0

OnDataflow(h) == PipelineRunner[h] = "dataflow"

Init ==
  /\ kind \in Kinds
  /\ requested = {}
  /\ sub = {}
  /\ attempts = [m \in Message |-> 0]
  /\ dead = {}
  /\ pc = [w \in Worker |-> "idle"]
  /\ msg = [w \in Worker |-> NoMessage]
  /\ lease = [w \in Worker |-> FALSE]
  /\ jobDone = [w \in Worker |-> FALSE]
  /\ own = [w \in Worker |-> EmptyHistogram]
  /\ run = [w \in Worker |-> 0]
  /\ expandParams = EmptyStore
  /\ partial = EmptyStore
  /\ decrypted = {}
  /\ jobs = [h \in Helper |-> [l \in Level |-> <<>>]]
-----------------------------------------------------------------------------
(* The subscription. *)

Fresh(m) == m \notin sub \cup dead /\ \A w \in Worker : msg[w] # m

Send(m) ==
  /\ Fresh(m)
  /\ sub' = sub \cup {m}
  /\ attempts' = [attempts EXCEPT ![m] = 0]

Remove(m) ==
  /\ sub' = sub \ {m}
  /\ attempts' = [attempts EXCEPT ![m] = 0]

\* The delivery of m is over without an acknowledgement.
Return(m) ==
  IF DeadLetter /\ m \in sub /\ attempts[m] = MaxDeliveryAttempts
    THEN Remove(m) /\ dead' = dead \cup {m}
    ELSE UNCHANGED <<sub, attempts, dead>>

\* The aggregation query tool asks one helper, then the other; it may stop
\* in between.
RequestQuery(h) ==
  /\ h \notin requested
  /\ h = 2 => 1 \in requested
  /\ Send([helper |-> h, level |-> 0, copy |-> 1])
  /\ requested' = requested \cup {h}
  /\ UNCHANGED <<kind, dead, handlerVars, fileVars, jobs>>
-----------------------------------------------------------------------------
(* The handler. *)

Goto(w, step) == pc' = [pc EXCEPT ![w] = step]

At(w, step) == pc[w] = step

EndHandler(w) ==
  /\ Goto(w, "idle")
  /\ msg' = [msg EXCEPT ![w] = NoMessage]
  /\ lease' = [lease EXCEPT ![w] = FALSE]
  /\ jobDone' = [jobDone EXCEPT ![w] = FALSE]
  /\ own' = [own EXCEPT ![w] = EmptyHistogram]
  /\ run' = [run EXCEPT ![w] = 0]

\* Most steps of the handler only decide which step is next.
Decide(w, step) ==
  /\ Goto(w, step)
  /\ UNCHANGED <<queueVars, msg, lease, jobDone, own, run, fileVars, jobs>>

JobsOf(w) == jobs[HelperOf[w]][msg[w].level]

Active(job) == job.state \in {"running", "written"}

Leased(m) == \E w \in Worker : msg[w] = m /\ lease[w]

Pull(w) ==
  /\ At(w, "idle")
  /\ \E m \in sub :
       /\ m.helper = HelperOf[w]
       /\ ~ Leased(m)
       /\ msg' = [msg EXCEPT ![w] = m]
       /\ attempts' = [attempts EXCEPT ![m] =
                          IF @ < MaxDeliveryAttempts THEN @ + 1 ELSE @]
  /\ lease' = [lease EXCEPT ![w] = TRUE]
  /\ Goto(w, IF OnDataflow(HelperOf[w]) THEN "list" ELSE "dispatch")
  /\ UNCHANGED <<kind, requested, sub, dead, jobDone, own, run, fileVars, jobs>>

\* Mutant: a finished job is not remembered, the handler goes on as without one.
FoundEndedForgotten(w, job) ==
  \/ job.state = "failed" /\ Decide(w, "ack")
  \/ job.state = "done" /\ Decide(w, "dispatch")

\* jobDone for a job that is done; a failed one ends the query: Ack, no result.
FoundEnded(w, job) ==
  \/ job.state = "failed" /\ Decide(w, "ack")
  \/ /\ job.state = "done"
     /\ jobDone' = [jobDone EXCEPT ![w] = TRUE]
     /\ Goto(w, "dispatch")
     /\ UNCHANGED <<queueVars, msg, lease, own, run, fileVars, jobs>>

\* Mutant: only the names of active jobs are compared.
ListActiveJobs(w) ==
  /\ At(w, "list")
  /\ IF \E i \in DOMAIN JobsOf(w) : Active(JobsOf(w)[i]) THEN Decide(w, "nack")
                                                      ELSE Decide(w, "dispatch")

(* jobsSvc.List: what the handler does depends on the job of that name. *)
ListJobs(w) ==
  /\ At(w, "list")
  /\ \/ "list" \in Faults /\ Decide(w, "nack")
     \/ (JobsOf(w) = <<>> \/ "page" \in Faults) /\ Decide(w, "dispatch")
     \/ \E i \in DOMAIN JobsOf(w) :
          \/ /\ Active(JobsOf(w)[i])
             /\ Goto(w, "wait")
             /\ run' = [run EXCEPT ![w] = i]
             /\ UNCHANGED <<queueVars, msg, lease, jobDone, own, fileVars, jobs>>
          \/ FoundEnded(w, JobsOf(w)[i])

(* The handler polls the job it waits for once a minute until it ends. *)
PollJob(w) ==
  /\ At(w, "wait")
  /\ \/ "list" \in Faults /\ Decide(w, "nack")
     \/ FoundEnded(w, JobsOf(w)[run[w]])

\* Mutants: the final level is not told apart; a finished job ends the query.
HierarchicalStepPastEnd(w) ==
  IF jobDone[w] THEN "publish" ELSE IF msg[w].level > 0 THEN "partner" ELSE "params"

HierarchicalStepEndsEarly(w) ==
  IF jobDone[w] THEN "ack" ELSE IF msg[w].level > 0 THEN "partner" ELSE "params"

\* The step after the configuration of a hierarchical query has been read.
HierarchicalStep(w) ==
  IF ~ jobDone[w]
    THEN IF msg[w].level > 0 THEN "partner" ELSE "params"
    ELSE IF msg[w].level = FinalLevel THEN "ack" ELSE "publish"

\* Mutant: the jobDone test of a reach query is the wrong way round.
DispatchInverted(w) ==
  At(w, "dispatch") /\ Decide(w, IF jobDone[w] THEN "launch" ELSE "ack")

(* The configuration decides what kind of query this is: one that cannot   *)
(* be read as hierarchical is tried as direct, then as a list of one-party *)
(* buckets, for which any line of text will do; what is none of these is   *)
(* only logged.  The one-party binary is never configured, so its pipeline *)
(* cannot start.  A reach query has no configuration.                      *)
Dispatch(w) ==
  /\ At(w, "dispatch")
  /\ \/ kind = "reach" /\ Decide(w, "launch")
     \/ kind = "hierarchical" /\ Decide(w, HierarchicalStep(w))
     \/ kind = "direct" /\ Decide(w, IF jobDone[w] THEN "ack" ELSE "params")
     \/ /\ kind = "oneparty" \/ (kind # "reach" /\ "config" \in Faults)
        /\ Decide(w, IF jobDone[w] THEN "ack" ELSE "nack")
     \/ kind # "reach" /\ "config" \in Faults /\ Decide(w, "ack")

\* Mutants: a result that is not ready is no error; the level is not reduced.
CheckPartnerDropped(w) ==
  /\ At(w, "partner")
  /\ Decide(w, IF Exists(partial, Partner(HelperOf[w]), msg[w].level - 1)
                 THEN "own" ELSE "ack")

CheckPartnerSameLevel(w) ==
  /\ At(w, "partner")
  /\ Decide(w, IF Exists(partial, Partner(HelperOf[w]), msg[w].level)
                 THEN "own" ELSE "nack")

(* IsGCSObjectExist on the partner's result of the previous level. *)
CheckPartner(w) ==
  /\ At(w, "partner")
  /\ \/ "storage" \in Faults /\ Decide(w, "nack")
     \/ Decide(w, IF Exists(partial, Partner(HelperOf[w]), msg[w].level - 1)
                    THEN "own" ELSE "nack")

(* GetRequestExpandParamsURI reads the helper's own result first ... *)
ReadOwnResult(w) ==
  LET h == HelperOf[w]
      l == msg[w].level
  IN  /\ At(w, "own")
      /\ \/ "storage" \in Faults /\ Decide(w, "nack")
         \/ ~ Exists(partial, h, l - 1) /\ Decide(w, "nack")
         \/ /\ Exists(partial, h, l - 1)
            /\ own' = [own EXCEPT ![w] = partial[h][l - 1]]
            /\ Goto(w, "params")
            /\ UNCHANGED <<queueVars, msg, lease, jobDone, run, fileVars, jobs>>

\* Mutant: the helper's own result, without the partner's.
OwnParamsToSave(w) ==
  IF msg[w].level = 0 THEN GetCurrentLevelParams(0, EmptyHistogram)
                      ELSE GetCurrentLevelParams(msg[w].level, own[w])

\* The parameters this handler saves, from the results it has read.
ParamsToSave(w) ==
  LET l == msg[w].level
      theirs == partial[Partner(HelperOf[w])][l - 1]
  IN  IF kind = "direct" THEN DirectParams
      ELSE IF l = 0 THEN GetCurrentLevelParams(0, EmptyHistogram)
      ELSE GetCurrentLevelParams(l, MergePartialResult(own[w], theirs))

(* ... then the partner's, merges both and saves the expand parameters. *)
SaveExpandParameters(w) ==
  LET h == HelperOf[w]
      l == msg[w].level
      p == Partner(h)
  IN  /\ At(w, "params")
      /\ \/ "storage" \in Faults /\ Decide(w, "nack")
         \/ /\ l > 0
            /\ ~ Exists(partial, p, l - 1) \/ ~ Mergeable(own[w], partial[p][l - 1])
            /\ Decide(w, "nack")
         \/ /\ l > 0 => /\ Exists(partial, p, l - 1)
                        /\ Mergeable(own[w], partial[p][l - 1])
            /\ expandParams' = Put(expandParams, h, l, ParamsToSave(w))
            /\ own' = [own EXCEPT ![w] = EmptyHistogram]
            /\ Goto(w, "launch")
            /\ UNCHANGED <<queueVars, msg, lease, jobDone, run, partial,
                           decrypted, jobs>>

\* What the pipeline binary reads when it starts.
LaunchParams(h, l) == IF kind = "reach" THEN ReachParams ELSE expandParams[h][l]

\* The binary exits before it starts a job when an input is missing or the
\* parameters cannot be expanded.
CanLaunch(h, l) ==
  /\ l > 0 => h \in decrypted
  /\ CheckExpansionParameters(LaunchParams(h, l))

(* runPipeline: the binary starts one job for the level ... *)
Launch(w) ==
  LET h == HelperOf[w]
      l == msg[w].level
  IN  /\ At(w, "launch")
      /\ \/ ("launch" \in Faults \/ ~ CanLaunch(h, l)) /\ Decide(w, "nack")
         \/ /\ CanLaunch(h, l)
            /\ Len(jobs[h][l]) < MaxRuns
            /\ jobs' = [jobs EXCEPT ![h][l] =
                          Append(@, [state |-> "running",
                                     params |-> LaunchParams(h, l)])]
            /\ run' = [run EXCEPT ![w] = Len(jobs[h][l]) + 1]
            /\ Goto(w, "run")
            /\ UNCHANGED <<queueVars, msg, lease, jobDone, own, fileVars>>

\* Mutants: the binary is started and not waited for; its error is only logged.
AwaitRunNotAtAll(w) ==
  At(w, "run") /\ Decide(w, IF msg[w].level = FinalLevel THEN "ack" ELSE "publish")

AwaitRunIgnoringErrors(w) ==
  /\ At(w, "run")
  /\ ~ Active(JobsOf(w)[run[w]])
  /\ Decide(w, IF msg[w].level = FinalLevel THEN "ack" ELSE "publish")

(* ... and returns when the job has ended, or when it loses sight of it. *)
AwaitRun(w) ==
  LET job == JobsOf(w)[run[w]]
  IN  /\ At(w, "run")
      /\ \/ "run" \in Faults /\ OnDataflow(HelperOf[w]) /\ Decide(w, "nack")
         \/ job.state = "failed" /\ Decide(w, "nack")
         \/ /\ job.state = "done"
            /\ Decide(w, IF msg[w].level = FinalLevel THEN "ack" ELSE "publish")

\* Mutants: the error of Publish is only logged; QueryLevel++ is forgotten.
PublishIgnoringErrors(w) ==
  /\ At(w, "publish")
  /\ \/ Decide(w, "ack")
     \/ /\ \E c \in 1 .. MaxCopies :
             Send([helper |-> HelperOf[w], level |-> msg[w].level + 1, copy |-> c])
        /\ Goto(w, "ack")
        /\ UNCHANGED <<kind, requested, dead, msg, lease, jobDone, own, run, fileVars, jobs>>

PublishSameLevel(w) ==
  /\ At(w, "publish")
  /\ \E c \in 1 .. MaxCopies :
       Send([helper |-> HelperOf[w], level |-> msg[w].level, copy |-> c])
  /\ Goto(w, "ack")
  /\ UNCHANGED <<kind, requested, dead, msg, lease, jobDone, own, run, fileVars, jobs>>

(* The request for the next level goes to the helper's own topic. *)
Publish(w) ==
  /\ At(w, "publish")
  /\ \/ "publish" \in Faults /\ Decide(w, "nack")
     \/ /\ \E c \in 1 .. MaxCopies :
             Send([helper |-> HelperOf[w], level |-> msg[w].level + 1, copy |-> c])
        /\ \/ Goto(w, "ack")
           \/ "publish" \in Faults /\ Goto(w, "nack")
        /\ UNCHANGED <<kind, requested, dead, msg, lease, jobDone, own, run, fileVars, jobs>>

Unacknowledged(w) ==
  IF lease[w] THEN Return(msg[w]) ELSE UNCHANGED <<sub, attempts, dead>>

Ack(w) ==
  /\ At(w, "ack")
  /\ \/ Remove(msg[w]) /\ UNCHANGED dead
     \/ ("ack" \in Faults \/ ~ lease[w]) /\ Unacknowledged(w)
  /\ EndHandler(w)
  /\ UNCHANGED <<kind, requested, fileVars, jobs>>

Nack(w) ==
  /\ At(w, "nack")
  /\ Unacknowledged(w)
  /\ EndHandler(w)
  /\ UNCHANGED <<kind, requested, fileVars, jobs>>
-----------------------------------------------------------------------------
(* The environment: leases, restarts and the jobs. *)

LeaseExpires(w) ==
  /\ "lease" \in Faults
  /\ lease[w]
  /\ Return(msg[w])
  /\ lease' = [lease EXCEPT ![w] = FALSE]
  /\ UNCHANGED <<kind, requested, pc, msg, jobDone, own, run, fileVars, jobs>>

\* The direct runner executes the pipeline in the replica's container.
Crash(w) ==
  /\ "crash" \in Faults
  /\ ~ At(w, "idle")
  /\ Unacknowledged(w)
  /\ EndHandler(w)
  /\ IF ~ OnDataflow(HelperOf[w]) /\ At(w, "run") /\ Active(JobsOf(w)[run[w]])
       THEN jobs' = [jobs EXCEPT ![HelperOf[w]][msg[w].level][run[w]].state = "failed"]
       ELSE UNCHANGED jobs
  /\ UNCHANGED <<kind, requested, fileVars>>

WritesDecryptedReport(params) ==
  params.previousLevel < 0 /\ params.level # KeyBitSize - 1 /\ ~ params.direct

JobWrites(h, l, i) ==
  LET job == jobs[h][l][i]
  IN  /\ job.state = "running"
      /\ \E result \in PartialResults(h, job.params, kind # "reach") :
           partial' = Put(partial, h, l, result)
      /\ decrypted' = IF WritesDecryptedReport(job.params)
                        THEN decrypted \cup {h} ELSE decrypted
      /\ jobs' = [jobs EXCEPT ![h][l][i].state = "written"]
      /\ UNCHANGED <<queueVars, handlerVars, expandParams>>

JobEnds(h, l, i, state) ==
  /\ jobs' = [jobs EXCEPT ![h][l][i].state = state]
  /\ UNCHANGED <<queueVars, handlerVars, fileVars>>

JobSucceeds(h, l, i) ==
  jobs[h][l][i].state = "written" /\ JobEnds(h, l, i, "done")

JobFails(h, l, i) ==
  "job" \in Faults /\ Active(jobs[h][l][i]) /\ JobEnds(h, l, i, "failed")
-----------------------------------------------------------------------------
Handle(w) ==
  \/ ListJobs(w) \/ PollJob(w) \/ Dispatch(w) \/ CheckPartner(w)
  \/ ReadOwnResult(w) \/ SaveExpandParameters(w) \/ Launch(w) \/ AwaitRun(w)
  \/ Publish(w) \/ Ack(w) \/ Nack(w)

JobStep(h, l, i) == JobWrites(h, l, i) \/ JobSucceeds(h, l, i)

Next ==
  \/ \E h \in Helper : RequestQuery(h)
  \/ \E w \in Worker : Pull(w) \/ Handle(w) \/ LeaseExpires(w) \/ Crash(w)
  \/ \E h \in Helper, l \in Level : \E i \in DOMAIN jobs[h][l] :
       JobStep(h, l, i) \/ JobFails(h, l, i)

Spec == Init /\ [][Next]_vars

(* A replica that runs keeps going, Pub/Sub keeps delivering, and Dataflow *)
(* ends every job.  The query tool, faults and crashes are never required. *)
Fairness ==
  /\ \A w \in Worker : WF_vars(Pull(w)) /\ WF_vars(Handle(w))
  /\ \A h \in Helper, l \in Level, i \in 1 .. MaxRuns :
       WF_vars(i \in DOMAIN jobs[h][l] /\ JobStep(h, l, i))

FairSpec == Spec /\ Fairness
-----------------------------------------------------------------------------
(* What is stated about the handler. *)

\* The variables hold values of the expected kinds.
TypeOK ==
  /\ kind \in Kinds
  /\ requested \in SUBSET Helper
  /\ sub \in SUBSET Message
  /\ attempts \in [Message -> 0 .. MaxDeliveryAttempts]
  /\ dead \in SUBSET Message
  /\ pc \in [Worker -> Step]
  /\ msg \in [Worker -> Message \cup {NoMessage}]
  /\ \A w \in Worker : pc[w] # "idle" => msg[w] \in Message
  /\ lease \in [Worker -> BOOLEAN]
  /\ jobDone \in [Worker -> BOOLEAN]
  /\ DOMAIN own = Worker /\ \A w \in Worker : IsHistogram(own[w])
  /\ run \in [Worker -> 0 .. MaxRuns]
  /\ DOMAIN expandParams = Helper /\ DOMAIN partial = Helper
  /\ \A h \in Helper :
       /\ DOMAIN expandParams[h] \subseteq Level
       /\ expandParams[h] \in [DOMAIN expandParams[h] -> ExpandParameters]
       /\ DOMAIN partial[h] \subseteq Level
       /\ \A l \in DOMAIN partial[h] : IsHistogram(partial[h][l])
  /\ decrypted \in SUBSET Helper
  /\ jobs \in [Helper -> [Level -> Seq(Job)]]

\* The handler looks for a job before it starts one, so a level of a query is
\* aggregated, and its share of the privacy budget spent, once, however often
\* the request is delivered.
OneRunPerLevel ==
  \A h \in Helper, l \in Level : Len(jobs[h][l]) <= 1

\* The results the two helpers have for a level are for the same buckets:
\* otherwise MergePartialResult fails and neither gets past that level.
KeysAgree ==
  \A l \in Level :
    Exists(partial, 1, l) /\ Exists(partial, 2, l) =>
      DOMAIN partial[1][l] = DOMAIN partial[2][l]

\* A result above the first level was made for the prefixes that the results
\* of both helpers at the level before, as they are now, leave over.
ExpandsMergedResult ==
  \A h \in Helper, l \in Level \ {0} :
    Exists(partial, h, l) =>
      /\ Exists(partial, 1, l - 1) /\ Exists(partial, 2, l - 1)
      /\ DOMAIN partial[h][l] =
           ExpandedBuckets(GetCurrentLevelParams(l,
             MergePartialResult(partial[1][l - 1], partial[2][l - 1])))

\* A result that the partner may have read is never replaced by another one
\* with other noise.
WriteOnce ==
  [][\A h \in Helper, l \in Level :
       Exists(partial, h, l) =>
         Exists(partial', h, l) /\ partial'[h][l] = partial[h][l]]_vars

Failed(h) == \E l \in Level : \E i \in DOMAIN jobs[h][l] : jobs[h][l][i].state = "failed"

Settled(h) ==
  \/ Exists(partial, h, FinalLevel)
  \/ \E m \in dead : m.helper = h
  \/ OnDataflow(h) /\ Failed(h)

\* A helper that was sent the query still has a request for it outstanding
\* until its final result is there, or the dead-letter topic or a failed job
\* tells that there will be none.
NoSilentLoss ==
  \A h \in requested : Settled(h) \/ \E m \in sub : m.helper = h

\* Above the first level a handler reads its own result only after its own
\* job of the level before is done, and no level is skipped.
LevelsInOrder ==
  \A h \in Helper, l \in Level \ {0} :
    jobs[h][l] # <<>> =>
      /\ \E i \in DOMAIN jobs[h][l - 1] : jobs[h][l - 1][i].state = "done"
      /\ \A g \in Helper : Exists(partial, g, l - 1)

\* The comment on the job states: a job that is done lets the handler
\* acknowledge the message and schedule the next level if applicable.
DoneLevelSchedulesNext ==
  \A w \in Worker :
    At(w, "ack") /\ jobDone[w] /\ msg[w].level < FinalLevel =>
      \/ jobs[HelperOf[w]][msg[w].level + 1] # <<>>
      \/ \E m \in sub \cup dead :
           m.helper = HelperOf[w] /\ m.level = msg[w].level + 1

\* The README's threshold: a prefix whose noised count is below it, read as a
\* signed number, is not expanded.
OnlyLargePrefixesExpanded ==
  \A h \in Helper : \A l \in DOMAIN expandParams[h] :
    \A p \in expandParams[h][l].prefixes :
      SignedWord(MergePartialResult(partial[1][l - 1], partial[2][l - 1])[p])
        >= ExpansionThresholdPerPrefix[l]

\* Every request is answered in the end: with a result, a dead letter or a
\* failed job.
EventuallySettled == \A h \in Helper : h \in requested ~> Settled(h)

\* Deliveries end: the subscription drains and stays empty.
EventuallyDrained == <>[](sub = {} /\ \A w \in Worker : At(w, "idle"))

\* Two helpers that wait for each other's results do not wait forever.
BothComplete ==
  requested = Helper ~> \A h \in Helper : Exists(partial, h, FinalLevel)

\* With one replica per helper and the Dataflow runner, the handlers
\* implement the query they are for.
QuerySpec == INSTANCE HierarchicalQuery WITH result <- partial

ImplementsQuery == QuerySpec!Spec
=============================================================================
