----------------------- MODULE AggregatorService_proofs -----------------------
(***************************************************************************)
(* Theorems about AggregatorService for every value of its constants: any  *)
(* number of levels and replicas, any buckets, shares, noise and word      *)
(* size, and any bound on copies and runs.                                 *)
(***************************************************************************)
EXTENDS AggregatorService, SequenceTheorems, TLAPS

\* A request is for a level the query has, and the next level is requested
\* only below the final one.
LevelsInRange ==
  /\ \A m \in sub : m.level <= FinalLevel
  /\ \A w \in Worker : pc[w] # "idle" => msg[w].level <= FinalLevel
  /\ \A w \in Worker : pc[w] = "publish" => msg[w].level < FinalLevel

\* A handler that is about to launch the pipeline has saved its parameters.
ParamsSaved ==
  \A w \in Worker :
    pc[w] = "launch" /\ kind # "reach" => Exists(expandParams, HelperOf[w], msg[w].level)

\* Only parameters that pass the check of the pipeline binary get a job.
JobsChecked ==
  \A h \in Helper, l \in Level :
    /\ Len(jobs[h][l]) <= MaxRuns
    /\ \A i \in DOMAIN jobs[h][l] : CheckExpansionParameters(jobs[h][l][i].params)

\* A handler waits for a job that has been started.
RunExists ==
  \A w \in Worker : pc[w] \in {"wait", "run"} => run[w] \in DOMAIN JobsOf(w)

TypeInv == TypeOK /\ LevelsInRange /\ ParamsSaved /\ JobsChecked /\ RunExists
-----------------------------------------------------------------------------
(* Facts about the data. *)

\* The lengths of a valid configuration are positive numbers, one per level.
LEMMA LengthsType ==
  ASSUME NEW l \in Level
  PROVE  /\ l + 1 \in DOMAIN PrefixLengths
         /\ PrefixLengths[l + 1] \in Nat
         /\ l \in Nat
         /\ l > 0 => l \in DOMAIN PrefixLengths /\ PrefixLengths[l] \in Nat
  BY QueryAssumption DEF Level, ValidHierarchicalConfig

\* The parameters computed from a histogram are expansion parameters.
LEMMA LevelParamsType ==
  ASSUME NEW l \in Level, NEW r, DOMAIN r \subseteq Int, l = 0 => r = EmptyHistogram
  PROVE  GetCurrentLevelParams(l, r) \in ExpandParameters
  <1>1. /\ PrefixLengths[l + 1] \in Nat
        /\ l > 0 => PrefixLengths[l] \in Nat
        /\ l \in Nat
    BY LengthsType
  <1>2. FirstLevelParams(l) \in ExpandParameters
    BY <1>1 DEF FirstLevelParams, ExpandParameters
  <1>3. CASE r = EmptyHistogram
    BY <1>2, <1>3 DEF GetCurrentLevelParams
  <1>4. CASE r # EmptyHistogram
    <2>1. GetNextNonemptyPrefixes(r, ExpansionThresholdPerPrefix[l]) \subseteq Int
      BY DEF GetNextNonemptyPrefixes
    <2> QED
      BY <1>1, <1>4, <2>1 DEF GetCurrentLevelParams, ExpandParameters
  <1> QED
    BY <1>3, <1>4

\* The same for the queries of one level.
LEMMA OneLevelParamsType == DirectParams \in ExpandParameters /\ ReachParams \in ExpandParameters
  BY QueryAssumption DEF DirectParams, ReachParams, ExpandParameters

\* Checked parameters expand to buckets that are integers.
LEMMA BucketsAreIntegers ==
  ASSUME NEW params \in ExpandParameters, CheckExpansionParameters(params)
  PROVE  ExpandedBuckets(params) \subseteq Int
  <1>1. CASE params.direct
    BY <1>1 DEF ExpandedBuckets, ExpandParameters
  <1>2. CASE ~ params.direct /\ params.previousLevel = -1
    BY <1>2 DEF ExpandedBuckets
  <1>3. CASE ~ params.direct /\ params.previousLevel # -1
    <2> DEFINE bits == params.level - params.previousLevel
    <2>1. bits \in Nat
      BY DEF CheckExpansionParameters, CheckLevels, ExpandParameters
    <2>2. ExpansionSize(bits) \in Int
      BY <2>1 DEF ExpansionSize
    <2>3. \A p \in params.prefixes, j \in 0 .. ExpansionSize(bits) - 1 :
            p * ExpansionSize(bits) + j \in Int
      BY <2>2 DEF ExpandParameters
    <2> QED
      BY <1>3, <2>3 DEF ExpandedBuckets
  <1> QED
    BY <1>1, <1>2, <1>3

\* What an aggregation writes is a histogram over the buckets it expands.
LEMMA ResultsAreHistograms ==
  ASSUME NEW h \in Helper, NEW params \in ExpandParameters, NEW noised \in BOOLEAN,
         CheckExpansionParameters(params),
         NEW result \in PartialResults(h, params, noised)
  PROVE  /\ DOMAIN result = ExpandedBuckets(params)
         /\ IsHistogram(result)
  <1> DEFINE B == ExpandedBuckets(params)
  <1>1. B \subseteq Int
    BY BucketsAreIntegers
  <1>2. PICK shares \in [B -> Word], noise \in [B -> Int] :
          result = AggregatePartialReport(B, shares, noise)
    <2>1. [b \in B |-> 0] \in [B -> Int]
      OBVIOUS
    <2> QED
      BY <2>1 DEF PartialResults
  <1>3. \A b \in B : (shares[b] + noise[b]) % Modulus \in Word
    BY QueryAssumption DEF Word
  <1>4. DOMAIN result = B /\ result \in [B -> Word]
    BY <1>2, <1>3 DEF AggregatePartialReport
  <1> QED
    BY <1>1, <1>4 DEF IsHistogram

\* Changing the state of one job of a list gives a list of the same jobs.
LEMMA JobStateChange ==
  ASSUME NEW s \in Seq(Job), NEW i \in DOMAIN s, NEW state \in JobState
  PROVE  LET t == [s EXCEPT ![i].state = state]
         IN  /\ t \in Seq(Job)
             /\ Len(t) = Len(s)
             /\ DOMAIN t = DOMAIN s
             /\ \A k \in DOMAIN s : t[k].params = s[k].params
  <1> DEFINE changed == [s[i] EXCEPT !.state = state]
             t == [s EXCEPT ![i] = changed]
  <1>1. s[i] \in Job
    BY ElementOfSeq
  <1>2. changed \in Job /\ changed.params = s[i].params
    BY <1>1 DEF Job
  <1>3. /\ t \in Seq(Job)
        /\ Len(t) = Len(s)
        /\ DOMAIN t = DOMAIN s
        /\ \A k \in DOMAIN s : t[k] = IF k = i THEN changed ELSE s[k]
    BY <1>2, ExceptSeq
  <1> QED
    BY <1>2, <1>3
-----------------------------------------------------------------------------
(* The steps of the handler.  Most of them only decide what comes next.    *)

\* A step that only decides what comes next changes one pc.
LEMMA DecideType ==
  ASSUME TypeInv, NEW w \in Worker, NEW step \in Step,
         pc[w] # "idle", step \notin {"idle", "wait", "run"}, Decide(w, step),
         step = "publish" => msg[w].level < FinalLevel,
         step = "launch" /\ kind # "reach" => Exists(expandParams, HelperOf[w], msg[w].level)
  PROVE  TypeInv'
  <1> USE DEF Decide, Goto, queueVars, fileVars
  <1>0. pc' = [pc EXCEPT ![w] = step] /\ pc \in [Worker -> Step]
    BY DEF TypeInv, TypeOK
  <1>1. TypeOK'
    BY <1>0 DEF TypeInv, TypeOK
  <1>2. LevelsInRange'
    BY <1>0 DEF TypeInv, LevelsInRange, FinalLevel
  <1>3. ParamsSaved'
    BY <1>0 DEF TypeInv, ParamsSaved, Exists
  <1>4. JobsChecked'
    BY DEF TypeInv, JobsChecked
  <1>5. RunExists'
    BY <1>0 DEF TypeInv, RunExists, JobsOf
  <1> QED
    BY <1>1, <1>2, <1>3, <1>4, <1>5 DEF TypeInv

\* Jobs that keep their parameters stay checked.
LEMMA SameJobsChecked ==
  ASSUME JobsChecked,
         \A h \in Helper, l \in Level :
           /\ Len(jobs'[h][l]) = Len(jobs[h][l])
           /\ DOMAIN jobs'[h][l] = DOMAIN jobs[h][l]
           /\ \A i \in DOMAIN jobs[h][l] : jobs'[h][l][i].params = jobs[h][l][i].params
  PROVE  JobsChecked'
  <1> SUFFICES ASSUME NEW h \in Helper, NEW l \in Level
               PROVE  /\ Len(jobs'[h][l]) <= MaxRuns
                      /\ \A i \in DOMAIN jobs'[h][l] :
                           CheckExpansionParameters(jobs'[h][l][i].params)
    BY DEF JobsChecked
  <1>1. Len(jobs'[h][l]) <= MaxRuns
    BY DEF JobsChecked
  <1>2. ASSUME NEW i \in DOMAIN jobs'[h][l]
        PROVE  CheckExpansionParameters(jobs'[h][l][i].params)
    <2>1. i \in DOMAIN jobs[h][l] /\ jobs'[h][l][i].params = jobs[h][l][i].params
      OBVIOUS
    <2>2. CheckExpansionParameters(jobs[h][l][i].params)
      BY <2>1 DEF JobsChecked
    <2> QED
      BY <2>1, <2>2
  <1> QED
    BY <1>1, <1>2

\* The end of a handler, by Ack, Nack or a crash, with or without a change of
\* the subscription and of the state of a job.
LEMMA EndHandlerType ==
  ASSUME TypeInv, NEW w \in Worker, pc[w] # "idle",
         EndHandler(w), UNCHANGED <<kind, requested, fileVars>>,
         \/ UNCHANGED <<sub, attempts, dead>>
         \/ Remove(msg[w]) /\ UNCHANGED dead
         \/ Return(msg[w]),
         jobs' \in [Helper -> [Level -> Seq(Job)]],
         \A h \in Helper, l \in Level :
           /\ Len(jobs'[h][l]) = Len(jobs[h][l])
           /\ DOMAIN jobs'[h][l] = DOMAIN jobs[h][l]
           /\ \A i \in DOMAIN jobs[h][l] : jobs'[h][l][i].params = jobs[h][l][i].params
  PROVE  TypeInv'
  <1> USE DEF EndHandler, Goto, fileVars
  <1>0. /\ pc' = [pc EXCEPT ![w] = "idle"] /\ pc \in [Worker -> Step]
        /\ msg' = [msg EXCEPT ![w] = NoMessage] /\ msg \in [Worker -> Message \cup {NoMessage}]
        /\ msg[w] \in Message
    BY DEF TypeInv, TypeOK
  <1>1. /\ sub' \subseteq sub
        /\ dead' \in SUBSET Message
        /\ attempts' \in [Message -> 0 .. MaxDeliveryAttempts]
    <2>1. \/ UNCHANGED <<sub, attempts, dead>>
          \/ /\ sub' = sub \ {msg[w]}
             /\ attempts' = [attempts EXCEPT ![msg[w]] = 0]
             /\ dead' \in {dead, dead \cup {msg[w]}}
      BY DEF Remove, Return
    <2>2. /\ attempts \in [Message -> 0 .. MaxDeliveryAttempts]
          /\ dead \in SUBSET Message
          /\ 0 \in 0 .. MaxDeliveryAttempts
      BY AggregatorAssumption DEF TypeInv, TypeOK
    <2>3. attempts' \in [Message -> 0 .. MaxDeliveryAttempts]
      BY <2>1, <2>2
    <2>4. sub' \subseteq sub /\ dead' \in SUBSET Message
      BY <1>0, <2>1, <2>2
    <2> QED
      BY <2>3, <2>4
  <1>2. TypeOK'
    <2>1. DOMAIN EmptyHistogram = {} /\ IsHistogram(EmptyHistogram)
      BY DEF EmptyHistogram, IsHistogram
    <2>2. DOMAIN own' = Worker /\ \A v \in Worker : IsHistogram(own'[v])
      BY <2>1 DEF TypeInv, TypeOK
    <2>3. /\ kind' \in Kinds
          /\ requested' \in SUBSET Helper
          /\ sub' \in SUBSET Message
          /\ pc' \in [Worker -> Step]
          /\ msg' \in [Worker -> Message \cup {NoMessage}]
          /\ \A v \in Worker : pc'[v] # "idle" => msg'[v] \in Message
      BY <1>0, <1>1 DEF TypeInv, TypeOK, Step
    <2>4. /\ lease' \in [Worker -> BOOLEAN]
          /\ jobDone' \in [Worker -> BOOLEAN]
          /\ run' \in [Worker -> 0 .. MaxRuns]
      BY AggregatorAssumption DEF TypeInv, TypeOK
    <2> QED
      BY <1>1, <2>2, <2>3, <2>4 DEF TypeInv, TypeOK
  <1>3. LevelsInRange'
    BY <1>0, <1>1 DEF TypeInv, LevelsInRange, FinalLevel
  <1>4. ParamsSaved'
    BY <1>0 DEF TypeInv, ParamsSaved, Exists
  <1>5. JobsChecked'
    BY SameJobsChecked DEF TypeInv
  <1>6. RunExists'
    <2> SUFFICES ASSUME NEW v \in Worker, pc'[v] \in {"wait", "run"}
                 PROVE  run'[v] \in DOMAIN jobs'[HelperOf[v]][msg'[v].level]
      BY DEF RunExists, JobsOf
    <2>1. v # w /\ pc[v] = pc'[v] /\ msg'[v] = msg[v] /\ run'[v] = run[v]
      BY <1>0 DEF TypeInv, TypeOK
    <2>2. msg[v] \in Message
      BY <2>1 DEF TypeInv, TypeOK
    <2>3. HelperOf[v] \in Helper /\ msg[v].level \in Level
      BY <2>2, AggregatorAssumption DEF Message
    <2> QED
      BY <2>1, <2>3 DEF TypeInv, RunExists, JobsOf
  <1> QED
    BY <1>2, <1>3, <1>4, <1>5, <1>6 DEF TypeInv

\* Where the level and the helper of a message that is handled lie.
LEMMA HandledMessage ==
  ASSUME TypeOK, NEW w \in Worker, pc[w] # "idle"
  PROVE  /\ msg[w] \in Message
         /\ msg[w].level \in Level
         /\ HelperOf[w] \in Helper
         /\ JobsOf(w) \in Seq(Job)
  BY AggregatorAssumption DEF TypeOK, Message, JobsOf

\* The request of the query tool is for the first level.
LEMMA RequestQueryType ==
  ASSUME TypeInv, NEW h \in Helper, RequestQuery(h)
  PROVE  TypeInv'
  <1> DEFINE m == [helper |-> h, level |-> 0, copy |-> 1]
  <1>1. /\ m \in Message
        /\ m.level <= FinalLevel
    BY QueryAssumption, AggregatorAssumption
    DEF Message, Level, FinalLevel, ValidHierarchicalConfig
  <1>2. /\ sub' = sub \cup {m}
        /\ attempts' = [attempts EXCEPT ![m] = 0]
        /\ requested' = requested \cup {h}
        /\ UNCHANGED <<kind, dead, handlerVars, fileVars, jobs>>
    BY DEF RequestQuery, Send
  <1> USE DEF handlerVars, fileVars
  <1>3. TypeOK'
    <2>1. attempts' \in [Message -> 0 .. MaxDeliveryAttempts]
      <3>1. /\ attempts \in [Message -> 0 .. MaxDeliveryAttempts]
            /\ 0 \in 0 .. MaxDeliveryAttempts
        BY AggregatorAssumption DEF TypeInv, TypeOK
      <3> HIDE DEF m
      <3> QED
        BY <1>2, <3>1
    <2>2. sub' \in SUBSET Message /\ requested' \in SUBSET Helper
      BY <1>1, <1>2 DEF TypeInv, TypeOK
    <2> QED
      BY <1>2, <2>1, <2>2 DEF TypeInv, TypeOK
  <1>4. LevelsInRange'
    BY <1>1, <1>2 DEF TypeInv, LevelsInRange, FinalLevel
  <1>5. ParamsSaved' /\ JobsChecked' /\ RunExists'
    BY <1>2 DEF TypeInv, ParamsSaved, Exists, JobsChecked, RunExists, JobsOf
  <1> QED
    BY <1>3, <1>4, <1>5 DEF TypeInv

\* A delivery gives the replica a message of the subscription.
LEMMA PullType ==
  ASSUME TypeInv, NEW w \in Worker, Pull(w)
  PROVE  TypeInv'
  <1>1. PICK m \in sub :
          /\ msg' = [msg EXCEPT ![w] = m]
          /\ attempts' = [attempts EXCEPT ![m] =
                            IF @ < MaxDeliveryAttempts THEN @ + 1 ELSE @]
    BY DEF Pull
  <1>2. PICK step \in {"list", "dispatch"} : pc' = [pc EXCEPT ![w] = step]
    BY DEF Pull, Goto
  <1>3. /\ lease' = [lease EXCEPT ![w] = TRUE]
        /\ UNCHANGED <<kind, requested, sub, dead, jobDone, own, run, fileVars, jobs>>
    BY DEF Pull
  <1>4. m \in Message /\ m.level <= FinalLevel
    BY DEF TypeInv, TypeOK, LevelsInRange
  <1> USE DEF fileVars
  <1>5. TypeOK'
    <2>1. attempts' \in [Message -> 0 .. MaxDeliveryAttempts]
      <3>1. attempts[m] \in 0 .. MaxDeliveryAttempts
        BY <1>4 DEF TypeInv, TypeOK
      <3>2. (IF attempts[m] < MaxDeliveryAttempts THEN attempts[m] + 1 ELSE attempts[m])
              \in 0 .. MaxDeliveryAttempts
        BY <3>1, AggregatorAssumption
      <3> QED
        BY <1>1, <3>2 DEF TypeInv, TypeOK
    <2>2. /\ pc' \in [Worker -> Step]
          /\ msg' \in [Worker -> Message \cup {NoMessage}]
          /\ \A v \in Worker : pc'[v] # "idle" => msg'[v] \in Message
          /\ lease' \in [Worker -> BOOLEAN]
      BY <1>1, <1>2, <1>3, <1>4 DEF TypeInv, TypeOK, Step
    <2> QED
      BY <1>3, <2>1, <2>2 DEF TypeInv, TypeOK
  <1>6. LevelsInRange'
    BY <1>1, <1>2, <1>3, <1>4 DEF TypeInv, TypeOK, LevelsInRange, FinalLevel
  <1>7. ParamsSaved' /\ JobsChecked'
    BY <1>1, <1>2, <1>3 DEF TypeInv, TypeOK, ParamsSaved, Exists, JobsChecked
  <1>8. RunExists'
    BY <1>1, <1>2, <1>3 DEF TypeInv, TypeOK, RunExists, JobsOf
  <1> QED
    BY <1>5, <1>6, <1>7, <1>8 DEF TypeInv

\* What the handler learns from a job that has ended is one flag.
LEMMA FoundEndedType ==
  ASSUME TypeInv, NEW w \in Worker, NEW job, pc[w] \in {"list", "wait"}, FoundEnded(w, job)
  PROVE  TypeInv'
  <1>1. CASE Decide(w, "ack")
    BY <1>1, DecideType DEF Step
  <1>2. CASE /\ jobDone' = [jobDone EXCEPT ![w] = TRUE]
             /\ Goto(w, "dispatch")
             /\ UNCHANGED <<queueVars, msg, lease, own, run, fileVars, jobs>>
    <2> USE <1>2 DEF Goto, queueVars, fileVars
    <2>1. TypeOK'
      BY DEF TypeInv, TypeOK, Step
    <2>2. LevelsInRange'
      BY DEF TypeInv, TypeOK, LevelsInRange, FinalLevel
    <2>3. ParamsSaved' /\ JobsChecked' /\ RunExists'
      BY DEF TypeInv, TypeOK, ParamsSaved, Exists, JobsChecked, RunExists, JobsOf
    <2> QED
      BY <2>1, <2>2, <2>3 DEF TypeInv
  <1> QED
    BY <1>1, <1>2 DEF FoundEnded

\* A job that is waited for is one of the list.
LEMMA ListJobsType ==
  ASSUME TypeInv, NEW w \in Worker, ListJobs(w)
  PROVE  TypeInv'
  <1>0. pc[w] = "list"
    BY DEF ListJobs, At
  <1>1. CASE Decide(w, "nack") \/ Decide(w, "dispatch")
    BY <1>0, <1>1, DecideType DEF Step
  <1>2. ASSUME NEW i \in DOMAIN JobsOf(w), FoundEnded(w, JobsOf(w)[i])
        PROVE  TypeInv'
    BY <1>0, <1>2, FoundEndedType
  <1>3. ASSUME NEW i \in DOMAIN JobsOf(w), Goto(w, "wait"),
               run' = [run EXCEPT ![w] = i],
               UNCHANGED <<queueVars, msg, lease, jobDone, own, fileVars, jobs>>
        PROVE  TypeInv'
    <2>0. /\ pc' = [pc EXCEPT ![w] = "wait"]
          /\ UNCHANGED <<kind, requested, sub, attempts, dead, msg, lease, jobDone,
                         own, expandParams, partial, decrypted, jobs>>
      BY <1>3 DEF Goto, queueVars, fileVars
    <2>1. i \in 0 .. MaxRuns
      <3>1. JobsOf(w) \in Seq(Job) /\ Len(JobsOf(w)) <= MaxRuns
        BY <1>0, HandledMessage DEF TypeInv, JobsChecked, JobsOf
      <3> QED
        BY <3>1, AggregatorAssumption
    <2>2. TypeOK'
      <3>1. run' \in [Worker -> 0 .. MaxRuns]
        BY <1>3, <2>1 DEF TypeInv, TypeOK
      <3>2. /\ pc' \in [Worker -> Step]
            /\ \A v \in Worker : pc'[v] # "idle" => msg'[v] \in Message
        BY <1>0, <2>0 DEF TypeInv, TypeOK, Step
      <3> QED
        BY <2>0, <3>1, <3>2 DEF TypeInv, TypeOK
    <2>3. LevelsInRange'
      BY <1>0, <2>0 DEF TypeInv, TypeOK, LevelsInRange, FinalLevel
    <2>4. ParamsSaved' /\ JobsChecked'
      BY <2>0 DEF TypeInv, TypeOK, ParamsSaved, Exists, JobsChecked
    <2>5. RunExists'
      BY <1>3, <2>0 DEF TypeInv, TypeOK, RunExists, JobsOf
    <2> QED
      BY <2>2, <2>3, <2>4, <2>5 DEF TypeInv
  <1> QED
    BY <1>1, <1>2, <1>3 DEF ListJobs

\* Which step follows the configuration depends on the level in range.
LEMMA DispatchType ==
  ASSUME TypeInv, NEW w \in Worker, Dispatch(w)
  PROVE  TypeInv'
  <1>0. pc[w] = "dispatch"
    BY DEF Dispatch, At
  <1>1. ASSUME NEW step \in {"ack", "nack", "params", "partner"}, Decide(w, step)
        PROVE  TypeInv'
    BY <1>0, <1>1, DecideType DEF Step
  <1>2. CASE kind = "reach" /\ Decide(w, "launch")
    BY <1>0, <1>2, DecideType DEF Step
  <1>3. CASE kind = "hierarchical" /\ Decide(w, HierarchicalStep(w))
    <2>1. HierarchicalStep(w) \in {"ack", "params", "partner", "publish"}
      BY DEF HierarchicalStep
    <2>2. msg[w].level <= FinalLevel /\ msg[w].level \in Level
      BY <1>0, HandledMessage DEF TypeInv, LevelsInRange
    <2>3. HierarchicalStep(w) = "publish" => msg[w].level < FinalLevel
      BY <2>2, QueryAssumption DEF HierarchicalStep, Level, FinalLevel
    <2> QED
      BY <1>0, <1>3, <2>1, <2>3, DecideType DEF Step
  <1> QED
    BY <1>1, <1>2, <1>3 DEF Dispatch

\* Polling ends like the list of jobs.
LEMMA PollJobType ==
  ASSUME TypeInv, NEW w \in Worker, PollJob(w)
  PROVE  TypeInv'
  <1>1. CASE Decide(w, "nack")
    BY <1>1, DecideType DEF PollJob, At, Step
  <1>2. CASE FoundEnded(w, JobsOf(w)[run[w]])
    BY <1>2, FoundEndedType DEF PollJob, At
  <1> QED
    BY <1>1, <1>2 DEF PollJob

\* Looking for the partner's result changes one pc.
LEMMA CheckPartnerType ==
  ASSUME TypeInv, NEW w \in Worker, CheckPartner(w)
  PROVE  TypeInv'
  BY DecideType DEF CheckPartner, At, Step

\* What the handler reads is a histogram.
LEMMA ReadOwnResultType ==
  ASSUME TypeInv, NEW w \in Worker, ReadOwnResult(w)
  PROVE  TypeInv'
  <1> DEFINE h == HelperOf[w]
             l == msg[w].level
  <1>0. pc[w] = "own"
    BY DEF ReadOwnResult, At
  <1>1. CASE Decide(w, "nack")
    BY <1>0, <1>1, DecideType DEF Step
  <1>2. CASE /\ Exists(partial, h, l - 1)
             /\ own' = [own EXCEPT ![w] = partial[h][l - 1]]
             /\ Goto(w, "params")
             /\ UNCHANGED <<queueVars, msg, lease, jobDone, run, fileVars, jobs>>
    <2>0. /\ pc' = [pc EXCEPT ![w] = "params"]
          /\ UNCHANGED <<kind, requested, sub, attempts, dead, msg, lease, jobDone,
                         run, expandParams, partial, decrypted, jobs>>
      BY <1>2 DEF Goto, queueVars, fileVars
    <2>1. IsHistogram(partial[h][l - 1])
      BY <1>0, <1>2, HandledMessage DEF TypeInv, TypeOK, Exists
    <2>2. TypeOK'
      <3>1. DOMAIN own' = Worker /\ \A v \in Worker : IsHistogram(own'[v])
        BY <1>2, <2>1 DEF TypeInv, TypeOK
      <3>2. /\ pc' \in [Worker -> Step]
            /\ \A v \in Worker : pc'[v] # "idle" => msg'[v] \in Message
        BY <1>0, <2>0 DEF TypeInv, TypeOK, Step
      <3> QED
        BY <2>0, <3>1, <3>2 DEF TypeInv, TypeOK
    <2>3. LevelsInRange'
      BY <1>0, <2>0 DEF TypeInv, TypeOK, LevelsInRange, FinalLevel
    <2>4. ParamsSaved' /\ JobsChecked'
      BY <2>0 DEF TypeInv, TypeOK, ParamsSaved, Exists, JobsChecked
    <2>5. RunExists'
      BY <2>0 DEF TypeInv, TypeOK, RunExists, JobsOf
    <2> QED
      BY <2>2, <2>3, <2>4, <2>5 DEF TypeInv
  <1> QED
    BY <1>1, <1>2 DEF ReadOwnResult

\* The parameters a handler saves are expansion parameters.
LEMMA SavedParamsType ==
  ASSUME TypeInv, NEW w \in Worker, pc[w] # "idle"
  PROVE  ParamsToSave(w) \in ExpandParameters
  <1> DEFINE l == msg[w].level
             theirs == partial[Partner(HelperOf[w])][l - 1]
  <1>1. l \in Level
    BY HandledMessage DEF TypeInv
  <1>2. CASE kind = "direct"
    BY <1>2, OneLevelParamsType DEF ParamsToSave
  <1>3. CASE kind # "direct" /\ l = 0
    <2>1. DOMAIN EmptyHistogram \subseteq Int
      BY DEF EmptyHistogram
    <2>2. GetCurrentLevelParams(l, EmptyHistogram) \in ExpandParameters
      BY <1>1, <2>1, LevelParamsType
    <2> QED
      BY <1>3, <2>2 DEF ParamsToSave
  <1>4. CASE kind # "direct" /\ l # 0
    <2>1. DOMAIN MergePartialResult(own[w], theirs) \subseteq Int
      BY DEF TypeInv, TypeOK, IsHistogram, MergePartialResult
    <2>2. GetCurrentLevelParams(l, MergePartialResult(own[w], theirs)) \in ExpandParameters
      BY <1>1, <1>4, <2>1, LevelParamsType
    <2> QED
      BY <1>4, <2>2 DEF ParamsToSave
  <1> QED
    BY <1>2, <1>3, <1>4

\* A file that is put into a store leaves the other files as they are.
LEMMA PutFile ==
  ASSUME NEW store, DOMAIN store = Helper, NEW h \in Helper, NEW l, NEW content
  PROVE  /\ DOMAIN Put(store, h, l, content) = Helper
         /\ \A g \in Helper \ {h} : Put(store, h, l, content)[g] = store[g]
         /\ Put(store, h, l, content)[h] =
              [x \in DOMAIN store[h] \cup {l} |-> IF x = l THEN content ELSE store[h][x]]
  BY DEF Put

\* What the handler saves are expansion parameters.
LEMMA SaveExpandParametersType ==
  ASSUME TypeInv, NEW w \in Worker, SaveExpandParameters(w)
  PROVE  TypeInv'
  <1> DEFINE h == HelperOf[w]
             l == msg[w].level
  <1>0. pc[w] = "params"
    BY DEF SaveExpandParameters, At
  <1>1. CASE Decide(w, "nack")
    BY <1>0, <1>1, DecideType DEF Step
  <1>2. CASE /\ expandParams' = Put(expandParams, h, l, ParamsToSave(w))
             /\ own' = [own EXCEPT ![w] = EmptyHistogram]
             /\ Goto(w, "launch")
             /\ UNCHANGED <<queueVars, msg, lease, jobDone, run, partial, decrypted, jobs>>
    <2>0. /\ pc' = [pc EXCEPT ![w] = "launch"]
          /\ UNCHANGED <<kind, requested, sub, attempts, dead, msg, lease, jobDone,
                         run, partial, decrypted, jobs>>
      BY <1>2 DEF Goto, queueVars
    <2>1. /\ h \in Helper /\ l \in Level
          /\ ParamsToSave(w) \in ExpandParameters
      BY <1>0, HandledMessage, SavedParamsType DEF TypeInv
    <2>2. /\ DOMAIN expandParams' = Helper
          /\ \A g \in Helper \ {h} : expandParams'[g] = expandParams[g]
          /\ DOMAIN expandParams'[h] = DOMAIN expandParams[h] \cup {l}
          /\ expandParams'[h] \in [DOMAIN expandParams[h] \cup {l} -> ExpandParameters]
      <3>1. /\ DOMAIN expandParams' = Helper
            /\ \A g \in Helper \ {h} : expandParams'[g] = expandParams[g]
            /\ expandParams'[h] =
                 [x \in DOMAIN expandParams[h] \cup {l} |->
                    IF x = l THEN ParamsToSave(w) ELSE expandParams[h][x]]
        <4>1. DOMAIN expandParams = Helper
          BY DEF TypeInv, TypeOK
        <4> HIDE DEF h, l
        <4> QED
          BY <1>2, <2>1, <4>1, PutFile
      <3>2. \A x \in DOMAIN expandParams[h] : expandParams[h][x] \in ExpandParameters
        BY <2>1 DEF TypeInv, TypeOK
      <3> QED
        BY <2>1, <3>1, <3>2
    <2>3. TypeOK'
      <3>1. DOMAIN own' = Worker /\ \A v \in Worker : IsHistogram(own'[v])
        BY <1>2 DEF TypeInv, TypeOK, IsHistogram, EmptyHistogram
      <3>2. /\ pc' \in [Worker -> Step]
            /\ \A v \in Worker : pc'[v] # "idle" => msg'[v] \in Message
        BY <1>0, <2>0 DEF TypeInv, TypeOK, Step
      <3>3. \A g \in Helper :
              /\ DOMAIN expandParams'[g] \subseteq Level
              /\ expandParams'[g] \in [DOMAIN expandParams'[g] -> ExpandParameters]
        BY <2>1, <2>2 DEF TypeInv, TypeOK
      <3> QED
        BY <2>0, <2>2, <3>1, <3>2, <3>3 DEF TypeInv, TypeOK
    <2>4. LevelsInRange'
      BY <1>0, <2>0 DEF TypeInv, TypeOK, LevelsInRange, FinalLevel
    <2>5. ParamsSaved'
      BY <2>0, <2>2, AggregatorAssumption DEF TypeInv, TypeOK, ParamsSaved, Exists
    <2>6. JobsChecked'
      BY <2>0 DEF TypeInv, JobsChecked
    <2>7. RunExists'
      BY <2>0 DEF TypeInv, TypeOK, RunExists, JobsOf
    <2> QED
      BY <2>3, <2>4, <2>5, <2>6, <2>7 DEF TypeInv
  <1> QED
    BY <1>1, <1>2 DEF SaveExpandParameters

\* The job that is started has parameters that were checked.
LEMMA LaunchType ==
  ASSUME TypeInv, NEW w \in Worker, Launch(w)
  PROVE  TypeInv'
  <1> DEFINE h == HelperOf[w]
             l == msg[w].level
             job == [state |-> "running", params |-> LaunchParams(h, l)]
  <1>0. pc[w] = "launch" /\ h \in Helper /\ l \in Level
    BY HandledMessage DEF Launch, At, TypeInv
  <1>1. CASE Decide(w, "nack")
    BY <1>0, <1>1, DecideType DEF Step
  <1>2. CASE /\ CanLaunch(h, l)
             /\ Len(jobs[h][l]) < MaxRuns
             /\ jobs' = [jobs EXCEPT ![h][l] = Append(@, job)]
             /\ run' = [run EXCEPT ![w] = Len(jobs[h][l]) + 1]
             /\ Goto(w, "run")
             /\ UNCHANGED <<queueVars, msg, lease, jobDone, own, fileVars>>
    <2>0. /\ pc' = [pc EXCEPT ![w] = "run"]
          /\ UNCHANGED <<kind, requested, sub, attempts, dead, msg, lease, jobDone, own,
                         expandParams, partial, decrypted>>
      BY <1>2 DEF Goto, queueVars, fileVars
    <2>1. /\ job \in Job
          /\ CheckExpansionParameters(job.params)
      <3>1. LaunchParams(h, l) \in ExpandParameters
        BY <1>0, OneLevelParamsType DEF LaunchParams, TypeInv, TypeOK, ParamsSaved, Exists
      <3> QED
        BY <1>2, <3>1 DEF CanLaunch, Job, JobState
    <2>2. jobs[h][l] \in Seq(Job) /\ jobs \in [Helper -> [Level -> Seq(Job)]]
      BY <1>0 DEF TypeInv, TypeOK
    <2> HIDE DEF h, l, job
    <2> DEFINE more == Append(jobs[h][l], job)
    <2>3. /\ more \in Seq(Job)
          /\ Len(more) = Len(jobs[h][l]) + 1
          /\ \A i \in 1 .. Len(jobs[h][l]) : more[i] = jobs[h][l][i]
          /\ more[Len(jobs[h][l]) + 1] = job
      BY <2>1, <2>2, AppendProperties
    <2> HIDE DEF more
    <2>4. /\ jobs' \in [Helper -> [Level -> Seq(Job)]]
          /\ jobs'[h][l] = more
          /\ \A g \in Helper, k \in Level : g # h \/ k # l => jobs'[g][k] = jobs[g][k]
      BY <1>0, <1>2, <2>2, <2>3 DEF more
    <2>5. Len(jobs[h][l]) \in Nat /\ Len(jobs[h][l]) + 1 \in 0 .. MaxRuns
      BY <1>2, <2>2, AggregatorAssumption
    <2>6. TypeOK'
      <3>1. run' \in [Worker -> 0 .. MaxRuns]
        BY <1>2, <2>5 DEF TypeInv, TypeOK
      <3>2. /\ pc' \in [Worker -> Step]
            /\ \A v \in Worker : pc'[v] # "idle" => msg'[v] \in Message
        BY <1>0, <2>0 DEF TypeInv, TypeOK, Step
      <3> QED
        BY <2>0, <2>4, <3>1, <3>2 DEF TypeInv, TypeOK
    <2>7. LevelsInRange' /\ ParamsSaved'
      BY <1>0, <2>0 DEF TypeInv, TypeOK, LevelsInRange, FinalLevel, ParamsSaved, Exists
    <2>8. JobsChecked'
      <3> SUFFICES ASSUME NEW g \in Helper, NEW k \in Level
                   PROVE  /\ Len(jobs'[g][k]) <= MaxRuns
                          /\ \A i \in DOMAIN jobs'[g][k] :
                               CheckExpansionParameters(jobs'[g][k][i].params)
        BY DEF JobsChecked
      <3>1. CASE g = h /\ k = l
        <4>1. \A i \in 1 .. Len(jobs[h][l]) : CheckExpansionParameters(jobs[h][l][i].params)
          BY <1>0, <2>2 DEF TypeInv, JobsChecked
        <4>2. \A i \in 1 .. Len(jobs[h][l]) + 1 : CheckExpansionParameters(more[i].params)
          BY <2>1, <2>3, <2>5, <4>1
        <4>3. Len(more) <= MaxRuns /\ DOMAIN more = 1 .. Len(jobs[h][l]) + 1
          BY <2>3, <2>5
        <4> QED
          BY <2>4, <3>1, <4>2, <4>3
      <3>2. CASE g # h \/ k # l
        BY <2>4, <3>2 DEF TypeInv, JobsChecked
      <3> QED
        BY <3>1, <3>2
    <2>9. RunExists'
      <3> SUFFICES ASSUME NEW v \in Worker, pc'[v] \in {"wait", "run"}
                   PROVE  run'[v] \in DOMAIN jobs'[HelperOf[v]][msg[v].level]
        BY <2>0 DEF RunExists, JobsOf
      <3>1. DOMAIN jobs[h][l] \cup {Len(jobs[h][l]) + 1} \subseteq DOMAIN more
        BY <2>2, <2>3, <2>5
      <3>2. CASE v = w
        <4>1. run'[v] = Len(jobs[h][l]) + 1
          BY <1>2, <3>2 DEF TypeInv, TypeOK
        <4> QED
          BY <2>4, <3>1, <3>2, <4>1 DEF h, l
      <3>3. CASE v # w
        <4>1. /\ pc[v] = pc'[v] /\ run'[v] = run[v] /\ pc[v] # "idle"
          BY <1>2, <2>0, <3>3 DEF TypeInv, TypeOK
        <4>2. run[v] \in DOMAIN jobs[HelperOf[v]][msg[v].level]
          BY <4>1 DEF TypeInv, RunExists, JobsOf
        <4>3. HelperOf[v] \in Helper /\ msg[v].level \in Level
          BY <4>1, HandledMessage DEF TypeInv
        <4> QED
          BY <2>4, <3>1, <4>1, <4>2, <4>3
      <3> QED
        BY <3>2, <3>3
    <2> QED
      BY <2>6, <2>7, <2>8, <2>9 DEF TypeInv
  <1> QED
    BY <1>1, <1>2 DEF Launch

\* Waiting for the job changes one pc.
LEMMA AwaitRunType ==
  ASSUME TypeInv, NEW w \in Worker, AwaitRun(w)
  PROVE  TypeInv'
  <1>0. pc[w] = "run"
    BY DEF AwaitRun, At
  <1>1. CASE Decide(w, "nack")
    BY <1>0, <1>1, DecideType DEF Step
  <1>2. CASE Decide(w, IF msg[w].level = FinalLevel THEN "ack" ELSE "publish")
    <2>1. msg[w].level <= FinalLevel /\ msg[w].level \in Level
      BY <1>0, HandledMessage DEF TypeInv, LevelsInRange
    <2>2. msg[w].level # FinalLevel => msg[w].level < FinalLevel
      BY <2>1, QueryAssumption DEF Level, FinalLevel
    <2> QED
      BY <1>0, <1>2, <2>2, DecideType DEF Step
  <1> QED
    BY <1>1, <1>2 DEF AwaitRun

\* The request that is published is for a level the query has.
LEMMA PublishType ==
  ASSUME TypeInv, NEW w \in Worker, Publish(w)
  PROVE  TypeInv'
  <1>0. pc[w] = "publish"
    BY DEF Publish, At
  <1>1. CASE Decide(w, "nack")
    BY <1>0, <1>1, DecideType DEF Step
  <1>2. ASSUME NEW c \in 1 .. MaxCopies,
               Send([helper |-> HelperOf[w], level |-> msg[w].level + 1, copy |-> c]),
               Goto(w, "ack") \/ Goto(w, "nack"),
               UNCHANGED <<kind, requested, dead, msg, lease, jobDone, own, run, fileVars, jobs>>
        PROVE  TypeInv'
    <2> DEFINE m == [helper |-> HelperOf[w], level |-> msg[w].level + 1, copy |-> c]
    <2>1. m \in Message /\ m.level <= FinalLevel
      <3>1. /\ msg[w].level \in Level /\ HelperOf[w] \in Helper
            /\ msg[w].level < FinalLevel
        BY <1>0, HandledMessage DEF TypeInv, LevelsInRange
      <3>2. msg[w].level + 1 \in Level /\ msg[w].level + 1 <= FinalLevel
        BY <3>1, QueryAssumption DEF Level, FinalLevel
      <3> QED
        BY <3>1, <3>2 DEF Message
    <2>2. PICK step \in {"ack", "nack"} : pc' = [pc EXCEPT ![w] = step]
      BY <1>2 DEF Goto
    <2>3. /\ sub' = sub \cup {m}
          /\ attempts' = [attempts EXCEPT ![m] = 0]
          /\ UNCHANGED <<kind, requested, dead, msg, lease, jobDone, own, run,
                         expandParams, partial, decrypted, jobs>>
      BY <1>2 DEF Send, fileVars
    <2> HIDE DEF m
    <2>4. TypeOK'
      <3>1. attempts' \in [Message -> 0 .. MaxDeliveryAttempts]
        <4>1. /\ attempts \in [Message -> 0 .. MaxDeliveryAttempts]
              /\ 0 \in 0 .. MaxDeliveryAttempts
          BY AggregatorAssumption DEF TypeInv, TypeOK
        <4> QED
          BY <2>3, <4>1
      <3>2. sub' \in SUBSET Message
        BY <2>1, <2>3 DEF TypeInv, TypeOK
      <3>3. /\ pc' \in [Worker -> Step]
            /\ \A v \in Worker : pc'[v] # "idle" => msg'[v] \in Message
        BY <1>0, <2>2, <2>3 DEF TypeInv, TypeOK, Step
      <3> QED
        BY <2>3, <3>1, <3>2, <3>3 DEF TypeInv, TypeOK
    <2>5. LevelsInRange'
      BY <1>0, <2>1, <2>2, <2>3 DEF TypeInv, TypeOK, LevelsInRange, FinalLevel
    <2>6. ParamsSaved' /\ JobsChecked' /\ RunExists'
      BY <2>2, <2>3 DEF TypeInv, TypeOK, ParamsSaved, Exists, JobsChecked, RunExists, JobsOf
    <2> QED
      BY <2>4, <2>5, <2>6 DEF TypeInv
  <1> QED
    BY <1>1, <1>2 DEF Publish

\* The end of a handler: its message is removed, kept or dead.
LEMMA AckNackType ==
  ASSUME TypeInv, NEW w \in Worker, Ack(w) \/ Nack(w)
  PROVE  TypeInv'
  <1>1. /\ pc[w] # "idle"
        /\ EndHandler(w)
        /\ UNCHANGED <<kind, requested, fileVars, jobs>>
        /\ \/ UNCHANGED <<sub, attempts, dead>>
           \/ Remove(msg[w]) /\ UNCHANGED dead
           \/ Return(msg[w])
    BY DEF Ack, Nack, At, Unacknowledged
  <1>2. jobs' = jobs /\ jobs' \in [Helper -> [Level -> Seq(Job)]]
    BY <1>1 DEF TypeInv, TypeOK
  <1> QED
    BY <1>1, <1>2, EndHandlerType

\* An expired lease returns the message to the subscription.
LEMMA LeaseExpiresType ==
  ASSUME TypeInv, NEW w \in Worker, LeaseExpires(w)
  PROVE  TypeInv'
  <1>1. /\ lease' = [lease EXCEPT ![w] = FALSE]
        /\ UNCHANGED <<kind, requested, pc, msg, jobDone, own, run, expandParams, partial,
                       decrypted, jobs>>
    BY DEF LeaseExpires, fileVars
  <1>2. \/ UNCHANGED <<sub, attempts, dead>>
        \/ /\ msg[w] \in sub
           /\ sub' = sub \ {msg[w]}
           /\ attempts' = [attempts EXCEPT ![msg[w]] = 0]
           /\ dead' = dead \cup {msg[w]}
    BY DEF LeaseExpires, Return, Remove
  <1>3. TypeOK'
    <2>1. /\ attempts \in [Message -> 0 .. MaxDeliveryAttempts]
          /\ 0 \in 0 .. MaxDeliveryAttempts
          /\ sub \in SUBSET Message /\ dead \in SUBSET Message
      BY AggregatorAssumption DEF TypeInv, TypeOK
    <2>2. attempts' \in [Message -> 0 .. MaxDeliveryAttempts]
      BY <1>2, <2>1
    <2>3. sub' \in SUBSET Message /\ dead' \in SUBSET Message
      BY <1>2, <2>1
    <2> QED
      BY <1>1, <2>2, <2>3 DEF TypeInv, TypeOK
  <1>4. LevelsInRange'
    BY <1>1, <1>2 DEF TypeInv, LevelsInRange, FinalLevel
  <1>5. ParamsSaved' /\ JobsChecked' /\ RunExists'
    BY <1>1 DEF TypeInv, ParamsSaved, Exists, JobsChecked, RunExists, JobsOf
  <1> QED
    BY <1>3, <1>4, <1>5 DEF TypeInv

\* A change of the state of one job, seen from all of them.
LEMMA JobsStateChange ==
  ASSUME TypeInv, NEW h \in Helper, NEW l \in Level, NEW i \in DOMAIN jobs[h][l],
         NEW state \in JobState,
         jobs' = [jobs EXCEPT ![h][l][i].state = state]
  PROVE  /\ jobs' \in [Helper -> [Level -> Seq(Job)]]
         /\ \A g \in Helper, k \in Level :
              /\ Len(jobs'[g][k]) = Len(jobs[g][k])
              /\ DOMAIN jobs'[g][k] = DOMAIN jobs[g][k]
              /\ \A j \in DOMAIN jobs[g][k] : jobs'[g][k][j].params = jobs[g][k][j].params
  <1> DEFINE t == [jobs[h][l] EXCEPT ![i].state = state]
  <1>1. jobs \in [Helper -> [Level -> Seq(Job)]] /\ jobs[h][l] \in Seq(Job)
    BY DEF TypeInv, TypeOK
  <1>2. /\ t \in Seq(Job)
        /\ Len(t) = Len(jobs[h][l])
        /\ DOMAIN t = DOMAIN jobs[h][l]
        /\ \A k \in DOMAIN jobs[h][l] : t[k].params = jobs[h][l][k].params
    BY <1>1, JobStateChange
  <1> DEFINE u == [jobs[h] EXCEPT ![l] = t]
  <1>3. jobs' = [jobs EXCEPT ![h] = u]
    OBVIOUS
  <1> HIDE DEF t
  <1>4. /\ u \in [Level -> Seq(Job)]
        /\ u[l] = t
        /\ \A k \in Level \ {l} : u[k] = jobs[h][k]
    BY <1>1, <1>2
  <1> HIDE DEF u
  <1>5. /\ jobs' \in [Helper -> [Level -> Seq(Job)]]
        /\ jobs'[h][l] = t
        /\ \A g \in Helper, k \in Level : g # h \/ k # l => jobs'[g][k] = jobs[g][k]
    BY <1>1, <1>3, <1>4
  <1> QED
    BY <1>2, <1>5

\* A crash ends the handler and, on the direct runner, its job.
LEMMA CrashType ==
  ASSUME TypeInv, NEW w \in Worker, Crash(w)
  PROVE  TypeInv'
  <1>1. /\ pc[w] # "idle"
        /\ EndHandler(w)
        /\ UNCHANGED <<kind, requested, fileVars>>
        /\ UNCHANGED <<sub, attempts, dead>> \/ Return(msg[w])
    BY DEF Crash, At, Unacknowledged
  <1>2. /\ HelperOf[w] \in Helper /\ msg[w].level \in Level
        /\ pc[w] = "run" => run[w] \in DOMAIN JobsOf(w)
    BY <1>1, HandledMessage DEF TypeInv, RunExists
  <1>3. CASE jobs' = jobs
    <2>1. jobs' \in [Helper -> [Level -> Seq(Job)]]
      BY <1>3 DEF TypeInv, TypeOK
    <2> QED
      BY <1>1, <1>3, <2>1, EndHandlerType
  <1>4. CASE /\ pc[w] = "run"
             /\ jobs' = [jobs EXCEPT ![HelperOf[w]][msg[w].level][run[w]].state = "failed"]
    <2>1. "failed" \in JobState /\ run[w] \in DOMAIN jobs[HelperOf[w]][msg[w].level]
      BY <1>2, <1>4 DEF JobState, JobsOf
    <2> QED
      BY <1>1, <1>2, <1>4, <2>1, JobsStateChange, EndHandlerType
  <1> QED
    BY <1>3, <1>4 DEF Crash, At

\* A job that goes on leaves what the handlers rely on as it is.
LEMMA JobEndsType ==
  ASSUME TypeInv, NEW h \in Helper, NEW l \in Level, NEW i \in DOMAIN jobs[h][l],
         NEW state \in JobState, JobEnds(h, l, i, state)
  PROVE  TypeInv'
  <1>1. /\ jobs' \in [Helper -> [Level -> Seq(Job)]]
        /\ \A g \in Helper, k \in Level :
             /\ Len(jobs'[g][k]) = Len(jobs[g][k])
             /\ DOMAIN jobs'[g][k] = DOMAIN jobs[g][k]
             /\ \A j \in DOMAIN jobs[g][k] : jobs'[g][k][j].params = jobs[g][k][j].params
    BY JobsStateChange DEF JobEnds
  <1>2. UNCHANGED <<kind, requested, sub, attempts, dead, pc, msg, lease, jobDone, own, run,
                    expandParams, partial, decrypted>>
    BY DEF JobEnds, queueVars, handlerVars, fileVars
  <1>3. TypeOK'
    BY <1>1, <1>2 DEF TypeInv, TypeOK
  <1>4. LevelsInRange' /\ ParamsSaved'
    BY <1>2 DEF TypeInv, LevelsInRange, FinalLevel, ParamsSaved, Exists
  <1>5. JobsChecked'
    BY <1>1, SameJobsChecked DEF TypeInv
  <1>6. RunExists'
    BY <1>1, <1>2, HandledMessage DEF TypeInv, RunExists, JobsOf
  <1> QED
    BY <1>3, <1>4, <1>5, <1>6 DEF TypeInv

\* What a job writes is a histogram.
LEMMA JobWritesType ==
  ASSUME TypeInv, NEW h \in Helper, NEW l \in Level, NEW i \in DOMAIN jobs[h][l],
         JobWrites(h, l, i)
  PROVE  TypeInv'
  <1> DEFINE params == jobs[h][l][i].params
             noised == kind # "reach"
  <1>1. params \in ExpandParameters /\ CheckExpansionParameters(params)
    <2>1. jobs[h][l] \in Seq(Job)
      BY DEF TypeInv, TypeOK
    <2>2. jobs[h][l][i] \in Job
      BY <2>1, ElementOfSeq
    <2> QED
      BY <2>2 DEF Job, TypeInv, JobsChecked
  <1>2. PICK result \in PartialResults(h, params, noised) :
          partial' = Put(partial, h, l, result)
    BY DEF JobWrites
  <1>3. IsHistogram(result)
    BY <1>1, ResultsAreHistograms
  <1>4. /\ jobs' \in [Helper -> [Level -> Seq(Job)]]
        /\ \A g \in Helper, k \in Level :
             /\ Len(jobs'[g][k]) = Len(jobs[g][k])
             /\ DOMAIN jobs'[g][k] = DOMAIN jobs[g][k]
             /\ \A j \in DOMAIN jobs[g][k] : jobs'[g][k][j].params = jobs[g][k][j].params
    <2>1. "written" \in JobState /\ jobs' = [jobs EXCEPT ![h][l][i].state = "written"]
      BY DEF JobWrites, JobState
    <2> QED
      BY <2>1, JobsStateChange
  <1>5. /\ UNCHANGED <<kind, requested, sub, attempts, dead, pc, msg, lease, jobDone, own, run,
                       expandParams>>
        /\ decrypted' \in {decrypted, decrypted \cup {h}}
    BY DEF JobWrites, queueVars, handlerVars
  <1>6. TypeOK'
    <2>1. /\ DOMAIN partial' = Helper
          /\ \A g \in Helper \ {h} : partial'[g] = partial[g]
          /\ partial'[h] = [x \in DOMAIN partial[h] \cup {l} |->
                              IF x = l THEN result ELSE partial[h][x]]
      <3>1. DOMAIN partial = Helper
        BY DEF TypeInv, TypeOK
      <3> QED
        BY <1>2, <3>1, PutFile
    <2>2. \A g \in Helper :
            /\ DOMAIN partial'[g] \subseteq Level
            /\ \A k \in DOMAIN partial'[g] : IsHistogram(partial'[g][k])
      <3>1. \A g \in Helper :
              /\ DOMAIN partial[g] \subseteq Level
              /\ \A k \in DOMAIN partial[g] : IsHistogram(partial[g][k])
        BY DEF TypeInv, TypeOK
      <3>2. ASSUME NEW k \in DOMAIN partial'[h]
            PROVE  k \in Level /\ IsHistogram(partial'[h][k])
        BY <1>3, <2>1, <3>1, <3>2
      <3> QED
        BY <2>1, <3>1, <3>2
    <2>3. decrypted' \in SUBSET Helper
      BY <1>5 DEF TypeInv, TypeOK
    <2> QED
      BY <1>4, <1>5, <2>1, <2>2, <2>3 DEF TypeInv, TypeOK
  <1>7. LevelsInRange' /\ ParamsSaved'
    BY <1>5 DEF TypeInv, LevelsInRange, FinalLevel, ParamsSaved, Exists
  <1>8. JobsChecked'
    BY <1>4, SameJobsChecked DEF TypeInv
  <1>9. RunExists'
    BY <1>4, <1>5, HandledMessage DEF TypeInv, RunExists, JobsOf
  <1> QED
    BY <1>6, <1>7, <1>8, <1>9 DEF TypeInv
-----------------------------------------------------------------------------
\* The initial state is well typed.
LEMMA InitType == Init => TypeInv
  <1> SUFFICES ASSUME Init PROVE TypeInv
    OBVIOUS
  <1>1. TypeOK
    <2>1. IsHistogram(EmptyHistogram)
      BY DEF EmptyHistogram, IsHistogram
    <2>2. \A h \in Helper : DOMAIN EmptyStore[h] = {}
      BY DEF EmptyStore
    <2>3. DOMAIN EmptyStore = Helper
      BY DEF EmptyStore
    <2>4. \A h \in Helper : EmptyStore[h] \in [DOMAIN EmptyStore[h] -> ExpandParameters]
      BY DEF EmptyStore
    <2>5. jobs \in [Helper -> [Level -> Seq(Job)]]
      BY EmptySeq DEF Init
    <2> QED
      BY <2>1, <2>2, <2>3, <2>4, <2>5, AggregatorAssumption DEF Init, TypeOK, Step
  <1>2. LevelsInRange /\ ParamsSaved /\ RunExists
    BY DEF Init, LevelsInRange, ParamsSaved, RunExists
  <1>3. JobsChecked
    BY EmptySeq, AggregatorAssumption DEF Init, JobsChecked
  <1> QED
    BY <1>1, <1>2, <1>3 DEF TypeInv

\* So is what a step without effect leaves.
LEMMA StutterType == TypeInv /\ UNCHANGED vars => TypeInv'
  BY DEF vars, TypeInv, TypeOK, LevelsInRange, FinalLevel, ParamsSaved, Exists,
         JobsChecked, RunExists, JobsOf

\* Every step keeps the type invariant.
LEMMA NextType == TypeInv /\ Next => TypeInv'
  <1> SUFFICES ASSUME TypeInv, Next PROVE TypeInv'
    OBVIOUS
  <1>1. ASSUME NEW h \in Helper, RequestQuery(h) PROVE TypeInv'
    BY <1>1, RequestQueryType
  <1>2. ASSUME NEW w \in Worker, Pull(w) PROVE TypeInv'
    BY <1>2, PullType
  <1>3. ASSUME NEW w \in Worker, Handle(w) PROVE TypeInv'
    BY <1>3, ListJobsType, PollJobType, DispatchType, CheckPartnerType, ReadOwnResultType,
       SaveExpandParametersType, LaunchType, AwaitRunType, PublishType, AckNackType
    DEF Handle
  <1>4. ASSUME NEW w \in Worker, LeaseExpires(w) \/ Crash(w) PROVE TypeInv'
    BY <1>4, LeaseExpiresType, CrashType
  <1>5. ASSUME NEW h \in Helper, NEW l \in Level, NEW i \in DOMAIN jobs[h][l],
               JobStep(h, l, i) \/ JobFails(h, l, i)
        PROVE  TypeInv'
    <2>1. CASE JobWrites(h, l, i)
      BY <2>1, JobWritesType
    <2>2. CASE JobSucceeds(h, l, i)
      BY <2>2, JobEndsType DEF JobSucceeds, JobState
    <2>3. CASE JobFails(h, l, i)
      BY <2>3, JobEndsType DEF JobFails, JobState
    <2> QED
      BY <1>5, <2>1, <2>2, <2>3 DEF JobStep
  <1> QED
    BY <1>1, <1>2, <1>3, <1>4, <1>5 DEF Next

\* In every reachable state the variables have their types, and jobs are
\* started only with parameters that the pipeline accepts.
THEOREM TypeCorrect == Spec => []TypeInv
  BY InitType, NextType, StutterType, PTL DEF Spec

\* The type invariant that the runs check.
THEOREM TypeOKAlways == Spec => []TypeOK
  <1>1. TypeInv => TypeOK
    BY DEF TypeInv
  <1> QED
    BY <1>1, TypeCorrect, PTL
=============================================================================
