--------------------------- MODULE AgreementProofs ---------------------------
(***************************************************************************)
(* With one replica per helper, the Dataflow runner and a job list that    *)
(* fits on its first page, a level of a hierarchical or direct query is    *)
(* aggregated once, both helpers expand the same buckets, a published      *)
(* result never changes, and the handlers implement HierarchicalQuery;     *)
(* whatever crashes, is delivered twice or fails, for every configuration, *)
(* noise, number of levels and bound.                                      *)
(***************************************************************************)
EXTENDS AggregatorService_proofs

\* The deployment: handlers of one helper do not run side by side, and each
\* finds the job that an earlier one has started.
OneAtATime ==
  /\ \A v, w \in Worker : HelperOf[v] = HelperOf[w] => v = w
  /\ \A h \in Helper : OnDataflow(h)
  /\ "page" \notin Faults
  /\ "reach" \notin Kinds

\* What level l of the query expands, when the results below it are there.
Expected(l) ==
  IF kind = "direct" THEN DirectParams
  ELSE GetCurrentLevelParams(l,
         IF l = 0 THEN EmptyHistogram
                  ELSE MergePartialResult(partial[1][l - 1], partial[2][l - 1]))

Ready(l) == l > 0 => \A g \in Helper : Exists(partial, g, l - 1)

\* What holds of a handler: on its way to a launch it has not found a job for
\* its level; what it has read is still what the file holds; what it has saved
\* is what both helpers expand.
HandlerAgrees(w) ==
  /\ \/ pc[w] \in {"partner", "own", "params", "launch"}
     \/ pc[w] = "dispatch" /\ ~ jobDone[w]
     => JobsOf(w) = <<>>
  /\ pc[w] = "params" /\ msg[w].level > 0 =>
       /\ Exists(partial, HelperOf[w], msg[w].level - 1)
       /\ own[w] = partial[HelperOf[w]][msg[w].level - 1]
  /\ pc[w] = "launch" =>
       /\ Ready(msg[w].level)
       /\ expandParams[HelperOf[w]][msg[w].level] = Expected(msg[w].level)

\* A job was started when its inputs were there, with the expected parameters.
JobsAgreed ==
  \A h \in Helper, l \in Level : \A i \in DOMAIN jobs[h][l] :
    Ready(l) /\ jobs[h][l][i].params = Expected(l)

\* A file was written by the job of its level, which does not write any more.
FileAgrees(h, l) ==
  /\ jobs[h][l] # <<>>
  /\ \A i \in DOMAIN jobs[h][l] : jobs[h][l][i].state # "running"
  /\ Ready(l)
  /\ DOMAIN partial[h][l] = ExpandedBuckets(Expected(l))

FilesAgreed == \A h \in Helper : \A l \in DOMAIN partial[h] : FileAgrees(h, l)

AgreementInv ==
  /\ TypeInv
  /\ OneRunPerLevel
  /\ JobsAgreed
  /\ FilesAgreed
  /\ \A w \in Worker : HandlerAgrees(w)
-----------------------------------------------------------------------------
(* What a step leaves alone. *)

\* Results are added but never replaced.
ResultsStay ==
  \A g \in Helper : \A k \in DOMAIN partial[g] :
    k \in DOMAIN partial'[g] /\ partial'[g][k] = partial[g][k]

\* One job changes its state.
JobBecomes(h, l, i, state) == jobs' = [jobs EXCEPT ![h][l][i].state = state]

\* Results that are there stay as they are: what a level expands is settled
\* when the results below it are there.
LEMMA ExpectedStable ==
  ASSUME ResultsStay, kind' = kind, NEW l \in Level, Ready(l)
  PROVE  Ready(l)' /\ Expected(l)' = Expected(l)
  <1>1. CASE l = 0
    BY <1>1 DEF Ready, Expected
  <1>2. CASE l > 0
    <2>1. \A g \in Helper : l - 1 \in DOMAIN partial[g]
      BY <1>2 DEF Ready, Exists
    <2>2. /\ \A g \in Helper : l - 1 \in DOMAIN partial'[g]
          /\ partial'[1][l - 1] = partial[1][l - 1]
          /\ partial'[2][l - 1] = partial[2][l - 1]
      BY <2>1 DEF ResultsStay, Helper
    <2> QED
      BY <1>2, <2>2 DEF Ready, Expected, Exists
  <1> QED
    BY <1>1, <1>2 DEF Level

\* A step that leaves results and jobs alone keeps what is stated of them.
LEMMA SameFilesAndJobs ==
  ASSUME AgreementInv, UNCHANGED <<kind, partial, jobs>>
  PROVE  OneRunPerLevel' /\ JobsAgreed' /\ FilesAgreed'
  BY DEF AgreementInv, OneRunPerLevel, JobsAgreed, FilesAgreed, FileAgrees, Ready,
         Expected, Exists

\* A handler that a step is not about.
LEMMA OtherHandler ==
  ASSUME NEW v \in Worker, HandlerAgrees(v),
         UNCHANGED <<kind, partial, pc[v], msg[v], jobDone[v], own[v]>>,
         UNCHANGED <<JobsOf(v), expandParams[HelperOf[v]]>>
  PROVE  HandlerAgrees(v)'
  BY DEF HandlerAgrees, Ready, Expected, Exists

\* A step that has nothing to do with a launch.
LEMMA ElsewhereAgrees ==
  ASSUME NEW w \in Worker,
         \/ pc'[w] \in {"idle", "list", "wait", "run", "publish", "ack", "nack"}
         \/ pc'[w] = "dispatch" /\ jobDone'[w]
  PROVE  HandlerAgrees(w)'
  BY DEF HandlerAgrees
-----------------------------------------------------------------------------
(* The steps of a handler. *)

\* A step of one handler that leaves files and jobs alone.
LEMMA OneHandler ==
  ASSUME AgreementInv, TypeInv', NEW w \in Worker,
         UNCHANGED <<kind, partial, jobs, expandParams>>,
         \A v \in Worker \ {w} : UNCHANGED <<pc[v], msg[v], jobDone[v], own[v]>>,
         HandlerAgrees(w)'
  PROVE  AgreementInv'
  <1>1. OneRunPerLevel' /\ JobsAgreed' /\ FilesAgreed'
    BY SameFilesAndJobs
  <1>2. ASSUME NEW v \in Worker \ {w} PROVE HandlerAgrees(v)'
    <2>1. UNCHANGED <<JobsOf(v), expandParams[HelperOf[v]]>>
      BY DEF JobsOf
    <2> QED
      BY <2>1, OtherHandler DEF AgreementInv
  <1> QED
    BY <1>1, <1>2 DEF AgreementInv

\* A step that only decides what comes next.
LEMMA DecideFrame ==
  ASSUME TypeInv, NEW w \in Worker, NEW step \in Step, Decide(w, step)
  PROVE  /\ UNCHANGED <<kind, partial, jobs, expandParams, msg, jobDone, own>>
         /\ pc'[w] = step
         /\ \A v \in Worker \ {w} : UNCHANGED <<pc[v], msg[v], jobDone[v], own[v]>>
  BY DEF Decide, Goto, queueVars, fileVars, TypeInv, TypeOK

\* A handler that moves on to a step from which nothing is launched.
LEMMA DecideAway ==
  ASSUME AgreementInv, TypeInv', NEW w \in Worker, NEW step \in Step, Decide(w, step),
         step \in {"publish", "ack", "nack"}
  PROVE  AgreementInv'
  <1>1. HandlerAgrees(w)'
    BY DecideFrame, ElsewhereAgrees DEF AgreementInv
  <1> QED
    BY <1>1, DecideFrame, OneHandler DEF AgreementInv

\* A handler that has found no job moves on towards the launch.
LEMMA DecideOnward ==
  ASSUME AgreementInv, TypeInv', NEW w \in Worker, NEW step \in Step, Decide(w, step),
         step \in {"dispatch", "partner", "own", "params"},
         step = "params" => msg[w].level = 0,
         JobsOf(w) = <<>>
  PROVE  AgreementInv'
  <1>1. HandlerAgrees(w)'
    BY DecideFrame DEF AgreementInv, HandlerAgrees, JobsOf
  <1> QED
    BY <1>1, DecideFrame, OneHandler DEF AgreementInv

\* A message that is delivered starts with the list of jobs.
LEMMA PullAgreement ==
  ASSUME OneAtATime, AgreementInv, TypeInv', NEW w \in Worker, Pull(w)
  PROVE  AgreementInv'
  <1>1. /\ pc'[w] = "list"
        /\ UNCHANGED <<kind, partial, jobs, expandParams>>
        /\ \A v \in Worker \ {w} : UNCHANGED <<pc[v], msg[v], jobDone[v], own[v]>>
    <2>1. UNCHANGED <<kind, partial, jobs, expandParams, jobDone, own>>
      BY DEF Pull, fileVars
    <2>2. pc \in [Worker -> Step] /\ msg \in [Worker -> Message \cup {NoMessage}]
      BY DEF AgreementInv, TypeInv, TypeOK
    <2>3. OnDataflow(HelperOf[w])
      BY AggregatorAssumption DEF OneAtATime
    <2>4. /\ pc' = [pc EXCEPT ![w] = "list"]
          /\ \E m \in sub : msg' = [msg EXCEPT ![w] = m]
      BY <2>3 DEF Pull, Goto
    <2>5. pc'[w] = "list" /\ \A v \in Worker \ {w} : UNCHANGED <<pc[v], msg[v]>>
      BY <2>2, <2>4
    <2> QED
      BY <2>1, <2>5
  <1> QED
    BY <1>1, ElsewhereAgrees, OneHandler

\* A job that was found keeps the handler from launching another.
LEMMA FoundEndedAgreement ==
  ASSUME AgreementInv, TypeInv', NEW w \in Worker, NEW job, FoundEnded(w, job)
  PROVE  AgreementInv'
  <1>1. CASE Decide(w, "ack")
    BY <1>1, DecideAway DEF Step
  <1>2. CASE /\ jobDone' = [jobDone EXCEPT ![w] = TRUE]
             /\ Goto(w, "dispatch")
             /\ UNCHANGED <<queueVars, msg, lease, own, run, fileVars, jobs>>
    <2>1. /\ pc'[w] = "dispatch" /\ jobDone'[w]
          /\ UNCHANGED <<kind, partial, jobs, expandParams>>
          /\ \A v \in Worker \ {w} : UNCHANGED <<pc[v], msg[v], jobDone[v], own[v]>>
      BY <1>2 DEF Goto, queueVars, fileVars, AgreementInv, TypeInv, TypeOK
    <2> QED
      BY <2>1, ElsewhereAgrees, OneHandler
  <1> QED
    BY <1>1, <1>2 DEF FoundEnded

\* The list of jobs tells the handler whether there is one for its level.
LEMMA ListJobsAgreement ==
  ASSUME OneAtATime, AgreementInv, TypeInv', NEW w \in Worker, ListJobs(w)
  PROVE  AgreementInv'
  <1>1. CASE Decide(w, "nack")
    BY <1>1, DecideAway DEF Step
  <1>2. CASE JobsOf(w) = <<>> /\ Decide(w, "dispatch")
    BY <1>2, DecideOnward DEF Step
  <1>3. ASSUME NEW i \in DOMAIN JobsOf(w), FoundEnded(w, JobsOf(w)[i])
        PROVE  AgreementInv'
    BY <1>3, FoundEndedAgreement
  <1>4. CASE /\ Goto(w, "wait")
             /\ UNCHANGED <<queueVars, msg, lease, jobDone, own, fileVars, jobs>>
    <2>1. /\ pc'[w] = "wait"
          /\ UNCHANGED <<kind, partial, jobs, expandParams>>
          /\ \A v \in Worker \ {w} : UNCHANGED <<pc[v], msg[v], jobDone[v], own[v]>>
      BY <1>4 DEF Goto, queueVars, fileVars, AgreementInv, TypeInv, TypeOK
    <2> QED
      BY <2>1, ElsewhereAgrees, OneHandler
  <1> QED
    BY <1>1, <1>2, <1>3, <1>4 DEF ListJobs, OneAtATime

\* The configuration sends a handler without a job on towards the launch.
LEMMA DispatchAgreement ==
  ASSUME OneAtATime, AgreementInv, TypeInv', NEW w \in Worker, Dispatch(w)
  PROVE  AgreementInv'
  <1>0. /\ pc[w] = "dispatch"
        /\ kind # "reach"
        /\ msg[w].level \in Level
        /\ msg[w].level <= FinalLevel
        /\ jobDone[w] \in BOOLEAN
    BY HandledMessage
    DEF Dispatch, At, OneAtATime, AgreementInv, TypeInv, TypeOK, LevelsInRange
  <1>1. CASE Decide(w, "ack") \/ Decide(w, "nack") \/ Decide(w, "publish")
    BY <1>1, DecideAway DEF Step
  <1>2. CASE ~ jobDone[w] /\ msg[w].level > 0 /\ Decide(w, "partner")
    BY <1>0, <1>2, DecideOnward DEF Step, AgreementInv, HandlerAgrees
  <1>3. CASE ~ jobDone[w] /\ msg[w].level = 0 /\ Decide(w, "params")
    BY <1>0, <1>3, DecideOnward DEF Step, AgreementInv, HandlerAgrees
  <1>4. msg[w].level > 0 \/ msg[w].level = 0
    BY <1>0 DEF Level
  <1>5. kind = "direct" => msg[w].level = 0
    BY <1>0 DEF FinalLevel, Level
  <1> QED
    BY <1>0, <1>1, <1>2, <1>3, <1>4, <1>5 DEF Dispatch, HierarchicalStep

\* Looking for the partner's result changes nothing.
LEMMA CheckPartnerAgreement ==
  ASSUME AgreementInv, TypeInv', NEW w \in Worker, CheckPartner(w)
  PROVE  AgreementInv'
  <1>1. CASE Decide(w, "nack")
    BY <1>1, DecideAway DEF Step
  <1>2. CASE Decide(w, "own")
    <2>1. JobsOf(w) = <<>>
      BY DEF CheckPartner, At, AgreementInv, HandlerAgrees
    <2> QED
      BY <1>2, <2>1, DecideOnward DEF Step
  <1> QED
    BY <1>1, <1>2 DEF CheckPartner

\* The result that the handler reads is what the file holds.
LEMMA ReadOwnResultAgreement ==
  ASSUME AgreementInv, TypeInv', NEW w \in Worker, ReadOwnResult(w)
  PROVE  AgreementInv'
  <1> DEFINE h == HelperOf[w]
             l == msg[w].level
  <1>1. CASE Decide(w, "nack")
    BY <1>1, DecideAway DEF Step
  <1>2. CASE /\ Exists(partial, h, l - 1)
             /\ own' = [own EXCEPT ![w] = partial[h][l - 1]]
             /\ Goto(w, "params")
             /\ UNCHANGED <<queueVars, msg, lease, jobDone, run, fileVars, jobs>>
    <2>1. /\ pc'[w] = "params"
          /\ own'[w] = partial[h][l - 1]
          /\ UNCHANGED <<kind, partial, jobs, expandParams, msg>>
          /\ \A v \in Worker \ {w} : UNCHANGED <<pc[v], msg[v], jobDone[v], own[v]>>
      BY <1>2 DEF Goto, queueVars, fileVars, AgreementInv, TypeInv, TypeOK
    <2>2. JobsOf(w) = <<>>
      BY DEF ReadOwnResult, At, AgreementInv, HandlerAgrees
    <2>3. HandlerAgrees(w)'
      BY <1>2, <2>1, <2>2 DEF HandlerAgrees, JobsOf, Exists
    <2> QED
      BY <2>1, <2>3, OneHandler
  <1> QED
    BY <1>1, <1>2 DEF ReadOwnResult

\* Merging the results of the two helpers gives both the same parameters.
LEMMA SavedIsExpected ==
  ASSUME AgreementInv, NEW w \in Worker, pc[w] = "params",
         msg[w].level > 0 => Exists(partial, Partner(HelperOf[w]), msg[w].level - 1)
  PROVE  /\ Ready(msg[w].level)
         /\ ParamsToSave(w) = Expected(msg[w].level)
  <1> DEFINE h == HelperOf[w]
             l == msg[w].level
  <1>0. h \in Helper /\ l \in Level
    BY HandledMessage DEF AgreementInv, TypeInv
  <1>1. CASE l = 0
    BY <1>1 DEF Ready, ParamsToSave, Expected
  <1>2. CASE l > 0
    <2>1. /\ l - 1 \in DOMAIN partial[h] /\ l - 1 \in DOMAIN partial[Partner(h)]
          /\ own[w] = partial[h][l - 1]
      BY <1>2 DEF AgreementInv, HandlerAgrees, Exists
    <2>2. \A g \in Helper : l - 1 \in DOMAIN partial[g]
      BY <1>0, <2>1 DEF Helper, Partner
    <2>3. /\ DOMAIN partial[1][l - 1] = DOMAIN partial[2][l - 1]
          /\ IsHistogram(partial[1][l - 1]) /\ IsHistogram(partial[2][l - 1])
      BY <2>2 DEF AgreementInv, FilesAgreed, FileAgrees, TypeInv, TypeOK, Helper
    <2> DEFINE r1 == partial[1][l - 1]
               r2 == partial[2][l - 1]
    <2>4. MergePartialResult(r2, r1) = MergePartialResult(r1, r2)
      <3>1. \A b \in DOMAIN r1 : r1[b] \in Int /\ r2[b] \in Int
        BY <2>3, QueryAssumption DEF IsHistogram, Word
      <3> HIDE DEF r1, r2
      <3>2. \A b \in DOMAIN r1 : r1[b] + r2[b] = r2[b] + r1[b]
        BY <3>1
      <3>3. DOMAIN r1 = DOMAIN r2
        BY <2>3 DEF r1, r2
      <3> QED
        BY <3>2, <3>3 DEF MergePartialResult
    <2>5. MergePartialResult(own[w], partial[Partner(h)][l - 1]) = MergePartialResult(r1, r2)
      <3>1. CASE h = 1
        BY <2>1, <3>1 DEF Partner
      <3>2. CASE h = 2
        BY <2>1, <2>4, <3>2 DEF Partner
      <3> QED
        BY <1>0, <3>1, <3>2 DEF Helper
    <2> HIDE DEF r1, r2
    <2>6. l # 0
      BY <1>2
    <2>7. ParamsToSave(w) =
            IF kind = "direct" THEN DirectParams
            ELSE GetCurrentLevelParams(l,
                   MergePartialResult(own[w], partial[Partner(h)][l - 1]))
      BY <2>6 DEF ParamsToSave
    <2>8. Expected(l) =
            IF kind = "direct" THEN DirectParams
            ELSE GetCurrentLevelParams(l, MergePartialResult(r1, r2))
      BY <2>6 DEF Expected, r1, r2
    <2> QED
      BY <2>2, <2>5, <2>7, <2>8 DEF Ready, Exists
  <1> QED
    BY <1>0, <1>1, <1>2 DEF Level

\* The parameters that are saved are those both helpers expand.
LEMMA SaveExpandParametersAgreement ==
  ASSUME OneAtATime, AgreementInv, TypeInv', NEW w \in Worker, SaveExpandParameters(w)
  PROVE  AgreementInv'
  <1> DEFINE h == HelperOf[w]
             l == msg[w].level
  <1>0. pc[w] = "params" /\ h \in Helper /\ l \in Level
    BY HandledMessage DEF SaveExpandParameters, At, AgreementInv, TypeInv
  <1>1. CASE Decide(w, "nack")
    BY <1>1, DecideAway DEF Step
  <1>2. CASE /\ l > 0 => Exists(partial, Partner(h), l - 1)
             /\ expandParams' = Put(expandParams, h, l, ParamsToSave(w))
             /\ own' = [own EXCEPT ![w] = EmptyHistogram]
             /\ Goto(w, "launch")
             /\ UNCHANGED <<queueVars, msg, lease, jobDone, run, partial, decrypted, jobs>>
    <2>1. /\ UNCHANGED <<kind, msg, jobDone, partial, jobs>>
          /\ pc'[w] = "launch"
          /\ \A v \in Worker \ {w} : UNCHANGED <<pc[v], msg[v], jobDone[v], own[v]>>
      BY <1>2 DEF Goto, queueVars, AgreementInv, TypeInv, TypeOK
    <2>2. /\ \A g \in Helper \ {h} : expandParams'[g] = expandParams[g]
          /\ expandParams'[h][l] = ParamsToSave(w)
      <3>1. DOMAIN expandParams = Helper
        BY DEF AgreementInv, TypeInv, TypeOK
      <3> HIDE DEF h, l
      <3>2. /\ \A g \in Helper \ {h} : expandParams'[g] = expandParams[g]
            /\ expandParams'[h] =
                 [x \in DOMAIN expandParams[h] \cup {l} |->
                    IF x = l THEN ParamsToSave(w) ELSE expandParams[h][x]]
        BY <1>0, <1>2, <3>1, PutFile
      <3> QED
        BY <3>2
    <2>3. OneRunPerLevel' /\ JobsAgreed' /\ FilesAgreed'
      BY <2>1, SameFilesAndJobs
    <2>4. HandlerAgrees(w)'
      <3>1. Ready(l) /\ ParamsToSave(w) = Expected(l)
        BY <1>0, <1>2, SavedIsExpected
      <3>2. JobsOf(w) = <<>>
        BY <1>0 DEF AgreementInv, HandlerAgrees
      <3>3. Ready(l)' /\ Expected(l)' = Expected(l) /\ JobsOf(w)' = <<>>
        BY <2>1, <3>1, <3>2 DEF Ready, Expected, Exists, JobsOf
      <3> QED
        BY <2>1, <2>2, <3>1, <3>3 DEF HandlerAgrees
    <2>5. ASSUME NEW v \in Worker \ {w} PROVE HandlerAgrees(v)'
      <3>1. HelperOf[v] \in Helper \ {h}
        BY AggregatorAssumption DEF OneAtATime
      <3>2. UNCHANGED <<JobsOf(v), expandParams[HelperOf[v]]>>
        BY <2>1, <2>2, <3>1 DEF JobsOf
      <3> QED
        BY <2>1, <3>2, OtherHandler DEF AgreementInv
    <2> QED
      BY <2>3, <2>4, <2>5 DEF AgreementInv
  <1> QED
    BY <1>1, <1>2 DEF SaveExpandParameters

\* A job is started for a level that has none, with the expected parameters.
LEMMA LaunchAgreement ==
  ASSUME OneAtATime, AgreementInv, TypeInv', NEW w \in Worker, Launch(w)
  PROVE  AgreementInv'
  <1> DEFINE h == HelperOf[w]
             l == msg[w].level
             job == [state |-> "running", params |-> LaunchParams(h, l)]
  <1>0. pc[w] = "launch" /\ h \in Helper /\ l \in Level
    BY HandledMessage DEF Launch, At, AgreementInv, TypeInv
  <1>1. CASE Decide(w, "nack")
    BY <1>1, DecideAway DEF Step
  <1>2. CASE /\ jobs' = [jobs EXCEPT ![h][l] = Append(@, job)]
             /\ Goto(w, "run")
             /\ UNCHANGED <<queueVars, msg, lease, jobDone, own, fileVars>>
    <2>1. /\ UNCHANGED <<kind, msg, jobDone, own, expandParams, partial>>
          /\ pc'[w] = "run"
          /\ \A v \in Worker \ {w} : UNCHANGED <<pc[v], msg[v], jobDone[v], own[v]>>
      BY <1>2 DEF Goto, queueVars, fileVars, AgreementInv, TypeInv, TypeOK
    <2>2. /\ jobs[h][l] = <<>>
          /\ Ready(l)
          /\ expandParams[h][l] = Expected(l)
          /\ kind # "reach"
      BY <1>0 DEF AgreementInv, HandlerAgrees, JobsOf, OneAtATime, TypeInv, TypeOK
    <2>3. /\ jobs'[h][l] = <<job>>
          /\ \A g \in Helper, k \in Level : g # h \/ k # l => jobs'[g][k] = jobs[g][k]
      <3>1. jobs \in [Helper -> [Level -> Seq(Job)]]
        BY DEF AgreementInv, TypeInv, TypeOK
      <3>2. Append(<<>>, job) = <<job>>
        OBVIOUS
      <3> HIDE DEF h, l, job
      <3>3. jobs' = [jobs EXCEPT ![h] = [jobs[h] EXCEPT ![l] = <<job>>]]
        BY <1>0, <1>2, <2>2, <3>1, <3>2
      <3> QED
        BY <1>0, <3>1, <3>3
    <2>4. Len(<<job>>) = 1 /\ DOMAIN <<job>> = {1} /\ <<job>>[1] = job
      OBVIOUS
    <2>5. job.params = Expected(l)
      BY <2>2 DEF LaunchParams
    <2> HIDE DEF job
    <2>6. OneRunPerLevel'
      <3> SUFFICES ASSUME NEW g \in Helper, NEW k \in Level
                   PROVE  Len(jobs'[g][k]) <= 1
        BY DEF OneRunPerLevel
      <3>1. CASE g = h /\ k = l
        <4>1. jobs'[g][k] = <<job>>
          BY <2>3, <3>1
        <4> QED
          BY <2>4, <4>1
      <3>2. CASE g # h \/ k # l
        <4>1. jobs'[g][k] = jobs[g][k]
          BY <2>3, <3>2
        <4> QED
          BY <4>1 DEF AgreementInv, OneRunPerLevel
      <3> QED
        BY <3>1, <3>2
    <2>7. \A k : Ready(k)' = Ready(k) /\ Expected(k)' = Expected(k)
      BY <2>1 DEF Ready, Expected, Exists
    <2>8. JobsAgreed'
      <3> SUFFICES ASSUME NEW g \in Helper, NEW k \in Level, NEW i \in DOMAIN jobs'[g][k]
                   PROVE  Ready(k)' /\ jobs'[g][k][i].params = Expected(k)'
        BY DEF JobsAgreed
      <3>1. CASE g = h /\ k = l
        BY <2>2, <2>3, <2>4, <2>5, <2>7, <3>1
      <3>2. CASE g # h \/ k # l
        BY <2>3, <2>7, <3>2 DEF AgreementInv, JobsAgreed
      <3> QED
        BY <3>1, <3>2
    <2>9. FilesAgreed'
      <3>1. l \notin DOMAIN partial[h]
        BY <1>0, <2>2 DEF AgreementInv, FilesAgreed, FileAgrees
      <3>2. \A g \in Helper : DOMAIN partial[g] \subseteq Level
        BY DEF AgreementInv, TypeInv, TypeOK
      <3>3. ASSUME NEW g \in Helper, NEW k \in DOMAIN partial[g]
            PROVE  FileAgrees(g, k)'
        <4>1. jobs'[g][k] = jobs[g][k]
          BY <2>3, <3>1, <3>2
        <4>2. FileAgrees(g, k)
          BY DEF AgreementInv, FilesAgreed
        <4> QED
          BY <2>1, <2>7, <4>1, <4>2 DEF FileAgrees
      <3> QED
        BY <2>1, <3>3 DEF FilesAgreed
    <2>10. ASSUME NEW v \in Worker \ {w} PROVE HandlerAgrees(v)'
      <3>1. HelperOf[v] \in Helper \ {h}
        BY AggregatorAssumption DEF OneAtATime
      <3>2. CASE pc[v] = "idle"
        BY <2>1, <3>2, ElsewhereAgrees
      <3>3. CASE pc[v] # "idle"
        <4>1. msg[v].level \in Level
          BY <3>3, HandledMessage DEF AgreementInv, TypeInv
        <4>2. UNCHANGED <<JobsOf(v), expandParams[HelperOf[v]]>>
          BY <2>1, <2>3, <3>1, <4>1 DEF JobsOf
        <4> QED
          BY <2>1, <4>2, OtherHandler DEF AgreementInv
      <3> QED
        BY <3>2, <3>3
    <2>11. HandlerAgrees(w)'
      BY <2>1, ElsewhereAgrees
    <2> QED
      BY <2>6, <2>8, <2>9, <2>10, <2>11 DEF AgreementInv
  <1> QED
    BY <1>1, <1>2 DEF Launch

\* What follows the launch starts no job.
LEMMA AfterLaunchAgreement ==
  ASSUME AgreementInv, TypeInv', NEW w \in Worker, AwaitRun(w) \/ Publish(w)
  PROVE  AgreementInv'
  <1>1. CASE Decide(w, "ack") \/ Decide(w, "nack") \/ Decide(w, "publish")
    BY <1>1, DecideAway DEF Step
  <1>2. CASE /\ Goto(w, "ack") \/ Goto(w, "nack")
             /\ UNCHANGED <<kind, requested, dead, msg, lease, jobDone, own, run, fileVars, jobs>>
    <2>1. /\ pc'[w] \in {"ack", "nack"}
          /\ UNCHANGED <<kind, partial, jobs, expandParams>>
          /\ \A v \in Worker \ {w} : UNCHANGED <<pc[v], msg[v], jobDone[v], own[v]>>
      BY <1>2 DEF Goto, fileVars, AgreementInv, TypeInv, TypeOK
    <2> QED
      BY <2>1, ElsewhereAgrees, OneHandler
  <1> QED
    BY <1>1, <1>2 DEF AwaitRun, Publish

\* A handler that ends, acknowledged or not, leaves the job it has started.
LEMMA AckNackAgreement ==
  ASSUME AgreementInv, TypeInv', NEW w \in Worker, Ack(w) \/ Nack(w)
  PROVE  AgreementInv'
  <1>1. EndHandler(w) /\ UNCHANGED <<kind, requested, fileVars, jobs>>
    BY DEF Ack, Nack
  <1>2. /\ pc'[w] = "idle"
        /\ UNCHANGED <<kind, partial, jobs, expandParams>>
        /\ \A v \in Worker \ {w} : UNCHANGED <<pc[v], msg[v], jobDone[v], own[v]>>
    BY <1>1 DEF EndHandler, Goto, fileVars, AgreementInv, TypeInv, TypeOK
  <1> QED
    BY <1>2, ElsewhereAgrees, OneHandler

\* So does one that crashes: the job goes on, on Dataflow.
LEMMA CrashAgreement ==
  ASSUME OneAtATime, AgreementInv, TypeInv', NEW w \in Worker, Crash(w)
  PROVE  AgreementInv'
  <1>1. OnDataflow(HelperOf[w])
    BY AggregatorAssumption DEF OneAtATime
  <1>2. EndHandler(w) /\ UNCHANGED <<kind, requested, fileVars, jobs>>
    BY <1>1 DEF Crash
  <1>3. /\ pc'[w] = "idle"
        /\ UNCHANGED <<kind, partial, jobs, expandParams>>
        /\ \A v \in Worker \ {w} : UNCHANGED <<pc[v], msg[v], jobDone[v], own[v]>>
    BY <1>2 DEF EndHandler, Goto, fileVars, AgreementInv, TypeInv, TypeOK
  <1> QED
    BY <1>3, ElsewhereAgrees, OneHandler

\* The subscription has no part in the agreement.
LEMMA QueueAgreement ==
  ASSUME AgreementInv, TypeInv',
         UNCHANGED <<kind, pc, msg, jobDone, own, expandParams, partial, jobs>>
  PROVE  AgreementInv'
  <1>1. OneRunPerLevel' /\ JobsAgreed' /\ FilesAgreed'
    BY SameFilesAndJobs
  <1>2. ASSUME NEW v \in Worker PROVE HandlerAgrees(v)'
    BY OtherHandler DEF AgreementInv, JobsOf
  <1> QED
    BY <1>1, <1>2 DEF AgreementInv
-----------------------------------------------------------------------------
(* The steps of a job. *)

\* A change of the state of one job, to one that does not write any more, and
\* results that are added but never replaced.
LEMMA JobChangeAgreement ==
  ASSUME AgreementInv, TypeInv', NEW h \in Helper, NEW l \in Level, NEW i \in DOMAIN jobs[h][l],
         NEW state \in JobState \ {"running"},
         JobBecomes(h, l, i, state),
         UNCHANGED <<queueVars, handlerVars, expandParams>>,
         ResultsStay
  PROVE  /\ \A w \in Worker : HandlerAgrees(w)'
         /\ OneRunPerLevel' /\ JobsAgreed'
         /\ \A g \in Helper : \A k \in DOMAIN partial[g] : FileAgrees(g, k)'
         /\ DOMAIN jobs'[h][l] = {i} /\ jobs'[h][l][i].state = state
  <1>1. /\ UNCHANGED <<kind, pc, msg, jobDone, own, expandParams>>
        /\ jobs \in [Helper -> [Level -> Seq(Job)]]
        /\ jobs[h][l] \in Seq(Job)
    BY DEF queueVars, handlerVars, AgreementInv, TypeInv, TypeOK
  <1>2. /\ jobs' \in [Helper -> [Level -> Seq(Job)]]
        /\ \A g \in Helper, k \in Level :
             /\ Len(jobs'[g][k]) = Len(jobs[g][k])
             /\ DOMAIN jobs'[g][k] = DOMAIN jobs[g][k]
             /\ \A j \in DOMAIN jobs[g][k] : jobs'[g][k][j].params = jobs[g][k][j].params
    BY JobsStateChange DEF AgreementInv, JobBecomes
  <1>3. /\ DOMAIN jobs'[h][l] = {i}
        /\ jobs'[h][l][i].state = state
        /\ \A g \in Helper, k \in Level : g # h \/ k # l => jobs'[g][k] = jobs[g][k]
    <2>1. DOMAIN jobs[h][l] = {i}
      <3>1. Len(jobs[h][l]) <= 1
        BY DEF AgreementInv, OneRunPerLevel
      <3> QED
        BY <1>1, <3>1
    <2> DEFINE job == [jobs[h][l][i] EXCEPT !.state = state]
    <2>2. job.state = state
      <3>1. jobs[h][l][i] \in Job
        BY <1>1, ElementOfSeq
      <3> QED
        BY <3>1 DEF Job
    <2> DEFINE t == [jobs[h][l] EXCEPT ![i] = job]
    <2>3. t[i] = job
      OBVIOUS
    <2> DEFINE u == [jobs[h] EXCEPT ![l] = t]
    <2>4. jobs' = [jobs EXCEPT ![h] = u]
      BY DEF JobBecomes
    <2> HIDE DEF job, t
    <2>5. u[l] = t /\ \A k \in Level \ {l} : u[k] = jobs[h][k]
      BY <1>1
    <2> HIDE DEF u
    <2>6. /\ jobs'[h][l] = t
          /\ \A g \in Helper, k \in Level : g # h \/ k # l => jobs'[g][k] = jobs[g][k]
      BY <1>1, <2>4, <2>5
    <2> QED
      BY <1>2, <2>1, <2>2, <2>3, <2>6
  <1>4. \A k \in Level : Ready(k) => Ready(k)' /\ Expected(k)' = Expected(k)
    BY <1>1, ExpectedStable
  <1>5. OneRunPerLevel'
    BY <1>2 DEF AgreementInv, OneRunPerLevel
  <1>6. JobsAgreed'
    <2> SUFFICES ASSUME NEW g \in Helper, NEW k \in Level, NEW j \in DOMAIN jobs'[g][k]
                 PROVE  Ready(k)' /\ jobs'[g][k][j].params = Expected(k)'
      BY DEF JobsAgreed
    <2>1. j \in DOMAIN jobs[g][k] /\ jobs'[g][k][j].params = jobs[g][k][j].params
      BY <1>2
    <2>2. Ready(k) /\ jobs[g][k][j].params = Expected(k)
      BY <2>1 DEF AgreementInv, JobsAgreed
    <2> QED
      BY <1>4, <2>1, <2>2
  <1>7. ASSUME NEW g \in Helper, NEW k \in DOMAIN partial[g]
        PROVE  FileAgrees(g, k)'
    <2>1. k \in Level /\ FileAgrees(g, k)
      BY DEF AgreementInv, FilesAgreed, TypeInv, TypeOK
    <2>2. Ready(k)' /\ Expected(k)' = Expected(k) /\ partial'[g][k] = partial[g][k]
      BY <1>4, <2>1 DEF FileAgrees, ResultsStay
    <2>3. /\ jobs'[g][k] # <<>>
          /\ \A j \in DOMAIN jobs'[g][k] : jobs'[g][k][j].state # "running"
      <3>1. CASE g = h /\ k = l
        BY <1>3, <3>1
      <3>2. CASE g # h \/ k # l
        BY <1>3, <2>1, <3>2 DEF FileAgrees
      <3> QED
        BY <3>1, <3>2
    <2> QED
      BY <2>1, <2>2, <2>3 DEF FileAgrees
  <1>8. ASSUME NEW w \in Worker
        PROVE  HandlerAgrees(w)'
    <2>1. CASE pc[w] = "idle"
      BY <1>1, <2>1, ElsewhereAgrees
    <2>2. CASE pc[w] # "idle"
      <3>1. HelperOf[w] \in Helper /\ msg[w].level \in Level
        BY <2>2, HandledMessage DEF AgreementInv, TypeInv
      <3>2. JobsOf(w) = <<>> => JobsOf(w)' = <<>>
        BY <1>1, <1>2, <3>1, EmptySeq DEF JobsOf
      <3>3. HandlerAgrees(w)
        BY DEF AgreementInv
      <3>4. pc[w] = "params" /\ msg[w].level > 0 =>
              /\ Exists(partial', HelperOf[w], msg[w].level - 1)
              /\ own[w] = partial'[HelperOf[w]][msg[w].level - 1]
        BY <3>1, <3>3 DEF HandlerAgrees, Exists, ResultsStay
      <3>5. pc[w] = "launch" =>
              /\ Ready(msg[w].level)'
              /\ expandParams[HelperOf[w]][msg[w].level] = Expected(msg[w].level)'
        BY <1>1, <1>4, <3>1, <3>3 DEF HandlerAgrees
      <3> QED
        BY <1>1, <3>2, <3>3, <3>4, <3>5 DEF HandlerAgrees
    <2> QED
      BY <2>1, <2>2
  <1> QED
    BY <1>3, <1>5, <1>6, <1>7, <1>8

\* A job that ends changes no result.
LEMMA JobEndsAgreement ==
  ASSUME AgreementInv, TypeInv', NEW h \in Helper, NEW l \in Level, NEW i \in DOMAIN jobs[h][l],
         NEW state \in {"done", "failed"}, JobEnds(h, l, i, state)
  PROVE  AgreementInv'
  <1>1. /\ JobBecomes(h, l, i, state)
        /\ UNCHANGED <<queueVars, handlerVars, expandParams, partial>>
        /\ state \in JobState \ {"running"}
    BY DEF JobEnds, fileVars, JobState, JobBecomes
  <1>2. ResultsStay
    BY <1>1 DEF ResultsStay
  <1>3. /\ \A w \in Worker : HandlerAgrees(w)'
        /\ OneRunPerLevel' /\ JobsAgreed'
        /\ \A g \in Helper : \A k \in DOMAIN partial[g] : FileAgrees(g, k)'
    BY <1>1, <1>2, JobChangeAgreement
  <1>4. FilesAgreed'
    BY <1>1, <1>3 DEF FilesAgreed
  <1> QED
    BY <1>3, <1>4 DEF AgreementInv

\* The result a job writes is the first of its level, for the buckets that
\* both helpers expand.
LEMMA FirstResult ==
  ASSUME AgreementInv, NEW h \in Helper, NEW l \in Level, NEW i \in DOMAIN jobs[h][l],
         JobWrites(h, l, i)
  PROVE  /\ l \notin DOMAIN partial[h]
         /\ Ready(l)
         /\ \E result \in PartialResults(h, Expected(l), kind # "reach") :
              /\ partial' = Put(partial, h, l, result)
              /\ DOMAIN result = ExpandedBuckets(Expected(l))
         /\ \A g \in Helper \ {h} : partial'[g] = partial[g]
         /\ DOMAIN partial'[h] = DOMAIN partial[h] \cup {l}
         /\ \A k \in DOMAIN partial[h] : partial'[h][k] = partial[h][k]
         /\ DOMAIN partial'[h][l] = ExpandedBuckets(Expected(l))
  <1>1. jobs[h][l][i].state = "running"
    BY DEF JobWrites
  <1>2. l \notin DOMAIN partial[h]
    BY <1>1 DEF AgreementInv, FilesAgreed, FileAgrees
  <1>3. Ready(l) /\ jobs[h][l][i].params = Expected(l)
    BY DEF AgreementInv, JobsAgreed
  <1>4. Expected(l) \in ExpandParameters /\ CheckExpansionParameters(Expected(l))
    <2>1. jobs[h][l] \in Seq(Job)
      BY DEF AgreementInv, TypeInv, TypeOK
    <2>2. jobs[h][l][i] \in Job
      BY <2>1, ElementOfSeq
    <2> QED
      BY <1>3, <2>2 DEF Job, AgreementInv, TypeInv, JobsChecked
  <1>5. PICK result \in PartialResults(h, Expected(l), kind # "reach") :
          partial' = Put(partial, h, l, result)
    BY <1>3 DEF JobWrites
  <1>6. DOMAIN result = ExpandedBuckets(Expected(l))
    <2>1. (kind # "reach") \in BOOLEAN
      OBVIOUS
    <2> QED
      BY <1>4, <2>1, ResultsAreHistograms
  <1>7. /\ \A g \in Helper \ {h} : partial'[g] = partial[g]
        /\ partial'[h] = [x \in DOMAIN partial[h] \cup {l} |->
                            IF x = l THEN result ELSE partial[h][x]]
    <2>1. DOMAIN partial = Helper
      BY DEF AgreementInv, TypeInv, TypeOK
    <2> QED
      BY <1>5, <2>1, PutFile
  <1>8. /\ DOMAIN partial'[h] = DOMAIN partial[h] \cup {l}
        /\ partial'[h][l] = result
        /\ \A k \in DOMAIN partial[h] : partial'[h][k] = partial[h][k]
    BY <1>2, <1>7
  <1> QED
    BY <1>2, <1>3, <1>5, <1>6, <1>7, <1>8

\* Writing it keeps the agreement.
LEMMA JobWritesAgreement ==
  ASSUME AgreementInv, TypeInv', NEW h \in Helper, NEW l \in Level, NEW i \in DOMAIN jobs[h][l],
         JobWrites(h, l, i)
  PROVE  AgreementInv'
  <1>0. PICK state \in JobState \ {"running"} : state = "written"
    BY DEF JobState
  <1>1. /\ JobBecomes(h, l, i, state)
        /\ UNCHANGED <<queueVars, handlerVars, expandParams>>
    BY <1>0 DEF JobWrites, JobBecomes
  <1>2. /\ Ready(l)
        /\ \A g \in Helper \ {h} : partial'[g] = partial[g]
        /\ DOMAIN partial'[h] = DOMAIN partial[h] \cup {l}
        /\ \A k \in DOMAIN partial[h] : partial'[h][k] = partial[h][k]
        /\ DOMAIN partial'[h][l] = ExpandedBuckets(Expected(l))
    BY FirstResult
  <1>3. ResultsStay
    BY <1>2 DEF ResultsStay
  <1>4. /\ \A w \in Worker : HandlerAgrees(w)'
        /\ OneRunPerLevel' /\ JobsAgreed'
        /\ \A g \in Helper : \A k \in DOMAIN partial[g] : FileAgrees(g, k)'
        /\ DOMAIN jobs'[h][l] = {i} /\ jobs'[h][l][i].state = state
    BY <1>0, <1>1, <1>3, JobChangeAgreement
  <1>5. FileAgrees(h, l)'
    <2>1. kind' = kind
      BY <1>1 DEF queueVars
    <2>2. Ready(l)' /\ Expected(l)' = Expected(l)
      BY <1>2, <1>3, <2>1, ExpectedStable
    <2>3. jobs'[h][l] # <<>>
      BY <1>4, EmptySeq
    <2> QED
      BY <1>0, <1>2, <1>4, <2>2, <2>3 DEF FileAgrees
  <1>6. FilesAgreed'
    BY <1>2, <1>4, <1>5 DEF FilesAgreed
  <1> QED
    BY <1>4, <1>6 DEF AgreementInv
-----------------------------------------------------------------------------
(* The invariant and what follows from it. *)

\* At first there is nothing to disagree about.
LEMMA InitAgreement == Init => AgreementInv
  <1> SUFFICES ASSUME Init PROVE AgreementInv
    OBVIOUS
  <1>1. TypeInv
    BY InitType
  <1>2. \A h \in Helper, l \in Level : jobs[h][l] = <<>>
    BY DEF Init
  <1>3. OneRunPerLevel /\ JobsAgreed
    BY <1>2 DEF OneRunPerLevel, JobsAgreed
  <1>4. FilesAgreed
    BY DEF Init, FilesAgreed, EmptyStore
  <1>5. \A w \in Worker : HandlerAgrees(w)
    BY DEF Init, HandlerAgrees
  <1> QED
    BY <1>1, <1>3, <1>4, <1>5 DEF AgreementInv

\* Every step keeps the agreement.
LEMMA NextAgreement ==
  ASSUME OneAtATime, AgreementInv, Next
  PROVE  AgreementInv'
  <1>0. TypeInv'
    BY NextType DEF AgreementInv
  <1>1. ASSUME NEW h \in Helper, RequestQuery(h) PROVE AgreementInv'
    BY <1>0, <1>1, QueueAgreement DEF RequestQuery, handlerVars, fileVars
  <1>2. ASSUME NEW w \in Worker, Pull(w) PROVE AgreementInv'
    BY <1>0, <1>2, PullAgreement
  <1>3. ASSUME NEW w \in Worker, Handle(w) PROVE AgreementInv'
    <2>1. ASSUME PollJob(w) PROVE AgreementInv'
      <3>1. CASE Decide(w, "nack")
        BY <1>0, <3>1, DecideAway DEF Step
      <3>2. CASE FoundEnded(w, JobsOf(w)[run[w]])
        BY <1>0, <3>2, FoundEndedAgreement
      <3> QED
        BY <2>1, <3>1, <3>2 DEF PollJob
    <2> QED
      BY <1>0, <1>3, <2>1, ListJobsAgreement, DispatchAgreement, CheckPartnerAgreement,
         ReadOwnResultAgreement, SaveExpandParametersAgreement, LaunchAgreement,
         AfterLaunchAgreement, AckNackAgreement
      DEF Handle
  <1>4. ASSUME NEW w \in Worker, LeaseExpires(w) PROVE AgreementInv'
    BY <1>0, <1>4, QueueAgreement DEF LeaseExpires, fileVars
  <1>5. ASSUME NEW w \in Worker, Crash(w) PROVE AgreementInv'
    BY <1>0, <1>5, CrashAgreement
  <1>6. ASSUME NEW h \in Helper, NEW l \in Level, NEW i \in DOMAIN jobs[h][l],
               JobStep(h, l, i) \/ JobFails(h, l, i)
        PROVE  AgreementInv'
    <2>1. CASE JobWrites(h, l, i)
      BY <1>0, <2>1, JobWritesAgreement
    <2>2. CASE JobSucceeds(h, l, i)
      BY <1>0, <2>2, JobEndsAgreement DEF JobSucceeds
    <2>3. CASE JobFails(h, l, i)
      BY <1>0, <2>3, JobEndsAgreement DEF JobFails
    <2> QED
      BY <1>6, <2>1, <2>2, <2>3 DEF JobStep
  <1> QED
    BY <1>1, <1>2, <1>3, <1>4, <1>5, <1>6 DEF Next

\* A step without effect keeps it.
LEMMA StutterAgreement ==
  ASSUME AgreementInv, UNCHANGED vars
  PROVE  AgreementInv'
  <1>1. TypeInv'
    BY StutterType DEF AgreementInv
  <1> QED
    BY <1>1, QueueAgreement DEF vars

\* The agreement is an invariant of that deployment.
THEOREM AgreementCorrect ==
  ASSUME OneAtATime
  PROVE  Spec => []AgreementInv
  <1>1. Init => AgreementInv
    BY InitAgreement
  <1>2. AgreementInv /\ [Next]_vars => AgreementInv'
    BY NextAgreement, StutterAgreement
  <1> QED
    BY <1>1, <1>2, PTL DEF Spec

\* However often a request is delivered, and whatever crashes in between, a
\* helper starts at most one job for a level: what ListJobs finds is enough.
THEOREM OneRunPerLevelAlways ==
  ASSUME OneAtATime
  PROVE  Spec => []OneRunPerLevel
  <1>1. AgreementInv => OneRunPerLevel
    BY DEF AgreementInv
  <1> QED
    BY <1>1, AgreementCorrect, PTL

\* The results of the two helpers for a level are for the same buckets, so
\* MergePartialResult does not fail on them.
THEOREM KeysAgreeAlways ==
  ASSUME OneAtATime
  PROVE  Spec => []KeysAgree
  <1>1. AgreementInv => KeysAgree
    <2> SUFFICES ASSUME AgreementInv, NEW l \in Level,
                        Exists(partial, 1, l), Exists(partial, 2, l)
                 PROVE  DOMAIN partial[1][l] = DOMAIN partial[2][l]
      BY DEF KeysAgree
    <2>1. FileAgrees(1, l) /\ FileAgrees(2, l)
      BY DEF AgreementInv, FilesAgreed, Exists, Helper
    <2> QED
      BY <2>1 DEF FileAgrees
  <1> QED
    BY <1>1, AgreementCorrect, PTL

\* What a result above the first level is for follows from the two results
\* of the level before: neither helper went on from an older or other one.
THEOREM ExpandsMergedResultAlways ==
  ASSUME OneAtATime, Kinds = {"hierarchical"}
  PROVE  Spec => []ExpandsMergedResult
  <1>1. AgreementInv => ExpandsMergedResult
    <2> SUFFICES ASSUME AgreementInv, NEW h \in Helper, NEW l \in Level \ {0},
                        Exists(partial, h, l)
                 PROVE  /\ Exists(partial, 1, l - 1) /\ Exists(partial, 2, l - 1)
                        /\ DOMAIN partial[h][l] =
                             ExpandedBuckets(GetCurrentLevelParams(l,
                               MergePartialResult(partial[1][l - 1], partial[2][l - 1])))
      BY DEF ExpandsMergedResult
    <2>1. FileAgrees(h, l)
      BY DEF AgreementInv, FilesAgreed, Exists
    <2>2. l > 0 /\ l # 0 /\ kind # "direct"
      BY DEF Level, AgreementInv, TypeInv, TypeOK
    <2>3. Exists(partial, 1, l - 1) /\ Exists(partial, 2, l - 1)
      BY <2>1, <2>2 DEF FileAgrees, Ready, Helper
    <2>4. DOMAIN partial[h][l] = ExpandedBuckets(Expected(l))
      BY <2>1 DEF FileAgrees
    <2>5. Expected(l) = GetCurrentLevelParams(l,
                          MergePartialResult(partial[1][l - 1], partial[2][l - 1]))
      BY <2>2 DEF Expected
    <2> QED
      BY <2>3, <2>4, <2>5
  <1> QED
    BY <1>1, AgreementCorrect, PTL
-----------------------------------------------------------------------------
\* Results are written by jobs and by nothing else.
LEMMA OnlyJobsWrite ==
  ASSUME Next
  PROVE  \/ UNCHANGED <<kind, partial>>
         \/ \E h \in Helper, l \in Level : \E i \in DOMAIN jobs[h][l] : JobWrites(h, l, i)
  <1>1. ASSUME NEW h \in Helper, RequestQuery(h) PROVE UNCHANGED <<kind, partial>>
    BY <1>1 DEF RequestQuery, fileVars
  <1>2. ASSUME NEW w \in Worker, Pull(w) \/ LeaseExpires(w) \/ Crash(w)
        PROVE  UNCHANGED <<kind, partial>>
    BY <1>2 DEF Pull, LeaseExpires, Crash, fileVars
  <1>3. ASSUME NEW w \in Worker, Handle(w) PROVE UNCHANGED <<kind, partial>>
    <2>1. \A step : Decide(w, step) => UNCHANGED <<kind, partial>>
      BY DEF Decide, queueVars, fileVars
    <2>2. \A job : FoundEnded(w, job) => UNCHANGED <<kind, partial>>
      BY <2>1 DEF FoundEnded, queueVars, fileVars
    <2>3. ListJobs(w) \/ PollJob(w) => UNCHANGED <<kind, partial>>
      BY <2>1, <2>2 DEF ListJobs, PollJob, queueVars, fileVars
    <2>4. Dispatch(w) \/ CheckPartner(w) \/ ReadOwnResult(w) => UNCHANGED <<kind, partial>>
      BY <2>1 DEF Dispatch, CheckPartner, ReadOwnResult, queueVars, fileVars
    <2>5. SaveExpandParameters(w) => UNCHANGED <<kind, partial>>
      BY <2>1 DEF SaveExpandParameters, queueVars
    <2>6. Launch(w) \/ AwaitRun(w) \/ Publish(w) => UNCHANGED <<kind, partial>>
      BY <2>1 DEF Launch, AwaitRun, Publish, queueVars, fileVars
    <2>7. Ack(w) \/ Nack(w) => UNCHANGED <<kind, partial>>
      BY DEF Ack, Nack, fileVars
    <2> QED
      BY <1>3, <2>3, <2>4, <2>5, <2>6, <2>7 DEF Handle
  <1>4. ASSUME NEW h \in Helper, NEW l \in Level, NEW i \in DOMAIN jobs[h][l],
               JobStep(h, l, i) \/ JobFails(h, l, i)
        PROVE  UNCHANGED <<kind, partial>> \/ JobWrites(h, l, i)
    BY <1>4 DEF JobStep, JobSucceeds, JobFails, JobEnds, queueVars, fileVars
  <1> QED
    BY <1>1, <1>2, <1>3, <1>4 DEF Next

\* A result that the partner may have read is never replaced.
THEOREM WriteOnceAlways ==
  ASSUME OneAtATime
  PROVE  Spec => WriteOnce
  <1> DEFINE Kept == \A h \in Helper, l \in Level :
               Exists(partial, h, l) =>
                 Exists(partial', h, l) /\ partial'[h][l] = partial[h][l]
  <1>1. AgreementInv /\ [Next]_vars => [Kept]_vars
    <2> SUFFICES ASSUME AgreementInv, [Next]_vars PROVE [Kept]_vars
      OBVIOUS
    <2>1. CASE UNCHANGED <<kind, partial>>
      BY <2>1 DEF Exists
    <2>2. ASSUME NEW h \in Helper, NEW l \in Level, NEW i \in DOMAIN jobs[h][l],
                 JobWrites(h, l, i)
          PROVE  Kept
      <3>1. /\ \A g \in Helper \ {h} : partial'[g] = partial[g]
            /\ DOMAIN partial'[h] = DOMAIN partial[h] \cup {l}
            /\ \A k \in DOMAIN partial[h] : partial'[h][k] = partial[h][k]
        BY <2>2, FirstResult
      <3> QED
        BY <3>1 DEF Exists
    <2> QED
      BY <2>1, <2>2, OnlyJobsWrite
  <1> QED
    BY <1>1, AgreementCorrect, PTL DEF Spec, WriteOnce

\* The functions of the query, as the abstract specification sees them.
LEMMA SameFunctions ==
  /\ QuerySpec!EmptyStore = EmptyStore
  /\ QuerySpec!Helper = Helper
  /\ QuerySpec!QueryLevel = Level
  /\ \A h, l : QuerySpec!Exists(partial, h, l) = Exists(partial, h, l)
  /\ \A h, l, r : QuerySpec!Put(partial, h, l, r) = Put(partial, h, l, r)
  /\ \A h, params : QuerySpec!PartialResults(h, params, TRUE) = PartialResults(h, params, TRUE)
  /\ kind # "direct" => \A l : QuerySpec!AgreedParams(l) = Expected(l)
  <1>1. QuerySpec!Helper = Helper /\ QuerySpec!QueryLevel = Level
    BY DEF QuerySpec!Helper, Helper, QuerySpec!QueryLevel, Level
  <1>2. /\ QuerySpec!EmptyStore = EmptyStore
        /\ \A h, l : QuerySpec!Exists(partial, h, l) = Exists(partial, h, l)
        /\ \A h, l, r : QuerySpec!Put(partial, h, l, r) = Put(partial, h, l, r)
    BY <1>1 DEF QuerySpec!EmptyStore, EmptyStore, QuerySpec!Exists, Exists,
                QuerySpec!Put, Put
  <1>3. ASSUME NEW h, NEW params
        PROVE  QuerySpec!PartialResults(h, params, TRUE) = PartialResults(h, params, TRUE)
    <2>1. QuerySpec!ExpandedBuckets(params) = ExpandedBuckets(params)
      BY DEF QuerySpec!ExpandedBuckets, ExpandedBuckets, QuerySpec!ExpansionSize, ExpansionSize
    <2>2. QuerySpec!Word = Word
      BY DEF QuerySpec!Word, Word
    <2>3. \A buckets, shares, noise :
            QuerySpec!AggregatePartialReport(buckets, shares, noise) =
              AggregatePartialReport(buckets, shares, noise)
      BY DEF QuerySpec!AggregatePartialReport, AggregatePartialReport
    <2> QED
      BY <2>1, <2>2, <2>3 DEF QuerySpec!PartialResults, PartialResults
  <1>4. ASSUME kind # "direct", NEW l
        PROVE  QuerySpec!AgreedParams(l) = Expected(l)
    <2>1. QuerySpec!EmptyHistogram = EmptyHistogram
      BY DEF QuerySpec!EmptyHistogram, EmptyHistogram
    <2>2. \A r1, r2 : QuerySpec!MergePartialResult(r1, r2) = MergePartialResult(r1, r2)
      BY DEF QuerySpec!MergePartialResult, MergePartialResult
    <2>3. \A k, r : QuerySpec!GetCurrentLevelParams(k, r) = GetCurrentLevelParams(k, r)
      <3>1. \A k : QuerySpec!FirstLevelParams(k) = FirstLevelParams(k)
        BY DEF QuerySpec!FirstLevelParams, FirstLevelParams
      <3>2. \A r, t : QuerySpec!GetNextNonemptyPrefixes(r, t) = GetNextNonemptyPrefixes(r, t)
        BY DEF QuerySpec!GetNextNonemptyPrefixes, GetNextNonemptyPrefixes
      <3> QED
        BY <2>1, <3>1, <3>2 DEF QuerySpec!GetCurrentLevelParams, GetCurrentLevelParams
    <2> QED
      BY <1>4, <2>1, <2>2, <2>3 DEF QuerySpec!AgreedParams, Expected
  <1> QED
    BY <1>1, <1>2, <1>3, <1>4

\* The handlers, jobs and files of a hierarchical query implement the query:
\* each helper releases each level once, from what both released before.
THEOREM ImplementsQueryAlways ==
  ASSUME OneAtATime, Kinds = {"hierarchical"}
  PROVE  Spec => ImplementsQuery
  <1>1. Init => QuerySpec!Init
    BY SameFunctions DEF Init, QuerySpec!Init
  <1>2. AgreementInv /\ [Next]_vars => [QuerySpec!Next]_partial
    <2> SUFFICES ASSUME AgreementInv, [Next]_vars, partial' # partial
                 PROVE  QuerySpec!Next
      OBVIOUS
    <2>1. PICK h \in Helper, l \in Level : \E i \in DOMAIN jobs[h][l] : JobWrites(h, l, i)
      BY OnlyJobsWrite DEF vars
    <2>2. PICK i \in DOMAIN jobs[h][l] : JobWrites(h, l, i)
      BY <2>1
    <2>3. kind = "hierarchical"
      BY DEF AgreementInv, TypeInv, TypeOK
    <2>4. /\ l \notin DOMAIN partial[h]
          /\ Ready(l)
          /\ \E result \in PartialResults(h, Expected(l), kind # "reach") :
               partial' = Put(partial, h, l, result)
      BY <2>2, FirstResult
    <2>5. (kind # "reach") = TRUE
      BY <2>3
    <2>6. /\ ~ Exists(partial, h, l)
          /\ l > 0 => \A g \in Helper : Exists(partial, g, l - 1)
          /\ \E result \in PartialResults(h, Expected(l), TRUE) :
               partial' = Put(partial, h, l, result)
      BY <2>4, <2>5 DEF Exists, Ready
    <2>7. QuerySpec!AgreedParams(l) = Expected(l)
      BY <2>3, SameFunctions
    <2>8. QuerySpec!Release(h, l)
      BY <2>6, <2>7, SameFunctions DEF QuerySpec!Release
    <2> QED
      BY <2>8, SameFunctions DEF QuerySpec!Next
  <1> QED
    BY <1>1, <1>2, AgreementCorrect, PTL DEF Spec, ImplementsQuery, QuerySpec!Spec
=============================================================================
