---------------------------- MODULE ProgressProofs ----------------------------
(***************************************************************************)
(* What holds of AggregatorService in every deployment, whatever the       *)
(* runner, the number of replicas and the faults: the levels of a query    *)
(* are aggregated in order, a job that is done has left its result, and,   *)
(* as long as the configuration can be read, no request is lost silently.  *)
(***************************************************************************)
EXTENDS AggregatorService_proofs

HasDone(h, l) == \E i \in DOMAIN jobs[h][l] : jobs[h][l][i].state = "done"

\* A request above the first level was sent after the level before was done.
QueueInOrder == \A m \in sub : m.level > 0 => HasDone(m.helper, m.level - 1)

\* A job writes its result before it is reported as done.
ResultsWritten ==
  \A h \in Helper, l \in Level : \A i \in DOMAIN jobs[h][l] :
    jobs[h][l][i].state \in {"written", "done"} => Exists(partial, h, l)

\* What a handler knows: the level before its own is done; its own level is,
\* once it says so; the inputs it has found are there when it launches.
HandlerInOrder(w) ==
  /\ pc[w] = "idle" => ~ jobDone[w]
  /\ pc[w] # "idle" =>
       /\ msg[w].helper = HelperOf[w]
       /\ msg[w].level > 0 => HasDone(HelperOf[w], msg[w].level - 1)
  /\ jobDone[w] \/ pc[w] = "publish" => HasDone(HelperOf[w], msg[w].level)
  /\ pc[w] \in {"list", "wait"} => OnDataflow(HelperOf[w])
  /\ pc[w] = "params" /\ msg[w].level > 0 =>
       Exists(partial, HelperOf[w], msg[w].level - 1)
  /\ pc[w] = "launch" /\ msg[w].level > 0 =>
       \A g \in Helper : Exists(partial, g, msg[w].level - 1)

ProgressInv ==
  /\ TypeInv
  /\ QueueInOrder
  /\ ResultsWritten
  /\ LevelsInOrder
  /\ \A w \in Worker : HandlerInOrder(w)

\* The query does not depend on a request for level l of h any more: it is
\* settled, or goes on with a request for a later level.
Covered(h, l) == Settled(h) \/ \E m \in sub : m.helper = h /\ m.level > l

\* A handler acknowledges only a request that the query can do without.
AckCovered == \A w \in Worker : pc[w] = "ack" => Covered(HelperOf[w], msg[w].level)

LossInv == ProgressInv /\ AckCovered /\ NoSilentLoss
-----------------------------------------------------------------------------
(* What a step may only add to. *)

\* No job disappears or changes its outcome, no file is removed, no dead
\* letter comes back.
Grows ==
  /\ kind' = kind
  /\ \A h \in Helper, l \in Level : \A i \in DOMAIN jobs[h][l] :
       /\ i \in DOMAIN jobs'[h][l]
       /\ jobs[h][l][i].state \in {"done", "failed"} =>
            jobs'[h][l][i].state = jobs[h][l][i].state
  /\ \A h \in Helper : DOMAIN partial[h] \subseteq DOMAIN partial'[h]
  /\ dead \subseteq dead'

\* The level before that of a request is a level.
LEMMA LevelBefore ==
  ASSUME NEW l \in Level
  PROVE  /\ l \in Nat
         /\ l > 0 => l - 1 \in Level /\ l - 1 >= 0
  BY LengthsType DEF Level

\* A level that is done stays done.
LEMMA DoneStays ==
  ASSUME Grows, NEW h \in Helper, NEW l \in Level, HasDone(h, l)
  PROVE  HasDone(h, l)'
  BY DEF Grows, HasDone

\* A file that exists goes on to exist.
LEMMA FilesStay ==
  ASSUME Grows, NEW h \in Helper, NEW l, Exists(partial, h, l)
  PROVE  Exists(partial, h, l)'
  BY DEF Grows, Exists

\* A handler that a step is not about knows what it knew.
LEMMA HandlerStays ==
  ASSUME TypeInv, Grows, NEW v \in Worker, HandlerInOrder(v),
         UNCHANGED <<pc[v], msg[v], jobDone[v]>>
  PROVE  HandlerInOrder(v)'
  <1> DEFINE h == HelperOf[v]
             l == msg[v].level
  <1>1. CASE pc[v] = "idle"
    BY <1>1 DEF HandlerInOrder
  <1>2. CASE pc[v] # "idle"
    <2>1. h \in Helper /\ l \in Level
      BY <1>2, HandledMessage DEF TypeInv
    <2>2. l > 0 => l - 1 \in Level
      BY <2>1, LevelBefore
    <2>3. msg[v].helper = h /\ (l > 0 => HasDone(h, l - 1)')
      BY <1>2, <2>1, <2>2, DoneStays DEF HandlerInOrder
    <2>4. jobDone[v] \/ pc[v] = "publish" => HasDone(h, l)'
      BY <2>1, DoneStays DEF HandlerInOrder
    <2>5. pc[v] = "params" /\ l > 0 => Exists(partial, h, l - 1)'
      BY <2>1, FilesStay DEF HandlerInOrder
    <2>6. pc[v] = "launch" /\ l > 0 => \A g \in Helper : Exists(partial, g, l - 1)'
      BY FilesStay DEF HandlerInOrder
    <2>7. HasDone(HelperOf[v], msg[v].level)' = HasDone(h, l)'
      BY DEF HasDone
    <2>8. HasDone(HelperOf[v], msg[v].level - 1)' = HasDone(h, l - 1)'
      BY DEF HasDone
    <2> QED
      BY <1>2, <2>3, <2>4, <2>5, <2>6, <2>7, <2>8 DEF HandlerInOrder, Exists
  <1> QED
    BY <1>1, <1>2

\* What a step of one handler has to establish.
LEMMA OneHandlerInOrder ==
  ASSUME ProgressInv, TypeInv', Grows, ResultsWritten', LevelsInOrder',
         \A m \in sub' \ sub : m.level > 0 => HasDone(m.helper, m.level - 1),
         NEW w, \A v \in Worker \ {w} : UNCHANGED <<pc[v], msg[v], jobDone[v]>>,
         w \in Worker => HandlerInOrder(w)'
  PROVE  ProgressInv'
  <1>1. QueueInOrder'
    <2> SUFFICES ASSUME NEW m \in sub', m.level > 0
                 PROVE  HasDone(m.helper, m.level - 1)'
      BY DEF QueueInOrder
    <2>1. HasDone(m.helper, m.level - 1)
      BY DEF ProgressInv, QueueInOrder
    <2>2. m.helper \in Helper /\ m.level \in Level
      BY DEF TypeInv, TypeOK, Message
    <2> QED
      BY <2>1, <2>2, LevelBefore, DoneStays
  <1>2. \A v \in Worker : HandlerInOrder(v)'
    BY HandlerStays DEF ProgressInv
  <1> QED
    BY <1>1, <1>2 DEF ProgressInv

\* A step that leaves the jobs and the results alone.
LEMMA QuietStep ==
  ASSUME ProgressInv, UNCHANGED <<kind, partial, jobs>>, dead \subseteq dead'
  PROVE  Grows /\ ResultsWritten' /\ LevelsInOrder'
  BY DEF ProgressInv, Grows, ResultsWritten, LevelsInOrder, Exists
-----------------------------------------------------------------------------
(* The steps of the handler. *)

\* A step that only decides what comes next.
LEMMA DecideInOrder ==
  ASSUME ProgressInv, TypeInv', NEW w \in Worker, NEW step, pc[w] # "idle",
         Decide(w, step), step \notin {"idle", "list", "wait"},
         step = "publish" => HasDone(HelperOf[w], msg[w].level),
         step = "params" /\ msg[w].level > 0 =>
           Exists(partial, HelperOf[w], msg[w].level - 1),
         step = "launch" /\ msg[w].level > 0 =>
           \A g \in Helper : Exists(partial, g, msg[w].level - 1)
  PROVE  ProgressInv' /\ Grows
  <1>1. /\ pc' = [pc EXCEPT ![w] = step] /\ pc \in [Worker -> Step]
        /\ UNCHANGED <<kind, sub, dead, msg, jobDone, partial, jobs>>
    BY DEF Decide, Goto, queueVars, fileVars, ProgressInv, TypeInv, TypeOK
  <1>2. Grows /\ ResultsWritten' /\ LevelsInOrder'
    BY <1>1, QuietStep
  <1>3. \A v \in Worker \ {w} : UNCHANGED <<pc[v], msg[v], jobDone[v]>>
    BY <1>1
  <1>4. HandlerInOrder(w)'
    BY <1>1 DEF ProgressInv, HandlerInOrder, HasDone, Exists
  <1> QED
    BY <1>1, <1>2, <1>3, <1>4, OneHandlerInOrder DEF ProgressInv

\* The query tool asks for the first level.
LEMMA RequestQueryInOrder ==
  ASSUME ProgressInv, TypeInv', NEW h \in Helper, RequestQuery(h)
  PROVE  ProgressInv' /\ Grows
  <1>1. /\ \A m \in sub' \ sub : m.level = 0
        /\ UNCHANGED <<kind, dead, pc, msg, jobDone, partial, jobs>>
    BY DEF RequestQuery, Send, handlerVars, fileVars
  <1>2. Grows /\ ResultsWritten' /\ LevelsInOrder'
    BY <1>1, QuietStep
  <1>3. \A v \in Worker : HandlerInOrder(v)'
    BY <1>1, <1>2, HandlerStays DEF ProgressInv
  <1> QED
    BY <1>1, <1>2, <1>3, OneHandlerInOrder DEF ProgressInv

\* A replica takes over what holds of the request.
LEMMA PullInOrder ==
  ASSUME ProgressInv, TypeInv', NEW w \in Worker, Pull(w)
  PROVE  ProgressInv' /\ Grows
  <1>1. PICK m \in sub : m.helper = HelperOf[w] /\ msg' = [msg EXCEPT ![w] = m]
    BY DEF Pull
  <1>2. /\ pc[w] = "idle"
        /\ pc' = [pc EXCEPT ![w] = IF OnDataflow(HelperOf[w]) THEN "list" ELSE "dispatch"]
        /\ UNCHANGED <<kind, sub, dead, jobDone, partial, jobs>>
    BY DEF Pull, At, Goto, fileVars
  <1>3. msg \in [Worker -> Message \cup {NoMessage}] /\ pc \in [Worker -> Step]
    BY DEF ProgressInv, TypeInv, TypeOK
  <1>4. Grows /\ ResultsWritten' /\ LevelsInOrder'
    BY <1>2, QuietStep
  <1>5. \A v \in Worker \ {w} : UNCHANGED <<pc[v], msg[v], jobDone[v]>>
    BY <1>1, <1>2, <1>3
  <1>6. msg'[w] = m /\ ~ jobDone'[w] /\ pc'[w] \in {"list", "dispatch"}
        /\ (pc'[w] = "list" => OnDataflow(HelperOf[w]))
    BY <1>1, <1>2, <1>3 DEF ProgressInv, HandlerInOrder
  <1>7. m.level > 0 => HasDone(HelperOf[w], m.level - 1)
    BY <1>1 DEF ProgressInv, QueueInOrder
  <1>8. HandlerInOrder(w)'
    BY <1>1, <1>2, <1>6, <1>7 DEF HandlerInOrder, HasDone
  <1> QED
    BY <1>2, <1>4, <1>5, <1>8, OneHandlerInOrder

\* A job that has ended is remembered when it is done.
LEMMA FoundEndedInOrder ==
  ASSUME ProgressInv, TypeInv', NEW w \in Worker, pc[w] \in {"list", "wait"},
         NEW i \in DOMAIN JobsOf(w), FoundEnded(w, JobsOf(w)[i])
  PROVE  ProgressInv' /\ Grows
  <1>1. CASE Decide(w, "ack")
    BY <1>1, DecideInOrder
  <1>2. CASE /\ JobsOf(w)[i].state = "done"
             /\ jobDone' = [jobDone EXCEPT ![w] = TRUE]
             /\ Goto(w, "dispatch")
             /\ UNCHANGED <<queueVars, msg, lease, own, run, fileVars, jobs>>
    <2>1. /\ pc' = [pc EXCEPT ![w] = "dispatch"]
          /\ UNCHANGED <<kind, sub, dead, msg, partial, jobs>>
      BY <1>2 DEF Goto, queueVars, fileVars
    <2>2. pc \in [Worker -> Step] /\ jobDone \in [Worker -> BOOLEAN]
      BY DEF ProgressInv, TypeInv, TypeOK
    <2>3. Grows /\ ResultsWritten' /\ LevelsInOrder'
      BY <2>1, QuietStep
    <2>4. \A v \in Worker \ {w} : UNCHANGED <<pc[v], msg[v], jobDone[v]>>
      BY <1>2, <2>1, <2>2
    <2>5. HasDone(HelperOf[w], msg[w].level)
      BY <1>2 DEF HasDone, JobsOf
    <2>6. HandlerInOrder(w)'
      BY <2>1, <2>2, <2>5 DEF ProgressInv, HandlerInOrder, HasDone
    <2> QED
      BY <2>1, <2>3, <2>4, <2>6, OneHandlerInOrder
  <1> QED
    BY <1>1, <1>2 DEF FoundEnded

\* The list tells of a job only to a handler that runs it on Dataflow.
LEMMA ListJobsInOrder ==
  ASSUME ProgressInv, TypeInv', NEW w \in Worker, ListJobs(w)
  PROVE  ProgressInv' /\ Grows
  <1>0. pc[w] = "list"
    BY DEF ListJobs, At
  <1>1. CASE Decide(w, "nack") \/ Decide(w, "dispatch")
    BY <1>0, <1>1, DecideInOrder
  <1>2. ASSUME NEW i \in DOMAIN JobsOf(w), FoundEnded(w, JobsOf(w)[i])
        PROVE  ProgressInv' /\ Grows
    BY <1>0, <1>2, FoundEndedInOrder
  <1>3. ASSUME NEW i \in DOMAIN JobsOf(w), Goto(w, "wait"),
               UNCHANGED <<queueVars, msg, lease, jobDone, own, fileVars, jobs>>
        PROVE  ProgressInv' /\ Grows
    <2>1. /\ pc' = [pc EXCEPT ![w] = "wait"] /\ pc \in [Worker -> Step]
          /\ UNCHANGED <<kind, sub, dead, msg, jobDone, partial, jobs>>
      BY <1>3 DEF Goto, queueVars, fileVars, ProgressInv, TypeInv, TypeOK
    <2>2. Grows /\ ResultsWritten' /\ LevelsInOrder'
      BY <2>1, QuietStep
    <2>3. \A v \in Worker \ {w} : UNCHANGED <<pc[v], msg[v], jobDone[v]>>
      BY <2>1
    <2>4. HandlerInOrder(w)'
      BY <1>0, <2>1 DEF ProgressInv, HandlerInOrder, HasDone
    <2> QED
      BY <2>1, <2>2, <2>3, <2>4, OneHandlerInOrder
  <1> QED
    BY <1>1, <1>2, <1>3 DEF ListJobs

\* The same for the polls of that job.
LEMMA PollJobInOrder ==
  ASSUME ProgressInv, TypeInv', NEW w \in Worker, PollJob(w)
  PROVE  ProgressInv' /\ Grows
  <1>0. pc[w] = "wait" /\ run[w] \in DOMAIN JobsOf(w)
    BY DEF PollJob, At, ProgressInv, TypeInv, RunExists
  <1>1. CASE Decide(w, "nack")
    BY <1>0, <1>1, DecideInOrder
  <1>2. CASE FoundEnded(w, JobsOf(w)[run[w]])
    BY <1>0, <1>2, FoundEndedInOrder
  <1> QED
    BY <1>1, <1>2 DEF PollJob

\* Only a hierarchical query has levels above the first; one of them goes to
\* the partner's result, and no level is published before it is done.
LEMMA DispatchInOrder ==
  ASSUME ProgressInv, TypeInv', NEW w \in Worker, Dispatch(w)
  PROVE  ProgressInv' /\ Grows
  <1>0. pc[w] = "dispatch"
    BY DEF Dispatch, At
  <1>1. jobDone[w] => HasDone(HelperOf[w], msg[w].level)
    BY DEF ProgressInv, HandlerInOrder
  <1>2. kind # "hierarchical" => ~ (msg[w].level > 0)
    <2>1. msg[w].level <= FinalLevel /\ msg[w].level \in Level
      BY <1>0, HandledMessage DEF ProgressInv, TypeInv, LevelsInRange
    <2> QED
      BY <2>1, LevelBefore DEF FinalLevel
  <1>3. CASE kind = "reach" /\ Decide(w, "launch")
    BY <1>0, <1>2, <1>3, DecideInOrder
  <1>4. CASE kind = "hierarchical" /\ Decide(w, HierarchicalStep(w))
    <2>1. CASE ~ jobDone[w]
      BY <1>0, <1>4, <2>1, DecideInOrder DEF HierarchicalStep
    <2>2. CASE jobDone[w]
      BY <1>0, <1>1, <1>4, <2>2, DecideInOrder DEF HierarchicalStep
    <2> QED
      BY <2>1, <2>2
  <1>5. CASE kind = "direct" /\ Decide(w, IF jobDone[w] THEN "ack" ELSE "params")
    BY <1>0, <1>2, <1>5, DecideInOrder
  <1>6. CASE Decide(w, IF jobDone[w] THEN "ack" ELSE "nack") \/ Decide(w, "ack")
    BY <1>0, <1>6, DecideInOrder
  <1> QED
    BY <1>3, <1>4, <1>5, <1>6 DEF Dispatch

\* The partner's result is looked for, the helper's own is read.
LEMMA CheckPartnerInOrder ==
  ASSUME ProgressInv, TypeInv', NEW w \in Worker, CheckPartner(w)
  PROVE  ProgressInv' /\ Grows
  <1>1. pc[w] = "partner"
    BY DEF CheckPartner, At
  <1>2. PICK step \in {"own", "nack"} : Decide(w, step)
    BY DEF CheckPartner
  <1> QED
    BY <1>1, <1>2, DecideInOrder

\* A helper reads its own result of a level that has one.
LEMMA ReadOwnResultInOrder ==
  ASSUME ProgressInv, TypeInv', NEW w \in Worker, ReadOwnResult(w)
  PROVE  ProgressInv' /\ Grows
  <1>0. pc[w] = "own"
    BY DEF ReadOwnResult, At
  <1>1. CASE Decide(w, "nack")
    BY <1>0, <1>1, DecideInOrder
  <1>2. CASE /\ Exists(partial, HelperOf[w], msg[w].level - 1)
             /\ Goto(w, "params")
             /\ UNCHANGED <<queueVars, msg, lease, jobDone, run, fileVars, jobs>>
    <2>1. /\ pc' = [pc EXCEPT ![w] = "params"] /\ pc \in [Worker -> Step]
          /\ UNCHANGED <<kind, sub, dead, msg, jobDone, partial, jobs>>
      BY <1>2 DEF Goto, queueVars, fileVars, ProgressInv, TypeInv, TypeOK
    <2>2. Grows /\ ResultsWritten' /\ LevelsInOrder'
      BY <2>1, QuietStep
    <2>3. \A v \in Worker \ {w} : UNCHANGED <<pc[v], msg[v], jobDone[v]>>
      BY <2>1
    <2>4. HandlerInOrder(w)'
      BY <1>0, <1>2, <2>1 DEF ProgressInv, HandlerInOrder, HasDone, Exists
    <2> QED
      BY <2>1, <2>2, <2>3, <2>4, OneHandlerInOrder
  <1> QED
    BY <1>1, <1>2 DEF ReadOwnResult

\* Both results have been found when the parameters are saved.
LEMMA SaveExpandParametersInOrder ==
  ASSUME ProgressInv, TypeInv', NEW w \in Worker, SaveExpandParameters(w)
  PROVE  ProgressInv' /\ Grows
  <1>0. pc[w] = "params"
    BY DEF SaveExpandParameters, At
  <1>1. CASE Decide(w, "nack")
    BY <1>0, <1>1, DecideInOrder
  <1>2. CASE /\ msg[w].level > 0 => Exists(partial, Partner(HelperOf[w]), msg[w].level - 1)
             /\ Goto(w, "launch")
             /\ UNCHANGED <<queueVars, msg, lease, jobDone, run, partial, decrypted, jobs>>
    <2>1. /\ pc' = [pc EXCEPT ![w] = "launch"] /\ pc \in [Worker -> Step]
          /\ UNCHANGED <<kind, sub, dead, msg, jobDone, partial, jobs>>
      BY <1>2 DEF Goto, queueVars, ProgressInv, TypeInv, TypeOK
    <2>2. Grows /\ ResultsWritten' /\ LevelsInOrder'
      BY <2>1, QuietStep
    <2>3. \A v \in Worker \ {w} : UNCHANGED <<pc[v], msg[v], jobDone[v]>>
      BY <2>1
    <2>4. msg[w].level > 0 => \A g \in Helper : Exists(partial, g, msg[w].level - 1)
      <3>1. HelperOf[w] \in Helper
        BY AggregatorAssumption
      <3>2. \A g \in Helper : g = HelperOf[w] \/ g = Partner(HelperOf[w])
        BY <3>1 DEF Helper, Partner
      <3>3. msg[w].level > 0 => Exists(partial, HelperOf[w], msg[w].level - 1)
        BY <1>0 DEF ProgressInv, HandlerInOrder
      <3> QED
        BY <1>2, <3>2, <3>3
    <2>5. HandlerInOrder(w)'
      BY <1>0, <2>1, <2>4 DEF ProgressInv, HandlerInOrder, HasDone, Exists
    <2> QED
      BY <2>1, <2>2, <2>3, <2>5, OneHandlerInOrder
  <1> QED
    BY <1>1, <1>2 DEF SaveExpandParameters

\* A new job at the end of one list: the lists it gives.
LEMMA JobAppended ==
  ASSUME TypeInv, NEW h \in Helper, NEW l \in Level, NEW params,
         jobs' = [jobs EXCEPT ![h][l] = Append(@, [state |-> "running", params |-> params])]
  PROVE  /\ \A g \in Helper, k \in Level : g # h \/ k # l => jobs'[g][k] = jobs[g][k]
         /\ DOMAIN jobs'[h][l] = DOMAIN jobs[h][l] \cup {Len(jobs[h][l]) + 1}
         /\ Len(jobs[h][l]) + 1 \notin DOMAIN jobs[h][l]
         /\ \A i \in DOMAIN jobs[h][l] : jobs'[h][l][i] = jobs[h][l][i]
         /\ jobs'[h][l][Len(jobs[h][l]) + 1].state = "running"
  <1> DEFINE job == [state |-> "running", params |-> params]
             s == jobs[h][l]
             u == [jobs[h] EXCEPT ![l] = Append(s, job)]
  <1>1. jobs \in [Helper -> [Level -> Seq(Job)]] /\ s \in Seq(Job)
    BY DEF TypeInv, TypeOK
  <1>2. job.state = "running"
    OBVIOUS
  <1>3. jobs' = [jobs EXCEPT ![h] = u]
    OBVIOUS
  <1> HIDE DEF job
  <1>4. /\ DOMAIN Append(s, job) = DOMAIN s \cup {Len(s) + 1}
        /\ Len(s) + 1 \notin DOMAIN s
        /\ \A i \in DOMAIN s : Append(s, job)[i] = s[i]
        /\ Append(s, job)[Len(s) + 1] = job
    BY <1>1
  <1>5. u[l] = Append(s, job) /\ \A k \in Level \ {l} : u[k] = jobs[h][k]
    BY <1>1
  <1> HIDE DEF u
  <1>6. jobs'[h] = u /\ \A g \in Helper \ {h} : jobs'[g] = jobs[g]
    BY <1>1, <1>3
  <1> QED
    BY <1>2, <1>4, <1>5, <1>6

\* A job is started above the first level only when the level before is done
\* and both results are there.
LEMMA LaunchInOrder ==
  ASSUME ProgressInv, TypeInv', NEW w \in Worker, Launch(w)
  PROVE  ProgressInv' /\ Grows
  <1>0. pc[w] = "launch"
    BY DEF Launch, At
  <1>h. PICK h \in Helper, l \in Level : h = HelperOf[w] /\ l = msg[w].level
    BY <1>0, HandledMessage DEF ProgressInv, TypeInv
  <1> DEFINE n == Len(jobs[h][l]) + 1
  <1>1. CASE Decide(w, "nack")
    BY <1>0, <1>1, DecideInOrder
  <1>2. CASE /\ jobs' = [jobs EXCEPT ![h][l] =
                           Append(@, [state |-> "running", params |-> LaunchParams(h, l)])]
             /\ Goto(w, "run")
             /\ UNCHANGED <<queueVars, msg, lease, jobDone, own, fileVars>>
    <2>1. /\ pc' = [pc EXCEPT ![w] = "run"] /\ pc \in [Worker -> Step]
          /\ UNCHANGED <<kind, sub, dead, msg, jobDone, partial>>
      BY <1>2 DEF Goto, queueVars, fileVars, ProgressInv, TypeInv, TypeOK
    <2>2. /\ \A g \in Helper, k \in Level : g # h \/ k # l => jobs'[g][k] = jobs[g][k]
          /\ DOMAIN jobs'[h][l] = DOMAIN jobs[h][l] \cup {n}
          /\ n \notin DOMAIN jobs[h][l]
          /\ \A i \in DOMAIN jobs[h][l] : jobs'[h][l][i] = jobs[h][l][i]
          /\ jobs'[h][l][n].state = "running"
      BY <1>2, JobAppended DEF ProgressInv
    <2> HIDE DEF n
    <2>3. Grows
      BY <2>1, <2>2 DEF Grows
    <2>4. ResultsWritten'
      <3> SUFFICES ASSUME NEW g \in Helper, NEW k \in Level, NEW i \in DOMAIN jobs'[g][k],
                          jobs'[g][k][i].state \in {"written", "done"}
                   PROVE  Exists(partial, g, k)'
        BY DEF ResultsWritten
      <3>1. i \in DOMAIN jobs[g][k] /\ jobs[g][k][i] = jobs'[g][k][i]
        BY <2>2
      <3>2. Exists(partial, g, k)
        BY <3>1 DEF ProgressInv, ResultsWritten
      <3> QED
        BY <2>1, <3>2 DEF Exists
    <2>5. l > 0 => HasDone(h, l - 1) /\ \A g \in Helper : Exists(partial, g, l - 1)
      BY <1>0, <1>h DEF ProgressInv, HandlerInOrder
    <2>6. LevelsInOrder'
      <3> SUFFICES ASSUME NEW g \in Helper, NEW k \in Level \ {0}, jobs'[g][k] # <<>>
                   PROVE  HasDone(g, k - 1)' /\ \A f \in Helper : Exists(partial, f, k - 1)'
        BY DEF LevelsInOrder, HasDone
      <3>1. k > 0 /\ k - 1 \in Level
        BY LevelBefore
      <3>2. HasDone(g, k - 1) /\ \A f \in Helper : Exists(partial, f, k - 1)
        <4>1. CASE g = h /\ k = l
          BY <2>5, <3>1, <4>1
        <4>2. CASE g # h \/ k # l
          BY <2>2, <4>2 DEF ProgressInv, LevelsInOrder, HasDone
        <4> QED
          BY <4>1, <4>2
      <3> QED
        BY <2>3, <3>1, <3>2, DoneStays, FilesStay
    <2>7. \A v \in Worker \ {w} : UNCHANGED <<pc[v], msg[v], jobDone[v]>>
      BY <2>1
    <2>8. (l > 0 => HasDone(h, l - 1)') /\ (jobDone[w] => HasDone(h, l)')
      <3>1. jobDone[w] => HasDone(h, l)
        BY <1>h DEF ProgressInv, HandlerInOrder
      <3> QED
        BY <2>3, <2>5, <3>1, LevelBefore, DoneStays
    <2>9. HandlerInOrder(w)'
      <3>1. msg'[w] = msg[w] /\ jobDone'[w] = jobDone[w] /\ pc'[w] = "run"
            /\ msg[w].helper = HelperOf[w]
        BY <1>0, <2>1 DEF ProgressInv, HandlerInOrder
      <3>2. /\ jobDone[w] => HasDone(HelperOf[w], msg[w].level)'
            /\ l > 0 => HasDone(HelperOf[w], msg[w].level - 1)'
        BY <1>h, <2>8, <3>1 DEF HasDone
      <3> QED
        BY <1>h, <3>1, <3>2 DEF HandlerInOrder
    <2> QED
      BY <2>1, <2>3, <2>4, <2>6, <2>7, <2>9, OneHandlerInOrder
  <1> QED
    BY <1>h, <1>1, <1>2 DEF Launch

\* A job that has been waited for is done.
LEMMA AwaitRunInOrder ==
  ASSUME ProgressInv, TypeInv', NEW w \in Worker, AwaitRun(w)
  PROVE  ProgressInv' /\ Grows
  <1>0. pc[w] = "run" /\ run[w] \in DOMAIN JobsOf(w)
    BY DEF AwaitRun, At, ProgressInv, TypeInv, RunExists
  <1>1. CASE Decide(w, "nack")
    BY <1>0, <1>1, DecideInOrder
  <1>2. CASE /\ JobsOf(w)[run[w]].state = "done"
             /\ Decide(w, IF msg[w].level = FinalLevel THEN "ack" ELSE "publish")
    <2>1. HasDone(HelperOf[w], msg[w].level)
      BY <1>0, <1>2 DEF HasDone, JobsOf
    <2> QED
      BY <1>0, <1>2, <2>1, DecideInOrder
  <1> QED
    BY <1>1, <1>2 DEF AwaitRun

\* The next level is requested when this one is done.
LEMMA PublishInOrder ==
  ASSUME ProgressInv, TypeInv', NEW w \in Worker, Publish(w)
  PROVE  ProgressInv' /\ Grows
  <1>0. pc[w] = "publish" /\ HelperOf[w] \in Helper /\ msg[w].level \in Level
    BY HandledMessage DEF Publish, At, ProgressInv, TypeInv
  <1>1. CASE Decide(w, "nack")
    BY <1>0, <1>1, DecideInOrder
  <1>2. ASSUME NEW c,
               Send([helper |-> HelperOf[w], level |-> msg[w].level + 1, copy |-> c]),
               NEW step \in {"ack", "nack"}, Goto(w, step),
               UNCHANGED <<kind, requested, dead, msg, lease, jobDone, own, run, fileVars, jobs>>
        PROVE  ProgressInv' /\ Grows
    <2>1. /\ pc' = [pc EXCEPT ![w] = step] /\ pc \in [Worker -> Step]
          /\ UNCHANGED <<kind, dead, msg, jobDone, partial, jobs>>
      BY <1>2 DEF Goto, fileVars, ProgressInv, TypeInv, TypeOK
    <2>2. HasDone(HelperOf[w], msg[w].level)
      BY <1>0 DEF ProgressInv, HandlerInOrder
    <2>3. \A m \in sub' \ sub : m.level > 0 => HasDone(m.helper, m.level - 1)
      <3> SUFFICES ASSUME NEW m \in sub' \ sub
                   PROVE  HasDone(m.helper, m.level - 1)
        OBVIOUS
      <3>1. m.helper = HelperOf[w] /\ m.level = msg[w].level + 1
        BY <1>2 DEF Send
      <3>2. m.level - 1 = msg[w].level
        <4>1. msg[w].level \in Nat
          BY <1>0, LevelBefore
        <4> QED
          BY <3>1, <4>1
      <3> QED
        BY <2>2, <3>1, <3>2
    <2>4. Grows /\ ResultsWritten' /\ LevelsInOrder'
      BY <2>1, QuietStep
    <2>5. \A v \in Worker \ {w} : UNCHANGED <<pc[v], msg[v], jobDone[v]>>
      BY <2>1
    <2>6. HandlerInOrder(w)'
      BY <1>0, <2>1 DEF ProgressInv, HandlerInOrder, HasDone
    <2> QED
      BY <2>3, <2>4, <2>5, <2>6, OneHandlerInOrder
  <1> QED
    BY <1>1, <1>2 DEF Publish
-----------------------------------------------------------------------------
(* The subscription, the jobs and crashes. *)

\* Whatever becomes of a message, no other one leaves the subscription.
LEMMA MessageLeaves ==
  ASSUME NEW m, \/ UNCHANGED <<sub, attempts, dead>>
                \/ Remove(m) /\ UNCHANGED dead
                \/ Return(m)
  PROVE  /\ sub' \subseteq sub
         /\ sub \ {m} \subseteq sub'
         /\ dead \subseteq dead'
  BY DEF Remove, Return

\* A handler that has ended knows nothing.
LEMMA EndHandlerInOrder ==
  ASSUME ProgressInv, TypeInv', NEW w \in Worker, EndHandler(w), pc[w] # "idle",
         Grows, ResultsWritten', LevelsInOrder', sub' \subseteq sub
  PROVE  ProgressInv'
  <1>1. /\ pc' = [pc EXCEPT ![w] = "idle"] /\ pc \in [Worker -> Step]
        /\ msg' = [msg EXCEPT ![w] = NoMessage]
        /\ jobDone' = [jobDone EXCEPT ![w] = FALSE] /\ jobDone \in [Worker -> BOOLEAN]
    BY DEF EndHandler, Goto, ProgressInv, TypeInv, TypeOK
  <1>2. \A v \in Worker \ {w} : UNCHANGED <<pc[v], msg[v], jobDone[v]>>
    BY <1>1
  <1>3. HandlerInOrder(w)'
    BY <1>1 DEF HandlerInOrder
  <1> QED
    BY <1>2, <1>3, OneHandlerInOrder

\* An acknowledgement and its absence.
LEMMA AckNackInOrder ==
  ASSUME ProgressInv, TypeInv', NEW w \in Worker, Ack(w) \/ Nack(w)
  PROVE  ProgressInv' /\ Grows
  <1>1. /\ pc[w] # "idle"
        /\ EndHandler(w)
        /\ UNCHANGED <<kind, partial, jobs>>
        /\ \/ UNCHANGED <<sub, attempts, dead>>
           \/ Remove(msg[w]) /\ UNCHANGED dead
           \/ Return(msg[w])
    BY DEF Ack, Nack, At, Unacknowledged, fileVars
  <1>2. sub' \subseteq sub /\ dead \subseteq dead'
    BY <1>1, MessageLeaves
  <1> QED
    BY <1>1, <1>2, QuietStep, EndHandlerInOrder

\* The end of a lease is not noticed by the handler.
LEMMA LeaseExpiresInOrder ==
  ASSUME ProgressInv, TypeInv', NEW w \in Worker, LeaseExpires(w)
  PROVE  ProgressInv' /\ Grows
  <1>1. UNCHANGED <<kind, pc, msg, jobDone, partial, jobs>> /\ Return(msg[w])
    BY DEF LeaseExpires, fileVars
  <1>2. sub' \subseteq sub /\ dead \subseteq dead'
    BY <1>1, MessageLeaves
  <1>3. Grows /\ ResultsWritten' /\ LevelsInOrder'
    BY <1>1, <1>2, QuietStep
  <1>4. HandlerInOrder(w)'
    BY <1>1, <1>3, HandlerStays DEF ProgressInv
  <1> QED
    BY <1>1, <1>2, <1>3, <1>4, OneHandlerInOrder

\* One job goes on, the others stay as they are.
LEMMA JobGoesOn ==
  ASSUME TypeInv, NEW h \in Helper, NEW l \in Level, NEW i \in DOMAIN jobs[h][l],
         NEW state, jobs' = [jobs EXCEPT ![h][l][i].state = state]
  PROVE  /\ \A g \in Helper, k \in Level : DOMAIN jobs'[g][k] = DOMAIN jobs[g][k]
         /\ \A g \in Helper, k \in Level : \A j \in DOMAIN jobs[g][k] :
              g # h \/ k # l \/ j # i => jobs'[g][k][j] = jobs[g][k][j]
         /\ jobs'[h][l][i].state = state
         /\ \A g \in Helper, k \in Level : jobs'[g][k] # <<>> => jobs[g][k] # <<>>
  <1> DEFINE job == [jobs[h][l][i] EXCEPT !.state = state]
             t == [jobs[h][l] EXCEPT ![i] = job]
             u == [jobs[h] EXCEPT ![l] = t]
  <1>1. jobs \in [Helper -> [Level -> Seq(Job)]]
    BY DEF TypeInv, TypeOK
  <1>2. jobs[h][l] \in Seq(Job)
    BY <1>1
  <1>3. jobs[h][l][i] \in Job
    BY <1>2, ElementOfSeq
  <1>4. job.state = state
    BY <1>3 DEF Job
  <1>5. jobs' = [jobs EXCEPT ![h] = u]
    OBVIOUS
  <1> HIDE DEF job
  <1>6. /\ DOMAIN t = DOMAIN jobs[h][l]
        /\ t[i] = job
        /\ \A j \in DOMAIN jobs[h][l] : j # i => t[j] = jobs[h][l][j]
    BY <1>2
  <1> HIDE DEF t
  <1>7. u[l] = t /\ \A k \in Level : k # l => u[k] = jobs[h][k]
    BY <1>1
  <1> HIDE DEF u
  <1>8. jobs'[h] = u /\ \A g \in Helper : g # h => jobs'[g] = jobs[g]
    BY <1>1, <1>5
  <1>9. jobs[h][l] # <<>>
    BY <1>2
  <1>10. \A g \in Helper, k \in Level : g # h \/ k # l => jobs'[g][k] = jobs[g][k]
    BY <1>7, <1>8
  <1>11. jobs'[h][l] = t
    BY <1>7, <1>8
  <1> QED
    BY <1>4, <1>6, <1>9, <1>10, <1>11

\* What follows from that for all of them.
LEMMA JobGoesOnInOrder ==
  ASSUME ProgressInv, NEW h \in Helper, NEW l \in Level, NEW i \in DOMAIN jobs[h][l],
         NEW state \in JobState, jobs' = [jobs EXCEPT ![h][l][i].state = state],
         jobs[h][l][i].state \notin {"done", "failed"},
         kind' = kind, dead \subseteq dead',
         \A g \in Helper : DOMAIN partial[g] \subseteq DOMAIN partial'[g],
         state \in {"written", "done"} => Exists(partial, h, l)'
  PROVE  Grows /\ ResultsWritten' /\ LevelsInOrder'
  <1>1. /\ \A g \in Helper, k \in Level : DOMAIN jobs'[g][k] = DOMAIN jobs[g][k]
        /\ \A g \in Helper, k \in Level : \A j \in DOMAIN jobs[g][k] :
             g # h \/ k # l \/ j # i => jobs'[g][k][j] = jobs[g][k][j]
        /\ jobs'[h][l][i].state = state
        /\ \A g \in Helper, k \in Level : jobs'[g][k] # <<>> => jobs[g][k] # <<>>
    BY JobGoesOn DEF ProgressInv
  <1>2. Grows
    <2> SUFFICES ASSUME NEW g \in Helper, NEW k \in Level, NEW j \in DOMAIN jobs[g][k],
                        jobs[g][k][j].state \in {"done", "failed"}
                 PROVE  jobs'[g][k][j].state = jobs[g][k][j].state
      BY <1>1 DEF Grows
    <2>1. g # h \/ k # l \/ j # i
      OBVIOUS
    <2> QED
      BY <1>1, <2>1
  <1>3. ResultsWritten'
    <2> SUFFICES ASSUME NEW g \in Helper, NEW k \in Level, NEW j \in DOMAIN jobs'[g][k],
                        jobs'[g][k][j].state \in {"written", "done"}
                 PROVE  Exists(partial, g, k)'
      BY DEF ResultsWritten
    <2>1. CASE g = h /\ k = l /\ j = i
      BY <1>1, <2>1
    <2>2. CASE g # h \/ k # l \/ j # i
      <3>1. j \in DOMAIN jobs[g][k] /\ jobs'[g][k][j] = jobs[g][k][j]
        BY <1>1, <2>2
      <3>2. Exists(partial, g, k)
        BY <3>1 DEF ProgressInv, ResultsWritten
      <3> QED
        BY <1>2, <3>2, FilesStay
    <2> QED
      BY <2>1, <2>2
  <1>4. LevelsInOrder'
    <2> SUFFICES ASSUME NEW g \in Helper, NEW k \in Level \ {0}, jobs'[g][k] # <<>>
                 PROVE  HasDone(g, k - 1)' /\ \A f \in Helper : Exists(partial, f, k - 1)'
      BY DEF LevelsInOrder, HasDone
    <2>1. HasDone(g, k - 1) /\ \A f \in Helper : Exists(partial, f, k - 1)
      BY <1>1 DEF ProgressInv, LevelsInOrder, HasDone
    <2>2. k - 1 \in Level
      BY LevelBefore
    <2> QED
      BY <1>2, <2>1, <2>2, DoneStays, FilesStay
  <1> QED
    BY <1>2, <1>3, <1>4

\* A crash takes the handler, and on the direct runner its active job.
LEMMA CrashInOrder ==
  ASSUME ProgressInv, TypeInv', NEW w \in Worker, Crash(w)
  PROVE  ProgressInv' /\ Grows
  <1>1. /\ pc[w] # "idle"
        /\ EndHandler(w)
        /\ UNCHANGED <<kind, partial>>
        /\ UNCHANGED <<sub, attempts, dead>> \/ Return(msg[w])
    BY DEF Crash, At, Unacknowledged, fileVars
  <1>2. sub' \subseteq sub /\ dead \subseteq dead'
    BY <1>1, MessageLeaves
  <1>3. CASE jobs' = jobs
    BY <1>1, <1>2, <1>3, QuietStep, EndHandlerInOrder
  <1>4. CASE /\ pc[w] = "run" /\ Active(JobsOf(w)[run[w]])
             /\ jobs' = [jobs EXCEPT ![HelperOf[w]][msg[w].level][run[w]].state = "failed"]
    <2>1. PICK h \in Helper, l \in Level : h = HelperOf[w] /\ l = msg[w].level
      BY <1>1, HandledMessage DEF ProgressInv, TypeInv
    <2>2. PICK i \in DOMAIN jobs[h][l] : i = run[w]
      BY <1>4, <2>1 DEF ProgressInv, TypeInv, RunExists, JobsOf
    <2>3. /\ jobs' = [jobs EXCEPT ![h][l][i].state = "failed"]
          /\ jobs[h][l][i].state \notin {"done", "failed"}
      BY <1>4, <2>1, <2>2 DEF JobsOf, Active
    <2>4. Grows /\ ResultsWritten' /\ LevelsInOrder'
      BY <1>1, <1>2, <2>3, JobGoesOnInOrder DEF JobState
    <2> QED
      BY <1>1, <1>2, <2>4, EndHandlerInOrder
  <1> QED
    BY <1>3, <1>4 DEF Crash, At

\* A step of a job does not concern the handlers.
LEMMA JobStepInOrder ==
  ASSUME ProgressInv, TypeInv', Grows, ResultsWritten', LevelsInOrder',
         UNCHANGED <<sub, pc, msg, jobDone>>
  PROVE  ProgressInv'
  <1>1. QueueInOrder'
    <2> SUFFICES ASSUME NEW m \in sub', m.level > 0
                 PROVE  HasDone(m.helper, m.level - 1)'
      BY DEF QueueInOrder
    <2>1. HasDone(m.helper, m.level - 1)
      BY DEF ProgressInv, QueueInOrder
    <2>2. m.helper \in Helper /\ m.level \in Level
      BY DEF TypeInv, TypeOK, Message
    <2> QED
      BY <2>1, <2>2, LevelBefore, DoneStays
  <1>2. \A v \in Worker : HandlerInOrder(v)'
    BY HandlerStays DEF ProgressInv
  <1> QED
    BY <1>1, <1>2 DEF ProgressInv

\* A job writes its result, ends, or fails.
LEMMA JobInOrder ==
  ASSUME ProgressInv, TypeInv', NEW h \in Helper, NEW l \in Level, NEW i \in DOMAIN jobs[h][l],
         JobStep(h, l, i) \/ JobFails(h, l, i)
  PROVE  ProgressInv' /\ Grows /\ UNCHANGED <<requested, sub, dead, pc, msg>>
  <1>1. CASE JobWrites(h, l, i)
    <2>1. /\ jobs[h][l][i].state = "running"
          /\ jobs' = [jobs EXCEPT ![h][l][i].state = "written"]
          /\ UNCHANGED <<kind, requested, sub, dead, pc, msg, jobDone>>
      BY <1>1 DEF JobWrites, queueVars, handlerVars
    <2>2. PICK result : partial' = Put(partial, h, l, result)
      BY <1>1 DEF JobWrites
    <2>3. /\ \A g \in Helper \ {h} : partial'[g] = partial[g]
          /\ DOMAIN partial'[h] = DOMAIN partial[h] \cup {l}
      BY <2>2 DEF Put, ProgressInv, TypeInv, TypeOK
    <2>4. \A g \in Helper : DOMAIN partial[g] \subseteq DOMAIN partial'[g]
      BY <2>3
    <2>5. Exists(partial, h, l)'
      BY <2>3 DEF Exists
    <2>6. Grows /\ ResultsWritten' /\ LevelsInOrder'
      BY <2>1, <2>4, <2>5, JobGoesOnInOrder DEF JobState
    <2> QED
      BY <2>1, <2>6, JobStepInOrder
  <1>2. CASE JobSucceeds(h, l, i)
    <2>1. /\ jobs[h][l][i].state = "written"
          /\ jobs' = [jobs EXCEPT ![h][l][i].state = "done"]
          /\ UNCHANGED <<kind, requested, sub, dead, pc, msg, jobDone, partial>>
      BY <1>2 DEF JobSucceeds, JobEnds, queueVars, handlerVars, fileVars
    <2>2. Exists(partial, h, l)'
      BY <2>1 DEF ProgressInv, ResultsWritten, Exists
    <2>3. Grows /\ ResultsWritten' /\ LevelsInOrder'
      BY <2>1, <2>2, JobGoesOnInOrder DEF JobState
    <2> QED
      BY <2>1, <2>3, JobStepInOrder
  <1>3. CASE JobFails(h, l, i)
    <2>1. /\ jobs[h][l][i].state \notin {"done", "failed"}
          /\ jobs' = [jobs EXCEPT ![h][l][i].state = "failed"]
          /\ UNCHANGED <<kind, requested, sub, dead, pc, msg, jobDone, partial>>
      BY <1>3 DEF JobFails, Active, JobEnds, queueVars, handlerVars, fileVars
    <2>2. Grows /\ ResultsWritten' /\ LevelsInOrder'
      BY <2>1, JobGoesOnInOrder DEF JobState
    <2> QED
      BY <2>1, <2>2, JobStepInOrder
  <1> QED
    BY <1>1, <1>2, <1>3 DEF JobStep
-----------------------------------------------------------------------------
\* The invariant holds at the start.
LEMMA InitInOrder == Init => ProgressInv
  <1> SUFFICES ASSUME Init PROVE ProgressInv
    OBVIOUS
  <1>1. \A h \in Helper, l \in Level : jobs[h][l] = <<>>
    BY DEF Init
  <1>2. QueueInOrder /\ ResultsWritten /\ \A w \in Worker : HandlerInOrder(w)
    BY <1>1 DEF Init, QueueInOrder, ResultsWritten, HandlerInOrder
  <1>3. LevelsInOrder
    BY <1>1 DEF LevelsInOrder
  <1> QED
    BY <1>2, <1>3, InitType DEF ProgressInv

\* Every step keeps the order of the levels, and takes back nothing that was done.
LEMMA NextInOrder == ProgressInv /\ Next => ProgressInv' /\ Grows
  <1> SUFFICES ASSUME ProgressInv, Next PROVE ProgressInv' /\ Grows
    OBVIOUS
  <1>0. TypeInv'
    BY NextType DEF ProgressInv
  <1>1. ASSUME NEW h \in Helper, RequestQuery(h) PROVE ProgressInv' /\ Grows
    BY <1>0, <1>1, RequestQueryInOrder
  <1>2. ASSUME NEW w \in Worker, Pull(w) PROVE ProgressInv' /\ Grows
    BY <1>0, <1>2, PullInOrder
  <1>3. ASSUME NEW w \in Worker, Handle(w) PROVE ProgressInv' /\ Grows
    BY <1>0, <1>3, ListJobsInOrder, PollJobInOrder, DispatchInOrder, CheckPartnerInOrder,
       ReadOwnResultInOrder, SaveExpandParametersInOrder, LaunchInOrder, AwaitRunInOrder,
       PublishInOrder, AckNackInOrder
    DEF Handle
  <1>4. ASSUME NEW w \in Worker, LeaseExpires(w) \/ Crash(w) PROVE ProgressInv' /\ Grows
    BY <1>0, <1>4, LeaseExpiresInOrder, CrashInOrder
  <1>5. ASSUME NEW h \in Helper, NEW l \in Level, NEW i \in DOMAIN jobs[h][l],
               JobStep(h, l, i) \/ JobFails(h, l, i)
        PROVE  ProgressInv' /\ Grows
    BY <1>0, <1>5, JobInOrder
  <1> QED
    BY <1>1, <1>2, <1>3, <1>4, <1>5 DEF Next

\* So does a step that changes nothing.
LEMMA StutterInOrder == ProgressInv /\ UNCHANGED vars => ProgressInv' /\ Grows
  <1> SUFFICES ASSUME ProgressInv, UNCHANGED vars PROVE ProgressInv' /\ Grows
    OBVIOUS
  <1>1. UNCHANGED <<kind, sub, dead, pc, msg, jobDone, partial, jobs>>
    BY DEF vars
  <1>2. Grows /\ ResultsWritten' /\ LevelsInOrder'
    BY <1>1, QuietStep
  <1>3. TypeInv'
    BY StutterType DEF ProgressInv
  <1> QED
    BY <1>1, <1>2, <1>3, JobStepInOrder

\* In every deployment, with every fault, the progress invariant holds.
THEOREM ProgressCorrect == Spec => []ProgressInv
  BY InitInOrder, NextInOrder, StutterInOrder, PTL DEF Spec

\* No level is started before the helper's own job of the level before is done
\* and both helpers have its result: several replicas, duplicated requests,
\* crashes and either runner do not change that.
THEOREM LevelsInOrderAlways == Spec => []LevelsInOrder
  <1>1. ProgressInv => LevelsInOrder
    BY DEF ProgressInv
  <1> QED
    BY <1>1, ProgressCorrect, PTL

\* A job that has ended never changes its outcome, a result that is there
\* never disappears and a dead letter stays where it is.
THEOREM OutcomesStay == Spec => [][Grows]_vars
  BY ProgressCorrect, NextInOrder, PTL DEF Spec
-----------------------------------------------------------------------------
(* No request is lost, as long as the configuration can be read. *)

\* One message may leave the subscription in a step: as a dead letter, or
\* because the query can do without it.
LeavesCovered ==
  \E m \in Message :
    /\ sub \ {m} \subseteq sub'
    /\ m \in sub' \/ m \notin sub \/ m \in dead' \/ Covered(m.helper, m.level)

\* A helper that is settled stays so.
LEMMA SettledStays ==
  ASSUME TypeInv, Grows, NEW h \in Helper, Settled(h)
  PROVE  Settled(h)'
  <1>1. FinalLevel' = FinalLevel
    BY DEF Grows, FinalLevel
  <1>2. CASE Exists(partial, h, FinalLevel)
    BY <1>1, <1>2 DEF Settled, Exists, Grows
  <1>3. CASE \E m \in dead : m.helper = h
    BY <1>3 DEF Settled, Grows
  <1>4. CASE OnDataflow(h) /\ Failed(h)
    BY <1>4 DEF Settled, Failed, Grows
  <1> QED
    BY <1>2, <1>3, <1>4 DEF Settled

\* What the query can do without, it can do without later on: when the request
\* that covers it leaves, that one is covered by a later one.
LEMMA CoveredStays ==
  ASSUME TypeInv, Grows, LeavesCovered, NEW h \in Helper, NEW l \in Int, Covered(h, l)
  PROVE  Covered(h, l)'
  <1>1. CASE Settled(h)
    BY <1>1, SettledStays DEF Covered
  <1>2. ASSUME NEW n \in sub, n.helper = h, n.level > l
        PROVE  Covered(h, l)'
    <2>1. PICK m \in Message :
            /\ sub \ {m} \subseteq sub'
            /\ m \in sub' \/ m \notin sub \/ m \in dead' \/ Covered(m.helper, m.level)
      BY DEF LeavesCovered
    <2>2. CASE n \in sub'
      BY <1>2, <2>2 DEF Covered
    <2>3. CASE n \notin sub' /\ n \in dead'
      BY <1>2, <2>3 DEF Covered, Settled
    <2>4. CASE n \notin sub' /\ n \notin dead'
      <3>1. n = m /\ Covered(h, n.level)
        BY <1>2, <2>1, <2>4
      <3>2. CASE Settled(h)
        BY <3>2, SettledStays DEF Covered
      <3>3. ASSUME NEW k \in sub, k.helper = h, k.level > n.level
            PROVE  Covered(h, l)'
        <4>1. n \in Message /\ k \in Message
          BY DEF TypeInv, TypeOK
        <4>2. n.level \in Nat /\ k.level \in Nat
          BY <4>1, LevelBefore DEF Message
        <4>3. k # n
          BY <3>3, <4>2
        <4>4. k \in sub'
          BY <2>1, <3>1, <4>3
        <4>5. k.level > l
          BY <1>2, <3>3, <4>2
        <4> QED
          BY <3>3, <4>4, <4>5 DEF Covered
      <3> QED
        BY <3>1, <3>2, <3>3 DEF Covered
    <2> QED
      BY <2>2, <2>3, <2>4
  <1> QED
    BY <1>1, <1>2 DEF Covered

\* A helper with a request outstanding, or settled, is covered from below the
\* first level on.
LEMMA SilentLossIsUncovered ==
  ASSUME TypeInv, NEW h \in Helper
  PROVE  (Settled(h) \/ \E m \in sub : m.helper = h) <=> Covered(h, -1)
  <1>1. \A m \in sub : m.level > -1
    <2> SUFFICES ASSUME NEW m \in sub PROVE m.level > -1
      OBVIOUS
    <2>1. m.level \in Nat
      BY LevelBefore DEF TypeInv, TypeOK, Message
    <2> QED
      BY <2>1
  <1> QED
    BY <1>1 DEF Covered

\* What a step of a handler has to establish.
LEMMA LossStays ==
  ASSUME LossInv, ProgressInv', Grows, LeavesCovered,
         \A h \in requested' : h \in requested \/ \E m \in sub' : m.helper = h,
         NEW w, \A v \in Worker \ {w} : UNCHANGED <<pc[v], msg[v]>>,
         w \in Worker /\ pc'[w] = "ack" => Covered(HelperOf[w], msg[w].level)'
  PROVE  LossInv'
  <1>1. TypeInv /\ TypeInv'
    BY DEF LossInv, ProgressInv
  <1>2. NoSilentLoss'
    <2> SUFFICES ASSUME NEW h \in requested', ~ \E m \in sub' : m.helper = h
                 PROVE  Settled(h)'
      BY DEF NoSilentLoss
    <2>1. h \in Helper /\ h \in requested
      BY <1>1 DEF TypeInv, TypeOK
    <2>2. Covered(h, -1)
      BY <1>1, <2>1, SilentLossIsUncovered DEF LossInv, NoSilentLoss
    <2>3. Covered(h, -1)'
      BY <1>1, <2>1, <2>2, CoveredStays
    <2> QED
      BY <2>3 DEF Covered
  <1>3. AckCovered'
    <2> SUFFICES ASSUME NEW v \in Worker, pc'[v] = "ack"
                 PROVE  Covered(HelperOf[v], msg[v].level)'
      BY DEF AckCovered
    <2>1. CASE v = w
      BY <2>1
    <2>2. CASE v # w
      <3>1. pc[v] = "ack" /\ msg'[v] = msg[v]
        BY <2>2
      <3>2. PICK h \in Helper, l \in Level : h = HelperOf[v] /\ l = msg[v].level
        BY <1>1, <3>1, HandledMessage DEF TypeInv
      <3>3. Covered(h, l)
        BY <3>1, <3>2 DEF LossInv, AckCovered
      <3>4. Covered(h, l)'
        BY <1>1, <3>3, LevelBefore, CoveredStays
      <3> QED
        BY <3>1, <3>2, <3>4 DEF Covered
    <2> QED
      BY <2>1, <2>2
  <1> QED
    BY <1>2, <1>3 DEF LossInv

\* No message leaves the subscription in most steps.
LEMMA NothingLeaves ==
  ASSUME TypeInv, sub \subseteq sub'
  PROVE  LeavesCovered
  <1>1. PICK m : m = [helper |-> 1, level |-> 0, copy |-> 1]
    OBVIOUS
  <1>2. m \in Message
    BY <1>1, QueryAssumption, AggregatorAssumption
    DEF Message, Helper, Level, ValidHierarchicalConfig
  <1>3. m \in sub' \/ m \notin sub
    OBVIOUS
  <1> QED
    BY <1>2, <1>3 DEF LeavesCovered

\* The result of the final level settles a helper.
LEMMA FinalDoneSettles ==
  ASSUME ProgressInv, NEW h \in Helper, NEW l \in Level, l = FinalLevel, HasDone(h, l)
  PROVE  Covered(h, l)
  BY DEF ProgressInv, ResultsWritten, HasDone, Covered, Settled

\* A step that only decides what comes next.
LEMMA DecideLoss ==
  ASSUME LossInv, ProgressInv', Grows, NEW w \in Worker, NEW step, pc[w] # "idle",
         Decide(w, step),
         step = "ack" => Covered(HelperOf[w], msg[w].level)
  PROVE  LossInv'
  <1>1. /\ pc' = [pc EXCEPT ![w] = step] /\ pc \in [Worker -> Step]
        /\ UNCHANGED <<kind, requested, sub, dead, msg, partial, jobs>>
    BY DEF Decide, Goto, queueVars, fileVars, LossInv, ProgressInv, TypeInv, TypeOK
  <1>2. LeavesCovered
    BY <1>1, NothingLeaves DEF LossInv, ProgressInv
  <1>3. pc'[w] = "ack" => Covered(HelperOf[w], msg[w].level)'
    BY <1>1 DEF Covered, Settled, Failed, FinalLevel, Exists
  <1>4. \A v \in Worker \ {w} : UNCHANGED <<pc[v], msg[v]>>
    BY <1>1
  <1> QED
    BY <1>1, <1>2, <1>3, <1>4, LossStays

\* A step of a handler that does not end with an acknowledgement and leaves
\* the subscription alone.
LEMMA OnwardLoss ==
  ASSUME LossInv, ProgressInv', Grows, NEW w \in Worker, pc'[w] # "ack",
         sub \subseteq sub', requested' = requested,
         \A v \in Worker \ {w} : UNCHANGED <<pc[v], msg[v]>>
  PROVE  LossInv'
  <1>1. LeavesCovered
    BY NothingLeaves DEF LossInv, ProgressInv
  <1> QED
    BY <1>1, LossStays

\* A handler that finds a failed job gives the query up; on Dataflow only.
LEMMA FoundEndedLoss ==
  ASSUME LossInv, ProgressInv', Grows, NEW w \in Worker, pc[w] \in {"list", "wait"},
         NEW i \in DOMAIN JobsOf(w), FoundEnded(w, JobsOf(w)[i])
  PROVE  LossInv'
  <1>1. CASE JobsOf(w)[i].state = "failed" /\ Decide(w, "ack")
    <2>1. HelperOf[w] \in Helper /\ msg[w].level \in Level /\ OnDataflow(HelperOf[w])
      BY HandledMessage DEF LossInv, ProgressInv, TypeInv, HandlerInOrder
    <2>2. Covered(HelperOf[w], msg[w].level)
      BY <1>1, <2>1 DEF Covered, Settled, Failed, JobsOf
    <2> QED
      BY <1>1, <2>2, DecideLoss
  <1>2. CASE Goto(w, "dispatch") /\ UNCHANGED <<queueVars, msg>>
    <2>1. /\ pc' = [pc EXCEPT ![w] = "dispatch"] /\ pc \in [Worker -> Step]
          /\ UNCHANGED <<requested, sub, msg>>
      BY <1>2 DEF Goto, queueVars, LossInv, ProgressInv, TypeInv, TypeOK
    <2> QED
      BY <2>1, OnwardLoss
  <1> QED
    BY <1>1, <1>2 DEF FoundEnded

\* The job list and the polls.
LEMMA ListPollLoss ==
  ASSUME LossInv, ProgressInv', Grows, NEW w \in Worker, ListJobs(w) \/ PollJob(w)
  PROVE  LossInv'
  <1>0. pc[w] \in {"list", "wait"} /\ (PollJob(w) => run[w] \in DOMAIN JobsOf(w))
    BY DEF ListJobs, PollJob, At, LossInv, ProgressInv, TypeInv, RunExists
  <1>1. CASE Decide(w, "nack") \/ Decide(w, "dispatch")
    BY <1>0, <1>1, DecideLoss
  <1>2. ASSUME NEW i \in DOMAIN JobsOf(w), FoundEnded(w, JobsOf(w)[i])
        PROVE  LossInv'
    BY <1>0, <1>2, FoundEndedLoss
  <1>3. CASE Goto(w, "wait") /\ UNCHANGED <<queueVars, msg>>
    <2>1. /\ pc' = [pc EXCEPT ![w] = "wait"] /\ pc \in [Worker -> Step]
          /\ UNCHANGED <<requested, sub, msg>>
      BY <1>3 DEF Goto, queueVars, LossInv, ProgressInv, TypeInv, TypeOK
    <2> QED
      BY <2>1, OnwardLoss
  <1> QED
    BY <1>0, <1>1, <1>2, <1>3 DEF ListJobs, PollJob

\* A request is acknowledged at once only when its level is done and final.
LEMMA DispatchLoss ==
  ASSUME LossInv, ProgressInv', Grows, "config" \notin Faults,
         NEW w \in Worker, Dispatch(w)
  PROVE  LossInv'
  <1>0. pc[w] = "dispatch" /\ HelperOf[w] \in Helper /\ msg[w].level \in Level
    BY HandledMessage DEF Dispatch, At, LossInv, ProgressInv, TypeInv
  <1>1. jobDone[w] => HasDone(HelperOf[w], msg[w].level)
    BY DEF LossInv, ProgressInv, HandlerInOrder
  <1>2. jobDone[w] /\ msg[w].level = FinalLevel => Covered(HelperOf[w], msg[w].level)
    BY <1>0, <1>1, FinalDoneSettles DEF LossInv
  <1>3. kind # "hierarchical" => msg[w].level = FinalLevel
    <2>1. msg[w].level <= FinalLevel /\ msg[w].level \in Nat
      BY <1>0, LevelBefore DEF LossInv, ProgressInv, TypeInv, LevelsInRange
    <2> QED
      BY <2>1 DEF FinalLevel
  <1>4. CASE kind = "reach" /\ Decide(w, "launch")
    BY <1>0, <1>4, DecideLoss
  <1>5. CASE kind = "hierarchical" /\ Decide(w, HierarchicalStep(w))
    <2>1. HierarchicalStep(w) = "ack" => jobDone[w] /\ msg[w].level = FinalLevel
      BY DEF HierarchicalStep
    <2> QED
      BY <1>0, <1>2, <1>5, <2>1, DecideLoss
  <1>6. CASE kind = "direct" /\ Decide(w, IF jobDone[w] THEN "ack" ELSE "params")
    <2>1. CASE jobDone[w]
      BY <1>0, <1>2, <1>3, <1>6, <2>1, DecideLoss
    <2>2. CASE ~ jobDone[w]
      BY <1>0, <1>6, <2>2, DecideLoss
    <2> QED
      BY <2>1, <2>2
  <1>7. CASE kind = "oneparty" /\ Decide(w, IF jobDone[w] THEN "ack" ELSE "nack")
    <2>1. CASE jobDone[w]
      BY <1>0, <1>2, <1>3, <1>7, <2>1, DecideLoss
    <2>2. CASE ~ jobDone[w]
      BY <1>0, <1>7, <2>2, DecideLoss
    <2> QED
      BY <2>1, <2>2
  <1> QED
    BY <1>4, <1>5, <1>6, <1>7 DEF Dispatch

\* From the partner's result to the launch no request is acknowledged.
LEMMA LaunchLoss ==
  ASSUME LossInv, ProgressInv', Grows, NEW w \in Worker,
         CheckPartner(w) \/ ReadOwnResult(w) \/ SaveExpandParameters(w) \/ Launch(w)
  PROVE  LossInv'
  <1>0. pc[w] # "idle"
    BY DEF CheckPartner, ReadOwnResult, SaveExpandParameters, Launch, At
  <1>1. CASE Decide(w, "nack") \/ Decide(w, "own")
    BY <1>0, <1>1, DecideLoss
  <1>2. ASSUME NEW step \in {"params", "launch", "run"}, Goto(w, step),
               UNCHANGED <<queueVars, msg>>
        PROVE  LossInv'
    <2>1. /\ pc' = [pc EXCEPT ![w] = step] /\ pc \in [Worker -> Step]
          /\ UNCHANGED <<requested, sub, msg>>
      BY <1>2 DEF Goto, queueVars, LossInv, ProgressInv, TypeInv, TypeOK
    <2> QED
      BY <2>1, OnwardLoss
  <1> QED
    BY <1>1, <1>2 DEF CheckPartner, ReadOwnResult, SaveExpandParameters, Launch

\* The run of the final level leaves the final result.
LEMMA AwaitRunLoss ==
  ASSUME LossInv, ProgressInv', Grows, NEW w \in Worker, AwaitRun(w)
  PROVE  LossInv'
  <1>0. /\ pc[w] = "run" /\ run[w] \in DOMAIN JobsOf(w)
        /\ HelperOf[w] \in Helper /\ msg[w].level \in Level
    BY HandledMessage DEF AwaitRun, At, LossInv, ProgressInv, TypeInv, RunExists
  <1>1. CASE Decide(w, "nack")
    BY <1>0, <1>1, DecideLoss
  <1>2. CASE /\ JobsOf(w)[run[w]].state = "done"
             /\ Decide(w, IF msg[w].level = FinalLevel THEN "ack" ELSE "publish")
    <2>1. HasDone(HelperOf[w], msg[w].level)
      BY <1>0, <1>2 DEF HasDone, JobsOf
    <2>2. CASE msg[w].level = FinalLevel
      <3>1. Covered(HelperOf[w], msg[w].level)
        BY <1>0, <2>1, <2>2, FinalDoneSettles DEF LossInv
      <3> QED
        BY <1>0, <1>2, <2>2, <3>1, DecideLoss
    <2>3. CASE msg[w].level # FinalLevel
      BY <1>0, <1>2, <2>3, DecideLoss
    <2> QED
      BY <2>2, <2>3
  <1> QED
    BY <1>1, <1>2 DEF AwaitRun

\* The request of the next level covers the one of this level.
LEMMA PublishLoss ==
  ASSUME LossInv, ProgressInv', Grows, NEW w \in Worker, Publish(w)
  PROVE  LossInv'
  <1>0. pc[w] = "publish" /\ msg[w].level \in Level
    BY HandledMessage DEF Publish, At, LossInv, ProgressInv, TypeInv
  <1>1. CASE Decide(w, "nack")
    BY <1>0, <1>1, DecideLoss
  <1>2. ASSUME NEW c,
               Send([helper |-> HelperOf[w], level |-> msg[w].level + 1, copy |-> c]),
               NEW step \in {"ack", "nack"}, Goto(w, step),
               UNCHANGED <<kind, requested, dead, msg>>
        PROVE  LossInv'
    <2>1. /\ pc' = [pc EXCEPT ![w] = step] /\ pc \in [Worker -> Step]
          /\ UNCHANGED <<requested, msg>>
      BY <1>2 DEF Goto, LossInv, ProgressInv, TypeInv, TypeOK
    <2>2. PICK m : m = [helper |-> HelperOf[w], level |-> msg[w].level + 1, copy |-> c]
      OBVIOUS
    <2>3. sub' = sub \cup {m} /\ m.helper = HelperOf[w] /\ m.level = msg[w].level + 1
      BY <1>2, <2>2 DEF Send
    <2>4. m.level > msg[w].level
      <3>1. msg[w].level \in Nat
        BY <1>0, LevelBefore
      <3> QED
        BY <2>3, <3>1
    <2>5. Covered(HelperOf[w], msg[w].level)'
      BY <2>1, <2>3, <2>4 DEF Covered
    <2>6. LeavesCovered
      BY <2>3, NothingLeaves DEF LossInv, ProgressInv
    <2>7. \A v \in Worker \ {w} : UNCHANGED <<pc[v], msg[v]>>
      BY <2>1
    <2> QED
      BY <2>1, <2>5, <2>6, <2>7, LossStays
  <1> QED
    BY <1>1, <1>2 DEF Publish

\* What a delivery that ends without an acknowledgement does to its message.
LEMMA ReturnLeaves ==
  ASSUME TypeInv, NEW m, Return(m)
  PROVE  LeavesCovered
  <1>1. CASE UNCHANGED sub
    BY <1>1, NothingLeaves
  <1>2. CASE m \in sub /\ sub' = sub \ {m} /\ dead' = dead \cup {m}
    <2>1. m \in Message
      BY <1>2 DEF TypeInv, TypeOK
    <2>2. sub \ {m} \subseteq sub' /\ m \in dead'
      BY <1>2
    <2> QED
      BY <2>1, <2>2 DEF LeavesCovered
  <1> QED
    BY <1>1, <1>2 DEF Return, Remove

\* The end of a handler, by an acknowledgement, without it, or by a crash.
LEMMA EndHandlerLoss ==
  ASSUME LossInv, ProgressInv', Grows, NEW w \in Worker, Ack(w) \/ Nack(w) \/ Crash(w)
  PROVE  LossInv'
  <1>1. /\ pc[w] # "idle"
        /\ EndHandler(w)
        /\ requested' = requested
        /\ \/ UNCHANGED <<sub, attempts, dead>>
           \/ pc[w] = "ack" /\ Remove(msg[w])
           \/ Return(msg[w])
    BY DEF Ack, Nack, Crash, At, Unacknowledged
  <1>2. /\ pc' = [pc EXCEPT ![w] = "idle"] /\ pc \in [Worker -> Step]
        /\ msg' = [msg EXCEPT ![w] = NoMessage]
    BY <1>1 DEF EndHandler, Goto, LossInv, ProgressInv, TypeInv, TypeOK
  <1>3. LeavesCovered
    <2>1. CASE UNCHANGED sub
      BY <2>1, NothingLeaves DEF LossInv, ProgressInv
    <2>2. CASE pc[w] = "ack" /\ Remove(msg[w])
      <3>1. PICK m \in Message : m = msg[w]
        BY <1>1, HandledMessage DEF LossInv, ProgressInv, TypeInv
      <3>2. Covered(m.helper, m.level)
        BY <2>2, <3>1 DEF LossInv, AckCovered, ProgressInv, HandlerInOrder
      <3>3. sub \ {m} \subseteq sub'
        BY <2>2, <3>1 DEF Remove
      <3> QED
        BY <3>2, <3>3 DEF LeavesCovered
    <2>3. CASE Return(msg[w])
      BY <2>3, ReturnLeaves DEF LossInv, ProgressInv
    <2> QED
      BY <1>1, <2>1, <2>2, <2>3
  <1>4. pc'[w] # "ack" /\ \A v \in Worker \ {w} : UNCHANGED <<pc[v], msg[v]>>
    BY <1>2
  <1> QED
    BY <1>1, <1>3, <1>4, LossStays

\* An expired lease keeps the request, or makes it a dead letter.
LEMMA LeaseExpiresLoss ==
  ASSUME LossInv, ProgressInv', Grows, NEW w \in Worker, LeaseExpires(w)
  PROVE  LossInv'
  <1>1. UNCHANGED <<requested, pc, msg>> /\ Return(msg[w])
    BY DEF LeaseExpires
  <1>2. LeavesCovered
    BY <1>1, ReturnLeaves DEF LossInv, ProgressInv
  <1>3. PICK v : v \notin Worker
    <2>1. \E v : v \notin Worker
      BY NoSetContainsEverything
    <2> QED
      BY <2>1
  <1> QED
    BY <1>1, <1>2, <1>3, LossStays

\* The steps that are not about the end of a request.
LEMMA OtherLoss ==
  ASSUME LossInv, ProgressInv', Grows, UNCHANGED <<pc, msg>>, sub \subseteq sub',
         \A h \in requested' : h \in requested \/ \E m \in sub' : m.helper = h
  PROVE  LossInv'
  <1>1. LeavesCovered
    BY NothingLeaves DEF LossInv, ProgressInv
  <1>2. PICK v : v \notin Worker
    <2>1. \E v : v \notin Worker
      BY NoSetContainsEverything
    <2> QED
      BY <2>1
  <1> QED
    BY <1>1, <1>2, LossStays
-----------------------------------------------------------------------------
\* Nothing is lost at the start.
LEMMA InitLoss == Init => LossInv
  BY InitInOrder DEF Init, LossInv, AckCovered, NoSilentLoss

\* Every step keeps track of each request.
LEMMA NextLoss ==
  ASSUME "config" \notin Faults
  PROVE  LossInv /\ Next => LossInv'
  <1> SUFFICES ASSUME LossInv, Next PROVE LossInv'
    OBVIOUS
  <1>0. ProgressInv' /\ Grows
    BY NextInOrder DEF LossInv
  <1>1. ASSUME NEW h \in Helper, RequestQuery(h) PROVE LossInv'
    <2>1. UNCHANGED <<pc, msg>> /\ sub \subseteq sub'
      BY <1>1 DEF RequestQuery, Send, handlerVars
    <2>2. requested' = requested \cup {h} /\ \E m \in sub' : m.helper = h
      BY <1>1 DEF RequestQuery, Send
    <2> QED
      BY <1>0, <2>1, <2>2, OtherLoss
  <1>2. ASSUME NEW w \in Worker, Pull(w) PROVE LossInv'
    <2>1. /\ \E step \in {"list", "dispatch"} : pc' = [pc EXCEPT ![w] = step]
          /\ \E m \in sub : msg' = [msg EXCEPT ![w] = m]
          /\ UNCHANGED <<requested, sub>>
      BY <1>2 DEF Pull, Goto
    <2>2. pc \in [Worker -> Step]
      BY DEF LossInv, ProgressInv, TypeInv, TypeOK
    <2>3. pc'[w] # "ack" /\ \A v \in Worker \ {w} : UNCHANGED <<pc[v], msg[v]>>
      BY <2>1, <2>2
    <2> QED
      BY <1>0, <2>1, <2>3, OnwardLoss
  <1>3. ASSUME NEW w \in Worker, Handle(w) PROVE LossInv'
    BY <1>0, <1>3, ListPollLoss, DispatchLoss, LaunchLoss, AwaitRunLoss, PublishLoss,
       EndHandlerLoss
    DEF Handle
  <1>4. ASSUME NEW w \in Worker, LeaseExpires(w) \/ Crash(w) PROVE LossInv'
    BY <1>0, <1>4, LeaseExpiresLoss, EndHandlerLoss
  <1>5. ASSUME NEW h \in Helper, NEW l \in Level, NEW i \in DOMAIN jobs[h][l],
               JobStep(h, l, i) \/ JobFails(h, l, i)
        PROVE  LossInv'
    <2>1. TypeInv' /\ ProgressInv
      BY <1>0 DEF LossInv, ProgressInv
    <2>2. UNCHANGED <<requested, sub, pc, msg>>
      BY <1>5, <2>1, JobInOrder
    <2> QED
      BY <1>0, <2>2, OtherLoss
  <1> QED
    BY <1>1, <1>2, <1>3, <1>4, <1>5 DEF Next

\* So does a step that changes nothing.
LEMMA StutterLoss == LossInv /\ UNCHANGED vars => LossInv'
  <1> SUFFICES ASSUME LossInv, UNCHANGED vars PROVE LossInv'
    OBVIOUS
  <1>1. ProgressInv' /\ Grows
    BY StutterInOrder DEF LossInv
  <1>2. UNCHANGED <<requested, sub, pc, msg>>
    BY DEF vars
  <1> QED
    BY <1>1, <1>2, OtherLoss

\* As long as the configuration can be read, whatever else fails, crashes or
\* is delivered twice, and with any number of replicas: a helper that was sent
\* the query has a request outstanding until it is settled.
THEOREM NoSilentLossAlways ==
  ASSUME "config" \notin Faults
  PROVE  Spec => []NoSilentLoss
  <1>1. LossInv /\ [Next]_vars => LossInv'
    BY NextLoss, StutterLoss
  <1>2. LossInv => NoSilentLoss
    BY DEF LossInv
  <1> QED
    BY <1>1, <1>2, InitLoss, PTL DEF Spec
=============================================================================
