------------------------------ MODULE BeamJob ------------------------------
(***************************************************************************)
(* One helper's aggregation jobs on a batch of reports: the three pipeline *)
(* binaries (pipeline/*_pipeline.go) on a Beam runner.                     *)
(*                                                                         *)
(* After the Reshuffle the runner hands lines to workers in any order, in  *)
(* bundles of any size.  A bundle goes through decryption, expansion and   *)
(* the first half of the combine in one DoFn instance of the worker, and   *)
(* counts when it is committed.  A bundle that fails, by an error of a     *)
(* DoFn or with its worker, is done again by a new instance; after         *)
(* MaxFailures of them the runner gives up.  What follows the combine      *)
(* starts when all the input is in it.  The runner is external; what it    *)
(* runs is the code's.                                                     *)
(***************************************************************************)
EXTENDS KeyManagement, Query

FSets == INSTANCE FiniteSetsExt
Seqs == INSTANCE SequencesExt

CONSTANTS
  Worker,             \* the workers of the runner
  Queries,            \* the jobs asked for, each with its flags
  Raw,                \* report -> what the browser reports
  ReachMask(_, _, _), \* external: the shares of the keys of tuples
  Mask(_, _, _),      \* external: the shares of the keys of words
  Noise,              \* the noises that may be drawn
  MaxFailures,        \* failures after which the runner gives a job up
  MaxFaults,          \* bound: lost workers and failed writes
  MaxJobRuns          \* bound: how often jobs are started for a query

Dpf == INSTANCE DpfPipeline
Reach == INSTANCE ReachPipeline WITH Mask <- ReachMask
OneParty == INSTANCE OnePartyPipeline

ASSUME JobAssumption ==
  /\ MaxFailures \in Nat \ {0} /\ MaxFaults \in Nat /\ MaxJobRuns \in Nat \ {0}
  /\ Noise \subseteq Int

(* What service/query.go asks a helper for: on a level of its own, or on     *)
(* levels of which each goes on where the one before it ended.  The          *)
(* collector leaves no batch without reports.                                *)
ASSUME QueriesAssumption ==
  /\ Report # {}
  /\ \A q \in Queries :
       /\ q.kind \in {"dpf", "reach", "one_party"} /\ q.shards \in Nat \ {0}
       /\ q.combine.direct \in BOOLEAN /\ q.combine.segmentLength \in Nat \ {0}
       /\ q.reach \in [useHierarchy : BOOLEAN, fullHierarchy : BOOLEAN,
                      prefixBits : Nat, evalBits : Nat]
       /\ q.targets \subseteq Nat
       /\ q.levels \in Seq([level : Nat, previousLevel : Int, prefixes : Seq(Nat),
                            direct : BOOLEAN])
       /\ q.levels # <<>> /\ q.levels[1].previousLevel = -1
       /\ q.levels[1].direct => Len(q.levels) = 1
       /\ \A i \in 2 .. Len(q.levels) :
            /\ q.levels[i].previousLevel = q.levels[i - 1].level
            /\ q.levels[i].level > q.levels[i - 1].level

VARIABLES
  query,            \* the flags of the job, and the forms of the reports' payloads
  helper,           \* which helper this is
  level,            \* the level of the query, from 1
  job,              \* "new", "running", "writing", "done" or "failed"
  jobRun,           \* how often a job was started, failed ones included
  privateKeys,      \* StandardPrivateKeys of the decryption DoFn
  pending,          \* the lines no worker holds and no commit covers
  bundle,           \* worker -> the bundle it works on
  encryptedBundle,  \* worker -> isEncryptedBundle of its DoFn instance
  merged,           \* the accumulators of the committed bundles
  sharded,          \* the decrypted reports of the committed bundles, with their shard
  unwritten,        \* the files to write, as pairs of a name and its lines
  files,            \* the files written
  failures,         \* failures of this job
  faults            \* faults so far

workVars == <<pending, bundle, encryptedBundle, merged, sharded>>
jobVars == <<query, helper, level, job, jobRun, privateKeys, workVars, unwritten,
             files, failures, faults>>
vars == <<keyVars, jobVars>>

Params == query.levels[level]
HasLevels == query.kind = "dpf"
IsFinalLevel == Params.level = KeyBitSize - 1

(* Only the first level reads the browsers' reports, and leaves decrypted    *)
(* ones for the next level if there may be one.                              *)
ReadsEncrypted == HasLevels => Params.previousLevel < 0
WritesDecrypted ==
  HasLevels /\ Params.previousLevel < 0 /\ ~ IsFinalLevel /\ ~ Params.direct

DpfKey(h, r) == Dpf!GenerateDPFKeys(r, Raw[r])[h]
ReachKey(h, r) == Reach!GenerateReachTupleKeys(r, Raw[r])[h]

SumOver(reports, value) == FSets!FoldSet(LAMBDA r, s : s + value[r], 0, reports)

(* A batch is finite, and its values are words.                              *)
ASSUME ReportsAssumption ==
  /\ IsFiniteSet(Report)
  /\ \A r \in Report : /\ Raw[r].bucket \in Nat /\ Raw[r].value \in Word
                       /\ Raw[r].data \in Seq([bucket : Nat, value : Word])
                       /\ Raw[r].person \in Word /\ Raw[r].r \in Word /\ Raw[r].q \in Word

(* The shares of tuples are tuples of words.                                 *)
ASSUME ReachMaskAssumption ==
  \A q \in Queries : \A b \in 0 .. Reach!VectorLength(q.reach) - 1 :
    \A r \in Report, x \in Reach!Fields : ReachMask(r, x, b) \in Word

(* What Query leaves to the DPF library and the noise: the sums of the       *)
(* shares that these reports' keys have at the buckets of a level, and any   *)
(* noise at each of them.                                                    *)
ASSUME SharesAssumption ==
  \A q \in Queries : q.kind = "dpf" => \A i \in DOMAIN q.levels :
    LET params == Dpf!AsQueryParams(q.levels[i])
        B == ExpandedBuckets(params)
        shares(h, b) == [r \in Report |-> Dpf!Share(DpfKey(h, r), params.level, b)]
    IN  CheckExpansionParameters(params) =>
          /\ \A r \in Report, b \in B : Mask(r, params.level, b) \in Word
          /\ \A h \in Helper : DpfVectors(h, params.level, B)
                                = {[b \in B |-> SumOver(Report, shares(h, b)) % Modulus]}
          /\ [B -> Noise] \subseteq NoiseVectors(B)
-----------------------------------------------------------------------------
(* The combine of each kind of job.                                          *)
CreateAccumulator ==
  CASE query.kind = "dpf" ->
         Dpf!CreateAccumulator(Dpf!Segments(Dpf!VectorLength(Params), query.combine))
    [] query.kind = "reach" ->
         Reach!CreateAccumulator(
           Reach!Segments(Reach!VectorLength(query.reach), query.combine))
    [] OTHER -> OneParty!EmptySums

AddInput(acc, r) ==
  CASE query.kind = "dpf" ->
         Dpf!AddInput(acc, Dpf!ExpandDpfKey(Params, DpfKey(helper, r)))
    [] query.kind = "reach" ->
         Reach!AddInput(acc, Reach!ExpandDpfKey(query.reach, ReachKey(helper, r)))
    [] OTHER -> Seqs!FoldLeft(OneParty!Contribution, acc, Raw[r].data)

MergeAccumulators(a, b) ==
  CASE query.kind = "dpf" -> Dpf!MergeAccumulators(a, b)
    [] query.kind = "reach" -> Reach!MergeAccumulators(a, b)
    [] OTHER -> OneParty!MergeSums(a, b)

(* WriteNShardedFiles: a shard drawn for each line, and one file for each    *)
(* shard, named with its number unless there is one only.  A text file with  *)
(* no lines is not written.                                                  *)
ShardsOf(n) == IF n = 1 THEN {0} ELSE 1 .. n

\* Mutant: a shard takes the lines of the shards before it as well.
GetShardUpTo(assigned, shard) == {a[1] : a \in {b \in assigned : b[2] <= shard}}

GetShard(assigned, shard) == {a[1] : a \in {b \in assigned : b[2] = shard}}

ShardedFiles(kind, n, assigned) ==
  {f \in {<<[kind |-> kind, level |-> level, shard |-> s], GetShard(assigned, s)>> :
            s \in ShardsOf(n)} : f[2] # {}}

\* The files a name with "*" before its extension stands for: AddStrInPath.
Glob(kind, l) == {f \in DOMAIN files : f.kind = kind /\ f.level = l}

LinesOf(kind, l) == UNION {files[f].lines : f \in Glob(kind, l)}
-----------------------------------------------------------------------------
EmptyBundle == [lines |-> {}, sharded |-> {}, acc |-> CreateAccumulator]

JobInit ==
  /\ KeyInit
  /\ query \in Queries /\ helper \in Helper
  /\ level = 1 /\ job = "new" /\ jobRun = 1
  /\ privateKeys = {} /\ pending = {} /\ sharded = {} /\ merged = CreateAccumulator
  /\ bundle = [w \in Worker |-> EmptyBundle]
  /\ encryptedBundle = [w \in Worker |-> TRUE]
  /\ unwritten = {} /\ files = [f \in {} |-> {}]
  /\ failures = 0 /\ faults = 0

(* main of the binary: log.Exit unless the input is there, the keys can be   *)
(* read, if they are needed, and the parameters fit the keys' levels.        *)
CanStart ==
  /\ ReadsEncrypted \/ Glob("decrypted", 1) # {}
  /\ ReadsEncrypted => CollectionReadable
  /\ HasLevels => CheckExpansionParameters(Dpf!AsQueryParams(Params))

\* Mutant: what an earlier run of the first level has left is read instead of the reports.
InputLinesResumed ==
  IF ReadsEncrypted /\ Glob("decrypted", 1) = {}
    THEN {[report |-> r, shard |-> 0] : r \in Report}
    ELSE UNION {{[report |-> r, shard |-> f.shard] : r \in files[f].lines} :
                  f \in Glob("decrypted", 1)}

InputLines ==
  IF ReadsEncrypted
    THEN {[report |-> r, shard |-> 0] : r \in Report}
    ELSE UNION {{[report |-> r, shard |-> f.shard] : r \in files[f].lines} :
                  f \in Glob("decrypted", 1)}

StartJob ==
  /\ job = "new"
  /\ \A r \in Report : payload[r] # NoPayload
  /\ IF CanStart
       THEN /\ job' = "running"
            /\ privateKeys' = IF ReadsEncrypted THEN privateInfo ELSE {}
            /\ pending' = InputLines
            /\ bundle' = [w \in Worker |-> EmptyBundle]
            /\ encryptedBundle' = [w \in Worker |-> TRUE]
            /\ merged' = CreateAccumulator /\ sharded' = {}
       ELSE /\ job' = "failed"
            /\ UNCHANGED <<privateKeys, workVars>>
  /\ UNCHANGED <<keyVars, query, helper, level, jobRun, unwritten, files, failures, faults>>
-----------------------------------------------------------------------------
\* Mutant: the empty KeyId needs a key too.
KeyKnownAlways(p) == p.keyId \in privateKeys

(* decryptPartialReportFn accepts the empty KeyId, decryptReportFn does not. *)
KeyKnown(p) ==
  p.keyId \in privateKeys \/ (query.kind # "one_party" /\ p.keyId = NoKey)

(* Once an instance met a report that is not encrypted it expects no other   *)
(* kind: it parses the payload without decrypting.                           *)
Parses(w, p) ==
  IF encryptedBundle[w] THEN DecryptOrUnmarshalOK(p, privateKeys) ELSE p.form # "sealed"

CanProcess(w, r) ==
  /\ ReadsEncrypted => KeyKnown(payload[r]) /\ Parses(w, payload[r])
  /\ query.kind = "reach" => Reach!ExpandOK(query.reach)

ProcessElement(w, line) ==
  /\ job = "running" /\ line \in pending /\ CanProcess(w, line.report)
  /\ pending' = pending \ {line}
  /\ \E shard \in IF WritesDecrypted THEN ShardsOf(query.shards) ELSE {0} :
       bundle' = [bundle EXCEPT ![w] =
         [lines |-> @.lines \cup {line},
          sharded |-> IF WritesDecrypted THEN @.sharded \cup {<<line.report, shard>>} ELSE {},
          acc |-> AddInput(@.acc, line.report)]]
  /\ encryptedBundle' = [encryptedBundle EXCEPT ![w] =
       @ /\ (ReadsEncrypted => Decrypts(payload[line.report], privateKeys))]
  /\ UNCHANGED <<keyVars, query, helper, level, job, jobRun, privateKeys, merged, sharded,
                 unwritten, files, failures, faults>>

CommitBundle(w) ==
  /\ job = "running" /\ bundle[w].lines # {}
  /\ merged' = MergeAccumulators(merged, bundle[w].acc)
  /\ sharded' = sharded \cup bundle[w].sharded
  /\ bundle' = [bundle EXCEPT ![w] = EmptyBundle]
  /\ UNCHANGED <<keyVars, query, helper, level, job, jobRun, privateKeys, pending,
                 encryptedBundle, unwritten, files, failures, faults>>

Failure ==
  /\ failures' = failures + 1
  /\ job' = IF failures' >= MaxFailures THEN "failed" ELSE job

(* The lines of the bundle wait again, for a DoFn instance that is set up.   *)
DropBundle(w) ==
  /\ pending' = pending \cup bundle[w].lines
  /\ bundle' = [bundle EXCEPT ![w] = EmptyBundle]
  /\ encryptedBundle' = [encryptedBundle EXCEPT ![w] = TRUE]
  /\ Failure
  /\ UNCHANGED <<keyVars, query, helper, level, jobRun, privateKeys, merged, sharded,
                 unwritten, files>>

BundleFails(w, line) ==
  /\ job = "running" /\ line \in pending /\ ~ CanProcess(w, line.report)
  /\ DropBundle(w)
  /\ UNCHANGED faults

LoseWorker(w) ==
  /\ job = "running" /\ bundle[w].lines # {}
  /\ faults < MaxFaults /\ faults' = faults + 1
  /\ DropBundle(w)
-----------------------------------------------------------------------------
(* The pairs the histogram has a line for, before the noise.                 *)
Aligned ==
  CASE query.kind = "dpf" -> Dpf!AlignVector(Dpf!AllBucketIDs(Params), merged)
    [] query.kind = "reach" -> Reach!AlignVector(query.reach, merged)
    [] OTHER -> OneParty!FilterBucket(query.targets, merged)

AddNoise(pair, noise) ==
  IF query.kind = "dpf" THEN Dpf!AddNoise(pair, noise) ELSE OneParty!AddNoise(pair, noise)

Histograms ==
  IF query.noised
    THEN {{AddNoise(pair, noise[pair]) : pair \in Aligned} : noise \in [Aligned -> Noise]}
    ELSE {Aligned}

HistogramName == [kind |-> "histogram", level |-> level, shard |-> 0]

OutputFiles ==
  IF query.kind = "reach"
    THEN {ShardedFiles("rq", query.shards,
                       {<<Reach!FormatRQ(pair), rq[pair]>> : pair \in Aligned})
            \cup ShardedFiles("histogram", query.shards,
                              {<<pair, hist[pair]>> : pair \in Aligned}) :
            rq \in [Aligned -> ShardsOf(query.shards)],
            hist \in [Aligned -> ShardsOf(query.shards)]}
    ELSE {{<<HistogramName, lines>>} \cup ShardedFiles("decrypted", query.shards, sharded) :
            lines \in Histograms}

ExtractOutput ==
  /\ job = "running" /\ pending = {}
  /\ \A w \in Worker : bundle[w].lines = {}
  /\ unwritten' \in OutputFiles
  /\ job' = "writing"
  /\ UNCHANGED <<keyVars, query, helper, level, jobRun, privateKeys, workVars, files,
                 failures, faults>>

(* A file is overwritten if it was there.                                    *)
WriteFile(f) ==
  /\ job = "writing" /\ f \in unwritten
  /\ files' = [n \in DOMAIN files \cup {f[1]} |->
                 IF n = f[1] THEN [run |-> jobRun, lines |-> f[2]] ELSE files[n]]
  /\ unwritten' = unwritten \ {f}
  /\ job' = IF unwritten' = {} THEN "done" ELSE job
  /\ UNCHANGED <<keyVars, query, helper, level, jobRun, privateKeys, workVars, failures,
                 faults>>

WriteFails(f) ==
  /\ job = "writing" /\ f \in unwritten
  /\ faults < MaxFaults /\ faults' = faults + 1
  /\ Failure
  /\ UNCHANGED <<keyVars, query, helper, level, jobRun, privateKeys, workVars, unwritten,
                 files>>

(* The aggregator starts the job again, or the one of the next level.        *)
RestartJob ==
  /\ job = "failed" /\ jobRun < MaxJobRuns
  /\ job' = "new" /\ jobRun' = jobRun + 1
  /\ failures' = 0 /\ unwritten' = {}
  /\ UNCHANGED <<keyVars, query, helper, level, privateKeys, workVars, files, faults>>

NextLevel ==
  /\ job = "done" /\ HasLevels /\ level < Len(query.levels)
  /\ level' = level + 1 /\ job' = "new" /\ failures' = 0
  /\ UNCHANGED <<keyVars, query, helper, jobRun, privateKeys, workVars, unwritten, files,
                 faults>>

(* Keys and reports are made before the first job starts.                    *)
BeforeJob ==
  /\ job = "new" /\ level = 1 /\ jobRun = 1
  /\ \/ run < query.keyRuns /\ GenerateHybridKeyPairs
     \/ tool # "idle" /\ ToolStep
     \/ ReadPublicKeys
     \/ \E r \in Report : MakePayload(r, query.forms[r])
  /\ UNCHANGED jobVars

RunnerStep ==
  \/ \E w \in Worker, line \in pending : ProcessElement(w, line) \/ BundleFails(w, line)
  \/ \E w \in Worker : CommitBundle(w)
  \/ ExtractOutput
  \/ \E f \in unwritten : WriteFile(f)

Fault ==
  \/ \E w \in Worker : LoseWorker(w)
  \/ \E f \in unwritten : WriteFails(f)

Next == BeforeJob \/ StartJob \/ RunnerStep \/ Fault \/ RestartJob \/ NextLevel

JobSpec == JobInit /\ [][Next]_vars
-----------------------------------------------------------------------------
IsValue(kind, v) ==
  CASE kind = "decrypted" -> v \in Report
    [] kind = "rq" -> v[1] \in Nat /\ v[2].R \in Word /\ v[2].Q \in Word
    [] kind = "histogram" /\ query.kind = "reach" ->
         v[1] \in Nat /\ v[2] \in [Reach!Fields -> Word]
    [] OTHER -> v[1] \in Nat /\ v[2] \in Word

TypeOK ==
  /\ KeyTypeOK
  /\ level \in 1 .. Len(query.levels)
  /\ job \in {"new", "running", "writing", "done", "failed"}
  /\ jobRun \in 1 .. MaxJobRuns
  /\ privateKeys \subseteq Key
  /\ \A line \in pending : line.report \in Report /\ line.shard \in 0 .. query.shards
  /\ encryptedBundle \in [Worker -> BOOLEAN]
  /\ \A f \in DOMAIN files : \A v \in files[f].lines : IsValue(f.kind, v)
  /\ failures \in 0 .. MaxFailures /\ faults \in 0 .. MaxFaults

(* What the jobs should have computed, from the reports in the clear.        *)
PlainSum(b) ==
  SumOver({r \in Report : Dpf!PrefixOf(Raw[r].bucket, Params.level) = b},
          [r \in Report |-> Raw[r].value]) % Modulus

(* A failed job may have left a shard that the next one has no line for.     *)
StaleShard ==
  \E f, g \in Glob("decrypted", 1) : files[f].run # files[g].run

Done(kind) == job = "done" /\ query.kind = kind /\ ~ StaleShard

(* What a DPF job writes is one of the partial results Query allows, on      *)
(* every level: each report is in it once, whichever workers were lost, and  *)
(* at the bucket it belongs to, however the vectors were cut into segments   *)
(* (dpfaggregator.go:327-490, 589-640).                                      *)
DpfJobImplementsQuery ==
  Done("dpf") =>
    /\ Glob("histogram", level) = {HistogramName}
    /\ Dpf!ReadHistogram(files[HistogramName].lines) \in
         PartialResults(helper, Dpf!AsQueryParams(Params), query.noised)

(* The merge tool and the aggregator agree on a helper's histogram and its   *)
(* partner's: without noise the merged sums are the reports' own, and the    *)
(* merge tool leaves out the zero ones (dpfaggregator.go:724-748, 813-831).  *)
MergedIsPlainHistogram ==
  Done("dpf") /\ ~ query.noised =>
    \A other \in PartialResults(Partner(helper), Dpf!AsQueryParams(Params), FALSE) :
      LET own == Dpf!ReadHistogram(files[HistogramName].lines)
          lines == {<<b, other[b]>> : b \in DOMAIN other}
          plain == [b \in DOMAIN own |-> PlainSum(b)]
      IN  /\ Mergeable(own, other) /\ MergePartialResult(own, other) = plain
          /\ Dpf!MergeHistogramOK(files[HistogramName].lines, lines)
          /\ Dpf!MergeHistogram(files[HistogramName].lines, lines)
               = {<<b, plain[b]>> : b \in {x \in DOMAIN plain : plain[x] # 0}}

(* The two helpers' reach results count the reports of every bucket, and     *)
(* the verification of a bucket with reports of one person is 0, with shares *)
(* nobody else can read (reachaggregator.go:531-558, 622-643).               *)
ReachPartner ==
  LET segments == Reach!Segments(Reach!VectorLength(query.reach), [direct |-> TRUE])
      add(r, acc) == Reach!AddInput(acc, Reach!ExpandDpfKey(query.reach,
                                           ReachKey(Partner(helper), r)))
  IN  Reach!AlignVector(query.reach,
        FSets!FoldSet(add, Reach!CreateAccumulator(segments), Report))

ReachOf(b) ==
  {r \in Report : \/ ~ query.reach.useHierarchy /\ Raw[r].bucket = b
                  \/ /\ query.reach.useHierarchy
                     /\ Raw[r].bucket \div 2 ^ Reach!SuffixBitSize(query.reach)
                          = b \div 2 ^ Reach!SuffixBitSize(query.reach)}

ReachVerifies ==
  Done("reach") =>
    LET own == LinesOf("histogram", level)
        rq == LinesOf("rq", level)
        other == ReachPartner
        otherRQ == {Reach!FormatRQ(line) : line \in other}
        merged1 == Reach!CreatePartialResult(Reach!ReadLines(otherRQ), Reach!ReadLines(own))
        merged2 == Reach!CreatePartialResult(Reach!ReadLines(rq), Reach!ReadLines(other))
        result == Reach!MergeReachResults(merged1, merged2)
    IN  /\ Reach!CreatePartialResultOK(Reach!ReadLines(otherRQ), Reach!ReadLines(own))
        /\ Reach!CreatePartialResultOK(Reach!ReadLines(rq), Reach!ReadLines(other))
        /\ \A b \in DOMAIN result :
             /\ result[b].count = Cardinality(ReachOf(b)) % Modulus
             /\ Cardinality({Raw[r].person : r \in ReachOf(b)}) <= 1 =>
                  result[b].verification = 0

(* The one-party histogram has a line for every target and for nothing else, *)
(* with the contributions of all reports (onepartyaggregator.go:172-278).    *)
OnePartySums ==
  Done("one_party") =>
    LET result == OneParty!ReadHistogram(files[HistogramName].lines)
        value(r, b) == SumOver({i \in DOMAIN Raw[r].data : Raw[r].data[i].bucket = b},
                               [i \in DOMAIN Raw[r].data |-> Raw[r].data[i].value])
    IN  /\ DOMAIN result = query.targets
        /\ \A b \in query.targets : \E n \in IF query.noised THEN Noise ELSE {0} :
             result[b] = (SumOver(Report, [r \in Report |-> value(r, b)]) + n) % Modulus

(* The decrypted reports a first level leaves are those it read, each in one *)
(* shard, also when bundles were done again (dpfaggregator.go:605-611,       *)
(* pipelineutils.go:33-63).                                                  *)
DecryptedOnce ==
  Done("dpf") /\ WritesDecrypted =>
    \A r \in Report :
      Cardinality({f \in Glob("decrypted", level) : r \in files[f].lines}) = 1

(* Every report is in a file of decrypted ones that the next level reads,    *)
(* also where shards of a run that failed during its writes lie between those *)
(* of the run that replaced it: such a shard may hold a report again, and    *)
(* never stands where one of the later run should (dpfaggregator.go:605-611, *)
(* pipelineutils.go:52-63).                                                  *)
EveryReportPassedOn ==
  (job = "done" /\ WritesDecrypted) \/ (job = "running" /\ level > 1) =>
    Report \subseteq LinesOf("decrypted", 1)

(* A job fails only when workers were lost too often, when it is asked for   *)
(* levels its keys do not have or, below the first, for no prefix, when its  *)
(* keys are not there, or when encrypted and other reports are mixed: a      *)
(* batch of one form that its keys can read is aggregated, by any instances  *)
(* in any order (dpfaggregator.go:144-180, 856-874,                          *)
(* onepartyaggregator.go:121-158).                                           *)
ParametersRefused ==
  \/ HasLevels /\ ~ CheckExpansionParameters(Dpf!AsQueryParams(Params))
  \/ query.kind = "reach" /\ ~ Reach!ExpandOK(query.reach)

Unreadable(r) ==
  payload[r].keyId \notin privateInfo
    /\ (payload[r].keyId = NoKey => query.kind = "one_party")

FailureExplained ==
  job = "failed" /\ faults < MaxFailures =>
    \/ ParametersRefused
    \/ privateInfo = {}
    \/ \E r \in Report : Unreadable(r)
    \/ \E r, s \in Report : payload[r].form = "sealed" /\ payload[s].form # "sealed"
=============================================================================
