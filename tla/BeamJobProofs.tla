--------------------------- MODULE BeamJobProofs ---------------------------
(***************************************************************************)
(* Proofs about the keys of a helper and the control of its jobs, for      *)
(* every set of reports, workers, queries and bounds: what a published key *)
(* promises, why a job fails, and that the decrypted reports a first level *)
(* leaves are those it read, each in one shard.                            *)
(***************************************************************************)
EXTENDS BeamJob, FiniteSetTheorems, SequenceTheorems, TLAPS

(* A key is stored before the collection names it, and named before it is    *)
(* published; what is stored or named was made by a run up to this one.      *)
KeyInv ==
  /\ privateInfo \subseteq secrets /\ publicInfo \subseteq secrets
  /\ cached \subseteq secrets
  /\ \A k \in secrets : k[1] <= run
  /\ tool \in {"private_info", "public_info"} => NewKeys \subseteq secrets
  /\ tool = "public_info" => privateInfo = NewKeys
  /\ run <= 1 => cached \cup publicInfo \subseteq privateInfo

(* The part of TypeOK that does not look into the files.                     *)
ControlTypeOK ==
  /\ KeyTypeOK
  /\ query \in Queries /\ helper \in Helper
  /\ level \in 1 .. Len(query.levels) /\ (level > 1 => HasLevels)
  /\ job \in {"new", "running", "writing", "done", "failed"}
  /\ jobRun \in 1 .. MaxJobRuns
  /\ privateKeys \subseteq Key
  /\ \A line \in pending : line.report \in Report /\ line.shard \in 0 .. query.shards
  /\ bundle = [w \in Worker |-> bundle[w]]
  /\ \A w \in Worker : \A line \in bundle[w].lines :
       line.report \in Report /\ line.shard \in 0 .. query.shards
  /\ encryptedBundle \in [Worker -> BOOLEAN]
  /\ failures \in 0 .. MaxFailures /\ faults \in 0 .. MaxFaults
  /\ job # "failed" => failures < MaxFailures
  /\ job = "new" => failures = 0
  /\ job \in {"running", "writing", "done"} => CanStart
  /\ job = "done" => unwritten = {}

Line(r) == [report |-> r, shard |-> 0]

Drawn(r, assigned) == \E s \in ShardsOf(query.shards) : <<r, s>> \in assigned

OneShard(assigned) ==
  /\ assigned \subseteq Report \X ShardsOf(query.shards)
  /\ \A r \in Report, s, t \in ShardsOf(query.shards) :
       <<r, s>> \in assigned /\ <<r, t>> \in assigned => s = t

(* While a job that leaves decrypted reports runs, each report is in one     *)
(* place: it waits, one worker holds it with the shard drawn for it, or it   *)
(* is committed with its shard.  Any other job draws no shard.               *)
ShardInv ==
  /\ job \in {"running", "writing", "done"} /\ WritesDecrypted =>
       /\ pending \subseteq {Line(r) : r \in Report}
       /\ OneShard(sharded)
       /\ \A w \in Worker :
            /\ bundle[w].lines \subseteq {Line(r) : r \in Report}
            /\ OneShard(bundle[w].sharded)
            /\ \A r \in Report : Drawn(r, bundle[w].sharded) <=> Line(r) \in bundle[w].lines
       /\ \A r \in Report :
            /\ Line(r) \in pending =>
                 ~ Drawn(r, sharded) /\ \A w \in Worker : Line(r) \notin bundle[w].lines
            /\ \A w \in Worker : Line(r) \in bundle[w].lines =>
                 /\ ~ Drawn(r, sharded)
                 /\ \A v \in Worker : Line(r) \in bundle[v].lines => v = w
            /\ Drawn(r, sharded) \/ Line(r) \in pending
                 \/ \E w \in Worker : Line(r) \in bundle[w].lines
  /\ job \in {"running", "writing", "done"} /\ ~ WritesDecrypted =>
       sharded = {} /\ \A w \in Worker : bundle[w].sharded = {}
  /\ job \in {"writing", "done"} =>
       pending = {} /\ \A w \in Worker : bundle[w].lines = {}

DecryptedFiles == ShardedFiles("decrypted", query.shards, sharded)

(* The files a job has written or will write are those of its outcome; the   *)
(* decrypted ones stay from the first level on.                              *)
FilesInv ==
  /\ \A n \in DOMAIN files :
       /\ n.level \in 1 .. level /\ files[n].run \in 1 .. jobRun
       /\ n.level = level /\ files[n].run = jobRun => job \in {"writing", "done", "failed"}
       /\ n.kind = "decrypted" =>
            n.level = 1 /\ n.shard \in 0 .. query.shards /\ files[n].lines \subseteq Report
  /\ job = "writing" => \A f \in unwritten :
       /\ f = <<f[1], f[2]>> /\ f[1].level = level
       /\ f[1].kind = "decrypted" => f \in DecryptedFiles
  /\ job \in {"writing", "done"} /\ level = 1 =>
       /\ \A f \in DecryptedFiles :
            \/ f \in unwritten
            \/ /\ f[1] \in DOMAIN files /\ files[f[1]].run = jobRun
               /\ files[f[1]].lines = f[2]
       /\ \A n \in DOMAIN files : n.kind = "decrypted" /\ files[n].run = jobRun =>
            <<n, files[n].lines>> \in DecryptedFiles
  /\ level > 1 => Glob("decrypted", 1) # {} \/ ParametersRefused

Explained ==
  \/ ParametersRefused
  \/ privateInfo = {}
  \/ \E r \in Report : Unreadable(r)
  \/ \E r, s \in Report : payload[r].form = "sealed" /\ payload[s].form # "sealed"

(* A job has the private keys the collection names, a DoFn instance expects  *)
(* only reports that are not encrypted after it met one, and a failure that  *)
(* no fault caused has a reason in the batch.                                *)
FailureInv ==
  /\ job = "running" /\ ReadsEncrypted =>
       /\ privateKeys = privateInfo
       /\ \A w \in Worker :
            ~ encryptedBundle[w] => \E r \in Report : payload[r].form # "sealed"
  /\ failures > faults \/ (job = "failed" /\ faults < MaxFailures) => Explained

JobInv ==
  /\ KeyInv /\ ControlTypeOK /\ ShardInv /\ FilesInv /\ FailureInv
-----------------------------------------------------------------------------
(* What depends on the flags and the level only.                             *)
LEMMA SameLevel ==
  ASSUME query' = query, level' = level
  PROVE  /\ HasLevels' = HasLevels /\ Params' = Params
         /\ ReadsEncrypted' = ReadsEncrypted /\ WritesDecrypted' = WritesDecrypted
         /\ ParametersRefused' = ParametersRefused
<1>1. HasLevels' = HasLevels /\ Params' = Params
  BY DEF HasLevels, Params
<1>2. ReadsEncrypted' = ReadsEncrypted
  BY <1>1 DEF ReadsEncrypted
<1>3. WritesDecrypted' = WritesDecrypted
  BY <1>1 DEF WritesDecrypted, IsFinalLevel
<1>4. ParametersRefused' = ParametersRefused
  BY <1>1 DEF ParametersRefused, Dpf!AsQueryParams
<1> QED
  BY <1>1, <1>2, <1>3, <1>4

(* What also depends on the keys and the files.                              *)
LEMMA SameStart ==
  ASSUME query' = query, level' = level, UNCHANGED keyVars, UNCHANGED files
  PROVE  CanStart' = CanStart
<1>1. Params' = Params
  BY SameLevel
<1> QED
  BY <1>1, SameLevel
  DEF CanStart, CollectionReadable, Glob, keyVars, Dpf!AsQueryParams

\* What counts as a reason depends on keys, payloads, files and the query only.
LEMMA SameReasons ==
  ASSUME query' = query, level' = level, UNCHANGED keyVars
  PROVE  Explained' = Explained
BY SameLevel DEF Explained, Unreadable, keyVars

\* The invariant of the keys depends on the variables of the keys only.
LEMMA SameKeys ==
  ASSUME KeyTypeOK, KeyInv, UNCHANGED keyVars
  PROVE  KeyTypeOK' /\ KeyInv'
BY DEF KeyTypeOK, KeyInv, NewKeys, keyVars

\* A set with two elements has no single one.
LEMMA SeveralIsNotOne ==
  ASSUME NEW n \in Nat, 2 <= n
  PROVE  n # 1
OBVIOUS

(* What the flags of a job give: only a first level reads encrypted reports  *)
(* or leaves decrypted ones, and it does unless it is the last there can be. *)
LEMMA QueryFacts ==
  ASSUME ControlTypeOK
  PROVE  /\ query.shards \in Nat \ {0} /\ Params.level \in Nat
         /\ query.levels \in Seq([level : Nat, previousLevel : Int, prefixes : Seq(Nat),
                                  direct : BOOLEAN])
         /\ level \in Nat \ {0} /\ Len(query.levels) \in Nat
         /\ level = 1 => ReadsEncrypted
         /\ level # 1 => Params.previousLevel \in Nat
         /\ WritesDecrypted => level = 1 /\ HasLevels /\ ReadsEncrypted
         /\ (level = 1 /\ HasLevels /\ ~ WritesDecrypted /\ 2 <= Len(query.levels)) =>
              /\ IsFinalLevel
              /\ query.levels[2].level > KeyBitSize - 1
<1> DEFINE L == [level : Nat, previousLevel : Int, prefixes : Seq(Nat), direct : BOOLEAN]
<1>1. /\ query \in Queries /\ query.shards \in Nat \ {0}
      /\ query.levels \in Seq(L) /\ query.levels # <<>>
      /\ query.levels[1].previousLevel = -1
      /\ query.levels[1].direct => Len(query.levels) = 1
      /\ \A i \in 2 .. Len(query.levels) :
           /\ query.levels[i].previousLevel = query.levels[i - 1].level
           /\ query.levels[i].level > query.levels[i - 1].level
  BY QueriesAssumption DEF ControlTypeOK
<1>2. Len(query.levels) \in Nat /\ level \in 1 .. Len(query.levels)
  BY <1>1, LenProperties DEF ControlTypeOK
<1>3. \A i \in 1 .. Len(query.levels) : query.levels[i] \in L
  BY <1>1, ElementOfSeq, Zenon
<1>4. \A i \in 1 .. Len(query.levels) : query.levels[i].level \in Nat
  BY <1>3
<1>5. level = 1 => Params.previousLevel = -1
  BY <1>1 DEF Params
<1>6. level # 1 => Params.previousLevel = query.levels[level - 1].level
                   /\ level - 1 \in 1 .. Len(query.levels)
  BY <1>1, <1>2 DEF Params
<1>7. level # 1 => Params.previousLevel \in Nat
  BY <1>4, <1>6
<1>8. Params.level \in Nat
  BY <1>2, <1>4 DEF Params
<1>9. level = 1 => ReadsEncrypted
  BY <1>5 DEF ReadsEncrypted
<1>10. WritesDecrypted => level = 1 /\ HasLevels
  BY <1>7 DEF WritesDecrypted
<1>11. ASSUME level = 1, HasLevels, ~ WritesDecrypted, 2 <= Len(query.levels)
       PROVE  IsFinalLevel /\ query.levels[2].level > KeyBitSize - 1
  <2>1. ~ Params.direct
    <3>1. Params = query.levels[1]
      BY <1>11, Zenon DEF Params
    <3>2. 2 <= Len(query.levels) /\ Len(query.levels) \in Nat
      BY <1>2, <1>11
    <3>3. Len(query.levels) # 1
      BY <3>2, SeveralIsNotOne
    <3> QED
      BY <1>1, <3>1, <3>3
  <2>2. IsFinalLevel
    BY <1>5, <1>11, <2>1 DEF WritesDecrypted
  <2>3. 2 \in 2 .. Len(query.levels) /\ 2 - 1 = 1
    BY <1>2, <1>11
  <2>4. query.levels[2].level > query.levels[1].level
    BY <1>1, <2>3
  <2> QED
    BY <1>11, <2>2, <2>4 DEF IsFinalLevel, Params
<1> QED
  BY <1>1, <1>2, <1>7, <1>8, <1>9, <1>10, <1>11
-----------------------------------------------------------------------------
(* The keys.  Initially there are none.                                      *)
LEMMA KeyInit_Inv ==
  ASSUME KeyInit
  PROVE  KeyTypeOK /\ KeyInv
BY KeysAssumption DEF KeyInit, KeyTypeOK, KeyInv, NewKeys, Key

(* The tool stores, names and publishes the keys of one run in this order.   *)
LEMMA ToolStep_Inv ==
  ASSUME KeyTypeOK, KeyInv, ToolStep
  PROVE  KeyTypeOK' /\ KeyInv'
<1> USE KeysAssumption DEF KeyTypeOK, KeyInv
<1>0. \A k \in Key : k[1] \in 1 .. MaxRuns
  BY DEF Key
<1>1. CASE GenerateHybridKeyPairs
  <2>1. run' \in 0 .. MaxRuns /\ (run' <= 1 => run = 0)
    BY <1>1 DEF GenerateHybridKeyPairs
  <2>2. \A k \in secrets : k[1] <= run'
    BY <1>0, <1>1 DEF GenerateHybridKeyPairs
  <2> QED
    BY <1>1, <2>1, <2>2 DEF GenerateHybridKeyPairs
<1>2. CASE SavePrivateKeyParamsCollection
  <2>1. NewKeys \subseteq Key /\ NewKeys \subseteq secrets /\ NewKeys' = NewKeys
    BY <1>2 DEF SavePrivateKeyParamsCollection, NewKeys
  <2>2. run <= 1 => privateInfo \subseteq NewKeys
    <3> SUFFICES ASSUME run <= 1, NEW k \in privateInfo PROVE k \in NewKeys
      OBVIOUS
    <3>1. k \in Key /\ k[1] \in 1 .. MaxRuns /\ k[1] <= run
      BY <1>0
    <3> QED
      BY <3>1 DEF NewKeys
  <2> QED
    BY <1>2, <2>1, <2>2 DEF SavePrivateKeyParamsCollection
<1>3. CASE SavePublicKeys
  BY <1>3 DEF SavePublicKeys, NewKeys
<1>4. ASSUME NEW k \in Key, SaveStandardPrivateKey(k)
      PROVE  KeyTypeOK' /\ KeyInv'
  <2>1. k[1] = run /\ NewKeys' = NewKeys
    BY <1>4 DEF SaveStandardPrivateKey, NewKeys
  <2>2. \A x \in secrets' : x[1] <= run'
    BY <1>4, <2>1 DEF SaveStandardPrivateKey
  <2> QED
    BY <1>4, <2>1, <2>2 DEF SaveStandardPrivateKey
<1>5. CASE ToolExits
  BY <1>5 DEF ToolExits, NewKeys
<1> QED
  BY <1>1, <1>2, <1>3, <1>4, <1>5 DEF ToolStep

(* What happens before the first job starts.                                 *)
LEMMA BeforeJob_Keys ==
  ASSUME KeyTypeOK, KeyInv, BeforeJob
  PROVE  KeyTypeOK' /\ KeyInv'
<1>1. CASE GenerateHybridKeyPairs
  BY <1>1, ToolStep_Inv DEF ToolStep
<1>2. CASE ToolStep
  BY <1>2, ToolStep_Inv
<1>3. CASE ReadPublicKeys
  BY <1>3 DEF ReadPublicKeys, KeyTypeOK, KeyInv, NewKeys
<1>4. ASSUME NEW r \in Report, MakePayload(r, query.forms[r])
      PROVE  KeyTypeOK' /\ KeyInv'
  <2>1. UNCHANGED <<run, tool, secrets, privateInfo, publicInfo, cached>>
    BY <1>4 DEF MakePayload, Encrypt, LeaveKeyed, LeaveClear
  <2>2. \E p \in Payload : payload' = [payload EXCEPT ![r] = p]
    <3>1. ASSUME NEW k \in Key, Encrypt(r, k)
          PROVE  \E p \in Payload : payload' = [payload EXCEPT ![r] = p]
      <4>1. [form |-> "sealed", keyId |-> k] \in Payload
        BY DEF Payload
      <4> QED
        BY <3>1, <4>1 DEF Encrypt
    <3>2. ASSUME NEW k \in Key, LeaveKeyed(r, k)
          PROVE  \E p \in Payload : payload' = [payload EXCEPT ![r] = p]
      <4>1. [form |-> "keyed", keyId |-> k] \in Payload
        BY DEF Payload
      <4> QED
        BY <3>2, <4>1 DEF LeaveKeyed
    <3>3. CASE LeaveClear(r)
      <4>1. [form |-> "clear", keyId |-> NoKey] \in Payload
        BY DEF Payload
      <4> QED
        BY <3>3, <4>1 DEF LeaveClear
    <3> QED
      BY <1>4, <3>1, <3>2, <3>3 DEF MakePayload
  <2>3. payload' \in [Report -> Payload \cup {NoPayload}]
    BY <2>2 DEF KeyTypeOK
  <2> QED
    BY <2>1, <2>3 DEF KeyTypeOK, KeyInv, NewKeys
<1> QED
  BY <1>1, <1>2, <1>3, <1>4 DEF BeforeJob
-----------------------------------------------------------------------------
(* The invariant holds before anything happens,                              *)
LEMMA JobInit_Inv ==
  ASSUME JobInit
  PROVE  JobInv
<1>1. KeyTypeOK /\ KeyInv
  BY KeyInit_Inv DEF JobInit
<1>2. query \in Queries /\ level = 1 /\ job = "new" /\ failures = 0 /\ faults = 0
  BY DEF JobInit
<1>3. 1 \in 1 .. Len(query.levels)
  <2>1. /\ query.levels \in Seq([level : Nat, previousLevel : Int, prefixes : Seq(Nat),
                                 direct : BOOLEAN])
        /\ query.levels # <<>>
    BY <1>2, QueriesAssumption
  <2>2. Len(query.levels) \in Nat /\ Len(query.levels) # 0
    BY <2>1, EmptySeq, LenProperties
  <2> QED
    BY <2>2
<1>4. ControlTypeOK
  <2>1. /\ bundle = [w \in Worker |-> bundle[w]]
        /\ \A w \in Worker : bundle[w].lines = {}
    BY DEF JobInit, EmptyBundle
  <2> QED
    BY <1>1, <1>2, <1>3, <2>1, JobAssumption DEF JobInit, ControlTypeOK
<1>5. ShardInv /\ FilesInv /\ FailureInv
  BY <1>2 DEF JobInit, ShardInv, FilesInv, FailureInv
<1> QED
  BY <1>1, <1>4, <1>5 DEF JobInv

(* while keys and payloads are made,                                         *)
LEMMA BeforeJob_Inv ==
  ASSUME JobInv, BeforeJob
  PROVE  JobInv'
<1>1. KeyTypeOK' /\ KeyInv'
  BY BeforeJob_Keys DEF JobInv, ControlTypeOK
<1>2. UNCHANGED jobVars /\ job = "new" /\ job' = "new" /\ level = 1 /\ level' = 1
  BY DEF BeforeJob, jobVars
<1>3. HasLevels' = HasLevels
  BY <1>2 DEF HasLevels, jobVars
<1>4. ControlTypeOK'
  BY <1>1, <1>2, <1>3 DEF JobInv, ControlTypeOK, jobVars, workVars
<1>5. ShardInv'
  BY <1>2 DEF ShardInv
<1>6. FilesInv'
  BY <1>2 DEF JobInv, FilesInv, jobVars
<1>7. FailureInv'
  BY <1>2, <1>4 DEF FailureInv, ControlTypeOK
<1> QED
  BY <1>1, <1>4, <1>5, <1>6, <1>7 DEF JobInv

(* when a job starts, or cannot,                                             *)
LEMMA StartJob_Inv ==
  ASSUME JobInv, StartJob
  PROVE  JobInv'
<1> USE DEF JobInv
<1>1. /\ job = "new" /\ UNCHANGED keyVars /\ query' = query /\ helper' = helper
      /\ level' = level /\ jobRun' = jobRun /\ UNCHANGED unwritten /\ UNCHANGED files
      /\ failures' = 0 /\ failures = 0 /\ faults' = faults
      /\ job' = IF CanStart THEN "running" ELSE "failed"
  BY DEF StartJob, ControlTypeOK
<1>2. /\ CanStart' = CanStart /\ HasLevels' = HasLevels /\ ReadsEncrypted' = ReadsEncrypted
      /\ WritesDecrypted' = WritesDecrypted /\ ParametersRefused' = ParametersRefused
      /\ Explained' = Explained
  BY <1>1, SameLevel, SameStart, SameReasons
<1>3. KeyTypeOK' /\ KeyInv'
  BY <1>1, SameKeys DEF ControlTypeOK
<1>4. \A line \in InputLines : line.report \in Report /\ line.shard \in 0 .. query.shards
  <2>0. 0 \in 0 .. query.shards
    BY QueryFacts
  <2>1. CASE ReadsEncrypted
    BY <2>0, <2>1 DEF InputLines
  <2>2. CASE ~ ReadsEncrypted
    <3> SUFFICES ASSUME NEW f \in Glob("decrypted", 1), NEW r \in files[f].lines
                 PROVE  r \in Report /\ f.shard \in 0 .. query.shards
      BY <2>2 DEF InputLines
    <3> QED
      BY DEF Glob, FilesInv
  <2> QED
    BY <2>1, <2>2
<1>5. CASE CanStart
  <2>1. /\ pending' = InputLines /\ bundle' = [w \in Worker |-> EmptyBundle]
        /\ encryptedBundle' = [w \in Worker |-> TRUE] /\ sharded' = {}
        /\ privateKeys' = IF ReadsEncrypted THEN privateInfo ELSE {}
        /\ job' = "running"
    BY <1>5 DEF StartJob
  <2>2. /\ \A w \in Worker : bundle'[w].lines = {} /\ bundle'[w].sharded = {}
        /\ bundle' = [w \in Worker |-> bundle'[w]]
    BY <2>1 DEF EmptyBundle
  <2>3. ControlTypeOK'
    <3>1. privateKeys' \subseteq Key
      BY <2>1 DEF ControlTypeOK, KeyTypeOK
    <3>2. failures' \in 0 .. MaxFailures /\ failures' < MaxFailures
      BY <1>1, JobAssumption
    <3>3. \A line \in pending' : line.report \in Report /\ line.shard \in 0 .. query'.shards
      BY <1>1, <1>4, <2>1
    <3> QED
      BY <1>1, <1>2, <1>3, <1>5, <2>1, <2>2, <3>1, <3>2, <3>3 DEF ControlTypeOK
  <2>4. ShardInv'
    <3>1. CASE WritesDecrypted
      <4>1. pending' = {Line(r) : r \in Report}
        BY <2>1, <3>1, QueryFacts DEF InputLines, Line
      <4>2. \A r \in Report : ~ Drawn(r, {})' /\ OneShard({})'
        BY DEF Drawn, OneShard
      <4>3. \A r \in Report, w \in Worker : ~ Drawn(r, bundle[w].sharded)' /\ ~ Drawn(r, sharded)'
        BY <2>1, <2>2 DEF Drawn
      <4>4. OneShard(sharded)' /\ \A w \in Worker : OneShard(bundle[w].sharded)'
        BY <2>1, <2>2 DEF OneShard
      <4>5. \A r \in Report : Line(r)' \in pending'
        BY <4>1 DEF Line
      <4> QED
        BY <1>2, <2>1, <2>2, <3>1, <4>1, <4>3, <4>4, <4>5 DEF ShardInv, Line, Drawn
    <3>2. CASE ~ WritesDecrypted
      BY <1>2, <2>1, <2>2, <3>2 DEF ShardInv
    <3> QED
      BY <3>1, <3>2
  <2>5. FilesInv'
    BY <1>1, <1>2, <2>1 DEF FilesInv, Glob
  <2>6. FailureInv'
    <3>1. ~ (failures' > faults')
      BY <1>1 DEF ControlTypeOK
    <3> QED
      BY <1>1, <1>2, <2>1, <3>1 DEF FailureInv, keyVars
  <2> QED
    BY <1>3, <2>3, <2>4, <2>5, <2>6
<1>6. CASE ~ CanStart
  <2>1. UNCHANGED <<privateKeys, workVars>> /\ job' = "failed"
    BY <1>6 DEF StartJob
  <2>2. ControlTypeOK'
    BY <1>1, <1>2, <1>3, <2>1, JobAssumption DEF ControlTypeOK, workVars
  <2>3. ShardInv'
    BY <2>1 DEF ShardInv
  <2>4. FilesInv'
    BY <1>1, <1>2, <2>1 DEF FilesInv, Glob
  <2>5. Explained
    <3>1. CASE ~ ReadsEncrypted /\ Glob("decrypted", 1) = {}
      BY <3>1, QueryFacts DEF FilesInv, Explained
    <3>2. CASE ReadsEncrypted /\ ~ CollectionReadable
      BY <3>2 DEF CollectionReadable, KeyInv, Explained
    <3>3. CASE HasLevels /\ ~ CheckExpansionParameters(Dpf!AsQueryParams(Params))
      BY <3>3 DEF Explained, ParametersRefused
    <3> QED
      BY <1>6, <3>1, <3>2, <3>3 DEF CanStart
  <2>6. FailureInv'
    BY <1>2, <2>1, <2>5 DEF FailureInv
  <2> QED
    BY <1>3, <2>2, <2>3, <2>4, <2>6
<1> QED
  BY <1>5, <1>6

\* A payload names a key only when it is encrypted, and a browser uses the keys it has read.
LEMMA SealedNamesKey ==
  ASSUME KeyTypeOK, NEW r \in Report, payload[r].form = "sealed"
  PROVE  payload[r].keyId # NoKey
<1>1. payload[r] \in Payload \cup {NoPayload}
  BY DEF KeyTypeOK
<1>2. \A k \in Key : k # NoKey
  BY DEF Key, NoKey
<1>3. payload[r].keyId \in Key
  BY <1>1 DEF Payload, NoPayload
<1> QED
  BY <1>2, <1>3

(* when a worker takes a line,                                               *)
LEMMA ProcessElement_Inv ==
  ASSUME JobInv, NEW w \in Worker, NEW line \in pending, ProcessElement(w, line)
  PROVE  JobInv'
<1> USE DEF JobInv
<1>1. /\ job = "running" /\ job' = "running" /\ UNCHANGED keyVars /\ query' = query
      /\ helper' = helper /\ level' = level /\ jobRun' = jobRun
      /\ privateKeys' = privateKeys /\ sharded' = sharded
      /\ unwritten' = unwritten /\ files' = files /\ failures' = failures /\ faults' = faults
      /\ pending' = pending \ {line} /\ CanProcess(w, line.report)
      /\ encryptedBundle' = [encryptedBundle EXCEPT ![w] =
           @ /\ (ReadsEncrypted => Decrypts(payload[line.report], privateKeys))]
  BY DEF ProcessElement
<1>2. /\ CanStart' = CanStart /\ HasLevels' = HasLevels /\ ReadsEncrypted' = ReadsEncrypted
      /\ WritesDecrypted' = WritesDecrypted /\ ParametersRefused' = ParametersRefused
      /\ Explained' = Explained
  BY <1>1, SameLevel, SameStart, SameReasons
<1>3. KeyTypeOK' /\ KeyInv'
  BY <1>1, SameKeys DEF ControlTypeOK
<1>4. PICK shard \in IF WritesDecrypted THEN ShardsOf(query.shards) ELSE {0} :
        bundle' = [bundle EXCEPT ![w] =
         [lines |-> @.lines \cup {line},
          sharded |-> IF WritesDecrypted THEN @.sharded \cup {<<line.report, shard>>} ELSE {},
          acc |-> AddInput(@.acc, line.report)]]
  BY DEF ProcessElement
<1>5. /\ \A v \in Worker : v # w => bundle'[v] = bundle[v]
      /\ bundle'[w].lines = bundle[w].lines \cup {line}
      /\ bundle'[w].sharded = IF WritesDecrypted
                                THEN bundle[w].sharded \cup {<<line.report, shard>>} ELSE {}
      /\ bundle' = [v \in Worker |-> bundle'[v]]
  BY <1>4 DEF ControlTypeOK
<1>6. ControlTypeOK'
  <2>1. encryptedBundle' \in [Worker -> BOOLEAN]
    BY <1>1 DEF ControlTypeOK
  <2>2. \A v \in Worker : \A l \in bundle'[v].lines :
          l.report \in Report /\ l.shard \in 0 .. query.shards
    BY <1>5 DEF ControlTypeOK
  <2> QED
    BY <1>1, <1>2, <1>3, <1>5, <2>1, <2>2 DEF ControlTypeOK
<1>7. ShardInv'
  <2>1. CASE WritesDecrypted
    <3>1. PICK r \in Report : line = Line(r)
      BY <1>1, <2>1 DEF ShardInv
    <3>2. line.report = r /\ shard \in ShardsOf(query.shards)
      BY <2>1, <3>1, <1>4 DEF Line
    <3>3. \A q \in Report : Line(q)' = Line(q) /\ (Line(q) = line <=> q = r)
      BY <3>1 DEF Line
    <3>4. ~ Drawn(r, sharded) /\ \A v \in Worker : line \notin bundle[v].lines
      BY <1>1, <2>1, <3>1 DEF ShardInv
    <3>5. \A s \in ShardsOf(query.shards) : <<r, s>> \notin bundle[w].sharded
      BY <1>1, <2>1, <3>1, <3>4 DEF ShardInv, Drawn
    <3>6. OneShard(bundle[w].sharded)'
      BY <1>1, <1>5, <2>1, <3>2, <3>5 DEF ShardInv, OneShard
    <3>7. \A q \in Report : Drawn(q, bundle[w].sharded)' <=> Line(q) \in bundle'[w].lines
      <4>1. \A q \in Report : Drawn(q, bundle[w].sharded) <=> Line(q) \in bundle[w].lines
        BY <1>1, <2>1 DEF ShardInv
      <4>2. \A q \in Report : Line(q) \in bundle'[w].lines <=> Line(q) \in bundle[w].lines \/ q = r
        BY <1>5, <3>3
      <4>3. bundle'[w].sharded = bundle[w].sharded \cup {<<r, shard>>}
        BY <1>5, <2>1, <3>2
      <4>4. \A q \in Report, s \in ShardsOf(query.shards) :
              <<q, s>> \in bundle'[w].sharded <=>
                <<q, s>> \in bundle[w].sharded \/ (q = r /\ s = shard)
        BY <4>3
      <4>5. \A q \in Report :
              Drawn(q, bundle[w].sharded)' <=> Drawn(q, bundle[w].sharded) \/ q = r
        BY <1>1, <3>2, <4>4 DEF Drawn
      <4> QED
        BY <4>1, <4>2, <4>5
    <3>8. /\ OneShard(sharded)' /\ \A q \in Report : Drawn(q, sharded)' = Drawn(q, sharded)
          /\ \A v \in Worker : v # w =>
               /\ OneShard(bundle[v].sharded)'
               /\ \A q \in Report : Drawn(q, bundle[v].sharded)' <=> Line(q) \in bundle'[v].lines
      BY <1>1, <1>5, <2>1 DEF ShardInv, OneShard, Drawn
    <3>9. \A v \in Worker : bundle'[v].lines \subseteq {Line(q) : q \in Report}
      BY <1>1, <1>5, <2>1, <3>1 DEF ShardInv
    <3>10. ASSUME NEW q \in Report
           PROVE  /\ Line(q) \in pending' =>
                       ~ Drawn(q, sharded) /\ \A v \in Worker : Line(q) \notin bundle'[v].lines
                  /\ \A v \in Worker : Line(q) \in bundle'[v].lines =>
                       /\ ~ Drawn(q, sharded)
                       /\ \A u \in Worker : Line(q) \in bundle'[u].lines => u = v
                  /\ Drawn(q, sharded) \/ Line(q) \in pending'
                       \/ \E v \in Worker : Line(q) \in bundle'[v].lines
      BY <1>1, <1>5, <2>1, <3>1, <3>3, <3>4 DEF ShardInv
    <3>11. pending' \subseteq {Line(q) : q \in Report}
      BY <1>1, <2>1 DEF ShardInv
    <3>12. {Line(q) : q \in Report}' = {Line(q) : q \in Report}
      BY <3>3
    <3> QED
      BY <1>1, <1>2, <2>1, <3>3, <3>6, <3>7, <3>8, <3>9, <3>10, <3>11, <3>12 DEF ShardInv
  <2>2. CASE ~ WritesDecrypted
    BY <1>1, <1>2, <1>5, <2>2 DEF ShardInv
  <2> QED
    BY <2>1, <2>2
<1>8. FilesInv'
  BY <1>1, <1>2 DEF FilesInv, Glob
<1>9. FailureInv'
  <2>1. ASSUME NEW v \in Worker, ReadsEncrypted, ~ encryptedBundle'[v]
        PROVE  \E r \in Report : payload[r].form # "sealed"
    <3>1. CASE ~ encryptedBundle[v]
      BY <1>1, <2>1, <3>1 DEF FailureInv
    <3>2. CASE v = w /\ ~ Decrypts(payload[line.report], privateKeys)
      <4>1. line.report \in Report
        BY DEF ControlTypeOK
      <4>2. KeyKnown(payload[line.report])
        BY <1>1, <2>1 DEF CanProcess
      <4>3. payload[line.report].form # "sealed"
        BY <3>2, <4>1, <4>2, SealedNamesKey DEF ControlTypeOK, Decrypts, KeyKnown
      <4> QED
        BY <4>1, <4>3
    <3> QED
      BY <1>1, <2>1, <3>1, <3>2 DEF ControlTypeOK
  <2> QED
    BY <1>1, <1>2, <2>1 DEF FailureInv, keyVars
<1> QED
  BY <1>3, <1>6, <1>7, <1>8, <1>9

(* when a bundle is committed,                                               *)
LEMMA CommitBundle_Inv ==
  ASSUME JobInv, NEW w \in Worker, CommitBundle(w)
  PROVE  JobInv'
<1> USE DEF JobInv
<1>1. /\ job = "running" /\ job' = "running" /\ UNCHANGED keyVars /\ query' = query
      /\ helper' = helper /\ level' = level /\ jobRun' = jobRun
      /\ privateKeys' = privateKeys /\ sharded' = sharded \cup bundle[w].sharded
      /\ unwritten' = unwritten /\ files' = files /\ failures' = failures /\ faults' = faults
      /\ pending' = pending /\ encryptedBundle' = encryptedBundle
      /\ bundle' = [bundle EXCEPT ![w] = EmptyBundle]
  BY DEF CommitBundle
<1>2. /\ CanStart' = CanStart /\ HasLevels' = HasLevels /\ ReadsEncrypted' = ReadsEncrypted
      /\ WritesDecrypted' = WritesDecrypted /\ ParametersRefused' = ParametersRefused
      /\ Explained' = Explained
  BY <1>1, SameLevel, SameStart, SameReasons
<1>3. KeyTypeOK' /\ KeyInv'
  BY <1>1, SameKeys DEF ControlTypeOK
<1>4. /\ \A v \in Worker : v # w => bundle'[v] = bundle[v]
      /\ bundle'[w].lines = {} /\ bundle'[w].sharded = {}
      /\ bundle' = [v \in Worker |-> bundle'[v]]
  BY <1>1 DEF ControlTypeOK, EmptyBundle
<1>5. ControlTypeOK'
  <2>1. \A v \in Worker : \A l \in bundle'[v].lines :
          l.report \in Report /\ l.shard \in 0 .. query.shards
    BY <1>4 DEF ControlTypeOK
  <2> QED
    BY <1>1, <1>2, <1>3, <1>4, <2>1 DEF ControlTypeOK
<1>6. ShardInv'
  <2>1. CASE WritesDecrypted
    <3>1. \A q \in Report : Line(q)' = Line(q)
      BY DEF Line
    <3>2. \A q \in Report : Drawn(q, sharded)' <=>
            Drawn(q, sharded) \/ Line(q) \in bundle[w].lines
      <4>1. \A q \in Report : Drawn(q, bundle[w].sharded) <=> Line(q) \in bundle[w].lines
        BY <1>1, <2>1 DEF ShardInv
      <4>2. \A q \in Report : Drawn(q, sharded)' <=>
              Drawn(q, sharded) \/ Drawn(q, bundle[w].sharded)
        BY <1>1 DEF Drawn
      <4> QED
        BY <4>1, <4>2
    <3>3. OneShard(sharded)'
      <4>1. \A q \in Report, s \in ShardsOf(query.shards) :
              <<q, s>> \in bundle[w].sharded =>
                \A t \in ShardsOf(query.shards) : <<q, t>> \notin sharded
        BY <1>1, <2>1 DEF ShardInv, Drawn
      <4>2. OneShard(sharded) /\ OneShard(bundle[w].sharded)
        BY <1>1, <2>1 DEF ShardInv
      <4> QED
        BY <1>1, <4>1, <4>2 DEF OneShard
    <3>4. \A v \in Worker :
            /\ OneShard(bundle[v].sharded)'
            /\ \A q \in Report : Drawn(q, bundle[v].sharded)' <=> Line(q) \in bundle'[v].lines
      BY <1>1, <1>4, <2>1 DEF ShardInv, OneShard, Drawn
    <3>5. \A v \in Worker : bundle'[v].lines \subseteq {Line(q) : q \in Report}
      BY <1>1, <1>4, <2>1 DEF ShardInv
    <3>6. ASSUME NEW q \in Report
          PROVE  /\ Line(q) \in pending' => /\ ~ Drawn(q, sharded)'
                                            /\ \A v \in Worker : Line(q) \notin bundle'[v].lines
                 /\ \A v \in Worker : Line(q) \in bundle'[v].lines =>
                      /\ ~ Drawn(q, sharded)'
                      /\ \A u \in Worker : Line(q) \in bundle'[u].lines => u = v
                 /\ Drawn(q, sharded)' \/ Line(q) \in pending'
                      \/ \E v \in Worker : Line(q) \in bundle'[v].lines
      <4>1. /\ Line(q) \in pending =>
                 ~ Drawn(q, sharded) /\ \A v \in Worker : Line(q) \notin bundle[v].lines
            /\ \A v \in Worker : Line(q) \in bundle[v].lines =>
                 /\ ~ Drawn(q, sharded)
                 /\ \A u \in Worker : Line(q) \in bundle[u].lines => u = v
            /\ Drawn(q, sharded) \/ Line(q) \in pending
                 \/ \E v \in Worker : Line(q) \in bundle[v].lines
        BY <1>1, <2>1 DEF ShardInv
      <4>2. \A v \in Worker : Line(q) \in bundle'[v].lines <=> v # w /\ Line(q) \in bundle[v].lines
        BY <1>4
      <4>3. pending' = pending
        BY <1>1
      <4> QED
        BY <3>2, <4>1, <4>2, <4>3
    <3>7. pending' \subseteq {Line(q) : q \in Report}
      BY <1>1, <2>1 DEF ShardInv
    <3>8. {Line(q) : q \in Report}' = {Line(q) : q \in Report}
      BY <3>1
    <3> QED
      BY <1>1, <1>2, <2>1, <3>1, <3>3, <3>4, <3>5, <3>6, <3>7, <3>8 DEF ShardInv
  <2>2. CASE ~ WritesDecrypted
    BY <1>1, <1>2, <1>4, <2>2 DEF ShardInv
  <2> QED
    BY <2>1, <2>2
<1>7. FilesInv'
  BY <1>1, <1>2 DEF FilesInv, Glob
<1>8. FailureInv'
  BY <1>1, <1>2 DEF FailureInv, keyVars
<1> QED
  BY <1>3, <1>5, <1>6, <1>7, <1>8

(* when a bundle has to be done again,                                       *)
LEMMA DropBundle_Inv ==
  ASSUME JobInv, NEW w \in Worker, job = "running", DropBundle(w),
         \/ faults' = faults /\ Explained
         \/ faults < MaxFaults /\ faults' = faults + 1
  PROVE  JobInv'
<1> USE DEF JobInv
<1>1. /\ UNCHANGED keyVars /\ query' = query
      /\ helper' = helper /\ level' = level /\ jobRun' = jobRun
      /\ privateKeys' = privateKeys /\ sharded' = sharded
      /\ unwritten' = unwritten /\ files' = files /\ failures' = failures + 1
      /\ job' = IF failures' >= MaxFailures THEN "failed" ELSE job
      /\ pending' = pending \cup bundle[w].lines
      /\ encryptedBundle' = [encryptedBundle EXCEPT ![w] = TRUE]
      /\ bundle' = [bundle EXCEPT ![w] = EmptyBundle]
  BY DEF DropBundle, Failure
<1>2. /\ CanStart' = CanStart /\ HasLevels' = HasLevels /\ ReadsEncrypted' = ReadsEncrypted
      /\ WritesDecrypted' = WritesDecrypted /\ ParametersRefused' = ParametersRefused
      /\ Explained' = Explained
  BY <1>1, SameLevel, SameStart, SameReasons
<1>3. KeyTypeOK' /\ KeyInv'
  BY <1>1, SameKeys DEF ControlTypeOK
<1>4. /\ \A v \in Worker : v # w => bundle'[v] = bundle[v]
      /\ bundle'[w].lines = {} /\ bundle'[w].sharded = {}
      /\ bundle' = [v \in Worker |-> bundle'[v]]
  BY <1>1 DEF ControlTypeOK, EmptyBundle
<1>5. failures' \in 0 .. MaxFailures /\ (job' # "failed" => failures' < MaxFailures)
      /\ job' \in {"running", "failed"} /\ faults \in Nat /\ faults' \in 0 .. MaxFaults
  BY <1>1, JobAssumption DEF ControlTypeOK
<1>6. ControlTypeOK'
  <2>1. \A v \in Worker : \A l \in bundle'[v].lines :
          l.report \in Report /\ l.shard \in 0 .. query.shards
    BY <1>4 DEF ControlTypeOK
  <2>2. \A l \in pending' : l.report \in Report /\ l.shard \in 0 .. query.shards
    BY <1>1 DEF ControlTypeOK
  <2>3. encryptedBundle' \in [Worker -> BOOLEAN] /\ faults' \in 0 .. MaxFaults
    BY <1>1, <1>5 DEF ControlTypeOK
  <2> QED
    BY <1>1, <1>2, <1>3, <1>4, <1>5, <2>1, <2>2, <2>3 DEF ControlTypeOK
<1>7. ShardInv'
  <2>1. CASE WritesDecrypted
    <3>1. \A q \in Report : Line(q)' = Line(q)
      BY DEF Line
    <3>2. \A q \in Report : Drawn(q, sharded)' <=> Drawn(q, sharded)
      BY <1>1 DEF Drawn
    <3>3. OneShard(sharded)'
      BY <1>1, <2>1 DEF ShardInv, OneShard
    <3>4. \A v \in Worker :
            /\ OneShard(bundle[v].sharded)'
            /\ \A q \in Report : Drawn(q, bundle[v].sharded)' <=> Line(q) \in bundle'[v].lines
      BY <1>1, <1>4, <2>1 DEF ShardInv, OneShard, Drawn
    <3>5. \A v \in Worker : bundle'[v].lines \subseteq {Line(q) : q \in Report}
      BY <1>4, <2>1 DEF ShardInv
    <3>6. ASSUME NEW q \in Report
          PROVE  /\ Line(q) \in pending' => /\ ~ Drawn(q, sharded)'
                                            /\ \A v \in Worker : Line(q) \notin bundle'[v].lines
                 /\ \A v \in Worker : Line(q) \in bundle'[v].lines =>
                      /\ ~ Drawn(q, sharded)'
                      /\ \A u \in Worker : Line(q) \in bundle'[u].lines => u = v
                 /\ Drawn(q, sharded)' \/ Line(q) \in pending'
                      \/ \E v \in Worker : Line(q) \in bundle'[v].lines
      BY <1>1, <1>4, <2>1, <3>2 DEF ShardInv
    <3>7. pending' \subseteq {Line(q) : q \in Report}
      BY <1>1, <2>1 DEF ShardInv
    <3>8. {Line(q) : q \in Report}' = {Line(q) : q \in Report}
      BY <3>1
    <3> QED
      BY <1>2, <1>5, <2>1, <3>1, <3>3, <3>4, <3>5, <3>6, <3>7, <3>8 DEF ShardInv
  <2>2. CASE ~ WritesDecrypted
    BY <1>1, <1>2, <1>4, <1>5, <2>2 DEF ShardInv
  <2> QED
    BY <2>1, <2>2
<1>8. FilesInv'
  BY <1>1, <1>2, <1>5 DEF FilesInv, Glob
<1>9. FailureInv'
  <2>1. job' = "running" /\ ReadsEncrypted =>
          /\ privateKeys = privateInfo
          /\ \A v \in Worker :
               ~ encryptedBundle'[v] => \E r \in Report : payload[r].form # "sealed"
    BY <1>1 DEF FailureInv, ControlTypeOK
  <2>2. ASSUME failures' > faults' \/ (job' = "failed" /\ faults' < MaxFailures)
        PROVE  Explained
    <3>1. failures' > faults'
      BY <1>1, <1>5, <2>2, JobAssumption
    <3>2. faults' = faults \/ failures > faults
      BY <1>1, <1>5, <3>1 DEF ControlTypeOK
    <3> QED
      BY <1>5, <3>2 DEF FailureInv
  <2> QED
    BY <1>1, <1>2, <2>1, <2>2 DEF FailureInv, keyVars
<1> QED
  BY <1>3, <1>6, <1>7, <1>8, <1>9

(* because a report in it cannot be processed                                *)
LEMMA BundleFails_Inv ==
  ASSUME JobInv, NEW w \in Worker, NEW line \in pending, BundleFails(w, line)
  PROVE  JobInv'
<1>1. job = "running" /\ ~ CanProcess(w, line.report) /\ DropBundle(w) /\ faults' = faults
  BY DEF BundleFails
<1>2. line.report \in Report
  BY DEF JobInv, ControlTypeOK
<1>3. PICK r \in Report : r = line.report
  BY <1>2
<1>4. CASE query.kind = "reach" /\ ~ Reach!ExpandOK(query.reach)
  BY <1>1, <1>4, DropBundle_Inv DEF Explained, ParametersRefused
<1>5. CASE ReadsEncrypted /\ ~ KeyKnown(payload[r])
  <2>1. privateKeys = privateInfo
    BY <1>1, <1>5 DEF JobInv, FailureInv
  <2>2. Unreadable(r)
    BY <1>5, <2>1 DEF KeyKnown, Unreadable
  <2> QED
    BY <1>1, <2>2, DropBundle_Inv DEF Explained
<1>6. CASE ReadsEncrypted /\ KeyKnown(payload[r]) /\ ~ Parses(w, payload[r])
  <2>1. payload[r].form = "sealed"
    BY <1>6 DEF Parses, DecryptOrUnmarshalOK
  <2>2. payload[r].keyId \in privateKeys
    BY <1>6, <2>1, SealedNamesKey DEF KeyKnown, JobInv, ControlTypeOK
  <2>3. ~ encryptedBundle[w]
    BY <1>6, <2>1, <2>2 DEF Parses, DecryptOrUnmarshalOK, Decrypts
  <2>4. PICK s \in Report : payload[s].form # "sealed"
    BY <1>1, <1>6, <2>3 DEF JobInv, FailureInv
  <2> QED
    BY <1>1, <2>1, <2>4, DropBundle_Inv DEF Explained
<1> QED
  BY <1>1, <1>3, <1>4, <1>5, <1>6 DEF CanProcess

(* or because its worker is lost,                                            *)
LEMMA LoseWorker_Inv ==
  ASSUME JobInv, NEW w \in Worker, LoseWorker(w)
  PROVE  JobInv'
BY DropBundle_Inv DEF LoseWorker

(* A file with decrypted reports has those of one shard of this level.       *)
LEMMA DecryptedFilesFacts ==
  ASSUME ControlTypeOK, ShardInv, job \in {"running", "writing", "done"}
  PROVE  /\ \A f \in DecryptedFiles : \E s \in ShardsOf(query.shards) :
              /\ f = <<[kind |-> "decrypted", level |-> level, shard |-> s],
                       GetShard(sharded, s)>>
              /\ level = 1 /\ WritesDecrypted /\ s \in 0 .. query.shards
              /\ GetShard(sharded, s) \subseteq Report
         /\ \A f, g \in DecryptedFiles : f[1] = g[1] => f = g
         /\ \A f \in DecryptedFiles : f = <<f[1], f[2]>> /\ f[2] # {}
<1>1. ASSUME NEW f \in DecryptedFiles
      PROVE  \E s \in ShardsOf(query.shards) :
              /\ f = <<[kind |-> "decrypted", level |-> level, shard |-> s],
                       GetShard(sharded, s)>>
              /\ f[2] # {}
  BY DEF DecryptedFiles, ShardedFiles
<1>2. ASSUME NEW s \in ShardsOf(query.shards), GetShard(sharded, s) # {}
      PROVE  /\ level = 1 /\ WritesDecrypted /\ s \in 0 .. query.shards
             /\ GetShard(sharded, s) \subseteq Report
  <2>1. sharded # {}
    BY <1>2 DEF GetShard
  <2>2. WritesDecrypted
    BY <2>1 DEF ShardInv
  <2>3. sharded \subseteq Report \X ShardsOf(query.shards)
    BY <2>2 DEF ShardInv, OneShard
  <2>4. s \in 0 .. query.shards
    BY QueryFacts DEF ShardsOf
  <2> QED
    BY <2>2, <2>3, <2>4, QueryFacts DEF GetShard
<1>3. ASSUME NEW f \in DecryptedFiles, NEW g \in DecryptedFiles, f[1] = g[1]
      PROVE  f = g
  <2>1. PICK s \in ShardsOf(query.shards) :
          f = <<[kind |-> "decrypted", level |-> level, shard |-> s], GetShard(sharded, s)>>
    BY <1>1
  <2>2. PICK t \in ShardsOf(query.shards) :
          g = <<[kind |-> "decrypted", level |-> level, shard |-> t], GetShard(sharded, t)>>
    BY <1>1
  <2>3. f[1].shard = s /\ g[1].shard = t
    BY <2>1, <2>2
  <2> QED
    BY <1>3, <2>1, <2>2, <2>3
<1>4. ASSUME NEW f \in DecryptedFiles
      PROVE  f = <<f[1], f[2]>> /\ f[2] # {}
  BY <1>1
<1>5. ASSUME NEW f \in DecryptedFiles
      PROVE  \E s \in ShardsOf(query.shards) :
              /\ f = <<[kind |-> "decrypted", level |-> level, shard |-> s],
                       GetShard(sharded, s)>>
              /\ level = 1 /\ WritesDecrypted /\ s \in 0 .. query.shards
              /\ GetShard(sharded, s) \subseteq Report
  <2>1. PICK s \in ShardsOf(query.shards) :
          /\ f = <<[kind |-> "decrypted", level |-> level, shard |-> s], GetShard(sharded, s)>>
          /\ f[2] # {}
    BY <1>1
  <2>2. GetShard(sharded, s) # {}
    BY <2>1
  <2> QED
    BY <1>2, <2>1, <2>2
<1> QED
  BY <1>3, <1>4, <1>5

(* when everything is combined,                                              *)
LEMMA ExtractOutput_Inv ==
  ASSUME JobInv, ExtractOutput
  PROVE  JobInv'
<1> USE DEF JobInv
<1>1. /\ job = "running" /\ job' = "writing" /\ UNCHANGED keyVars /\ query' = query
      /\ helper' = helper /\ level' = level /\ jobRun' = jobRun
      /\ privateKeys' = privateKeys /\ UNCHANGED workVars
      /\ files' = files /\ failures' = failures /\ faults' = faults
      /\ pending = {} /\ \A w \in Worker : bundle[w].lines = {}
      /\ unwritten' \in OutputFiles
  BY DEF ExtractOutput
<1>2. /\ CanStart' = CanStart /\ HasLevels' = HasLevels /\ ReadsEncrypted' = ReadsEncrypted
      /\ WritesDecrypted' = WritesDecrypted /\ ParametersRefused' = ParametersRefused
      /\ Explained' = Explained
  BY <1>1, SameLevel, SameStart, SameReasons
<1>3. KeyTypeOK' /\ KeyInv'
  BY <1>1, SameKeys DEF ControlTypeOK
<1>4. ControlTypeOK'
  BY <1>1, <1>2, <1>3 DEF ControlTypeOK, workVars
<1>5. ShardInv'
  BY <1>1, <1>2 DEF ShardInv, workVars, Drawn, OneShard, Line
<1>6. DecryptedFiles' = DecryptedFiles
  BY <1>1 DEF DecryptedFiles, ShardedFiles, workVars
<1>7. /\ \A f \in unwritten' :
           /\ f = <<f[1], f[2]>> /\ f[1].level = level
           /\ f[1].kind = "decrypted" => f \in DecryptedFiles
      /\ \A f \in DecryptedFiles : f \in unwritten'
  <2>1. CASE query.kind = "reach"
    <3>1. DecryptedFiles = {}
      <4>1. ~ WritesDecrypted
        BY <2>1, QueryFacts DEF HasLevels
      <4> QED
        BY <1>1, <4>1, DecryptedFilesFacts
    <3>2. \E A, B : unwritten' = ShardedFiles("rq", query.shards, A)
                                   \cup ShardedFiles("histogram", query.shards, B)
      <4>1. \E rq \in [Aligned -> ShardsOf(query.shards)],
                hist \in [Aligned -> ShardsOf(query.shards)] :
              unwritten' =
                ShardedFiles("rq", query.shards,
                             {<<Reach!FormatRQ(pair), rq[pair]>> : pair \in Aligned})
                  \cup ShardedFiles("histogram", query.shards,
                                    {<<pair, hist[pair]>> : pair \in Aligned})
        <5>1. OutputFiles =
                {ShardedFiles("rq", query.shards,
                              {<<Reach!FormatRQ(pair), rq[pair]>> : pair \in Aligned})
                   \cup ShardedFiles("histogram", query.shards,
                                     {<<pair, hist[pair]>> : pair \in Aligned}) :
                   rq \in [Aligned -> ShardsOf(query.shards)],
                   hist \in [Aligned -> ShardsOf(query.shards)]}
          BY <2>1 DEF OutputFiles
        <5>2. unwritten' \in OutputFiles
          BY <1>1
        <5> QED
          BY <5>1, <5>2
      <4> QED
        BY <4>1, Zenon
    <3> QED
      BY <3>1, <3>2 DEF ShardedFiles
  <2>2. CASE query.kind # "reach"
    <3>1. \E lines : unwritten' = {<<HistogramName, lines>>} \cup DecryptedFiles
      <4>1. OutputFiles =
              {{<<HistogramName, lines>>} \cup DecryptedFiles : lines \in Histograms}
        <5>1. OutputFiles = {{<<HistogramName, lines>>}
                               \cup ShardedFiles("decrypted", query.shards, sharded) :
                               lines \in Histograms}
          BY <2>2 DEF OutputFiles
        <5> QED
          BY <5>1, Zenon DEF DecryptedFiles
      <4>2. unwritten' \in OutputFiles
        BY <1>1
      <4>3. \A X, Y, Z : X \in {{<<HistogramName, lines>>} \cup Y : lines \in Z} =>
                         \E lines : X = {<<HistogramName, lines>>} \cup Y
        OBVIOUS
      <4> QED
        BY <4>1, <4>2, <4>3, Zenon
    <3>2. HistogramName.level = level /\ HistogramName.kind # "decrypted"
      BY DEF HistogramName
    <3>3. \A f \in DecryptedFiles : f = <<f[1], f[2]>> /\ f[1].level = level
      BY <1>1, DecryptedFilesFacts
    <3> QED
      BY <3>1, <3>2, <3>3
  <2> QED
    BY <2>1, <2>2
<1>8. FilesInv'
  BY <1>1, <1>2, <1>6, <1>7 DEF FilesInv, Glob
<1>9. FailureInv'
  BY <1>1, <1>2 DEF FailureInv, keyVars
<1> QED
  BY <1>3, <1>4, <1>5, <1>8, <1>9

(* when a file is written                                                    *)
LEMMA WriteFile_Inv ==
  ASSUME JobInv, NEW f \in unwritten, WriteFile(f)
  PROVE  JobInv'
<1> USE DEF JobInv
<1>1. /\ job = "writing" /\ job' \in {"writing", "done"} /\ UNCHANGED keyVars
      /\ query' = query /\ helper' = helper /\ level' = level /\ jobRun' = jobRun
      /\ privateKeys' = privateKeys /\ UNCHANGED workVars
      /\ failures' = failures /\ faults' = faults
      /\ unwritten' = unwritten \ {f} /\ (job' = "done" => unwritten' = {})
      /\ DOMAIN files' = DOMAIN files \cup {f[1]}
      /\ \A n \in DOMAIN files : n # f[1] => files'[n] = files[n]
      /\ files'[f[1]].run = jobRun /\ files'[f[1]].lines = f[2]
  BY DEF WriteFile
<1>2. /\ HasLevels' = HasLevels /\ ReadsEncrypted' = ReadsEncrypted
      /\ WritesDecrypted' = WritesDecrypted /\ ParametersRefused' = ParametersRefused
      /\ Explained' = Explained /\ Params' = Params
  BY <1>1, SameLevel, SameReasons
<1>3. KeyTypeOK' /\ KeyInv'
  BY <1>1, SameKeys DEF ControlTypeOK
<1>4. Glob("decrypted", 1) \subseteq Glob("decrypted", 1)'
  BY <1>1 DEF Glob
<1>5. CanStart'
  <2>1. CanStart
    BY <1>1 DEF ControlTypeOK
  <2>2. CollectionReadable' = CollectionReadable
    BY <1>1 DEF CollectionReadable, keyVars
  <2>3. CheckExpansionParameters(Dpf!AsQueryParams(Params))' =
          CheckExpansionParameters(Dpf!AsQueryParams(Params))
    BY <1>2 DEF Dpf!AsQueryParams
  <2> QED
    BY <1>2, <1>4, <2>1, <2>2, <2>3 DEF CanStart
<1>6. ControlTypeOK'
  BY <1>1, <1>2, <1>3, <1>5 DEF ControlTypeOK, workVars
<1>7. ShardInv'
  BY <1>1, <1>2 DEF ShardInv, workVars, Drawn, OneShard, Line
<1>8. DecryptedFiles' = DecryptedFiles
  BY <1>1 DEF DecryptedFiles, ShardedFiles, workVars
<1>9. /\ f = <<f[1], f[2]>> /\ f[1].level = level
      /\ f[1].kind = "decrypted" => f \in DecryptedFiles
  BY <1>1 DEF FilesInv
<1>10. \A g \in DecryptedFiles : g[1] = f[1] => g = f
  <2> SUFFICES ASSUME NEW g \in DecryptedFiles, g[1] = f[1] PROVE g = f
    OBVIOUS
  <2>1. g[1].kind = "decrypted"
    BY <1>1, DecryptedFilesFacts
  <2> QED
    BY <1>1, <1>9, <2>1, DecryptedFilesFacts
<1>11. FilesInv'
  <2>1. ASSUME NEW n \in DOMAIN files'
        PROVE  /\ n.level \in 1 .. level /\ files'[n].run \in 1 .. jobRun
               /\ n.kind = "decrypted" =>
                    /\ n.level = 1 /\ n.shard \in 0 .. query.shards
                    /\ files'[n].lines \subseteq Report
    <3>1. CASE n \in DOMAIN files /\ n # f[1]
      BY <1>1, <3>1 DEF FilesInv
    <3>2. CASE n = f[1]
      <4>1. level \in 1 .. level /\ jobRun \in 1 .. jobRun
        BY QueryFacts DEF ControlTypeOK
      <4>2. ASSUME f \in DecryptedFiles
            PROVE  f[1].level = 1 /\ f[1].shard \in 0 .. query.shards /\ f[2] \subseteq Report
        <5>1. PICK s \in ShardsOf(query.shards) :
                /\ f = <<[kind |-> "decrypted", level |-> level, shard |-> s],
                         GetShard(sharded, s)>>
                /\ level = 1 /\ s \in 0 .. query.shards
                /\ GetShard(sharded, s) \subseteq Report
          BY <1>1, <4>2, DecryptedFilesFacts
        <5> QED
          BY <5>1
      <4> QED
        BY <1>1, <1>9, <3>2, <4>1, <4>2
    <3> QED
      BY <1>1, <3>1, <3>2
  <2>2. \A g \in DecryptedFiles :
          \/ g \in unwritten'
          \/ /\ g[1] \in DOMAIN files' /\ files'[g[1]].run = jobRun
             /\ files'[g[1]].lines = g[2]
    <3> SUFFICES ASSUME NEW g \in DecryptedFiles, g \notin unwritten'
                 PROVE  /\ g[1] \in DOMAIN files' /\ files'[g[1]].run = jobRun
                        /\ files'[g[1]].lines = g[2]
      OBVIOUS
    <3>1. CASE g = f
      BY <1>1, <3>1
    <3>2. CASE g # f
      <4>1. level = 1
        BY <1>1, DecryptedFilesFacts
      <4>2. g \notin unwritten /\ g[1] # f[1]
        BY <1>1, <1>10, <3>2
      <4> QED
        BY <1>1, <4>1, <4>2 DEF FilesInv
    <3> QED
      BY <3>1, <3>2
  <2>3. level = 1 => \A n \in DOMAIN files' :
          n.kind = "decrypted" /\ files'[n].run = jobRun =>
            <<n, files'[n].lines>> \in DecryptedFiles
    <3> SUFFICES ASSUME level = 1, NEW n \in DOMAIN files', n.kind = "decrypted",
                        files'[n].run = jobRun
                 PROVE  <<n, files'[n].lines>> \in DecryptedFiles
      OBVIOUS
    <3>1. CASE n = f[1]
      BY <1>1, <1>9, <3>1
    <3>2. CASE n # f[1]
      BY <1>1, <3>2 DEF FilesInv
    <3> QED
      BY <3>1, <3>2
  <2>4. level > 1 => Glob("decrypted", 1)' # {} \/ ParametersRefused
    BY <1>4 DEF FilesInv
  <2>5. \A g \in unwritten' : /\ g = <<g[1], g[2]>> /\ g[1].level = level
                              /\ g[1].kind = "decrypted" => g \in DecryptedFiles
    BY <1>1 DEF FilesInv
  <2> QED
    BY <1>1, <1>2, <1>8, <2>1, <2>2, <2>3, <2>4, <2>5 DEF FilesInv
<1>12. FailureInv'
  BY <1>1, <1>2 DEF FailureInv
<1> QED
  BY <1>3, <1>6, <1>7, <1>11, <1>12

(* or cannot be written,                                                     *)
LEMMA WriteFails_Inv ==
  ASSUME JobInv, NEW f \in unwritten, WriteFails(f)
  PROVE  JobInv'
<1> USE DEF JobInv
<1>1. /\ job = "writing" /\ job' = (IF failures' >= MaxFailures THEN "failed" ELSE job)
      /\ UNCHANGED keyVars /\ query' = query /\ helper' = helper /\ level' = level
      /\ jobRun' = jobRun /\ privateKeys' = privateKeys /\ UNCHANGED workVars
      /\ failures' = failures + 1 /\ faults' = faults + 1 /\ faults < MaxFaults
      /\ unwritten' = unwritten /\ files' = files
  BY DEF WriteFails, Failure
<1>2. /\ CanStart' = CanStart /\ HasLevels' = HasLevels /\ ReadsEncrypted' = ReadsEncrypted
      /\ WritesDecrypted' = WritesDecrypted /\ ParametersRefused' = ParametersRefused
      /\ Explained' = Explained
  BY <1>1, SameLevel, SameStart, SameReasons
<1>3. KeyTypeOK' /\ KeyInv'
  BY <1>1, SameKeys DEF ControlTypeOK
<1>4. /\ failures' \in 0 .. MaxFailures /\ (job' # "failed" => failures' < MaxFailures)
      /\ job' \in {"writing", "failed"} /\ faults' \in 0 .. MaxFaults
  BY <1>1, JobAssumption DEF ControlTypeOK
<1>5. ControlTypeOK'
  BY <1>1, <1>2, <1>3, <1>4 DEF ControlTypeOK, workVars
<1>6. ShardInv'
  BY <1>1, <1>2, <1>4 DEF ShardInv, workVars, Drawn, OneShard, Line
<1>7. DecryptedFiles' = DecryptedFiles
  BY <1>1 DEF DecryptedFiles, ShardedFiles, workVars
<1>8. FilesInv'
  BY <1>1, <1>2, <1>4, <1>7 DEF FilesInv, Glob
<1>9. FailureInv'
  <2>1. ASSUME failures' > faults' \/ (job' = "failed" /\ faults' < MaxFailures)
        PROVE  Explained
    <3>1. failures' > faults'
      BY <1>1, <1>4, <2>1, JobAssumption
    <3>2. failures > faults
      BY <1>1, <3>1 DEF ControlTypeOK
    <3> QED
      BY <3>2 DEF FailureInv
  <2> QED
    BY <1>2, <1>4, <2>1 DEF FailureInv
<1> QED
  BY <1>3, <1>5, <1>6, <1>8, <1>9

(* when a job that failed is started again                                   *)
LEMMA RestartJob_Inv ==
  ASSUME JobInv, RestartJob
  PROVE  JobInv'
<1> USE DEF JobInv
<1>1. /\ job = "failed" /\ job' = "new" /\ UNCHANGED keyVars /\ query' = query
      /\ helper' = helper /\ level' = level /\ jobRun' = jobRun + 1 /\ jobRun < MaxJobRuns
      /\ privateKeys' = privateKeys /\ UNCHANGED workVars
      /\ failures' = 0 /\ faults' = faults /\ unwritten' = {} /\ files' = files
  BY DEF RestartJob
<1>2. HasLevels' = HasLevels /\ ParametersRefused' = ParametersRefused
  BY <1>1, SameLevel
<1>3. KeyTypeOK' /\ KeyInv'
  BY <1>1, SameKeys DEF ControlTypeOK
<1>4. ControlTypeOK'
  BY <1>1, <1>2, <1>3, JobAssumption DEF ControlTypeOK, workVars
<1>5. ShardInv'
  BY <1>1 DEF ShardInv
<1>6. FilesInv'
  <2>1. \A n \in DOMAIN files : files[n].run \in 1 .. jobRun' /\ files[n].run # jobRun'
    BY <1>1 DEF FilesInv, ControlTypeOK
  <2> QED
    BY <1>1, <1>2, <2>1 DEF FilesInv, Glob
<1>7. FailureInv'
  BY <1>1, <1>4 DEF FailureInv, ControlTypeOK
<1> QED
  BY <1>3, <1>4, <1>5, <1>6, <1>7

(* A first level that left decrypted reports has a file with each of them.   *)
LEMMA DecryptedReportFound ==
  ASSUME ControlTypeOK, ShardInv, FilesInv, job = "done", WritesDecrypted, NEW r \in Report
  PROVE  \E n \in Glob("decrypted", 1) :
           /\ r \in files[n].lines /\ files[n].run = jobRun
<1>1. PICK s \in ShardsOf(query.shards) : <<r, s>> \in sharded
  BY DEF ShardInv, Drawn
<1>2. r \in GetShard(sharded, s)
  <2>1. <<r, s>>[1] = r /\ <<r, s>>[2] = s
    OBVIOUS
  <2> QED
    BY <1>1, <2>1 DEF GetShard
<1> DEFINE n == [kind |-> "decrypted", level |-> level, shard |-> s]
           f == <<n, GetShard(sharded, s)>>
<1>3. f \in DecryptedFiles
  <2>1. f[2] # {}
    BY <1>2
  <2> QED
    BY <1>1, <2>1 DEF DecryptedFiles, ShardedFiles
<1>4. level = 1 /\ unwritten = {}
  BY QueryFacts DEF ControlTypeOK
<1>5. n \in DOMAIN files /\ files[n].run = jobRun /\ files[n].lines = GetShard(sharded, s)
  <2>1. f[1] = n /\ f[2] = GetShard(sharded, s)
    OBVIOUS
  <2>2. f[1] \in DOMAIN files /\ files[f[1]].run = jobRun /\ files[f[1]].lines = f[2]
    BY <1>3, <1>4 DEF FilesInv
  <2> QED
    BY <2>1, <2>2
<1>6. n \in Glob("decrypted", 1)
  BY <1>4, <1>5 DEF Glob
<1> QED
  BY <1>2, <1>5, <1>6

(* A report is in one of the decrypted files of a first level, unless those  *)
(* of two runs are mixed.                                                    *)
LEMMA ReportInOneFile ==
  ASSUME ControlTypeOK, ShardInv, FilesInv, job = "done", WritesDecrypted, ~ StaleShard,
         NEW r \in Report
  PROVE  \E n \in Glob("decrypted", 1) :
           /\ r \in files[n].lines
           /\ \A m \in Glob("decrypted", 1) : r \in files[m].lines => m = n
<1>1. level = 1
  BY QueryFacts
<1>2. PICK n \in Glob("decrypted", 1) : r \in files[n].lines /\ files[n].run = jobRun
  BY <1>1, DecryptedReportFound
<1>3. ASSUME NEW m \in Glob("decrypted", 1), r \in files[m].lines
      PROVE  \E s \in ShardsOf(query.shards) :
               /\ m = [kind |-> "decrypted", level |-> level, shard |-> s]
               /\ <<r, s>> \in sharded
  <2>1. files[m].run = jobRun
    BY <1>1, <1>2 DEF StaleShard
  <2>2. <<m, files[m].lines>> \in DecryptedFiles
    BY <1>1, <2>1 DEF FilesInv, Glob
  <2>3. PICK s \in ShardsOf(query.shards) :
          <<m, files[m].lines>> = <<[kind |-> "decrypted", level |-> level, shard |-> s],
                                    GetShard(sharded, s)>>
    BY <1>1, <2>2, DecryptedFilesFacts
  <2>4. PICK a \in sharded : a[1] = r /\ a[2] = s
    BY <1>3, <2>3 DEF GetShard
  <2>5. a = <<a[1], a[2]>>
    <3>1. sharded \subseteq Report \X ShardsOf(query.shards)
      BY <1>1 DEF ShardInv, OneShard
    <3> QED
      BY <3>1
  <2> QED
    BY <2>3, <2>4, <2>5
<1>4. \A m \in Glob("decrypted", 1) : r \in files[m].lines => m = n
  <2> SUFFICES ASSUME NEW m \in Glob("decrypted", 1), r \in files[m].lines PROVE m = n
    OBVIOUS
  <2>1. PICK s \in ShardsOf(query.shards) :
          /\ m = [kind |-> "decrypted", level |-> level, shard |-> s] /\ <<r, s>> \in sharded
    BY <1>3
  <2>2. PICK t \in ShardsOf(query.shards) :
          /\ n = [kind |-> "decrypted", level |-> level, shard |-> t] /\ <<r, t>> \in sharded
    BY <1>2, <1>3
  <2>3. s = t
    BY <1>1, <2>1, <2>2 DEF ShardInv, OneShard
  <2> QED
    BY <2>1, <2>2, <2>3
<1> QED
  BY <1>2, <1>4

\* The level after one of the levels of the query that is not the last is one of them too.
LEMMA NextIsWithin ==
  ASSUME NEW m \in Nat \ {0}, NEW n \in Nat, m < n
  PROVE  m + 1 \in 1 .. n
OBVIOUS

(* After a first level that leaves no decrypted reports there is no level    *)
(* that its keys have.                                                       *)
LEMMA NextIsRefused ==
  ASSUME ControlTypeOK, NextLevel, level = 1, ~ WritesDecrypted
  PROVE  ParametersRefused'
<1>1. query' = query /\ level' = level + 1 /\ level < Len(query.levels) /\ HasLevels
  BY DEF NextLevel
<1>2. HasLevels'
  BY <1>1 DEF HasLevels
<1>3. 2 <= Len(query.levels) /\ Len(query.levels) \in Nat
  BY <1>1, QueryFacts
<1>4. query.levels[2].level > KeyBitSize - 1
  BY <1>1, <1>3, QueryFacts
<1>5. Params' = query.levels[2]
  BY <1>1 DEF Params
<1>6. query.levels[2].level \in Nat /\ KeyBitSize \in Nat
  <2>1. query.levels[2] \in [level : Nat, previousLevel : Int, prefixes : Seq(Nat),
                             direct : BOOLEAN]
    <3>1. 2 \in 1 .. Len(query.levels)
      BY <1>3
    <3> QED
      BY <3>1, QueryFacts, ElementOfSeq
  <2> QED
    BY <2>1, QueryAssumption
<1>7. \A p : p.level > KeyBitSize - 1 /\ p.level \in Nat =>
        ~ CheckExpansionParameters(Dpf!AsQueryParams(p))
  BY <1>6 DEF CheckExpansionParameters, CheckLevels, Dpf!AsQueryParams
<1> QED
  BY <1>2, <1>4, <1>5, <1>6, <1>7 DEF ParametersRefused

(* and when the job of the next level follows.                               *)
LEMMA NextLevel_Inv ==
  ASSUME JobInv, NextLevel
  PROVE  JobInv'
<1> USE DEF JobInv
<1>1. /\ job = "done" /\ job' = "new" /\ UNCHANGED keyVars /\ query' = query
      /\ helper' = helper /\ level' = level + 1 /\ jobRun' = jobRun
      /\ level < Len(query.levels) /\ HasLevels
      /\ privateKeys' = privateKeys /\ UNCHANGED workVars
      /\ failures' = 0 /\ faults' = faults /\ unwritten' = unwritten /\ files' = files
  BY DEF NextLevel
<1>2. KeyTypeOK' /\ KeyInv'
  BY <1>1, SameKeys DEF ControlTypeOK
<1>3. HasLevels'
  BY <1>1 DEF HasLevels
<1>4. level \in Nat \ {0} /\ Len(query.levels) \in Nat /\ level' \in 1 .. Len(query'.levels)
  <2>1. level \in Nat \ {0} /\ Len(query.levels) \in Nat
    BY QueryFacts
  <2>2. level + 1 \in 1 .. Len(query.levels)
    BY <1>1, <2>1, NextIsWithin
  <2> QED
    BY <1>1, <2>1, <2>2
<1>5. ControlTypeOK'
  BY <1>1, <1>2, <1>3, <1>4, JobAssumption DEF ControlTypeOK, workVars
<1>6. ShardInv'
  BY <1>1 DEF ShardInv
<1>7. Glob("decrypted", 1)' = Glob("decrypted", 1)
  BY <1>1 DEF Glob
<1>8. Glob("decrypted", 1) # {} \/ ParametersRefused'
  <2>1. CASE level # 1
    <3>1. CheckExpansionParameters(Dpf!AsQueryParams(Params)) /\ query.kind # "reach"
      BY <1>1 DEF ControlTypeOK, CanStart, HasLevels
    <3> QED
      BY <1>4, <2>1, <3>1 DEF FilesInv, ParametersRefused
  <2>2. CASE WritesDecrypted
    BY <1>1, <2>2, DecryptedReportFound, QueriesAssumption
  <2>3. CASE level = 1 /\ ~ WritesDecrypted
    BY <1>1, <2>3, NextIsRefused
  <2> QED
    BY <2>1, <2>2, <2>3
<1>9. FilesInv'
  <2>1. \A n \in DOMAIN files : n.level \in 1 .. level' /\ n.level # level'
    BY <1>1, <1>4 DEF FilesInv
  <2> QED
    BY <1>1, <1>4, <1>7, <1>8, <2>1 DEF FilesInv
<1>10. FailureInv'
  BY <1>1, <1>5 DEF FailureInv, ControlTypeOK
<1> QED
  BY <1>2, <1>5, <1>6, <1>9, <1>10

\* Steps that change nothing keep the invariant.
LEMMA Stutter_Inv ==
  ASSUME JobInv, UNCHANGED vars
  PROVE  JobInv'
<1> USE DEF JobInv
<1>1. /\ UNCHANGED keyVars /\ UNCHANGED jobVars
  BY DEF vars
<1>2. /\ query' = query /\ helper' = helper /\ level' = level /\ job' = job
      /\ jobRun' = jobRun /\ privateKeys' = privateKeys /\ pending' = pending
      /\ bundle' = bundle /\ encryptedBundle' = encryptedBundle /\ sharded' = sharded
      /\ unwritten' = unwritten /\ files' = files /\ failures' = failures /\ faults' = faults
  BY <1>1 DEF jobVars, workVars
<1>3. /\ CanStart' = CanStart /\ HasLevels' = HasLevels /\ ReadsEncrypted' = ReadsEncrypted
      /\ WritesDecrypted' = WritesDecrypted /\ ParametersRefused' = ParametersRefused
      /\ Explained' = Explained
  BY <1>1, <1>2, SameLevel, SameStart, SameReasons
<1>4. KeyTypeOK' /\ KeyInv'
  BY <1>1, SameKeys DEF ControlTypeOK
<1>5. ControlTypeOK'
  BY <1>2, <1>3, <1>4 DEF ControlTypeOK
<1>6. ShardInv'
  BY <1>2, <1>3 DEF ShardInv, Drawn, OneShard, Line
<1>7. DecryptedFiles' = DecryptedFiles
  BY <1>2 DEF DecryptedFiles, ShardedFiles
<1>8. FilesInv'
  BY <1>2, <1>3, <1>7 DEF FilesInv, Glob
<1>9. FailureInv'
  BY <1>1, <1>2, <1>3 DEF FailureInv, keyVars
<1> QED
  BY <1>4, <1>5, <1>6, <1>8, <1>9

\* Every step keeps the invariant.
LEMMA JobNext_Inv ==
  ASSUME JobInv, [Next]_vars
  PROVE  JobInv'
<1>1. CASE BeforeJob
  BY <1>1, BeforeJob_Inv
<1>2. CASE StartJob
  BY <1>2, StartJob_Inv
<1>3. CASE RunnerStep
  <2>1. ASSUME NEW w \in Worker, NEW line \in pending, ProcessElement(w, line)
        PROVE  JobInv'
    BY <2>1, ProcessElement_Inv
  <2>2. ASSUME NEW w \in Worker, NEW line \in pending, BundleFails(w, line)
        PROVE  JobInv'
    BY <2>2, BundleFails_Inv
  <2>3. ASSUME NEW w \in Worker, CommitBundle(w)
        PROVE  JobInv'
    BY <2>3, CommitBundle_Inv
  <2>4. ASSUME NEW f \in unwritten, WriteFile(f)
        PROVE  JobInv'
    BY <2>4, WriteFile_Inv
  <2> QED
    BY <1>3, <2>1, <2>2, <2>3, <2>4, ExtractOutput_Inv DEF RunnerStep
<1>4. CASE Fault
  <2>1. ASSUME NEW w \in Worker, LoseWorker(w)
        PROVE  JobInv'
    BY <2>1, LoseWorker_Inv
  <2>2. ASSUME NEW f \in unwritten, WriteFails(f)
        PROVE  JobInv'
    BY <2>2, WriteFails_Inv
  <2> QED
    BY <1>4, <2>1, <2>2 DEF Fault
<1>5. CASE RestartJob
  BY <1>5, RestartJob_Inv
<1>6. CASE NextLevel
  BY <1>6, NextLevel_Inv
<1>7. CASE UNCHANGED vars
  BY <1>7, Stutter_Inv
<1> QED
  BY <1>1, <1>2, <1>3, <1>4, <1>5, <1>6, <1>7 DEF Next
-----------------------------------------------------------------------------
(* The invariant holds in every state of every behaviour: of the keys, the   *)
(* jobs on all their levels, the bundles, the files and the failures.        *)
THEOREM JobInvariant == JobSpec => []JobInv
<1>1. JobInit => JobInv
  BY JobInit_Inv
<1>2. JobInv /\ [Next]_vars => JobInv'
  BY JobNext_Inv
<1> QED
  BY <1>1, <1>2, PTL DEF JobSpec

(* Whatever step of the tool was the last, for any number of keys and runs,  *)
(* a public key that somebody may encrypt with has its private key stored,   *)
(* and after one run the collection names it (create_hybrid_key_pair.go:51-78).*)
THEOREM PublishedKeysAreReadable == JobSpec => []PublishedReadable
<1>1. JobInv => PublishedReadable
  BY DEF JobInv, KeyInv, PublishedReadable
<1> QED
  BY <1>1, JobInvariant, PTL

(* For any batch, any workers and any order of their bundles, a job that     *)
(* fails although no fault exhausted its retries was asked for levels its    *)
(* keys do not have, has no keys, or read a batch that is not of one form    *)
(* (dpfaggregator.go:144-180, onepartyaggregator.go:121-158).                *)
THEOREM FailuresAreExplained == JobSpec => []FailureExplained
<1>1. JobInv => FailureExplained
  BY DEF JobInv, FailureInv, FailureExplained, Explained
<1> QED
  BY <1>1, JobInvariant, PTL

(* Any number of reports, shards and workers: after a first level that did   *)
(* not mix the files of two runs each report is in exactly one of the files  *)
(* the next level reads (dpfaggregator.go:605-611, pipelineutils.go:33-63).  *)
THEOREM ReportsDecryptedOnce == JobSpec => []DecryptedOnce
<1>1. ASSUME JobInv, Done("dpf"), WritesDecrypted, NEW r \in Report
      PROVE  Cardinality({f \in Glob("decrypted", level) : r \in files[f].lines}) = 1
  <2>1. level = 1 /\ ControlTypeOK
    BY <1>1, QueryFacts DEF JobInv
  <2>2. PICK n \in Glob("decrypted", 1) :
          /\ r \in files[n].lines
          /\ \A m \in Glob("decrypted", 1) : r \in files[m].lines => m = n
    BY <1>1, ReportInOneFile DEF JobInv, Done
  <2>5. {f \in Glob("decrypted", level) : r \in files[f].lines} = {n}
    BY <2>1, <2>2
  <2> QED
    BY <2>5, FS_Singleton
<1>2. JobInv => DecryptedOnce
  BY <1>1 DEF DecryptedOnce
<1> QED
  BY <1>2, JobInvariant, PTL
=============================================================================
