---------------------------- MODULE PipelineProofs ----------------------------
(***************************************************************************)
(* Theorems about the data of a helper's jobs, for every set of reports,   *)
(* workers, queries, key sizes and bounds: what a job writes is made of    *)
(* every report once, whichever bundles failed and were done again; what   *)
(* the results of both helpers say together; and the types of it all.      *)
(***************************************************************************)
EXTENDS CombineProofs

(* Each report is in one place, and what is added up is what is there. *)

ReportsIn(lines) == {line.report : line \in lines}

\* The reports of the committed bundles: those no line waits for or is worked on for.
Committed ==
  {r \in Report : r \notin ReportsIn(pending)
                    /\ \A w \in Worker : r \notin ReportsIn(bundle[w].lines)}

OnceEach(lines) == \A a, b \in lines : a.report = b.report => a = b

PlacesInv ==
  /\ OnceEach(pending)
  /\ \A w \in Worker :
       /\ OnceEach(bundle[w].lines)
       /\ ReportsIn(bundle[w].lines) \cap ReportsIn(pending) = {}
       /\ \A v \in Worker : v # w =>
            ReportsIn(bundle[v].lines) \cap ReportsIn(bundle[w].lines) = {}

SumsInv ==
  /\ merged = AccOf(Committed)
  /\ \A w \in Worker : bundle[w].acc = AccOf(ReportsIn(bundle[w].lines))

\* The keys of a reach query have the levels it asks for.
TuplesExpand == query.kind = "reach" => Reach!ExpandOK(query.reach)

\* A level below the first works on what the first one left; if that mixes two runs
\* its reports are not those of the batch.
Working ==
  /\ job \in {"running", "writing", "done"} /\ TuplesExpand
  /\ level > 1 => ~ StaleShard

WorkInv == Working => PlacesInv /\ SumsInv

\* Below the first level, unless the keys have no such level, each report is in one
\* of the files the first level left.
LeftInv ==
  level > 1 /\ ~ StaleShard =>
    \/ ParametersRefused
    \/ \A r \in Report : \E n \in Glob("decrypted", 1) :
         /\ r \in files[n].lines
         /\ \A m \in Glob("decrypted", 1) : r \in files[m].lines => m = n

\* The reports of a job's lines, and the condition under which CombineLaws hold.
LEMMA LinesOfReports ==
  ASSUME ControlTypeOK
  PROVE  /\ ReportsIn(pending) \subseteq Report /\ Committed \subseteq Report
         /\ \A w \in Worker : ReportsIn(bundle[w].lines) \subseteq Report
         /\ job \in {"running", "writing", "done"} =>
              (HasLevels => CheckExpansionParameters(Dpf!AsQueryParams(Params)))
         /\ Working => Expandable
BY DEF ControlTypeOK, ReportsIn, Committed, CanStart, Working, TuplesExpand, Expandable

\* The accumulators depend on the flags, the level and the helper only.
LEMMA SameCombine ==
  ASSUME query' = query, level' = level, helper' = helper
  PROVE  /\ \A R : AccFor(query', level', helper', R) = AccOf(R)
         /\ CreateAccumulator' = CreateAccumulator
<1>1. \A R : AccFor(query', level', helper', R) = AccOf(R)
  BY DEF AccOf
<1>2. CreateAccumulator' = CreateAccumulator
  BY DEF CreateAccumulator, Params
<1> QED
  BY <1>1, <1>2

\* A step that moves no line keeps the places.
LEMMA SameWork ==
  ASSUME WorkInv, query' = query, level' = level, helper' = helper,
         pending' = pending, bundle' = bundle, merged' = merged, Working' => Working
  PROVE  WorkInv'
<1>1. Committed' = Committed
  BY DEF Committed, ReportsIn
<1>2. AccOf(Committed)' = AccOf(Committed)
  BY <1>1 DEF AccOf
<1>3. ASSUME NEW w \in Worker
      PROVE  AccOf(ReportsIn(bundle[w].lines))' = AccOf(ReportsIn(bundle[w].lines))
  BY DEF AccOf, ReportsIn
<1>4. SumsInv' <=> SumsInv
  BY <1>2, <1>3 DEF SumsInv
<1>5. PlacesInv' <=> PlacesInv
  BY DEF PlacesInv, OnceEach, ReportsIn
<1> QED
  BY <1>4, <1>5 DEF WorkInv

\* Below the first level nothing is written to what the first level left.
LEMMA SameDecrypted ==
  ASSUME FilesInv, level \in Nat, level > 1, query' = query, level' = level,
         files' = files \/ \E f \in unwritten : WriteFile(f)
  PROVE  /\ Glob("decrypted", 1)' = Glob("decrypted", 1)
         /\ \A n \in Glob("decrypted", 1) : files'[n] = files[n]
         /\ StaleShard' = StaleShard
<1>1. CASE files' = files
  BY <1>1 DEF Glob, StaleShard
<1>2. ASSUME NEW f \in unwritten, WriteFile(f)
      PROVE  /\ Glob("decrypted", 1)' = Glob("decrypted", 1)
             /\ \A n \in Glob("decrypted", 1) : files'[n] = files[n]
  <2>1. f[1].level # 1
    BY <1>2 DEF WriteFile, FilesInv
  <2>2. /\ DOMAIN files' = DOMAIN files \cup {f[1]}
        /\ \A n \in DOMAIN files : n # f[1] => files'[n] = files[n]
    BY <1>2 DEF WriteFile
  <2>3. \A n \in Glob("decrypted", 1) : n \in DOMAIN files /\ n # f[1]
    BY <2>1 DEF Glob
  <2>4. Glob("decrypted", 1)' = Glob("decrypted", 1)
    BY <2>1, <2>2 DEF Glob
  <2> QED
    BY <2>2, <2>3, <2>4
<1>3. CASE \E f \in unwritten : WriteFile(f)
  <2>1. /\ Glob("decrypted", 1)' = Glob("decrypted", 1)
        /\ \A n \in Glob("decrypted", 1) : files'[n] = files[n]
    BY <1>2, <1>3
  <2> QED
    BY <2>1 DEF StaleShard
<1> QED
  BY <1>1, <1>3

\* So what is left for the next levels stays.
LEMMA SameLeft ==
  ASSUME ControlTypeOK, FilesInv, LeftInv, query' = query, level' = level,
         files' = files \/ \E f \in unwritten : WriteFile(f)
  PROVE  LeftInv'
<1>1. CASE level > 1
  <2>1. level \in Nat
    BY QueryFacts
  <2>2. /\ Glob("decrypted", 1)' = Glob("decrypted", 1)
        /\ \A n \in Glob("decrypted", 1) : files'[n] = files[n]
        /\ StaleShard' = StaleShard
    BY <1>1, <2>1, SameDecrypted
  <2>3. ParametersRefused' = ParametersRefused
    BY SameLevel
  <2> QED
    BY <2>2, <2>3 DEF LeftInv
<1>2. CASE ~ level > 1
  BY <1>2 DEF LeftInv
<1> QED
  BY <1>1, <1>2

\* A job starts with all reports, each in one line.
LEMMA InputOnce ==
  ASSUME ControlTypeOK, FilesInv, LeftInv, CanStart, level > 1 => ~ StaleShard
  PROVE  OnceEach(InputLines) /\ ReportsIn(InputLines) = Report
<1>1. CASE ReadsEncrypted
  <2>1. InputLines = {[report |-> r, shard |-> 0] : r \in Report}
    BY <1>1 DEF InputLines
  <2>2. \A line \in InputLines : line.report \in Report /\ line = [report |-> line.report, shard |-> 0]
    BY <2>1
  <2>3. ASSUME NEW r \in Report PROVE r \in ReportsIn(InputLines)
    <3>1. PICK line : line = [report |-> r, shard |-> 0]
      OBVIOUS
    <3>2. line \in InputLines /\ line.report = r
      BY <2>1, <3>1
    <3> QED
      BY <3>2 DEF ReportsIn
  <2>4. OnceEach(InputLines)
    <3> SUFFICES ASSUME NEW a \in InputLines, NEW b \in InputLines, a.report = b.report
                 PROVE  a = b
      BY DEF OnceEach
    <3> QED
      BY <2>2
  <2> QED
    BY <2>2, <2>3, <2>4 DEF ReportsIn
<1>2. CASE ~ ReadsEncrypted
  <2>1. HasLevels /\ level > 1
    BY <1>2, QueryFacts DEF ReadsEncrypted
  <2>2. ~ ParametersRefused
    BY <2>1 DEF ParametersRefused, CanStart, HasLevels
  <2>3. \A r \in Report : \E n \in Glob("decrypted", 1) :
          /\ r \in files[n].lines
          /\ \A m \in Glob("decrypted", 1) : r \in files[m].lines => m = n
    BY <2>1, <2>2 DEF LeftInv
  <2>4. \A n \in Glob("decrypted", 1) : files[n].lines \subseteq Report
    BY DEF Glob, FilesInv
  <2> DEFINE From(f) == {[report |-> r, shard |-> f.shard] : r \in files[f].lines}
  <2>5. InputLines = UNION {From(f) : f \in Glob("decrypted", 1)}
    BY <1>2 DEF InputLines
  <2>6. ASSUME NEW line \in InputLines
        PROVE  \E f \in Glob("decrypted", 1) :
                 line = [report |-> line.report, shard |-> f.shard] /\ line.report \in files[f].lines
    BY <2>5
  <2>7. ASSUME NEW a \in InputLines, NEW b \in InputLines, a.report = b.report
        PROVE  a = b
    <3>1. PICK f \in Glob("decrypted", 1) :
            a = [report |-> a.report, shard |-> f.shard] /\ a.report \in files[f].lines
      BY <2>6
    <3>2. PICK g \in Glob("decrypted", 1) :
            b = [report |-> b.report, shard |-> g.shard] /\ b.report \in files[g].lines
      BY <2>6
    <3>3. a.report \in Report
      BY <2>4, <3>1
    <3>4. f = g
      BY <2>3, <2>7, <3>1, <3>2, <3>3
    <3> QED
      BY <2>7, <3>1, <3>2, <3>4
  <2>8. ASSUME NEW r \in Report
        PROVE  r \in ReportsIn(InputLines)
    <3>1. PICK f \in Glob("decrypted", 1) : r \in files[f].lines
      BY <2>3
    <3>2. PICK line \in From(f) : line.report = r
      <4>1. PICK line : line = [report |-> r, shard |-> f.shard]
        OBVIOUS
      <4>2. line \in From(f) /\ line.report = r
        BY <3>1, <4>1
      <4> QED
        BY <4>2
    <3>3. line \in InputLines
      BY <2>5
    <3> QED
      BY <3>2, <3>3 DEF ReportsIn
  <2>9. ReportsIn(InputLines) \subseteq Report
    BY <2>4, <2>6 DEF ReportsIn
  <2> QED
    BY <2>7, <2>8, <2>9 DEF OnceEach
<1> QED
  BY <1>1, <1>2

\* Starting: all reports wait.
LEMMA StartJob_Work ==
  ASSUME JobInv, WorkInv, LeftInv, StartJob
  PROVE  WorkInv'
<1> USE DEF JobInv
<1>1. query' = query /\ level' = level /\ helper' = helper /\ files' = files
  BY DEF StartJob
<1>2. CASE ~ CanStart
  BY <1>2 DEF StartJob, WorkInv, Working
<1>3. CASE CanStart /\ Working'
  <2>1. StaleShard' = StaleShard
    BY <1>1 DEF StaleShard, Glob
  <2>2. Expandable /\ (level > 1 => ~ StaleShard)
    BY <1>1, <1>3, <2>1 DEF Working, TuplesExpand, Expandable, CanStart
  <2>3. OnceEach(InputLines) /\ ReportsIn(InputLines) = Report
    BY <1>3, <2>2, InputOnce
  <2>4. /\ pending' = InputLines /\ merged' = CreateAccumulator
        /\ bundle' = [w \in Worker |-> EmptyBundle]
    BY <1>3 DEF StartJob
  <2>5. \A w \in Worker : bundle'[w].lines = {} /\ bundle'[w].acc = CreateAccumulator
    BY <2>4 DEF EmptyBundle
  <2>6. \A w \in Worker : ReportsIn(bundle'[w].lines) = {}
    BY <2>5 DEF ReportsIn
  <2>7. PlacesInv'
    <3>1. \A w \in Worker : OnceEach(bundle'[w].lines)
      BY <2>5 DEF OnceEach
    <3> QED
      BY <2>3, <2>4, <2>6, <3>1 DEF PlacesInv, OnceEach, ReportsIn
  <2>8. Committed' = {}
    <3>1. Committed' = {r \in Report : r \notin ReportsIn(pending')
                                         /\ \A w \in Worker : r \notin ReportsIn(bundle'[w].lines)}
      BY DEF Committed, ReportsIn
    <3> QED
      BY <2>3, <2>4, <3>1
  <2>9. AccOf({}) = CreateAccumulator
    BY <2>2, CombineLaws
  <2>10. merged' = AccFor(query', level', helper', Committed')
    BY <1>1, <2>4, <2>8, <2>9, SameCombine
  <2>11. \A w \in Worker :
           bundle'[w].acc = AccFor(query', level', helper', ReportsIn(bundle'[w].lines))
    BY <1>1, <2>5, <2>6, <2>9, SameCombine
  <2>12. SumsInv'
    BY <2>10, <2>11 DEF SumsInv, AccOf, ReportsIn
  <2> QED
    BY <2>7, <2>12 DEF WorkInv
<1>4. CASE ~ Working'
  BY <1>4 DEF WorkInv
<1> QED
  BY <1>2, <1>3, <1>4

\* An element more: its report leaves the lines that wait and is in the bundle.
LEMMA ProcessElement_Work ==
  ASSUME JobInv, WorkInv, NEW w \in Worker, NEW line, ProcessElement(w, line)
  PROVE  WorkInv'
<1> USE DEF JobInv
<1>1. /\ query' = query /\ level' = level /\ helper' = helper /\ files' = files
      /\ job = "running" /\ job' = job /\ line \in pending /\ pending' = pending \ {line}
      /\ merged' = merged
  BY DEF ProcessElement
<1>2. SUFFICES ASSUME Working' PROVE WorkInv'
  BY DEF WorkInv
<1>3. Working /\ PlacesInv /\ SumsInv
  <2>1. StaleShard' = StaleShard
    BY <1>1 DEF StaleShard, Glob
  <2> QED
    BY <1>1, <1>2, <2>1 DEF WorkInv, Working, TuplesExpand
<1> DEFINE r == line.report
           In(v) == ReportsIn(bundle[v].lines)
<1>4. /\ DOMAIN bundle' = Worker
      /\ bundle'[w].lines = bundle[w].lines \cup {line}
      /\ bundle'[w].acc = AddInput(bundle[w].acc, r)
      /\ \A v \in Worker : v # w => bundle'[v] = bundle[v]
  <2>1. DOMAIN bundle = Worker
    BY DEF ControlTypeOK
  <2> QED
    BY <2>1 DEF ProcessElement
<1>5. r \in ReportsIn(pending) /\ r \in Report /\ \A v \in Worker : r \notin In(v)
  <2>1. r \in ReportsIn(pending)
    BY <1>1 DEF ReportsIn
  <2> QED
    BY <1>3, <2>1, LinesOfReports DEF PlacesInv
<1>6. ReportsIn(pending') = ReportsIn(pending) \ {r}
  BY <1>1, <1>3 DEF ReportsIn, PlacesInv, OnceEach
<1>7. ReportsIn(bundle'[w].lines) = In(w) \cup {r}
  BY <1>4 DEF ReportsIn
<1>8. \A v \in Worker : v # w => ReportsIn(bundle'[v].lines) = In(v)
  BY <1>4
<1>9. OnceEach(pending') /\ \A v \in Worker : OnceEach(bundle'[v].lines)
  <2>1. OnceEach(pending')
    BY <1>1, <1>3 DEF OnceEach, PlacesInv
  <2>2. \A a \in bundle[w].lines : a.report # r
    BY <1>5 DEF ReportsIn
  <2>3. OnceEach(bundle[w].lines)
    BY <1>3 DEF PlacesInv
  <2>4. OnceEach(bundle'[w].lines)
    BY <1>4, <2>2, <2>3 DEF OnceEach
  <2>5. \A v \in Worker : v # w => OnceEach(bundle'[v].lines)
    BY <1>3, <1>4 DEF PlacesInv
  <2> QED
    BY <2>1, <2>4, <2>5
<1>10. \A v \in Worker :
         /\ ReportsIn(bundle'[v].lines) \cap ReportsIn(pending') = {}
         /\ \A u \in Worker : u # v =>
              ReportsIn(bundle'[u].lines) \cap ReportsIn(bundle'[v].lines) = {}
  <2>1. \A v \in Worker :
          /\ In(v) \cap ReportsIn(pending) = {}
          /\ \A u \in Worker : u # v => In(u) \cap In(v) = {}
    BY <1>3 DEF PlacesInv
  <2> HIDE DEF r, In
  <2> QED
    BY <1>5, <1>6, <1>7, <1>8, <2>1
<1>11. PlacesInv'
  BY <1>9, <1>10 DEF PlacesInv, OnceEach, ReportsIn
<1>12. Committed' = Committed
  <2>1. Committed' = {s \in Report : s \notin ReportsIn(pending')
                                       /\ \A v \in Worker : s \notin ReportsIn(bundle'[v].lines)}
    BY DEF Committed, ReportsIn
  <2>2. Committed = {s \in Report : s \notin ReportsIn(pending) /\ \A v \in Worker : s \notin In(v)}
    BY DEF Committed
  <2> HIDE DEF r, In
  <2> QED
    BY <1>5, <1>6, <1>7, <1>8, <2>1, <2>2
<1>13. AddInput(AccOf(In(w)), r) = AccOf(In(w) \cup {r})
  <2>1. In(w) \in SUBSET Report /\ r \in Report \ In(w)
    BY <1>5, LinesOfReports
  <2> HIDE DEF r, In
  <2> QED
    BY <1>1, <1>3, <2>1, CombineLaws, LinesOfReports
<1>14. merged' = AccFor(query', level', helper', Committed')
  BY <1>1, <1>3, <1>12, SameCombine DEF SumsInv
<1>15. \A v \in Worker : bundle[v].acc = AccOf(In(v))
  BY <1>3 DEF SumsInv
<1>16. ASSUME NEW v \in Worker
       PROVE  bundle'[v].acc = AccFor(query', level', helper', ReportsIn(bundle'[v].lines))
  <2>1. CASE v = w
    <3> HIDE DEF r, In
    <3>1. bundle'[w].acc = AccOf(In(w) \cup {r})
      BY <1>4, <1>13, <1>15
    <3> QED
      BY <1>1, <1>7, <2>1, <3>1, SameCombine
  <2>2. CASE v # w
    <3>1. bundle'[v].acc = AccOf(ReportsIn(bundle'[v].lines))
      BY <1>4, <1>15, <2>2
    <3> QED
      BY <1>1, <3>1, SameCombine
  <2> QED
    BY <2>1, <2>2
<1>17. SumsInv'
  BY <1>14, <1>16 DEF SumsInv, AccOf, ReportsIn
<1> QED
  BY <1>11, <1>17 DEF WorkInv

\* A commit: the reports of the bundle are in what is merged.
LEMMA CommitBundle_Work ==
  ASSUME JobInv, WorkInv, NEW w \in Worker, CommitBundle(w)
  PROVE  WorkInv'
<1> USE DEF JobInv
<1>1. /\ query' = query /\ level' = level /\ helper' = helper /\ files' = files
      /\ job = "running" /\ job' = job /\ pending' = pending
      /\ merged' = MergeAccumulators(merged, bundle[w].acc)
  BY DEF CommitBundle
<1>2. SUFFICES ASSUME Working' PROVE WorkInv'
  BY DEF WorkInv
<1>3. Working /\ PlacesInv /\ SumsInv
  <2>1. StaleShard' = StaleShard
    BY <1>1 DEF StaleShard, Glob
  <2> QED
    BY <1>1, <1>2, <2>1 DEF WorkInv, Working, TuplesExpand
<1> DEFINE In(v) == ReportsIn(bundle[v].lines)
<1>4. /\ bundle'[w].lines = {} /\ bundle'[w].acc = CreateAccumulator
      /\ \A v \in Worker : v # w => bundle'[v] = bundle[v]
  <2>1. DOMAIN bundle = Worker
    BY DEF ControlTypeOK
  <2> QED
    BY <2>1 DEF CommitBundle, EmptyBundle
<1>5. ReportsIn(bundle'[w].lines) = {}
  BY <1>4 DEF ReportsIn
<1>6. \A v \in Worker : v # w => ReportsIn(bundle'[v].lines) = In(v)
  BY <1>4
<1>7. PlacesInv'
  <2>1. \A v \in Worker :
          /\ OnceEach(bundle[v].lines) /\ In(v) \cap ReportsIn(pending) = {}
          /\ \A u \in Worker : u # v => In(u) \cap In(v) = {}
    BY <1>3 DEF PlacesInv
  <2>2. OnceEach({})
    BY DEF OnceEach
  <2>3. \A v \in Worker : OnceEach(bundle'[v].lines)
    BY <1>4, <2>1, <2>2
  <2>4. \A v \in Worker :
          /\ ReportsIn(bundle'[v].lines) \cap ReportsIn(pending) = {}
          /\ \A u \in Worker : u # v =>
               ReportsIn(bundle'[u].lines) \cap ReportsIn(bundle'[v].lines) = {}
    <3> HIDE DEF In
    <3> QED
      BY <1>5, <1>6, <2>1
  <2>5. OnceEach(pending')
    BY <1>1, <1>3 DEF PlacesInv
  <2> QED
    BY <1>1, <2>3, <2>4, <2>5 DEF PlacesInv, OnceEach, ReportsIn
<1>8. Committed' = Committed \cup In(w) /\ Committed \cap In(w) = {}
  <2>1. Committed' = {s \in Report : s \notin ReportsIn(pending)
                                       /\ \A v \in Worker : s \notin ReportsIn(bundle'[v].lines)}
    BY <1>1 DEF Committed, ReportsIn
  <2>2. Committed = {s \in Report : s \notin ReportsIn(pending) /\ \A v \in Worker : s \notin In(v)}
    BY DEF Committed
  <2>3. /\ In(w) \subseteq Report /\ In(w) \cap ReportsIn(pending) = {}
        /\ \A v \in Worker : v # w => In(v) \cap In(w) = {}
    BY <1>3, LinesOfReports DEF PlacesInv
  <2> HIDE DEF In
  <2> QED
    BY <1>5, <1>6, <2>1, <2>2, <2>3
<1>9. MergeAccumulators(AccOf(Committed), AccOf(In(w))) = AccOf(Committed \cup In(w))
  <2>1. In(w) \in SUBSET Report /\ Committed \in SUBSET Report
    BY LinesOfReports
  <2> HIDE DEF In
  <2> QED
    BY <1>1, <1>3, <1>8, <2>1, CombineLaws, LinesOfReports
<1>10. merged' = AccFor(query', level', helper', Committed')
  <2>1. merged = AccOf(Committed) /\ bundle[w].acc = AccOf(In(w))
    BY <1>3 DEF SumsInv
  <2> HIDE DEF In
  <2> QED
    BY <1>1, <1>8, <1>9, <2>1, SameCombine
<1>11. ASSUME NEW v \in Worker
       PROVE  bundle'[v].acc = AccFor(query', level', helper', ReportsIn(bundle'[v].lines))
  <2>1. CASE v = w
    <3>1. AccOf({}) = CreateAccumulator
      BY <1>1, <1>3, CombineLaws, LinesOfReports
    <3>2. bundle'[v].acc = AccOf({})
      BY <1>4, <2>1, <3>1
    <3> QED
      BY <1>1, <1>5, <2>1, <3>2, SameCombine
  <2>2. CASE v # w
    <3>1. bundle'[v].acc = AccOf(ReportsIn(bundle'[v].lines))
      BY <1>3, <1>4, <2>2 DEF SumsInv
    <3> QED
      BY <1>1, <3>1, SameCombine
  <2> QED
    BY <2>1, <2>2
<1>12. SumsInv'
  BY <1>10, <1>11 DEF SumsInv, AccOf, ReportsIn
<1> QED
  BY <1>7, <1>12 DEF WorkInv

\* A bundle that fails: its reports wait again, and nothing of it stays.
LEMMA DropBundle_Work ==
  ASSUME JobInv, WorkInv, NEW w \in Worker, DropBundle(w), job = "running"
  PROVE  WorkInv'
<1> USE DEF JobInv
<1>1. /\ query' = query /\ level' = level /\ helper' = helper /\ files' = files
      /\ merged' = merged /\ pending' = pending \cup bundle[w].lines
  BY DEF DropBundle
<1>2. SUFFICES ASSUME Working' PROVE WorkInv'
  BY DEF WorkInv
<1>3. Working /\ PlacesInv /\ SumsInv
  <2>1. StaleShard' = StaleShard
    BY <1>1 DEF StaleShard, Glob
  <2> QED
    BY <1>1, <1>2, <2>1 DEF WorkInv, Working, TuplesExpand
<1> DEFINE In(v) == ReportsIn(bundle[v].lines)
<1>4. /\ bundle'[w].lines = {} /\ bundle'[w].acc = CreateAccumulator
      /\ \A v \in Worker : v # w => bundle'[v] = bundle[v]
  <2>1. DOMAIN bundle = Worker
    BY DEF ControlTypeOK
  <2> QED
    BY <2>1 DEF DropBundle, EmptyBundle
<1>5. ReportsIn(bundle'[w].lines) = {}
  BY <1>4 DEF ReportsIn
<1>6. \A v \in Worker : v # w => ReportsIn(bundle'[v].lines) = In(v)
  BY <1>4
<1>7. ReportsIn(pending') = ReportsIn(pending) \cup In(w)
  BY <1>1 DEF ReportsIn
<1>8. \A v \in Worker :
        /\ OnceEach(bundle[v].lines) /\ In(v) \cap ReportsIn(pending) = {}
        /\ \A u \in Worker : u # v => In(u) \cap In(v) = {}
  BY <1>3 DEF PlacesInv
<1>9. OnceEach(pending')
  <2>1. OnceEach(pending) /\ OnceEach(bundle[w].lines)
    BY <1>3 DEF PlacesInv
  <2>2. \A a \in pending, b \in bundle[w].lines : a.report # b.report
    BY <1>8 DEF ReportsIn
  <2> QED
    BY <1>1, <2>1, <2>2 DEF OnceEach
<1>10. PlacesInv'
  <2>1. OnceEach({})
    BY DEF OnceEach
  <2>2. \A v \in Worker : OnceEach(bundle'[v].lines)
    BY <1>4, <1>8, <2>1
  <2>3. \A v \in Worker :
          /\ ReportsIn(bundle'[v].lines) \cap ReportsIn(pending') = {}
          /\ \A u \in Worker : u # v =>
               ReportsIn(bundle'[u].lines) \cap ReportsIn(bundle'[v].lines) = {}
    <3> HIDE DEF In
    <3> QED
      BY <1>5, <1>6, <1>7, <1>8
  <2> QED
    BY <1>9, <2>2, <2>3 DEF PlacesInv, OnceEach, ReportsIn
<1>11. Committed' = Committed
  <2>1. Committed' = {s \in Report : s \notin ReportsIn(pending')
                                       /\ \A v \in Worker : s \notin ReportsIn(bundle'[v].lines)}
    BY DEF Committed, ReportsIn
  <2>2. Committed = {s \in Report : s \notin ReportsIn(pending) /\ \A v \in Worker : s \notin In(v)}
    BY DEF Committed
  <2> HIDE DEF In
  <2> QED
    BY <1>5, <1>6, <1>7, <2>1, <2>2
<1>12. merged' = AccFor(query', level', helper', Committed')
  BY <1>1, <1>3, <1>11, SameCombine DEF SumsInv
<1>13. ASSUME NEW v \in Worker
       PROVE  bundle'[v].acc = AccFor(query', level', helper', ReportsIn(bundle'[v].lines))
  <2>1. CASE v = w
    <3>1. AccOf({}) = CreateAccumulator
      BY <1>3, CombineLaws, LinesOfReports
    <3>2. bundle'[v].acc = AccOf({})
      BY <1>4, <2>1, <3>1
    <3> QED
      BY <1>1, <1>5, <2>1, <3>2, SameCombine
  <2>2. CASE v # w
    <3>1. bundle'[v].acc = AccOf(ReportsIn(bundle'[v].lines))
      BY <1>3, <1>4, <2>2 DEF SumsInv
    <3> QED
      BY <1>1, <3>1, SameCombine
  <2> QED
    BY <2>1, <2>2
<1>14. SumsInv'
  BY <1>12, <1>13 DEF SumsInv, AccOf, ReportsIn
<1> QED
  BY <1>10, <1>14 DEF WorkInv
-----------------------------------------------------------------------------
(* The histogram of a job that is done is one of those its sums allow. *)

Released == HistogramName \in DOMAIN files /\ files[HistogramName].lines \in Histograms

HistogramInv ==
  query.kind # "reach" =>
    /\ \A n \in DOMAIN files : n.kind = "histogram" =>
         n = [kind |-> "histogram", level |-> n.level, shard |-> 0]
    /\ job = "writing" =>
         /\ \A f \in unwritten : f[1].kind = "histogram" => f[1] = HistogramName /\ f[2] \in Histograms
         /\ Released \/ \E f \in unwritten : f[1] = HistogramName
    /\ job = "done" => Released

\* The histograms depend on the flags and the sums only.
LEMMA SameHistograms ==
  ASSUME query' = query, level' = level, merged' = merged
  PROVE  Histograms' = Histograms /\ HistogramName' = HistogramName
<1>1. Aligned' = Aligned
  BY DEF Aligned, Params
<1> QED
  BY <1>1 DEF Histograms, HistogramName, AddNoise

\* A step that touches neither what is to be written nor what is.
LEMMA SameReleased ==
  ASSUME HistogramInv, query' = query, files' = files,
         job' \notin {"writing", "done"} \/ (level' = level /\ merged' = merged /\ job' = job
                                               /\ unwritten' = unwritten)
  PROVE  HistogramInv'
<1>1. CASE job' \notin {"writing", "done"}
  BY <1>1 DEF HistogramInv
<1>2. CASE level' = level /\ merged' = merged /\ job' = job /\ unwritten' = unwritten
  <2>1. Released' = Released
    BY <1>2, SameHistograms DEF Released
  <2> QED
    BY <1>2, <2>1, SameHistograms DEF HistogramInv
<1> QED
  BY <1>1, <1>2

\* What a job that read all its lines writes.
LEMMA ExtractOutput_Histogram ==
  ASSUME HistogramInv, ExtractOutput
  PROVE  HistogramInv'
<1> SUFFICES ASSUME query.kind # "reach" PROVE HistogramInv'
  BY DEF HistogramInv, ExtractOutput
<1>1. /\ query' = query /\ level' = level /\ merged' = merged /\ files' = files
      /\ job' = "writing" /\ unwritten' \in OutputFiles
  BY DEF ExtractOutput, workVars
<1>2. PICK lines \in Histograms :
        unwritten' = {<<HistogramName, lines>>} \cup ShardedFiles("decrypted", query.shards, sharded)
  BY <1>1 DEF OutputFiles
<1>3. \A f \in ShardedFiles("decrypted", query.shards, sharded) : f[1].kind = "decrypted"
  <2> SUFFICES ASSUME NEW f \in ShardedFiles("decrypted", query.shards, sharded)
               PROVE  f[1].kind = "decrypted"
    OBVIOUS
  <2>1. PICK s \in ShardsOf(query.shards) :
          f = <<[kind |-> "decrypted", level |-> level, shard |-> s], GetShard(sharded, s)>>
    BY DEF ShardedFiles
  <2> QED
    BY <2>1
<1>4. PICK h : h = <<HistogramName, lines>>
  OBVIOUS
<1>5. \A f \in unwritten' : f[1].kind = "histogram" => f[1] = HistogramName /\ f[2] \in Histograms
  <2> SUFFICES ASSUME NEW f \in unwritten', f[1].kind = "histogram"
               PROVE  f[1] = HistogramName /\ f[2] \in Histograms
    OBVIOUS
  <2>1. f = h
    <3>1. CASE f \in ShardedFiles("decrypted", query.shards, sharded)
      BY <1>3, <3>1
    <3> QED
      BY <1>2, <1>4, <3>1
  <2> QED
    BY <1>4, <2>1
<1>6. \E f \in unwritten' : f[1] = HistogramName
  BY <1>2, <1>4
<1>7. Histograms' = Histograms /\ HistogramName' = HistogramName
  BY <1>1, SameHistograms
<1> QED
  BY <1>1, <1>5, <1>6, <1>7 DEF HistogramInv

\* Once the histogram is written it stays until the next run writes it.
LEMMA WriteFile_Histogram ==
  ASSUME HistogramInv, NEW f \in unwritten, WriteFile(f)
  PROVE  HistogramInv'
<1> SUFFICES ASSUME query.kind # "reach" PROVE HistogramInv'
  BY DEF HistogramInv, WriteFile
<1>1. /\ query' = query /\ level' = level /\ merged' = merged /\ job = "writing"
      /\ unwritten' = unwritten \ {f} /\ job' = IF unwritten' = {} THEN "done" ELSE job
      /\ DOMAIN files' = DOMAIN files \cup {f[1]}
      /\ files'[f[1]].lines = f[2]
      /\ \A n \in DOMAIN files : n # f[1] => files'[n] = files[n]
  BY DEF WriteFile, workVars
<1>2. Histograms' = Histograms /\ HistogramName' = HistogramName
  BY <1>1, SameHistograms
<1>3. HistogramName = [kind |-> "histogram", level |-> HistogramName.level, shard |-> 0]
  BY DEF HistogramName
<1>4. HistogramName.kind = "histogram"
  BY DEF HistogramName
<1>5. \A g \in unwritten : g[1].kind = "histogram" => g[1] = HistogramName /\ g[2] \in Histograms
  BY <1>1 DEF HistogramInv
<1>6. Released' \/ \E g \in unwritten' : g[1] = HistogramName
  <2>1. CASE f[1] = HistogramName
    <3>1. files'[HistogramName].lines \in Histograms /\ HistogramName \in DOMAIN files'
      BY <1>1, <1>4, <1>5, <2>1
    <3> QED
      BY <1>2, <3>1 DEF Released
  <2>2. CASE f[1] # HistogramName /\ Released
    <3>1. HistogramName \in DOMAIN files' /\ files'[HistogramName] = files[HistogramName]
      BY <1>1, <2>2 DEF Released
    <3> QED
      BY <1>2, <2>2, <3>1 DEF Released
  <2>3. CASE f[1] # HistogramName /\ \E g \in unwritten : g[1] = HistogramName
    BY <1>1, <2>3
  <2> QED
    BY <1>1, <2>1, <2>2, <2>3 DEF HistogramInv
<1>7. \A n \in DOMAIN files' : n.kind = "histogram" =>
        n = [kind |-> "histogram", level |-> n.level, shard |-> 0]
  <2>1. \A n \in DOMAIN files : n.kind = "histogram" =>
          n = [kind |-> "histogram", level |-> n.level, shard |-> 0]
    BY DEF HistogramInv
  <2>2. f[1].kind = "histogram" => f[1] = [kind |-> "histogram", level |-> f[1].level, shard |-> 0]
    BY <1>3, <1>5
  <2> QED
    BY <1>1, <2>1, <2>2
<1>8. job' = "done" => unwritten' = {}
  BY <1>1
<1> QED
  BY <1>1, <1>2, <1>5, <1>6, <1>7, <1>8 DEF HistogramInv
-----------------------------------------------------------------------------
(* The files of a reach job hold its sums and nothing else, whatever shards   *)
(* its runs drew for them.                                                    *)

ReachKinds == {"rq", "histogram"}
ReachPairs == Reach!AlignVector(query.reach, AccOf(Report))
ReachLines(kind) ==
  IF kind = "rq" THEN {Reach!FormatRQ(pair) : pair \in ReachPairs} ELSE ReachPairs

ReachInv ==
  query.kind = "reach" =>
    /\ ~ TuplesExpand => job \notin {"writing", "done"} /\ (job = "running" => pending # {})
    /\ \A n \in DOMAIN files :
         n.kind \in ReachKinds /\ files[n].lines \subseteq ReachLines(n.kind)
    /\ job \in {"writing", "done"} =>
         /\ \A f \in unwritten : /\ f[1].kind \in ReachKinds
                                 /\ f[2] \subseteq ReachLines(f[1].kind)
         /\ \A f, g \in unwritten : f[1] = g[1] => f = g
         /\ \A kind \in ReachKinds : \A v \in ReachLines(kind) :
              \/ \E f \in unwritten : f[1].kind = kind /\ v \in f[2]
              \/ \E n \in Glob(kind, level) :
                   v \in files[n].lines /\ \A f \in unwritten : f[1] # n

\* The sums of a reach job depend on the flags only.
LEMMA SameReachLines ==
  ASSUME query' = query, level' = level, helper' = helper
  PROVE  \A kind : ReachLines(kind)' = ReachLines(kind)
<1>1. AccOf(Report)' = AccOf(Report)
  BY DEF AccOf
<1> QED
  BY <1>1 DEF ReachLines, ReachPairs

\* A step that writes nothing and lets no line of a refused job through.
LEMMA SameReach ==
  ASSUME ReachInv, query' = query, level' = level, helper' = helper, files' = files,
         \/ job' \notin {"running", "writing", "done"}
         \/ job' = "running" /\ (TuplesExpand \/ pending' # {})
         \/ job' = job /\ job # "running" /\ unwritten' = unwritten
  PROVE  ReachInv'
<1>1. \A kind : ReachLines(kind)' = ReachLines(kind)
  BY SameReachLines
<1>2. TuplesExpand' = TuplesExpand
  BY DEF TuplesExpand
<1>3. \A kind : Glob(kind, level)' = Glob(kind, level)
  BY DEF Glob
<1> QED
  BY <1>1, <1>2, <1>3 DEF ReachInv

\* The files of a kind have a name for each shard, and have every line.
LEMMA ShardedFacts ==
  ASSUME NEW kind, NEW n, NEW assigned
  PROVE  /\ \A f \in ShardedFiles(kind, n, assigned) : \E s \in ShardsOf(n) :
              /\ f = <<[kind |-> kind, level |-> level, shard |-> s], GetShard(assigned, s)>>
              /\ f[1].kind = kind /\ f[1].shard = s /\ f[2] = GetShard(assigned, s)
         /\ \A a \in assigned : a[2] \in ShardsOf(n) =>
              \E f \in ShardedFiles(kind, n, assigned) : f[1].kind = kind /\ a[1] \in f[2]
<1>1. ASSUME NEW f \in ShardedFiles(kind, n, assigned)
      PROVE  \E s \in ShardsOf(n) :
               /\ f = <<[kind |-> kind, level |-> level, shard |-> s], GetShard(assigned, s)>>
               /\ f[1].kind = kind /\ f[1].shard = s /\ f[2] = GetShard(assigned, s)
  <2>1. PICK s \in ShardsOf(n) :
          f = <<[kind |-> kind, level |-> level, shard |-> s], GetShard(assigned, s)>>
    BY DEF ShardedFiles
  <2>2. f[1].kind = kind /\ f[1].shard = s /\ f[2] = GetShard(assigned, s)
    BY <2>1
  <2> QED
    BY <2>1, <2>2
<1>2. ASSUME NEW a \in assigned, a[2] \in ShardsOf(n)
      PROVE  \E f \in ShardedFiles(kind, n, assigned) : f[1].kind = kind /\ a[1] \in f[2]
  <2>1. a[1] \in GetShard(assigned, a[2])
    BY DEF GetShard
  <2>2. PICK f : f = <<[kind |-> kind, level |-> level, shard |-> a[2]], GetShard(assigned, a[2])>>
    OBVIOUS
  <2>3. f[1].kind = kind /\ f[2] = GetShard(assigned, a[2])
    BY <2>2
  <2>4. f \in ShardedFiles(kind, n, assigned)
    BY <1>2, <2>1, <2>2, <2>3 DEF ShardedFiles
  <2> QED
    BY <2>1, <2>3, <2>4
<1> QED
  BY <1>1, <1>2

\* A reach job that read all its lines writes what it is to write.
LEMMA ExtractOutput_Reach ==
  ASSUME JobInv, WorkInv, ReachInv, ExtractOutput
  PROVE  ReachInv'
<1> SUFFICES ASSUME query.kind = "reach" PROVE ReachInv'
  BY DEF ReachInv, ExtractOutput
<1>c. ControlTypeOK /\ FilesInv
  BY DEF JobInv
<1>1. /\ query' = query /\ level' = level /\ helper' = helper /\ files' = files
      /\ job = "running" /\ job' = "writing" /\ unwritten' \in OutputFiles
      /\ pending = {} /\ \A w \in Worker : bundle[w].lines = {}
  BY DEF ExtractOutput, workVars
<1>2. TuplesExpand
  BY <1>1 DEF ReachInv
<1>3. level = 1
  BY <1>c, QueryFacts DEF ControlTypeOK, HasLevels
<1>4. merged = AccOf(Committed)
  BY <1>1, <1>2, <1>3 DEF WorkInv, Working, SumsInv
<1>5. Committed = Report
  BY <1>1 DEF Committed, ReportsIn
<1>6. Aligned = ReachPairs
  BY <1>4, <1>5 DEF Aligned, ReachPairs
<1> DEFINE n == query.shards
<1>7. PICK rq \in [Aligned -> ShardsOf(n)] : \E hist \in [Aligned -> ShardsOf(n)] :
        unwritten' = ShardedFiles("rq", n, {<<Reach!FormatRQ(pair), rq[pair]>> : pair \in Aligned})
                       \cup ShardedFiles("histogram", n, {<<pair, hist[pair]>> : pair \in Aligned})
  BY <1>1 DEF OutputFiles
<1>8. PICK hist \in [Aligned -> ShardsOf(n)] :
        unwritten' = ShardedFiles("rq", n, {<<Reach!FormatRQ(pair), rq[pair]>> : pair \in Aligned})
                       \cup ShardedFiles("histogram", n, {<<pair, hist[pair]>> : pair \in Aligned})
  BY <1>7
<1> DEFINE A(kind) == IF kind = "rq"
                        THEN {<<Reach!FormatRQ(pair), rq[pair]>> : pair \in Aligned}
                        ELSE {<<pair, hist[pair]>> : pair \in Aligned}
           F(kind) == ShardedFiles(kind, n, A(kind))
<1>9. ASSUME NEW kind \in ReachKinds
      PROVE  /\ \A a \in A(kind) : a[1] \in ReachLines(kind)
             /\ \A v \in ReachLines(kind) : \E a \in A(kind) : a[1] = v /\ a[2] \in ShardsOf(n)
  <2>1. CASE kind = "rq"
    <3>1. A(kind) = {<<Reach!FormatRQ(pair), rq[pair]>> : pair \in Aligned}
          /\ ReachLines(kind) = {Reach!FormatRQ(pair) : pair \in Aligned}
      BY <1>6, <2>1 DEF ReachLines
    <3>2. ASSUME NEW pair \in Aligned
          PROVE  \E a \in A(kind) : a[1] = Reach!FormatRQ(pair) /\ a[2] \in ShardsOf(n)
      <4>1. PICK a : a = <<Reach!FormatRQ(pair), rq[pair]>>
        OBVIOUS
      <4>2. a \in A(kind) /\ a[1] = Reach!FormatRQ(pair) /\ a[2] = rq[pair]
        BY <3>1, <4>1
      <4>3. rq[pair] \in ShardsOf(n)
        BY <1>7
      <4> QED
        BY <4>2, <4>3
    <3> QED
      BY <3>1, <3>2
  <2>2. CASE kind = "histogram"
    <3>1. A(kind) = {<<pair, hist[pair]>> : pair \in Aligned} /\ ReachLines(kind) = Aligned
      BY <1>6, <2>2 DEF ReachLines
    <3>2. ASSUME NEW pair \in Aligned
          PROVE  \E a \in A(kind) : a[1] = pair /\ a[2] \in ShardsOf(n)
      <4>1. PICK a : a = <<pair, hist[pair]>>
        OBVIOUS
      <4>2. a \in A(kind) /\ a[1] = pair /\ a[2] = hist[pair]
        BY <3>1, <4>1
      <4>3. hist[pair] \in ShardsOf(n)
        BY <1>8
      <4> QED
        BY <4>2, <4>3
    <3> QED
      BY <3>1, <3>2
  <2> QED
    BY <2>1, <2>2 DEF ReachKinds
<1>10. unwritten' = F("rq") \cup F("histogram")
  BY <1>8
<1> HIDE DEF A
<1>11. ASSUME NEW kind \in ReachKinds, NEW f \in F(kind)
       PROVE  \E s \in ShardsOf(n) :
                /\ f = <<[kind |-> kind, level |-> level, shard |-> s], GetShard(A(kind), s)>>
                /\ f[1].kind = kind /\ f[1].shard = s /\ f[2] = GetShard(A(kind), s)
  BY ShardedFacts
<1>12. \A kind \in ReachKinds : \A f \in F(kind) : f[2] \subseteq ReachLines(kind)
  BY <1>9, <1>11 DEF GetShard
<1>13. ASSUME NEW kind \in ReachKinds, NEW v \in ReachLines(kind)
       PROVE  \E f \in F(kind) : f[1].kind = kind /\ v \in f[2]
  <2>1. PICK a \in A(kind) : a[1] = v /\ a[2] \in ShardsOf(n)
    BY <1>9
  <2> QED
    BY <2>1, ShardedFacts
<1>14. \A f \in unwritten' : f[1].kind \in ReachKinds /\ f \in F(f[1].kind)
  BY <1>10, <1>11 DEF ReachKinds
<1> HIDE DEF F
<1>15. \A f \in unwritten' : f[1].kind \in ReachKinds /\ f[2] \subseteq ReachLines(f[1].kind)
  BY <1>12, <1>14
<1>16. \A f, g \in unwritten' : f[1] = g[1] => f = g
  <2> SUFFICES ASSUME NEW f \in unwritten', NEW g \in unwritten', f[1] = g[1]
               PROVE  f = g
    OBVIOUS
  <2>1. f[1].kind \in ReachKinds /\ f \in F(f[1].kind) /\ g \in F(f[1].kind)
    BY <1>14
  <2> QED
    BY <1>11, <2>1
<1>17. \A kind \in ReachKinds : \A v \in ReachLines(kind) :
         \E f \in unwritten' : f[1].kind = kind /\ v \in f[2]
  BY <1>10, <1>13 DEF ReachKinds
<1>18. \A kind : ReachLines(kind)' = ReachLines(kind)
  BY <1>1, SameReachLines
<1>19. TuplesExpand'
  BY <1>1, <1>2 DEF TuplesExpand
<1> QED
  BY <1>1, <1>15, <1>16, <1>17, <1>18, <1>19 DEF ReachInv

\* A file that is written has the lines of its kind, and is not written again.
LEMMA WriteFile_Reach ==
  ASSUME JobInv, ReachInv, NEW f \in unwritten, WriteFile(f)
  PROVE  ReachInv'
<1> SUFFICES ASSUME query.kind = "reach" PROVE ReachInv'
  BY DEF ReachInv, WriteFile
<1>1. /\ query' = query /\ level' = level /\ helper' = helper /\ job = "writing"
      /\ unwritten' = unwritten \ {f} /\ job' \in {"writing", "done"}
      /\ DOMAIN files' = DOMAIN files \cup {f[1]}
      /\ files'[f[1]].lines = f[2]
      /\ \A m \in DOMAIN files : m # f[1] => files'[m] = files[m]
  BY DEF WriteFile, workVars
<1>2. f[1].level = level
  BY <1>1 DEF JobInv, FilesInv
<1>3. TuplesExpand
  BY <1>1 DEF ReachInv
<1>4. /\ \A m \in DOMAIN files : m.kind \in ReachKinds /\ files[m].lines \subseteq ReachLines(m.kind)
      /\ \A g \in unwritten : g[1].kind \in ReachKinds /\ g[2] \subseteq ReachLines(g[1].kind)
      /\ \A g, h \in unwritten : g[1] = h[1] => g = h
      /\ \A kind \in ReachKinds : \A v \in ReachLines(kind) :
           \/ \E g \in unwritten : g[1].kind = kind /\ v \in g[2]
           \/ \E m \in Glob(kind, level) :
                v \in files[m].lines /\ \A g \in unwritten : g[1] # m
  BY <1>1 DEF ReachInv
<1>5. \A m \in DOMAIN files' :
        m.kind \in ReachKinds /\ files'[m].lines \subseteq ReachLines(m.kind)
  BY <1>1, <1>4
<1> DEFINE Stays(kind, v) ==
             \/ \E g \in unwritten' : g[1].kind = kind /\ v \in g[2]
             \/ \E m \in Glob(kind, level)' :
                  v \in files'[m].lines /\ \A g \in unwritten' : g[1] # m
<1>6. ASSUME NEW kind \in ReachKinds, NEW v \in ReachLines(kind)
      PROVE  Stays(kind, v)
  <2>1. ASSUME NEW g \in unwritten, g[1].kind = kind, v \in g[2]
        PROVE  Stays(kind, v)
    <3>1. CASE g = f
      <4>1. f[1] \in Glob(kind, level)'
        BY <1>1, <1>2, <2>1, <3>1 DEF Glob
      <4>2. \A h \in unwritten' : h[1] # f[1]
        BY <1>1, <1>4
      <4> QED
        BY <1>1, <2>1, <3>1, <4>1, <4>2
    <3>2. CASE g # f
      BY <1>1, <2>1, <3>2
    <3> QED
      BY <3>1, <3>2
  <2>2. ASSUME NEW m \in Glob(kind, level), v \in files[m].lines,
               \A g \in unwritten : g[1] # m
        PROVE  Stays(kind, v)
    <3>1. m \in DOMAIN files /\ m # f[1] /\ m \in Glob(kind, level)'
      BY <1>1, <2>2 DEF Glob
    <3> QED
      BY <1>1, <2>2, <3>1
  <2> QED
    BY <1>4, <2>1, <2>2
<1>7. \A kind : ReachLines(kind)' = ReachLines(kind)
  BY <1>1, SameReachLines
<1>8. TuplesExpand'
  BY <1>1, <1>3 DEF TuplesExpand
<1>9. \A g \in unwritten' : g \in unwritten
  BY <1>1
<1> QED
  BY <1>1, <1>4, <1>5, <1>6, <1>7, <1>8, <1>9 DEF ReachInv
-----------------------------------------------------------------------------
(* The data of a job together with its control. *)
DataInv == JobInv /\ WorkInv /\ LeftInv /\ HistogramInv /\ ReachInv

\* Nothing is read or written at the start.
LEMMA JobInit_Data ==
  ASSUME JobInit
  PROVE  DataInv
<1>1. job = "new" /\ level = 1 /\ DOMAIN files = {}
  BY DEF JobInit
<1> QED
  BY <1>1, JobInit_Inv DEF DataInv, WorkInv, Working, LeftInv, HistogramInv, ReachInv

\* The next level reads what the first one left, or its keys have no such level.
LEMMA NextLevel_Left ==
  ASSUME JobInv, LeftInv, NextLevel
  PROVE  LeftInv'
<1> USE DEF JobInv
<1>1. /\ job = "done" /\ query' = query /\ level' = level + 1 /\ HasLevels /\ files' = files
  BY DEF NextLevel
<1>2. /\ Glob("decrypted", 1)' = Glob("decrypted", 1) /\ StaleShard' = StaleShard
      /\ \A n \in Glob("decrypted", 1) : files'[n] = files[n]
  BY <1>1 DEF Glob, StaleShard
<1>3. level \in Nat \ {0}
  BY QueryFacts
<1>4. CASE level # 1
  <2>1. CanStart /\ ~ ParametersRefused
    BY <1>1 DEF ControlTypeOK, CanStart, ParametersRefused, HasLevels
  <2> QED
    BY <1>2, <1>3, <1>4, <2>1 DEF LeftInv
<1>5. CASE level = 1 /\ ~ WritesDecrypted
  BY <1>5, NextIsRefused DEF LeftInv
<1>6. CASE WritesDecrypted
  <2>1. ~ StaleShard => \A r \in Report : \E n \in Glob("decrypted", 1) :
          /\ r \in files[n].lines
          /\ \A m \in Glob("decrypted", 1) : r \in files[m].lines => m = n
    BY <1>1, <1>6, ReportInOneFile
  <2> QED
    BY <1>2, <2>1 DEF LeftInv
<1> QED
  BY <1>4, <1>5, <1>6

\* Every step keeps it.
LEMMA Next_Data ==
  ASSUME DataInv, [Next]_vars
  PROVE  DataInv'
<1> USE DEF DataInv
<1>0. JobInv'
  BY JobNext_Inv
<1>c. ControlTypeOK /\ FilesInv
  BY DEF JobInv
<1>1. CASE BeforeJob \/ UNCHANGED vars
  <2>1. /\ query' = query /\ level' = level /\ helper' = helper /\ pending' = pending
        /\ bundle' = bundle /\ merged' = merged /\ files' = files /\ job' = job
        /\ unwritten' = unwritten
    BY <1>1 DEF BeforeJob, vars, jobVars, workVars
  <2>2. Working' => Working
    BY <2>1 DEF Working, TuplesExpand, StaleShard, Glob
  <2>3. ReachInv'
    BY <2>1, SameReachLines DEF ReachInv, TuplesExpand, Glob
  <2> QED
    BY <1>0, <1>c, <2>1, <2>2, <2>3, SameWork, SameLeft, SameReleased
<1>2. CASE StartJob
  <2>1. /\ query' = query /\ level' = level /\ files' = files /\ job' \notin {"writing", "done"}
        /\ helper' = helper
    BY <1>2 DEF StartJob
  <2>2. ReachInv'
    <3>1. CASE query.kind = "reach" /\ job' = "running"
      <4>1. pending' = InputLines
        BY <1>2, <3>1 DEF StartJob
      <4>2. InputLines = {[report |-> r, shard |-> 0] : r \in Report}
        BY <3>1 DEF InputLines, ReadsEncrypted, HasLevels
      <4>3. PICK r \in Report : TRUE
        BY QueriesAssumption
      <4>4. [report |-> r, shard |-> 0] \in InputLines
        BY <4>2
      <4>5. pending' # {}
        BY <4>1, <4>4
      <4> QED
        BY <2>1, <3>1, <4>5, SameReach
    <3>2. CASE job' # "running"
      BY <1>2, <2>1, <3>2, SameReach DEF StartJob
    <3> QED
      BY <2>1, <3>1, <3>2 DEF ReachInv
  <2> QED
    BY <1>0, <1>c, <1>2, <2>1, <2>2, StartJob_Work, SameLeft, SameReleased
<1>3. ASSUME NEW w \in Worker, NEW line \in pending, ProcessElement(w, line) PROVE DataInv'
  <2>1. /\ query' = query /\ level' = level /\ files' = files /\ job' \notin {"writing", "done"}
        /\ helper' = helper /\ job' = "running"
    BY <1>3 DEF ProcessElement
  <2>2. TuplesExpand
    BY <1>3 DEF ProcessElement, CanProcess, TuplesExpand
  <2>3. ReachInv'
    BY <2>1, <2>2, SameReach
  <2> QED
    BY <1>0, <1>c, <1>3, <2>1, <2>3, ProcessElement_Work, SameLeft, SameReleased
<1>4. ASSUME NEW w \in Worker, DropBundle(w), job = "running" PROVE DataInv'
  <2>1. /\ query' = query /\ level' = level /\ files' = files /\ job' \notin {"writing", "done"}
        /\ helper' = helper /\ pending' = pending \cup bundle[w].lines
        /\ job' \in {"running", "failed"}
    BY <1>4 DEF DropBundle, Failure
  <2>2. query.kind = "reach" => TuplesExpand \/ pending' # {}
    BY <1>4, <2>1 DEF ReachInv
  <2>3. ReachInv'
    BY <2>1, <2>2, SameReach DEF ReachInv
  <2> QED
    BY <1>0, <1>c, <1>4, <2>1, <2>3, DropBundle_Work, SameLeft, SameReleased
<1>5. ASSUME NEW w \in Worker, CommitBundle(w) PROVE DataInv'
  <2>1. /\ query' = query /\ level' = level /\ files' = files /\ job' \notin {"writing", "done"}
        /\ helper' = helper /\ pending' = pending /\ job = "running" /\ job' = "running"
    BY <1>5 DEF CommitBundle
  <2>2. query.kind = "reach" => TuplesExpand \/ pending' # {}
    BY <2>1 DEF ReachInv
  <2>3. ReachInv'
    BY <2>1, <2>2, SameReach DEF ReachInv
  <2> QED
    BY <1>0, <1>c, <1>5, <2>1, <2>3, CommitBundle_Work, SameLeft, SameReleased
<1>6. CASE ExtractOutput
  <2>1. /\ query' = query /\ level' = level /\ helper' = helper /\ pending' = pending
        /\ bundle' = bundle /\ merged' = merged /\ files' = files /\ job = "running"
    BY <1>6 DEF ExtractOutput, workVars
  <2>2. Working' => Working
    BY <2>1 DEF Working, TuplesExpand, StaleShard, Glob
  <2>3. ReachInv'
    BY <1>6, ExtractOutput_Reach
  <2> QED
    BY <1>0, <1>c, <1>6, <2>1, <2>2, <2>3, SameWork, SameLeft, ExtractOutput_Histogram
<1>7. ASSUME NEW f \in unwritten, WriteFile(f) PROVE DataInv'
  <2>1. /\ query' = query /\ level' = level /\ helper' = helper /\ pending' = pending
        /\ bundle' = bundle /\ merged' = merged /\ job = "writing"
    BY <1>7 DEF WriteFile, workVars
  <2>2. level > 1 => StaleShard' = StaleShard
    BY <1>c, <1>7, <2>1, SameDecrypted, QueryFacts
  <2>3. Working' => Working
    BY <2>1, <2>2 DEF Working, TuplesExpand
  <2>4. ReachInv'
    BY <1>7, WriteFile_Reach
  <2> QED
    BY <1>0, <1>c, <1>7, <2>1, <2>3, <2>4, SameWork, SameLeft, WriteFile_Histogram
<1>8. ASSUME NEW f \in unwritten, WriteFails(f) PROVE DataInv'
  <2>1. /\ query' = query /\ level' = level /\ helper' = helper /\ pending' = pending
        /\ bundle' = bundle /\ merged' = merged /\ job = "writing" /\ files' = files
        /\ unwritten' = unwritten /\ job' \in {"failed", job}
    BY <1>8 DEF WriteFails, workVars, Failure
  <2>2. Working' => Working
    BY <2>1 DEF Working, TuplesExpand, StaleShard, Glob
  <2>3. ReachInv'
    BY <2>1, SameReach
  <2> QED
    BY <1>0, <1>c, <2>1, <2>2, <2>3, SameWork, SameLeft, SameReleased
<1>9. CASE RestartJob
  <2>1. query' = query /\ level' = level /\ files' = files /\ job' = "new" /\ helper' = helper
    BY <1>9 DEF RestartJob
  <2>2. WorkInv'
    BY <2>1 DEF WorkInv, Working
  <2>3. ReachInv'
    BY <2>1, SameReach
  <2> QED
    BY <1>0, <1>c, <2>1, <2>2, <2>3, SameLeft, SameReleased
<1>10. CASE NextLevel
  <2>1. query' = query /\ files' = files /\ job' = "new" /\ HasLevels
    BY <1>10 DEF NextLevel
  <2>2. WorkInv' /\ ReachInv'
    BY <2>1 DEF WorkInv, Working, ReachInv, HasLevels
  <2> QED
    BY <1>0, <1>10, <2>1, <2>2, NextLevel_Left, SameReleased
<1> QED
  BY <1>1, <1>2, <1>3, <1>4, <1>5, <1>6, <1>7, <1>8, <1>9, <1>10
  DEF Next, RunnerStep, Fault, BundleFails, LoseWorker

\* The data of a job: each report is in one place, and the sums are those of the
\* reports that are there.
THEOREM DataInvariant == JobSpec => []DataInv
<1>1. JobInit => DataInv
  BY JobInit_Data
<1>2. DataInv /\ [Next]_vars => DataInv'
  BY Next_Data
<1> QED
  BY <1>1, <1>2, PTL DEF JobSpec
-----------------------------------------------------------------------------
(* What a done job of each kind wrote. *)

\* A done job merged all reports.
LEMMA DoneMergedAll ==
  ASSUME DataInv, NEW kind, Done(kind), kind # "reach"
  PROVE  /\ merged = AccOf(Report) /\ Released
         /\ Glob("histogram", level) = {HistogramName}
         /\ query.kind = kind /\ query \in Queries /\ helper \in Helper
         /\ level \in 1 .. Len(query.levels) /\ LevelOf(query, level) = Params
         /\ HasLevels => CheckExpansionParameters(Dpf!AsQueryParams(Params))
<1> USE DEF DataInv, JobInv
<1>1. job = "done" /\ query.kind = kind /\ ~ StaleShard
  BY DEF Done
<1>2. SumsInv
  BY <1>1 DEF WorkInv, Working, TuplesExpand
<1>3. pending = {} /\ \A w \in Worker : bundle[w].lines = {}
  BY <1>1 DEF ShardInv
<1>4. Committed = Report
  BY <1>3 DEF Committed, ReportsIn
<1>5. Released
  BY <1>1 DEF HistogramInv
<1>6. Glob("histogram", level) = {HistogramName}
  <2>1. HistogramName \in Glob("histogram", level)
    BY <1>5 DEF Released, Glob, HistogramName
  <2>2. \A n \in Glob("histogram", level) : n = HistogramName
    BY <1>1 DEF HistogramInv, Glob, HistogramName
  <2> QED
    BY <2>1, <2>2
<1> QED
  BY <1>1, <1>2, <1>4, <1>5, <1>6, LinesOfReports DEF SumsInv, ControlTypeOK, LevelOf, Params

\* The lines of a file with noise, as a job writes them.
NoisyLines(pairs, noise) == {AddNoise(pair, noise[pair]) : pair \in pairs}

\* Noise for each line of such a file makes one of a histogram that Query describes.
LEMMA NoisyGraph ==
  ASSUME NEW S, NEW noise \in [Graph(S) -> Noise]
  PROVE  \E nz \in [DOMAIN S -> Noise] :
           NoisyLines(Graph(S), noise) = Graph(AggregatePartialReport(DOMAIN S, S, nz))
<1> DEFINE B == DOMAIN S
           nz == [b \in B |-> noise[<<b, S[b]>>]]
           f == AggregatePartialReport(B, S, nz)
<1>1. nz \in [B -> Noise]
  <2> SUFFICES ASSUME NEW b \in B PROVE noise[<<b, S[b]>>] \in Noise
    OBVIOUS
  <2>1. <<b, S[b]>> \in Graph(S)
    BY DEF Graph
  <2> QED
    BY <2>1
<1>2. \A b \in B : AddNoise(<<b, S[b]>>, noise[<<b, S[b]>>]) = <<b, (S[b] + nz[b]) % Modulus>>
  BY DEF AddNoise, Dpf!AddNoise, OneParty!AddNoise
<1>3. NoisyLines(Graph(S), noise) = {AddNoise(<<b, S[b]>>, noise[<<b, S[b]>>]) : b \in B}
  BY DEF NoisyLines, Graph
<1> HIDE DEF nz
<1>4. f = [b \in B |-> (S[b] + nz[b]) % Modulus]
  BY DEF AggregatePartialReport
<1>5. Graph(f) = {<<b, (S[b] + nz[b]) % Modulus>> : b \in B}
  BY <1>4 DEF Graph
<1> HIDE DEF f, B
<1>6. NoisyLines(Graph(S), noise) = {<<b, (S[b] + nz[b]) % Modulus>> : b \in B}
  BY <1>2, <1>3
<1>7. NoisyLines(Graph(S), noise) = Graph(f)
  BY <1>5, <1>6
<1> QED
  BY <1>1, <1>7 DEF f, B

\* The lines a job writes for aligned sums.
LEMMA WrittenLines ==
  ASSUME NEW S, S \in [DOMAIN S -> Word], Aligned = Graph(S), NEW lines \in Histograms
  PROVE  \E nz \in IF query.noised THEN [DOMAIN S -> Noise] ELSE {[b \in DOMAIN S |-> 0]} :
           lines = Graph(AggregatePartialReport(DOMAIN S, S, nz))
<1>1. CASE query.noised
  <2>1. PICK noise \in [Aligned -> Noise] : lines = {AddNoise(pair, noise[pair]) : pair \in Aligned}
    BY <1>1 DEF Histograms
  <2>2. lines = NoisyLines(Graph(S), noise)
    BY <2>1 DEF NoisyLines
  <2> QED
    BY <1>1, <2>2, NoisyGraph
<1>2. CASE ~ query.noised
  <2>1. lines = Graph(S)
    BY <1>2 DEF Histograms
  <2>2. PICK nz : nz = [b \in DOMAIN S |-> 0]
    OBVIOUS
  <2>3. \A b \in DOMAIN S : (S[b] + nz[b]) % Modulus = S[b]
    BY <2>2, WordRemainder
  <2>4. AggregatePartialReport(DOMAIN S, S, nz) = S
    BY <2>3 DEF AggregatePartialReport
  <2> QED
    BY <1>2, <2>1, <2>2, <2>4
<1> QED
  BY <1>1, <1>2

\* The sums of the shares of a level at each bucket.
SharesAt(q, l, h, b) == [r \in Report |-> Dpf!Share(DpfKey(h, r), LevelOf(q, l).level, b)]

ShareSums(q, l, h) ==
  [b \in ExpandedBuckets(Dpf!AsQueryParams(LevelOf(q, l))) |->
     SumOver(Report, SharesAt(q, l, h, b)) % Modulus]

\* They are words, and what Query expects of the helper's keys.
LEMMA ShareSumsFacts ==
  ASSUME NEW q \in Queries, q.kind = "dpf", NEW l \in 1 .. Len(q.levels), NEW h \in Helper,
         CheckExpansionParameters(Dpf!AsQueryParams(LevelOf(q, l)))
  PROVE  LET params == Dpf!AsQueryParams(LevelOf(q, l))
             B == ExpandedBuckets(params)
         IN  /\ ShareSums(q, l, h) \in [B -> Word]
             /\ DpfVectors(h, params.level, B) = {ShareSums(q, l, h)}
             /\ [B -> Noise] \subseteq NoiseVectors(B)
             /\ \A b \in B : \A r \in Report : SharesAt(q, l, h, b)[r] \in Word
<1> DEFINE params == Dpf!AsQueryParams(LevelOf(q, l))
           B == ExpandedBuckets(params)
<1>1. LevelOf(q, l) \in LevelParams /\ l \in DOMAIN q.levels
  BY LevelFacts
<1>2. params.level = LevelOf(q, l).level
  BY <1>1, ParamsFacts
<1>3. \A b \in B : \A r \in Report : SharesAt(q, l, h, b)[r] \in Word
  BY ShareWord DEF SharesAt
<1>4. ShareSums(q, l, h) \in [B -> Word]
  <2> SUFFICES ASSUME NEW b \in B
               PROVE  SumOver(Report, SharesAt(q, l, h, b)) % Modulus \in Word
    BY DEF ShareSums
  <2>1. \A r \in Report : SharesAt(q, l, h, b)[r] \in Int
    BY <1>3, WordRemainder
  <2>2. SumOver(Report, SharesAt(q, l, h, b)) \in Int
    BY <2>1, ReportsAssumption, SumAdd
  <2> QED
    BY <2>2, DivMod, WordRemainder DEF Word
<1>5. /\ DpfVectors(h, params.level, B)
           = {[b \in B |-> SumOver(Report, [r \in Report |-> Dpf!Share(DpfKey(h, r), params.level, b)])
                             % Modulus]}
      /\ [B -> Noise] \subseteq NoiseVectors(B)
  BY <1>1, SharesAssumption DEF LevelOf
<1>6. [b \in B |-> SumOver(Report, [r \in Report |-> Dpf!Share(DpfKey(h, r), params.level, b)]) % Modulus]
        = ShareSums(q, l, h)
  BY <1>2 DEF ShareSums, SharesAt
<1> QED
  BY <1>3, <1>4, <1>5, <1>6

\* A done DPF job has the sums of the shares of all reports, each at its bucket.
LEMMA DpfAligned ==
  ASSUME DataInv, Done("dpf")
  PROVE  Aligned = Graph(ShareSums(query, level, helper))
<1> DEFINE S == ShareSums(query, level, helper)
           par == LevelOf(query, level)
           B == ExpandedBuckets(Dpf!AsQueryParams(par))
           segments == DpfSegments(query, level)
           p == DpfVector(query, level, helper)
           n == Dpf!VectorLength(par)
<1>1. /\ merged = AccOf(Report) /\ query.kind = "dpf" /\ query \in Queries /\ helper \in Helper
      /\ level \in 1 .. Len(query.levels) /\ par = Params
      /\ CheckExpansionParameters(Dpf!AsQueryParams(par))
  BY DoneMergedAll DEF HasLevels
<1>2. /\ Expands(par) /\ Covers(segments, n)
      /\ \A r \in Report, k \in 0 .. n - 1 :
           /\ p[r][k] \in Int
           /\ p[r][k] = Dpf!Share(DpfKey(helper, r), par.level, BucketAt(par, k))
  BY <1>1, DpfVectorFacts
<1>3. ASSUME NEW k \in 0 .. n - 1
      PROVE  SumOver(Report, Terms(p, k)) % Modulus = S[BucketAt(par, k)]
  <2> DEFINE b == BucketAt(par, k)
  <2>1. b \in B
    BY <1>2 DEF Expands
  <2>2. Terms(p, k) = SharesAt(query, level, helper, b)
    <3>1. \A r \in Report : p[r][k] = Dpf!Share(DpfKey(helper, r), par.level, b)
      BY <1>2
    <3> HIDE DEF p, par, b
    <3>2. Terms(p, k) = [r \in Report |-> p[r][k]]
      BY DEF Terms
    <3>3. SharesAt(query, level, helper, b) = [r \in Report |-> Dpf!Share(DpfKey(helper, r), par.level, b)]
      BY DEF SharesAt, par
    <3> QED
      BY <3>1, <3>2, <3>3
  <2>3. S[b] = SumOver(Report, SharesAt(query, level, helper, b)) % Modulus
    BY <2>1 DEF ShareSums
  <2> QED
    BY <2>2, <2>3
<1>4. merged = VectorSums(segments, p, Report)
  BY <1>1 DEF AccOf, AccFor
<1>5. /\ DOMAIN merged = segments
      /\ \A s \in segments : DOMAIN merged[s] = 0 .. s.length - 1
      /\ \A s \in segments : \A i \in 0 .. s.length - 1 :
           merged[s][i] = SumOver(Report, Terms(p, i + s.start)) % Modulus
  <2> HIDE DEF segments, p
  <2> QED
    BY <1>4 DEF VectorSums
<1>6. \A s \in segments : \A i \in 0 .. s.length - 1 : merged[s][i] = S[BucketAt(par, i + s.start)]
  <2> SUFFICES ASSUME NEW s \in segments, NEW i \in 0 .. s.length - 1
               PROVE  merged[s][i] = S[BucketAt(par, i + s.start)]
    OBVIOUS
  <2>1. i + s.start \in 0 .. n - 1
    BY <1>2 DEF Covers
  <2> HIDE DEF segments, S, p, par, n
  <2> QED
    BY <1>3, <1>5, <2>1
<1>7. Aligned = Dpf!AlignVector(Dpf!AllBucketIDs(par), merged)
  BY <1>1 DEF Aligned
<1> HIDE DEF segments, S, p, par
<1>8. Dpf!AlignVector(Dpf!AllBucketIDs(par), merged) = {<<b, S[b]>> : b \in B}
  BY <1>2, <1>5, <1>6, AlignedVector
<1>9. DOMAIN S = B
  BY <1>1 DEF ShareSums, S, par
<1> QED
  BY <1>1, <1>7, <1>8, <1>9 DEF S, Graph

\* Read back, a histogram of a done DPF job is those sums with a noise at each.
LEMMA DpfHistogram ==
  ASSUME DataInv, Done("dpf")
  PROVE  LET B == ExpandedBuckets(Dpf!AsQueryParams(Params))
             S == ShareSums(query, level, helper)
         IN  \E nz \in IF query.noised THEN [B -> Noise] ELSE {[b \in B |-> 0]} :
               /\ files[HistogramName].lines = Graph(AggregatePartialReport(B, S, nz))
               /\ Dpf!ReadHistogram(files[HistogramName].lines) = AggregatePartialReport(B, S, nz)
<1> DEFINE B == ExpandedBuckets(Dpf!AsQueryParams(Params))
           S == ShareSums(query, level, helper)
           lines == files[HistogramName].lines
<1>1. lines \in Histograms
  BY DoneMergedAll DEF Released
<1>2. Aligned = Graph(S)
  BY DpfAligned
<1>3. S \in [B -> Word] /\ DOMAIN S = B
  BY DoneMergedAll, ShareSumsFacts DEF HasLevels, ShareSums
<1> HIDE DEF B, S, lines
<1>4. PICK nz \in IF query.noised THEN [B -> Noise] ELSE {[b \in B |-> 0]} :
        lines = Graph(AggregatePartialReport(B, S, nz))
  BY <1>1, <1>2, <1>3, WrittenLines
<1>5. AggregatePartialReport(B, S, nz)
        = [b \in DOMAIN AggregatePartialReport(B, S, nz) |-> AggregatePartialReport(B, S, nz)[b]]
  BY DEF AggregatePartialReport
<1>6. Dpf!ReadHistogram(lines) = AggregatePartialReport(B, S, nz)
  BY <1>4, <1>5, ReadGraph
<1> QED
  BY <1>4, <1>6 DEF B, S, lines

\* Whatever workers were lost and however the reports were cut into bundles and
\* the vectors into segments: what a DPF job writes is a partial result of its
\* query (dpfaggregator.go:327-490, 589-640).
THEOREM JobsImplementQuery == JobSpec => []DpfJobImplementsQuery
<1>1. ASSUME DataInv, Done("dpf")
      PROVE  /\ Glob("histogram", level) = {HistogramName}
             /\ Dpf!ReadHistogram(files[HistogramName].lines) \in
                  PartialResults(helper, Dpf!AsQueryParams(Params), query.noised)
  <2> DEFINE params == Dpf!AsQueryParams(Params)
             B == ExpandedBuckets(params)
             S == ShareSums(query, level, helper)
             read == Dpf!ReadHistogram(files[HistogramName].lines)
  <2>1. Glob("histogram", level) = {HistogramName}
    BY <1>1, DoneMergedAll
  <2>2. PICK nz \in IF query.noised THEN [B -> Noise] ELSE {[b \in B |-> 0]} :
          read = AggregatePartialReport(B, S, nz)
    BY <1>1, DpfHistogram
  <2>3. /\ S \in [B -> Word] /\ DpfVectors(helper, params.level, B) = {S}
        /\ [B -> Noise] \subseteq NoiseVectors(B)
    BY <1>1, DoneMergedAll, ShareSumsFacts DEF HasLevels
  <2> HIDE DEF params, B, S, read
  <2>4. S \in DpfVectors(helper, params.level, B) \cap [B -> Word]
    BY <2>3
  <2>5. nz \in IF query.noised THEN NoiseVectors(B) \cap [B -> Int] ELSE {[b \in B |-> 0]}
    BY <2>2, <2>3, JobAssumption
  <2>6. read \in PartialResults(helper, params, query.noised)
    BY <2>2, <2>4, <2>5 DEF PartialResults, B
  <2> QED
    BY <2>1, <2>6 DEF params, read
<1>2. DataInv => DpfJobImplementsQuery
  BY <1>1 DEF DpfJobImplementsQuery
<1> QED
  BY <1>2, DataInvariant, PTL

\* The sums of a one-party job at its targets.
TargetSums == [b \in query.targets |-> SumOver(Report, OfAll(b)) % Modulus]

\* The merged sums of a one-party job are the lines before the noise.
LEMMA OnePartyAligned ==
  ASSUME DataInv, Done("one_party")
  PROVE  Aligned = Graph(TargetSums) /\ TargetSums \in [query.targets -> Word]
<1>1. merged = AccOf(Report) /\ query.kind = "one_party"
  BY DoneMergedAll
<1>2. merged = OneSums(Report)
  BY <1>1 DEF AccOf, AccFor
<1>3. ASSUME NEW b
      PROVE  /\ OneParty!ValueAt(merged, b) = SumOver(Report, OfAll(b)) % Modulus
             /\ SumOver(Report, OfAll(b)) % Modulus \in Word
  <2>1. Report \in SUBSET Report
    OBVIOUS
  <2>2. /\ OneParty!ValueAt(merged, b) = SumOver(Report, OfAll(b)) % Modulus
        /\ SumOver(Report, OfAll(b)) \in Int
    BY <1>2, <2>1, OneSumsValue
  <2> QED
    BY <2>2, DivMod, WordRemainder DEF Word
<1>4. Aligned = {<<b, OneParty!ValueAt(merged, b)>> : b \in query.targets}
  BY <1>1 DEF Aligned, OneParty!FilterBucket
<1>5. DOMAIN TargetSums = query.targets
      /\ \A b \in query.targets : TargetSums[b] = SumOver(Report, OfAll(b)) % Modulus
  BY DEF TargetSums
<1>6. TargetSums \in [query.targets -> Word]
  BY <1>3 DEF TargetSums
<1>7. Graph(TargetSums) = {<<b, TargetSums[b]>> : b \in query.targets}
  BY <1>5 DEF Graph
<1>8. Aligned = {<<b, TargetSums[b]>> : b \in query.targets}
  BY <1>3, <1>4, <1>5
<1> QED
  BY <1>6, <1>7, <1>8

\* Whatever workers were lost and however the reports were cut into bundles: a
\* one-party histogram has every target and nothing else, with the contributions
\* of all reports and the noise (onepartyaggregator.go:172-278).
THEOREM OnePartySumsAll == JobSpec => []OnePartySums
<1>1. ASSUME DataInv, Done("one_party")
      PROVE  LET result == OneParty!ReadHistogram(files[HistogramName].lines)
             IN  /\ DOMAIN result = query.targets
                 /\ \A b \in query.targets : \E n \in IF query.noised THEN Noise ELSE {0} :
                      result[b] = (SumOver(Report, OfAll(b)) + n) % Modulus
  <2> DEFINE T == query.targets
             S == TargetSums
             lines == files[HistogramName].lines
             result == OneParty!ReadHistogram(lines)
  <2>1. lines \in Histograms
    BY <1>1, DoneMergedAll DEF Released
  <2>2. Aligned = Graph(S) /\ S \in [T -> Word] /\ DOMAIN S = T
    BY <1>1, OnePartyAligned DEF TargetSums
  <2>3. ASSUME NEW b \in T
        PROVE  S[b] = SumOver(Report, OfAll(b)) % Modulus /\ SumOver(Report, OfAll(b)) \in Int
    <3>1. Report \in SUBSET Report
      OBVIOUS
    <3> QED
      BY <3>1, OneSumsValue DEF TargetSums
  <2> HIDE DEF T, S, lines
  <2>4. PICK nz \in IF query.noised THEN [T -> Noise] ELSE {[b \in T |-> 0]} :
          lines = Graph(AggregatePartialReport(T, S, nz))
    BY <2>1, <2>2, WrittenLines
  <2>5. AggregatePartialReport(T, S, nz)
          = [b \in DOMAIN AggregatePartialReport(T, S, nz) |-> AggregatePartialReport(T, S, nz)[b]]
    BY DEF AggregatePartialReport
  <2>6. result = AggregatePartialReport(T, S, nz)
    BY <2>4, <2>5, ReadGraph
  <2>7. DOMAIN result = T /\ \A b \in T : result[b] = (S[b] + nz[b]) % Modulus
    <3> HIDE DEF result
    <3> QED
      BY <2>6 DEF AggregatePartialReport
  <2> HIDE DEF result
  <2>8. ASSUME NEW b \in T
        PROVE  \E n \in IF query.noised THEN Noise ELSE {0} :
                 result[b] = (SumOver(Report, OfAll(b)) + n) % Modulus
    <3>1. PICK n \in IF query.noised THEN Noise ELSE {0} : n = nz[b]
      BY <2>4
    <3>2. n \in Int
      BY <3>1, JobAssumption
    <3>3. PICK sum \in Int : sum = SumOver(Report, OfAll(b))
      BY <2>3
    <3>4. ((sum % Modulus) + n) % Modulus = (sum + n) % Modulus
      BY <3>2, ModAdd, WordRemainder
    <3> QED
      BY <2>3, <2>7, <3>1, <3>3, <3>4
  <2> QED
    BY <2>7, <2>8 DEF T, result, lines
<1>2. ASSUME NEW b
      PROVE  OfAll(b) = [r \in Report |->
                SumOver({i \in DOMAIN Raw[r].data : Raw[r].data[i].bucket = b},
                        [i \in DOMAIN Raw[r].data |-> Raw[r].data[i].value])]
  BY DEF OfAll, Of, ValuesIn
<1>3. DataInv => OnePartySums
  BY <1>1, <1>2 DEF OnePartySums
<1> QED
  BY <1>3, DataInvariant, PTL
-----------------------------------------------------------------------------
(* What the two helpers' results are together. *)

\* What a report contributes to a bucket.
ValueFor(par, r, b) ==
  IF Dpf!PrefixOf(Raw[r].bucket, par.level) = b THEN Raw[r].value ELSE 0

\* The shares of the two helpers add up to the value at the report's bucket, and
\* to 0 elsewhere.
LEMMA SharesAddUp ==
  ASSUME NEW q \in Queries, q.kind = "dpf", NEW l \in 1 .. Len(q.levels), NEW h \in Helper,
         CheckExpansionParameters(Dpf!AsQueryParams(LevelOf(q, l))),
         NEW r \in Report, NEW b \in ExpandedBuckets(Dpf!AsQueryParams(LevelOf(q, l)))
  PROVE  /\ ValueFor(LevelOf(q, l), r, b) \in Int
         /\ (SharesAt(q, l, h, b)[r] + SharesAt(q, l, Partner(h), b)[r]) % Modulus
              = ValueFor(LevelOf(q, l), r, b) % Modulus
<1> DEFINE par == LevelOf(q, l)
           mask == Mask(r, par.level, b)
           value == ValueFor(par, r, b)
<1>1. par \in LevelParams /\ l \in DOMAIN q.levels
  BY LevelFacts
<1>2. par.level \in 0 .. KeyBitSize - 1
  BY <1>1, ParamsFacts
<1>3. ASSUME NEW g \in Helper
      PROVE  SharesAt(q, l, g, b)[r] = IF g = 1 THEN mask ELSE (value - mask) % Modulus
  <2> DEFINE key == DpfKey(g, r)
  <2>1. /\ key.helper = g /\ key.seed = r /\ key.alpha = Raw[r].bucket
        /\ key.betas = [k \in 0 .. KeyBitSize - 1 |-> Raw[r].value]
    BY DEF DpfKey, Dpf!GenerateDPFKeys, Dpf!Helper, Helper, Dpf!Indexes
  <2>2. key.betas[par.level] = Raw[r].value
    BY <1>2, <2>1
  <2> HIDE DEF key
  <2>3. Dpf!Share(key, par.level, b) = IF g = 1 THEN mask ELSE (value - mask) % Modulus
    BY <2>1, <2>2 DEF Dpf!Share, ValueFor
  <2> QED
    BY <2>3 DEF SharesAt, key
<1>4. value \in Int
  BY ReportsAssumption, WordRemainder DEF ValueFor
<1>5. mask \in Int
  <2>1. 1 \in Helper
    BY DEF Helper
  <2>2. SharesAt(q, l, 1, b)[r] \in Word
    BY <2>1, ShareSumsFacts
  <2> QED
    BY <1>3, <2>1, <2>2, WordRemainder
<1> HIDE DEF value, mask
<1>6. (mask + ((value - mask) % Modulus)) % Modulus = value % Modulus
      /\ (((value - mask) % Modulus) + mask) % Modulus = value % Modulus
  <2>1. PICK d \in Int : d = value - mask
    BY <1>4, <1>5
  <2>2. /\ (mask + (d % Modulus)) % Modulus = (mask + d) % Modulus
        /\ ((d % Modulus) + mask) % Modulus = (d + mask) % Modulus
    BY <1>5, ModAdd, WordRemainder
  <2>3. mask + d = value /\ d + mask = value
    BY <1>4, <1>5, <2>1
  <2> QED
    BY <2>1, <2>2, <2>3
<1>7. \/ h = 1 /\ Partner(h) = 2 /\ Partner(h) \in Helper
      \/ h = 2 /\ Partner(h) = 1 /\ Partner(h) \in Helper
  BY DEF Helper, Partner
<1> QED
  BY <1>3, <1>4, <1>6, <1>7 DEF value

\* So do the sums of the two helpers.
LEMMA SumsAddUp ==
  ASSUME DataInv, Done("dpf"),
         NEW b \in ExpandedBuckets(Dpf!AsQueryParams(Params))
  PROVE  (ShareSums(query, level, helper)[b] + ShareSums(query, level, Partner(helper))[b]) % Modulus
           = PlainSum(b)
<1> DEFINE par == LevelOf(query, level)
           f == SharesAt(query, level, helper, b)
           g == SharesAt(query, level, Partner(helper), b)
           h == [r \in Report |-> ValueFor(par, r, b)]
           At == {r \in Report : Dpf!PrefixOf(Raw[r].bucket, Params.level) = b}
           v == [r \in Report |-> Raw[r].value]
<1>1. /\ query.kind = "dpf" /\ query \in Queries /\ helper \in Helper
      /\ level \in 1 .. Len(query.levels) /\ par = Params
      /\ CheckExpansionParameters(Dpf!AsQueryParams(par))
  BY DoneMergedAll DEF HasLevels
<1>2. Partner(helper) \in Helper
  BY <1>1 DEF Helper, Partner
<1>3. ASSUME NEW p \in Helper
      PROVE  \A r \in Report : SharesAt(query, level, p, b)[r] \in Int
  BY <1>1, ShareSumsFacts, WordRemainder
<1>4. \A r \in Report : f[r] \in Int /\ g[r] \in Int
  BY <1>1, <1>2, <1>3
<1>5. \A r \in Report : h[r] \in Int /\ (f[r] + g[r]) % Modulus = h[r] % Modulus
  BY <1>1, SharesAddUp
<1>6. /\ ShareSums(query, level, helper)[b] = SumOver(Report, f) % Modulus
      /\ ShareSums(query, level, Partner(helper))[b] = SumOver(Report, g) % Modulus
  BY <1>1 DEF ShareSums
<1>7. IsFiniteSet(Report) /\ Modulus \in Nat \ {0}
  BY ReportsAssumption, WordRemainder
<1>8. \A r \in Report : v[r] \in Int /\ h[r] = IF r \in At THEN v[r] ELSE 0
  BY <1>1, ReportsAssumption, WordRemainder DEF ValueFor
<1>9. PlainSum(b) = SumOver(At, v) % Modulus /\ At \in SUBSET Report
  BY DEF PlainSum
<1> HIDE DEF f, g, h, At, v
<1>10. ((SumOver(Report, f) % Modulus) + (SumOver(Report, g) % Modulus)) % Modulus
         = SumOver(Report, h) % Modulus
  BY <1>4, <1>5, <1>7, SumOfWords
<1>11. SumOver(At, v) = SumOver(Report, h)
  BY <1>7, <1>8, <1>9, SumFilter
<1> QED
  BY <1>6, <1>9, <1>10, <1>11
-----------------------------------------------------------------------------
\* The merge tool on two files with one line for each bucket: it joins them, and
\* leaves out the buckets whose shares add up to 0.
LEMMA MergeGraphs ==
  ASSUME NEW f, NEW g, DOMAIN g = DOMAIN f, NEW h, DOMAIN h = DOMAIN f,
         \A b \in DOMAIN f : (f[b] + g[b]) % Modulus = h[b]
  PROVE  /\ Dpf!MergeHistogramOK(Graph(f), Graph(g))
         /\ Dpf!MergeHistogram(Graph(f), Graph(g))
              = {<<b, h[b]>> : b \in {x \in DOMAIN h : h[x] # 0}}
<1> DEFINE B == DOMAIN f
           F == Graph(f)
           G == Graph(g)
           Out == {<<b, h[b]>> : b \in {x \in B : h[x] # 0}}
           Pairs == {q \in F \X G : q[1][1] = q[2][1] /\ (q[1][2] + q[2][2]) % Modulus # 0}
           Merged == {<<p[1][1], (p[1][2] + p[2][2]) % Modulus>> : p \in Pairs}
<1>1. ASSUME NEW x \in F
      PROVE  \E b \in B : x = <<b, f[b]>> /\ x[1] = b /\ x[2] = f[b]
  <2>1. PICK b \in B : x = <<b, f[b]>>
    BY DEF Graph
  <2> QED
    BY <2>1
<1>2. ASSUME NEW x \in G
      PROVE  \E b \in B : x = <<b, g[b]>> /\ x[1] = b /\ x[2] = g[b]
  <2>1. PICK b \in B : x = <<b, g[b]>>
    BY DEF Graph
  <2> QED
    BY <2>1
<1>3. ASSUME NEW b \in B
      PROVE  /\ \E x \in F : x = <<b, f[b]>> /\ x[1] = b /\ x[2] = f[b]
             /\ \E x \in G : x = <<b, g[b]>> /\ x[1] = b /\ x[2] = g[b]
  <2>1. PICK x, y : x = <<b, f[b]>> /\ y = <<b, g[b]>>
    OBVIOUS
  <2>2. x \in F /\ y \in G
    BY <2>1 DEF Graph
  <2>3. x[1] = b /\ x[2] = f[b]
    BY <2>1
  <2>4. y[1] = b /\ y[2] = g[b]
    BY <2>1
  <2> QED
    BY <2>1, <2>2, <2>3, <2>4
<1>4. {x[1] : x \in F} = B /\ {x[1] : x \in G} = B
  <2> HIDE DEF F, G
  <2> QED
    BY <1>1, <1>2, <1>3
<1>5. ASSUME NEW m \in Merged
      PROVE  m \in Out
  <2>1. PICK p \in Pairs : m = <<p[1][1], (p[1][2] + p[2][2]) % Modulus>>
    OBVIOUS
  <2>2. /\ p[1] \in F /\ p[2] \in G /\ p[1][1] = p[2][1]
        /\ (p[1][2] + p[2][2]) % Modulus # 0
    BY <2>1
  <2> HIDE DEF F, G
  <2>3. PICK b \in B : p[1][1] = b /\ p[1][2] = f[b]
    BY <1>1, <2>2
  <2>4. p[2][2] = g[b]
    BY <1>2, <2>2, <2>3
  <2>5. m = <<b, h[b]>> /\ h[b] # 0
    BY <2>1, <2>2, <2>3, <2>4
  <2> QED
    BY <2>5
<1>6. ASSUME NEW m \in Out
      PROVE  m \in Merged
  <2>1. PICK b \in B : m = <<b, h[b]>> /\ h[b] # 0
    OBVIOUS
  <2>2. PICK x \in F : x[1] = b /\ x[2] = f[b]
    BY <1>3
  <2>3. PICK y \in G : y[1] = b /\ y[2] = g[b]
    BY <1>3
  <2> HIDE DEF F, G
  <2>4. PICK p : p = <<x, y>>
    OBVIOUS
  <2>5. p \in F \X G /\ p[1] = x /\ p[2] = y
    BY <2>4
  <2>6. (p[1][2] + p[2][2]) % Modulus = h[b]
    BY <2>2, <2>3, <2>5
  <2>7. p \in Pairs
    BY <2>1, <2>2, <2>3, <2>5, <2>6
  <2>8. m = <<p[1][1], (p[1][2] + p[2][2]) % Modulus>>
    BY <2>1, <2>2, <2>5, <2>6
  <2> QED
    BY <2>7, <2>8
<1>7. Merged = Out
  <2> HIDE DEF Merged, Out
  <2> QED
    BY <1>5, <1>6
<1> QED
  BY <1>4, <1>7 DEF Dpf!MergeHistogramOK, Dpf!MergeHistogram

\* Without noise a helper's result is the sums of its shares.
LEMMA NoNoise ==
  ASSUME NEW S, S = [b \in DOMAIN S |-> S[b]], \A b \in DOMAIN S : S[b] \in Word,
         NEW nz \in {[b \in DOMAIN S |-> 0]}
  PROVE  AggregatePartialReport(DOMAIN S, S, nz) = S
<1>1. \A b \in DOMAIN S : nz[b] = 0 /\ (S[b] + nz[b]) % Modulus = S[b]
  BY WordRemainder
<1> QED
  BY <1>1 DEF AggregatePartialReport

\* The merge tool and the aggregator put the two helpers' histograms together to
\* the sums of the reports themselves, and the tool leaves out the zero ones
\* (dpfaggregator.go:724-748, 813-831).
THEOREM MergedGivesTheSums == JobSpec => []MergedIsPlainHistogram
<1>1. ASSUME DataInv, Done("dpf"), ~ query.noised,
             NEW other \in PartialResults(Partner(helper), Dpf!AsQueryParams(Params), FALSE)
      PROVE  LET own == Dpf!ReadHistogram(files[HistogramName].lines)
                 lines == {<<b, other[b]>> : b \in DOMAIN other}
                 plain == [b \in DOMAIN own |-> PlainSum(b)]
             IN  /\ Mergeable(own, other) /\ MergePartialResult(own, other) = plain
                 /\ Dpf!MergeHistogramOK(files[HistogramName].lines, lines)
                 /\ Dpf!MergeHistogram(files[HistogramName].lines, lines)
                      = {<<b, plain[b]>> : b \in {x \in DOMAIN plain : plain[x] # 0}}
  <2> DEFINE params == Dpf!AsQueryParams(Params)
             B == ExpandedBuckets(params)
             S == ShareSums(query, level, helper)
             S2 == ShareSums(query, level, Partner(helper))
             file == files[HistogramName].lines
             own == Dpf!ReadHistogram(file)
             plain == [b \in DOMAIN own |-> PlainSum(b)]
  <2>1. /\ query.kind = "dpf" /\ query \in Queries /\ helper \in Helper
        /\ level \in 1 .. Len(query.levels) /\ LevelOf(query, level) = Params
        /\ CheckExpansionParameters(params)
    BY <1>1, DoneMergedAll DEF HasLevels
  <2>2. Partner(helper) \in Helper
    BY <2>1 DEF Helper, Partner
  <2>3. S \in [B -> Word] /\ S2 \in [B -> Word]
        /\ DpfVectors(Partner(helper), params.level, B) = {S2}
    BY <2>1, <2>2, ShareSumsFacts
  <2>4. PICK nz \in {[b \in B |-> 0]} :
          file = Graph(AggregatePartialReport(B, S, nz)) /\ own = AggregatePartialReport(B, S, nz)
    BY <1>1, DpfHistogram
  <2>5. \A b \in B : (S[b] + S2[b]) % Modulus = PlainSum(b)
    BY <1>1, SumsAddUp
  <2> HIDE DEF params, B, S, S2, file, own
  <2>6. DOMAIN S = B /\ DOMAIN S2 = B /\ S = [b \in B |-> S[b]] /\ S2 = [b \in B |-> S2[b]]
    BY <2>3
  <2>7. AggregatePartialReport(B, S, nz) = S
    BY <2>3, <2>6, NoNoise
  <2>8. own = S /\ file = Graph(S)
    BY <2>4, <2>7
  <2>9. other = S2
    <3>1. PICK shares \in {S2}, drawn \in {[b \in B |-> 0]} :
            other = AggregatePartialReport(B, shares, drawn)
      BY <1>1, <2>3 DEF PartialResults, B, params
    <3>2. AggregatePartialReport(B, S2, drawn) = S2
      BY <2>3, <2>6, NoNoise
    <3> QED
      BY <3>1, <3>2
  <2>10. DOMAIN plain = B /\ \A b \in B : plain[b] = PlainSum(b)
    BY <2>6, <2>8
  <2>11. Mergeable(own, other)
    BY <2>6, <2>8, <2>9 DEF Mergeable
  <2>12. MergePartialResult(own, other) = plain
    BY <2>5, <2>6, <2>8, <2>9 DEF MergePartialResult
  <2> HIDE DEF plain
  <2>13. /\ Dpf!MergeHistogramOK(Graph(S), Graph(S2))
         /\ Dpf!MergeHistogram(Graph(S), Graph(S2))
              = {<<b, plain[b]>> : b \in {x \in DOMAIN plain : plain[x] # 0}}
    BY <2>5, <2>6, <2>10, MergeGraphs
  <2>14. Graph(S2) = {<<b, other[b]>> : b \in DOMAIN other}
    BY <2>9 DEF Graph
  <2> QED
    BY <2>8, <2>11, <2>12, <2>13, <2>14 DEF plain, own, file
<1>2. DataInv => MergedIsPlainHistogram
  BY <1>1 DEF MergedIsPlainHistogram
<1> QED
  BY <1>2, DataInvariant, PTL
-----------------------------------------------------------------------------
(* What the two helpers make of their reach results. *)

\* The files of a done reach job have its lines, those of a lost run included.
LEMMA ReachWritten ==
  ASSUME DataInv, Done("reach")
  PROVE  /\ query \in Queries /\ helper \in Helper /\ Reach!ExpandOK(query.reach)
         /\ LinesOf("histogram", level) = ReachLines("histogram")
         /\ LinesOf("rq", level) = ReachLines("rq")
<1>1. job = "done" /\ query.kind = "reach" /\ query \in Queries /\ helper \in Helper
  BY DEF Done, DataInv, JobInv, ControlTypeOK
<1>2. unwritten = {}
  BY <1>1 DEF DataInv, JobInv, ControlTypeOK
<1>3. /\ TuplesExpand
      /\ \A n \in DOMAIN files : n.kind \in ReachKinds /\ files[n].lines \subseteq ReachLines(n.kind)
      /\ \A kind \in ReachKinds : \A v \in ReachLines(kind) :
           \E n \in Glob(kind, level) : v \in files[n].lines
  BY <1>1, <1>2 DEF DataInv, ReachInv
<1>4. ASSUME NEW kind \in ReachKinds
      PROVE  LinesOf(kind, level) = ReachLines(kind)
  <2>1. \A n \in Glob(kind, level) : files[n].lines \subseteq ReachLines(kind)
    BY <1>3 DEF Glob
  <2>2. \A v \in ReachLines(kind) : \E n \in Glob(kind, level) : v \in files[n].lines
    BY <1>3
  <2> QED
    BY <2>1, <2>2 DEF LinesOf
<1> QED
  BY <1>1, <1>3, <1>4 DEF TuplesExpand, ReachKinds

\* The lines of the RQ file of such sums.
Randomness(f) == [b \in DOMAIN f |-> [R |-> f[b]["R"], Q |-> f[b]["Q"]]]

\* They are what the other helper reads.
LEMMA RandomnessLines ==
  ASSUME NEW f
  PROVE  {Reach!FormatRQ(pair) : pair \in Graph(f)} = Graph(Randomness(f))
<1> DEFINE g == Randomness(f)
<1>1. ASSUME NEW b \in DOMAIN f
      PROVE  Reach!FormatRQ(<<b, f[b]>>) = <<b, g[b]>>
  BY DEF Reach!FormatRQ, Randomness
<1>2. DOMAIN g = DOMAIN f
  BY DEF Randomness
<1>3. {Reach!FormatRQ(pair) : pair \in Graph(f)} = {Reach!FormatRQ(<<b, f[b]>>) : b \in DOMAIN f}
  BY DEF Graph
<1> HIDE DEF g
<1>4. Graph(g) = {<<b, g[b]>> : b \in DOMAIN f}
  BY <1>2 DEF Graph
<1>5. {Reach!FormatRQ(<<b, f[b]>>) : b \in DOMAIN f} = {<<b, g[b]>> : b \in DOMAIN f}
  BY <1>1
<1> QED
  BY <1>3, <1>4, <1>5 DEF g

\* What the helper's two files and the partner's say.
LEMMA ReachFilesRead ==
  ASSUME DataInv, Done("reach")
  PROVE  /\ Reach!ReadLines(LinesOf("histogram", level)) = ReachSums(query, helper)
         /\ Reach!ReadLines(LinesOf("rq", level)) = Randomness(ReachSums(query, helper))
         /\ Reach!ReadLines(ReachPartner) = ReachSums(query, Partner(helper))
         /\ Reach!ReadLines({Reach!FormatRQ(line) : line \in ReachPartner})
              = Randomness(ReachSums(query, Partner(helper)))
<1> DEFINE own == ReachSums(query, helper)
           other == ReachSums(query, Partner(helper))
           n == Reach!VectorLength(query.reach)
           one == Reach!Segments(n, [direct |-> TRUE])
<1>1. /\ query \in Queries /\ helper \in Helper /\ Reach!ExpandOK(query.reach)
      /\ LinesOf("histogram", level) = ReachLines("histogram")
      /\ LinesOf("rq", level) = ReachLines("rq") /\ query.kind = "reach"
  BY ReachWritten DEF Done
<1>2. Partner(helper) \in Helper
  BY <1>1 DEF Helper, Partner
<1>3. Covers(ReachSegments(query), n) /\ Covers(one, n)
  BY <1>1, ReachCovers
<1>4. AccOf(Report) = TupleSums(ReachSegments(query), ReachVector(query, helper), Report)
  BY <1>1 DEF AccOf, AccFor
<1>5. ReachPairs = Graph(own)
  BY <1>1, <1>3, <1>4, ReachAligned DEF ReachPairs
<1>6. ReachPartner = Graph(other)
  <2>1. FSets!FoldSet(LAMBDA r, acc : Reach!AddInput(acc, Reach!ExpandDpfKey(query.reach, ReachKey(Partner(helper), r))),
                      Reach!CreateAccumulator(one), Report)
          = TupleSums(one, ReachVector(query, Partner(helper)), Report)
    BY <1>1, <1>2, <1>3, FoldGivesSums
  <2>2. ReachPartner = Reach!AlignVector(query.reach, TupleSums(one, ReachVector(query, Partner(helper)), Report))
    BY <2>1 DEF ReachPartner
  <2> QED
    BY <1>1, <1>3, <2>2, ReachAligned
<1>7. own = [b \in DOMAIN own |-> own[b]] /\ other = [b \in DOMAIN other |-> other[b]]
  BY DEF ReachSums
<1>8. /\ Randomness(own) = [b \in DOMAIN Randomness(own) |-> Randomness(own)[b]]
      /\ Randomness(other) = [b \in DOMAIN Randomness(other) |-> Randomness(other)[b]]
  BY DEF Randomness
<1>9. /\ LinesOf("histogram", level) = Graph(own)
      /\ LinesOf("rq", level) = {Reach!FormatRQ(pair) : pair \in Graph(own)}
  BY <1>1, <1>5 DEF ReachLines
<1> HIDE DEF own, other
<1>10. /\ LinesOf("rq", level) = Graph(Randomness(own))
       /\ {Reach!FormatRQ(line) : line \in ReachPartner} = Graph(Randomness(other))
  BY <1>6, <1>9, RandomnessLines
<1> QED
  BY <1>6, <1>7, <1>8, <1>9, <1>10, ReadGraph DEF own, other

\* The reports of a bucket are those of its index.
LEMMA ReachOfIndex ==
  ASSUME query \in Queries, Reach!ExpandOK(query.reach), NEW k \in Nat
  PROVE  ReachOf(k * BucketSize(query)) = ReportsAt(query, k)
<1>1. PICK b : b = k * BucketSize(query)
  OBVIOUS
<1>2. b \div BucketSize(query) = k
  BY <1>1, BucketIndex
<1>3. CASE query.reach.useHierarchy
  BY <1>1, <1>2, <1>3, Zenon DEF ReachOf, ReportsAt, BucketSize
<1>4. CASE ~ query.reach.useHierarchy
  <2>1. BucketSize(query) = 1
    BY <1>4, PowerZero DEF BucketSize, Reach!SuffixBitSize
  <2>2. b = k
    BY <1>1, <2>1
  <2>3. \A r \in Report : Raw[r].bucket \in Nat
    BY ReportsAssumption
  <2>4. \A i \in Nat : i \div 1 = i
    OBVIOUS
  <2>5. \A r \in Report : Raw[r].bucket \div BucketSize(query) = Raw[r].bucket
    BY <2>1, <2>3, <2>4
  <2>6. ReachOf(b) = {r \in Report : Raw[r].bucket = k}
    BY <1>4, <2>2 DEF ReachOf
  <2>7. ReachOf(b) = ReportsAt(query, k)
    BY <2>5, <2>6, Zenon DEF ReportsAt
  <2> QED
    BY <1>1, <2>7, Zenon
<1> QED
  BY <1>3, <1>4

\* Reports of at most one person have a person in common.
LEMMA OnePerson ==
  ASSUME NEW R \in SUBSET Report, Cardinality({Raw[r].person : r \in R}) <= 1
  PROVE  \E p \in Int : \A r \in R : Raw[r].person = p
<1> DEFINE P == {Raw[r].person : r \in R}
<1>1. \A r \in R : Raw[r].person \in Int /\ Raw[r].person \in P
  BY ReportsAssumption, WordRemainder
<1>2. IsFiniteSet(P)
  <2>1. IsFiniteSet(R)
    BY ReportsAssumption, FS_Subset
  <2> DEFINE person == [r \in R |-> Raw[r].person]
  <2>2. person \in Surjection(R, P)
    BY DEF Surjection
  <2> QED
    BY <2>1, <2>2, FS_Surjection
<1>3. CASE R = {}
  <2>1. PICK z \in Int : z = 0
    OBVIOUS
  <2> QED
    BY <1>3, <2>1
<1>4. CASE R # {}
  <2>1. PICK r \in R : TRUE
    BY <1>4
  <2>2. Cardinality(P) \in Nat /\ P # {} /\ Cardinality(P) <= 1
    BY <1>1, <1>2, <2>1, FS_CardinalityType
  <2> HIDE DEF P
  <2>3. Cardinality(P) = 1
    BY <1>2, <2>2, FS_EmptySet
  <2>4. PICK p : P = {p}
    BY <1>2, <2>3, FS_Singleton
  <2>5. \A s \in R : Raw[s].person = p
    BY <1>1, <2>4
  <2> QED
    BY <1>1, <2>1, <2>5
<1> QED
  BY <1>3, <1>4

\* The merged result of two helpers' sums of one bucket.
LEMMA ReachBucket ==
  ASSUME NEW B, NEW s, NEW o, DOMAIN s = B, DOMAIN o = B, NEW b \in B
  PROVE  LET merged1 == Reach!CreatePartialResult(Randomness(o), s)
             merged2 == Reach!CreatePartialResult(Randomness(s), o)
             result == Reach!MergeReachResults(merged1, merged2)
         IN  /\ DOMAIN result = B
             /\ result[b].count = (s[b]["C"] + o[b]["C"]) % Modulus
             /\ result[b].verification =
                  Verification(Modulus, s[b]["R"], s[b]["Q"], s[b]["Rf"], s[b]["Qf"],
                               o[b]["R"], o[b]["Q"], o[b]["Rf"], o[b]["Qf"])
<1>1. /\ Randomness(o)[b] = [R |-> o[b]["R"], Q |-> o[b]["Q"]]
      /\ Randomness(s)[b] = [R |-> s[b]["R"], Q |-> s[b]["Q"]]
  BY DEF Randomness
<1> DEFINE m1 == Reach!CreatePartialResult(Randomness(o), s)
           m2 == Reach!CreatePartialResult(Randomness(s), o)
<1>2. PICK v1 : v1 = (((o[b]["R"] + s[b]["R"]) * s[b]["Qf"])
                        - ((o[b]["Q"] + s[b]["Q"]) * s[b]["Rf"])) % Modulus
  OBVIOUS
<1>3. PICK v2 : v2 = (((s[b]["R"] + o[b]["R"]) * o[b]["Qf"])
                        - ((s[b]["Q"] + o[b]["Q"]) * o[b]["Rf"])) % Modulus
  OBVIOUS
<1>4. PICK ro, rs : ro = Randomness(o)[b] /\ rs = Randomness(s)[b]
  OBVIOUS
<1>5. ro.R = o[b]["R"] /\ ro.Q = o[b]["Q"] /\ rs.R = s[b]["R"] /\ rs.Q = s[b]["Q"]
  BY <1>1, <1>4
<1>6. /\ DOMAIN m1 = B
      /\ m1[b] = [count |-> s[b]["C"],
                  verification |-> (((ro.R + s[b]["R"]) * s[b]["Qf"])
                                      - ((ro.Q + s[b]["Q"]) * s[b]["Rf"])) % Modulus]
  BY <1>4, Zenon DEF Reach!CreatePartialResult
<1>7. m2[b] = [count |-> o[b]["C"],
               verification |-> (((rs.R + o[b]["R"]) * o[b]["Qf"])
                                   - ((rs.Q + o[b]["Q"]) * o[b]["Rf"])) % Modulus]
  BY <1>4, Zenon DEF Reach!CreatePartialResult
<1>8. m1[b] = [count |-> s[b]["C"], verification |-> v1]
  BY <1>2, <1>5, <1>6, Zenon
<1>9. m2[b] = [count |-> o[b]["C"], verification |-> v2]
  BY <1>3, <1>5, <1>7, Zenon
<1> HIDE DEF m1, m2
<1>10. /\ DOMAIN Reach!MergeReachResults(m1, m2) = B
       /\ Reach!MergeReachResults(m1, m2)[b]
            = [count |-> (m1[b].count + m2[b].count) % Modulus,
               verification |-> (m1[b].verification + m2[b].verification) % Modulus]
  BY <1>6 DEF Reach!MergeReachResults
<1>11. /\ Reach!MergeReachResults(m1, m2)[b].count = (s[b]["C"] + o[b]["C"]) % Modulus
       /\ Reach!MergeReachResults(m1, m2)[b].verification = (v1 + v2) % Modulus
  BY <1>8, <1>9, <1>10
<1> QED
  BY <1>2, <1>3, <1>10, <1>11, Zenon DEF m1, m2, Verification

\* For sums of reports of one person the verification is 0.
LEMMA ReachBucketVerifies ==
  ASSUME NEW q \in Queries, NEW h \in Helper, Reach!ExpandOK(q.reach),
         NEW k \in 0 .. Reach!VectorLength(q.reach) - 1, NEW p \in Int,
         \A r \in ReportsAt(q, k) : Raw[r].person = p,
         NEW s, NEW o, s = ReachSums(q, h)[k * BucketSize(q)],
         o = ReachSums(q, Partner(h))[k * BucketSize(q)]
  PROVE  Verification(Modulus, s["R"], s["Q"], s["Rf"], s["Qf"],
                               o["R"], o["Q"], o["Rf"], o["Qf"]) = 0
<1>1. Modulus \in Nat \ {0} /\ Partner(h) \in Helper /\ Partner(Partner(h)) = h
  BY WordRemainder DEF Helper, Partner
<1>2. ASSUME NEW x \in Reach!Fields
      PROVE  /\ s[x] \in Int /\ o[x] \in Int
             /\ (s[x] + o[x]) % Modulus = FieldSum(q, x, k) % Modulus
  BY <1>1, ReachSharesAddUp
<1>3. {"R", "Q", "Rf", "Qf"} \subseteq Reach!Fields
  BY DEF Reach!Fields
<1>4. /\ FieldSum(q, "Rf", k) % Modulus = (p * FieldSum(q, "R", k)) % Modulus
      /\ FieldSum(q, "Qf", k) % Modulus = (p * FieldSum(q, "Q", k)) % Modulus
      /\ FieldSum(q, "R", k) \in Int /\ FieldSum(q, "Q", k) \in Int
  BY ReachProducts
<1>5. PICK v \in Int : v = FieldSum(q, "R", k)
  BY <1>4
<1>6. PICK w \in Int : w = FieldSum(q, "Q", k)
  BY <1>4
<1>7. /\ s["R"] \in Int /\ s["Q"] \in Int /\ s["Rf"] \in Int /\ s["Qf"] \in Int
      /\ o["R"] \in Int /\ o["Q"] \in Int /\ o["Rf"] \in Int /\ o["Qf"] \in Int
  BY <1>2, <1>3
<1>8. /\ (s["R"] + o["R"]) % Modulus = v % Modulus
      /\ (s["Q"] + o["Q"]) % Modulus = w % Modulus
      /\ (s["Rf"] + o["Rf"]) % Modulus = (p * v) % Modulus
      /\ (s["Qf"] + o["Qf"]) % Modulus = (p * w) % Modulus
  BY <1>2, <1>3, <1>4, <1>5, <1>6
<1>9. OfOnePerson(Modulus, p, v, w, s["R"], s["Q"], s["Rf"], s["Qf"],
                  o["R"], o["Q"], o["Rf"], o["Qf"])
  BY <1>1, <1>7, <1>8, Zenon DEF OfOnePerson
<1> QED
  BY <1>9, Cancels, SMTT(60)

\* The two helpers' results have the same buckets, count the reports of each, and
\* verify a bucket with reports of one person, however its runs, segments and shards
\* were cut (reachaggregator.go:531-558, 622-643).
THEOREM ReachResultsVerify == JobSpec => []ReachVerifies
<1>1. ASSUME DataInv, Done("reach")
      PROVE  LET own == LinesOf("histogram", level)
                 rq == LinesOf("rq", level)
                 other == ReachPartner
                 otherRQ == {Reach!FormatRQ(line) : line \in other}
                 merged1 == Reach!CreatePartialResult(Reach!ReadLines(otherRQ), Reach!ReadLines(own))
                 merged2 == Reach!CreatePartialResult(Reach!ReadLines(rq), Reach!ReadLines(other))
                 result == Reach!MergeReachResults(merged1, merged2)
             IN  /\ Reach!CreatePartialResultOK(Reach!ReadLines(otherRQ), Reach!ReadLines(own))
                 /\ Reach!CreatePartialResultOK(Reach!ReadLines(rq), Reach!ReadLines(other))
                 /\ \A b \in DOMAIN result :
                      /\ result[b].count = Cardinality(ReachOf(b)) % Modulus
                      /\ Cardinality({Raw[r].person : r \in ReachOf(b)}) <= 1 =>
                           result[b].verification = 0
  <2> DEFINE s == ReachSums(query, helper)
             o == ReachSums(query, Partner(helper))
             B == ReachBuckets(query)
             result == Reach!MergeReachResults(Reach!CreatePartialResult(Randomness(o), s),
                                               Reach!CreatePartialResult(Randomness(s), o))
  <2>1. query \in Queries /\ helper \in Helper /\ Reach!ExpandOK(query.reach)
    BY <1>1, ReachWritten
  <2>2. /\ Reach!ReadLines(LinesOf("histogram", level)) = s
        /\ Reach!ReadLines(LinesOf("rq", level)) = Randomness(s)
        /\ Reach!ReadLines(ReachPartner) = o
        /\ Reach!ReadLines({Reach!FormatRQ(line) : line \in ReachPartner}) = Randomness(o)
    BY <1>1, ReachFilesRead
  <2>3. DOMAIN s = B /\ DOMAIN o = B
    BY DEF ReachSums
  <2>4. DOMAIN Randomness(s) = B /\ DOMAIN Randomness(o) = B
    BY <2>3 DEF Randomness
  <2>5. \A b \in B : \E k \in 0 .. Reach!VectorLength(query.reach) - 1 : b = k * BucketSize(query)
    BY DEF ReachBuckets
  <2> HIDE DEF B
  <2>6. ASSUME NEW b \in B
        PROVE  /\ DOMAIN result = B
               /\ result[b].count = (s[b]["C"] + o[b]["C"]) % Modulus
               /\ result[b].verification =
                    Verification(Modulus, s[b]["R"], s[b]["Q"], s[b]["Rf"], s[b]["Qf"],
                                 o[b]["R"], o[b]["Q"], o[b]["Rf"], o[b]["Qf"])
    <3> HIDE DEF s, o
    <3> QED
      BY <2>3, ReachBucket
  <2>7. DOMAIN result = B
    BY <2>3, Zenon DEF Reach!MergeReachResults, Reach!CreatePartialResult
  <2>8. ASSUME NEW b \in B
        PROVE  /\ result[b].count = Cardinality(ReachOf(b)) % Modulus
               /\ Cardinality({Raw[r].person : r \in ReachOf(b)}) <= 1 => result[b].verification = 0
    <3>1. PICK k \in 0 .. Reach!VectorLength(query.reach) - 1 : b = k * BucketSize(query)
      BY <2>5
    <3>2. k \in Nat
      OBVIOUS
    <3>3. ReachOf(b) = ReportsAt(query, k)
      BY <2>1, <3>1, <3>2, ReachOfIndex
    <3>4. (s[b]["C"] + o[b]["C"]) % Modulus = FieldSum(query, "C", k) % Modulus
      <4>1. "C" \in Reach!Fields
        BY DEF Reach!Fields
      <4> QED
        BY <2>1, <3>1, <4>1, ReachSharesAddUp
    <3>5. FieldSum(query, "C", k) = Cardinality(ReachOf(b))
      BY <2>1, <3>3, ReachCounts
    <3>6. ASSUME Cardinality({Raw[r].person : r \in ReachOf(b)}) <= 1
          PROVE  Verification(Modulus, s[b]["R"], s[b]["Q"], s[b]["Rf"], s[b]["Qf"],
                              o[b]["R"], o[b]["Q"], o[b]["Rf"], o[b]["Qf"]) = 0
      <4>1. ReachOf(b) \in SUBSET Report
        BY DEF ReachOf
      <4>2. PICK p \in Int : \A r \in ReportsAt(query, k) : Raw[r].person = p
        BY <3>3, <3>6, <4>1, OnePerson
      <4> QED
        BY <2>1, <3>1, <4>2, ReachBucketVerifies
    <3> HIDE DEF result, s, o
    <3> QED
      BY <2>6, <3>4, <3>5, <3>6, Zenon
  <2> HIDE DEF s, o
  <2> QED
    BY <2>2, <2>3, <2>4, <2>7, <2>8 DEF Reach!CreatePartialResultOK, result
<1>2. DataInv => ReachVerifies
  BY <1>1 DEF ReachVerifies
<1> QED
  BY <1>2, DataInvariant, PTL
-----------------------------------------------------------------------------
(* What the next level reads, also where the files of two runs are mixed. *)

PassedOnInv == level > 1 => ParametersRefused \/ Report \subseteq LinesOf("decrypted", 1)

\* A first level that is done has overwritten the shards it has lines for.
LEMMA DonePassesOn ==
  ASSUME JobInv, job = "done", WritesDecrypted
  PROVE  Report \subseteq LinesOf("decrypted", 1)
<1>1. ASSUME NEW r \in Report
      PROVE  r \in LinesOf("decrypted", 1)
  <2>1. PICK n \in Glob("decrypted", 1) : r \in files[n].lines
    BY <1>1, DecryptedReportFound DEF JobInv
  <2> QED
    BY <2>1 DEF LinesOf
<1> QED
  BY <1>1

\* No step below the first level takes a report away, and none gets there without.
LEMMA Next_PassedOn ==
  ASSUME JobInv, PassedOnInv, [Next]_vars
  PROVE  PassedOnInv'
<1>1. ControlTypeOK /\ FilesInv /\ level \in Nat \ {0}
  BY QueryFacts DEF JobInv
<1>2. CASE NextLevel
  <2>1. /\ job = "done" /\ level' = level + 1 /\ query' = query /\ files' = files
        /\ HasLevels
    BY <1>2 DEF NextLevel
  <2>2. LinesOf("decrypted", 1)' = LinesOf("decrypted", 1)
    BY <2>1 DEF LinesOf, Glob
  <2>3. CASE level = 1 /\ ~ WritesDecrypted
    BY <1>1, <1>2, <2>3, NextIsRefused DEF PassedOnInv
  <2>4. CASE WritesDecrypted
    BY <2>1, <2>2, <2>4, DonePassesOn DEF PassedOnInv
  <2>5. CASE level # 1
    <3>1. ~ ParametersRefused
      BY <1>1, <2>1 DEF ControlTypeOK, CanStart, ParametersRefused, HasLevels
    <3> QED
      BY <1>1, <2>2, <2>5, <3>1 DEF PassedOnInv
  <2> QED
    BY <2>3, <2>4, <2>5
<1>3. ASSUME query' = query, level' = level,
             files' = files \/ \E f \in unwritten : WriteFile(f)
      PROVE  PassedOnInv'
  <2>1. CASE level > 1
    <3>1. /\ Glob("decrypted", 1)' = Glob("decrypted", 1)
          /\ \A n \in Glob("decrypted", 1) : files'[n] = files[n]
      BY <1>1, <1>3, <2>1, SameDecrypted
    <3>2. LinesOf("decrypted", 1)' = LinesOf("decrypted", 1)
      BY <3>1 DEF LinesOf
    <3>3. ParametersRefused' = ParametersRefused
      BY <1>3, SameLevel
    <3> QED
      BY <1>3, <2>1, <3>2, <3>3 DEF PassedOnInv
  <2>2. CASE ~ level > 1
    BY <1>3, <2>2 DEF PassedOnInv
  <2> QED
    BY <2>1, <2>2
<1>4. ASSUME ~ NextLevel
      PROVE  /\ query' = query /\ level' = level
             /\ files' = files \/ \E f \in unwritten : WriteFile(f)
  <2>1. CASE BeforeJob \/ UNCHANGED vars
    BY <2>1 DEF BeforeJob, vars, jobVars
  <2>2. CASE StartJob
    BY <2>2 DEF StartJob
  <2>3. CASE RunnerStep
    <3>1. CASE \E w \in Worker, line \in pending : ProcessElement(w, line) \/ BundleFails(w, line)
      BY <3>1 DEF ProcessElement, BundleFails, DropBundle
    <3>2. CASE \E w \in Worker : CommitBundle(w)
      BY <3>2 DEF CommitBundle
    <3>3. CASE ExtractOutput
      BY <3>3 DEF ExtractOutput
    <3>4. CASE \E f \in unwritten : WriteFile(f)
      BY <3>4 DEF WriteFile
    <3> QED
      BY <2>3, <3>1, <3>2, <3>3, <3>4 DEF RunnerStep
  <2>4. CASE Fault
    BY <2>4 DEF Fault, LoseWorker, DropBundle, WriteFails
  <2>5. CASE RestartJob
    BY <2>5 DEF RestartJob
  <2> QED
    BY <1>4, <2>1, <2>2, <2>3, <2>4, <2>5 DEF Next
<1> QED
  BY <1>2, <1>3, <1>4

\* Whatever a run that failed during its writes has left behind, the next level reads
\* every report (dpfaggregator.go:605-611, pipelineutils.go:52-63).
THEOREM ReportsArePassedOn == JobSpec => []EveryReportPassedOn
<1>1. JobInit => PassedOnInv
  BY DEF JobInit, PassedOnInv
<1>2. JobInv /\ PassedOnInv /\ [Next]_vars => PassedOnInv'
  BY Next_PassedOn
<1>3. JobInv /\ PassedOnInv => EveryReportPassedOn
  <2> SUFFICES ASSUME JobInv, PassedOnInv, job = "running", level > 1
               PROVE  Report \subseteq LinesOf("decrypted", 1)
    BY DonePassesOn DEF EveryReportPassedOn
  <2>1. ~ ParametersRefused
    <3>1. CanStart /\ HasLevels
      BY DEF JobInv, ControlTypeOK
    <3> QED
      BY <3>1 DEF CanStart, ParametersRefused, HasLevels
  <2> QED
    BY <2>1 DEF PassedOnInv
<1> QED
  BY <1>1, <1>2, <1>3, JobInvariant, PTL DEF JobSpec
-----------------------------------------------------------------------------
(* What is written are buckets and words, also where the files of two runs are *)
(* mixed and a report may be added up twice.                                   *)

\* The accumulator of a DPF job holds a word for each index.
HoldsWords(acc) ==
  /\ DOMAIN acc = DpfSegments(query, level)
  /\ \A s \in DOMAIN acc : /\ DOMAIN acc[s] = 0 .. s.length - 1
                           /\ \A i \in DOMAIN acc[s] : acc[s][i] \in Word

\* Every step of its combine keeps that.
LEMMA WordsKept ==
  ASSUME ControlTypeOK, query.kind = "dpf", CheckExpansionParameters(Dpf!AsQueryParams(Params))
  PROVE  /\ HoldsWords(CreateAccumulator)
         /\ \A acc : \A r \in Report : HoldsWords(acc) => HoldsWords(AddInput(acc, r))
         /\ \A a, b : HoldsWords(a) /\ HoldsWords(b) => HoldsWords(MergeAccumulators(a, b))
<1> DEFINE S == DpfSegments(query, level)
           par == LevelOf(query, level)
           n == Dpf!VectorLength(par)
           p == DpfVector(query, level, helper)
<1>1. /\ query \in Queries /\ level \in 1 .. Len(query.levels) /\ helper \in Helper
      /\ par = Params
  BY DEF ControlTypeOK, LevelOf, Params
<1>2. Covers(S, n) /\ \A r \in Report, k \in 0 .. n - 1 : p[r][k] \in Int
  BY <1>1, DpfVectorFacts
<1>3. Modulus \in Nat \ {0} /\ 0 \in Word /\ \A x \in Word : x \in Int
  BY WordRemainder DEF Word
<1>4. \A x \in Int : x % Modulus \in Word
  BY <1>3, DivMod DEF Word
<1>5. CreateAccumulator = [s \in S |-> [i \in 0 .. s.length - 1 |-> 0]]
  BY <1>1 DEF CreateAccumulator, Dpf!CreateAccumulator, DpfSegments, Dpf!Indexes
<1>6. ASSUME NEW acc, NEW r \in Report
      PROVE  AddInput(acc, r) = Dpf!AddInput(acc, p[r])
  BY <1>1 DEF AddInput, DpfVector
<1>7. ASSUME NEW a, NEW b
      PROVE  MergeAccumulators(a, b) = Dpf!MergeAccumulators(a, b)
  BY DEF MergeAccumulators
<1>8. HoldsWords(CreateAccumulator)
  <2> HIDE DEF S
  <2>1. DOMAIN CreateAccumulator = S
    BY <1>5
  <2>2. \A s \in S : CreateAccumulator[s] = [i \in 0 .. s.length - 1 |-> 0]
    BY <1>5
  <2>3. ASSUME NEW s \in S
        PROVE  /\ DOMAIN CreateAccumulator[s] = 0 .. s.length - 1
               /\ \A i \in 0 .. s.length - 1 : CreateAccumulator[s][i] \in Word
    <3> HIDE DEF p, n, par
    <3>1. CreateAccumulator[s] = [i \in 0 .. s.length - 1 |-> 0]
      BY <2>2
    <3> QED
      BY <1>3, <3>1
  <2> QED
    BY <2>1, <2>3 DEF HoldsWords, S
<1>9. ASSUME NEW acc, NEW r \in Report, HoldsWords(acc)
      PROVE  HoldsWords(Dpf!AddInput(acc, p[r]))
  <2> DEFINE e == Dpf!AddInput(acc, p[r])
  <2>1. DOMAIN acc = S /\ \A s \in S : /\ DOMAIN acc[s] = 0 .. s.length - 1
                                       /\ \A i \in 0 .. s.length - 1 : acc[s][i] \in Word
    BY <1>9 DEF HoldsWords
  <2> HIDE DEF S, p, n
  <2>2. DOMAIN e = S
    BY <2>1 DEF Dpf!AddInput
  <2>3. ASSUME NEW s \in S
        PROVE  DOMAIN e[s] = 0 .. s.length - 1 /\ \A i \in 0 .. s.length - 1 : e[s][i] \in Word
    <3>1. e[s] = [i \in 0 .. s.length - 1 |-> (acc[s][i] + p[r][i + s.start]) % Modulus]
      BY <2>1 DEF Dpf!AddInput
    <3>2. ASSUME NEW i \in 0 .. s.length - 1
          PROVE  (acc[s][i] + p[r][i + s.start]) % Modulus \in Word
      <4>1. i + s.start \in 0 .. n - 1
        BY <1>2 DEF Covers
      <4>2. p[r][i + s.start] \in Int
        BY <1>2, <4>1
      <4>3. acc[s][i] \in Int
        BY <1>3, <2>1
      <4> QED
        BY <1>4, <4>2, <4>3
    <3> QED
      BY <3>1, <3>2
  <2> HIDE DEF e
  <2> QED
    BY <2>2, <2>3 DEF HoldsWords, S, e
<1>10. ASSUME NEW a, NEW b, HoldsWords(a), HoldsWords(b)
       PROVE  HoldsWords(Dpf!MergeAccumulators(a, b))
  <2> DEFINE e == Dpf!MergeAccumulators(a, b)
  <2>1. DOMAIN a = S /\ \A s \in S : /\ DOMAIN a[s] = 0 .. s.length - 1
                                     /\ \A i \in 0 .. s.length - 1 : a[s][i] \in Word /\ b[s][i] \in Word
    BY <1>10 DEF HoldsWords
  <2> HIDE DEF S
  <2>2. DOMAIN e = S
    BY <2>1 DEF Dpf!MergeAccumulators
  <2>3. ASSUME NEW s \in S
        PROVE  DOMAIN e[s] = 0 .. s.length - 1 /\ \A i \in 0 .. s.length - 1 : e[s][i] \in Word
    <3>1. e[s] = [i \in 0 .. s.length - 1 |-> (a[s][i] + b[s][i]) % Modulus]
      BY <2>1 DEF Dpf!MergeAccumulators
    <3>2. \A i \in 0 .. s.length - 1 : a[s][i] + b[s][i] \in Int
      BY <1>3, <2>1
    <3> QED
      BY <1>4, <3>1, <3>2
  <2> HIDE DEF e
  <2> QED
    BY <2>2, <2>3 DEF HoldsWords, S, e
<1> QED
  BY <1>6, <1>7, <1>8, <1>9, <1>10

\* The buckets of a level are numbers.
LEMMA BucketsAreNumbers ==
  ASSUME NEW q \in Queries, NEW l \in 1 .. Len(q.levels),
         CheckExpansionParameters(Dpf!AsQueryParams(LevelOf(q, l)))
  PROVE  ExpandedBuckets(Dpf!AsQueryParams(LevelOf(q, l))) \subseteq Nat
<1> DEFINE par == LevelOf(q, l)
           a == Dpf!AsQueryParams(par)
<1>1. par \in LevelParams
  BY LevelFacts
<1>2. /\ a.level = par.level /\ a.previousLevel = par.previousLevel /\ a.direct = par.direct
      /\ a.prefixes = {par.prefixes[i] : i \in 1 .. Len(par.prefixes)}
      /\ par.previousLevel \in -1 .. par.level - 1 /\ par.level \in 0 .. KeyBitSize - 1
  BY <1>1, ParamsFacts
<1>3. par.prefixes \in Seq(Nat)
  BY <1>1 DEF LevelParams
<1>4. a.prefixes \subseteq Nat
  <2> HIDE DEF par
  <2> QED
    BY <1>2, <1>3, ElementOfSeq
<1>5. ASSUME NEW b \in ExpandedBuckets(a)
      PROVE  b \in Nat
  <2> HIDE DEF a
  <2>1. CASE a.direct
    BY <1>4, <2>1 DEF ExpandedBuckets
  <2>2. CASE ~ a.direct /\ a.previousLevel = -1
    <3>1. b \in 0 .. ExpansionSize(a.level + 1) - 1
      BY <2>2 DEF ExpandedBuckets
    <3> QED
      BY <3>1
  <2>3. CASE ~ a.direct /\ a.previousLevel # -1
    <3>1. PICK size \in Nat : size = ExpansionSize(a.level - a.previousLevel)
      <4>1. a.level - a.previousLevel \in Nat
        BY <1>2, QueryAssumption
      <4> QED
        BY <4>1, PowerOfTwo DEF ExpansionSize
    <3>2. PICK x \in a.prefixes, j \in 0 .. size - 1 : b = x * size + j
      BY <2>3, <3>1 DEF ExpandedBuckets
    <3>3. PICK y \in Nat : y = x * size
      BY <1>4
    <3> QED
      BY <3>2, <3>3
  <2> QED
    BY <2>1, <2>2, <2>3
<1> QED
  BY <1>5

\* A line of a file: a bucket and a word.
IsLine(v) == v[1] \in Nat /\ v[2] \in Word

\* The aligned sums of a DPF job are such lines.
LEMMA AlignedWords ==
  ASSUME ControlTypeOK, query.kind = "dpf", CheckExpansionParameters(Dpf!AsQueryParams(Params)),
         HoldsWords(merged), NEW v \in Aligned
  PROVE  IsLine(v)
<1> DEFINE par == LevelOf(query, level)
           ids == Dpf!AllBucketIDs(par)
           n == Dpf!VectorLength(par)
           id(s, i) == IF ids # <<>> THEN ids[i + s.start + 1] ELSE i + s.start
<1>1. /\ query \in Queries /\ level \in 1 .. Len(query.levels) /\ helper \in Helper
      /\ par = Params
  BY DEF ControlTypeOK, LevelOf, Params
<1>2. Expands(par) /\ Covers(DpfSegments(query, level), n)
  BY <1>1, DpfVectorFacts
<1>3. Aligned = UNION {{<<id(s, i), merged[s][i]>> : i \in DOMAIN merged[s]} : s \in DOMAIN merged}
  BY <1>1 DEF Aligned, Dpf!AlignVector
<1> HIDE DEF ids
<1>4. PICK s \in DOMAIN merged : v \in {<<id(s, i), merged[s][i]>> : i \in DOMAIN merged[s]}
  BY <1>3
<1>5. PICK i \in DOMAIN merged[s] : v = <<id(s, i), merged[s][i]>>
  BY <1>4
<1>6. s \in DpfSegments(query, level) /\ i \in 0 .. s.length - 1 /\ merged[s][i] \in Word
  BY DEF HoldsWords
<1>7. i + s.start \in 0 .. n - 1
  BY <1>2, <1>6 DEF Covers
<1>8. id(s, i) = BucketAt(par, i + s.start)
  BY DEF BucketAt, ids
<1>9. id(s, i) \in ExpandedBuckets(Dpf!AsQueryParams(par))
  BY <1>2, <1>7, <1>8 DEF Expands
<1>10. ExpandedBuckets(Dpf!AsQueryParams(par)) \subseteq Nat
  BY <1>1, BucketsAreNumbers
<1> HIDE DEF id
<1>11. v[1] = id(s, i) /\ v[2] = merged[s][i]
  BY <1>5
<1> QED
  BY <1>6, <1>9, <1>10, <1>11 DEF IsLine

\* What is added up, about to be written or written has its type.
AccumulatorsInv ==
  query.kind = "dpf" /\ job \in {"running", "writing", "done"} =>
    HoldsWords(merged) /\ \A w \in Worker : HoldsWords(bundle[w].acc)

ValuesInv ==
  /\ job = "writing" => \A f \in unwritten : f[1].kind # "decrypted" =>
       \A v \in f[2] : IsValue(f[1].kind, v)
  /\ \A n \in DOMAIN files : n.kind # "decrypted" =>
       \A v \in files[n].lines : IsValue(n.kind, v)

\* With noise it is one, too.
LEMMA HistogramWords ==
  ASSUME \A pair \in Aligned : IsLine(pair), NEW lines \in Histograms, NEW v \in lines,
         query.kind # "reach"
  PROVE  IsLine(v)
<1>1. CASE ~ query.noised
  BY <1>1 DEF Histograms
<1>2. CASE query.noised
  <2>1. PICK noise \in [Aligned -> Noise] : lines = {AddNoise(pair, noise[pair]) : pair \in Aligned}
    BY <1>2 DEF Histograms
  <2>2. PICK pair \in Aligned : v = AddNoise(pair, noise[pair])
    BY <2>1
  <2>3. PICK d \in Int : d = noise[pair]
    BY JobAssumption
  <2>4. v = <<pair[1], (pair[2] + d) % Modulus>>
    BY <2>2, <2>3 DEF AddNoise, Dpf!AddNoise, OneParty!AddNoise
  <2>5. v[1] = pair[1] /\ v[2] = (pair[2] + d) % Modulus
    BY <2>4
  <2>6. pair[1] \in Nat /\ pair[2] \in Int
    BY WordRemainder DEF IsLine
  <2>7. (pair[2] + d) % Modulus \in Word
    <3>1. PICK sum \in Int : sum = pair[2] + d
      BY <2>6
    <3>2. sum % Modulus \in Word
      BY DivMod, WordRemainder DEF Word
    <3> QED
      BY <3>1, <3>2
  <2> QED
    BY <2>5, <2>6, <2>7 DEF IsLine
<1> QED
  BY <1>1, <1>2

\* The lines of a one-party job are words at its targets.
LEMMA OnePartyWords ==
  ASSUME JobInv, WorkInv, ExtractOutput, query.kind = "one_party"
  PROVE  \A pair \in Aligned : IsLine(pair)
<1> USE DEF JobInv
<1>1. Working
  BY DEF Working, TuplesExpand, ExtractOutput, ControlTypeOK, HasLevels
<1>2. merged = AccOf(Committed)
  BY <1>1 DEF WorkInv, SumsInv
<1>3. merged = OneSums(Committed) /\ Committed \in SUBSET Report
  BY <1>2 DEF AccOf, AccFor, Committed
<1>4. ASSUME NEW b \in query.targets
      PROVE  OneParty!ValueAt(merged, b) \in Word /\ b \in Nat
  <2>1. /\ OneParty!ValueAt(merged, b) = SumOver(Committed, OfAll(b)) % Modulus
        /\ SumOver(Committed, OfAll(b)) \in Int
    BY <1>3, OneSumsValue
  <2>2. b \in Nat
    BY QueriesAssumption DEF ControlTypeOK
  <2> QED
    BY <2>1, <2>2, DivMod, WordRemainder DEF Word
<1>5. Aligned = {<<b, OneParty!ValueAt(merged, b)>> : b \in query.targets}
  BY DEF Aligned, OneParty!FilterBucket
<1> SUFFICES ASSUME NEW pair \in Aligned PROVE IsLine(pair)
  OBVIOUS
<1>6. PICK b \in query.targets : pair = <<b, OneParty!ValueAt(merged, b)>>
  BY <1>5
<1>7. pair[1] = b /\ pair[2] = OneParty!ValueAt(merged, b)
  BY <1>6
<1> QED
  BY <1>4, <1>7 DEF IsLine

\* The lines of a reach job are words at its buckets.
LEMMA ReachWords ==
  ASSUME ControlTypeOK, query.kind = "reach", Reach!ExpandOK(query.reach),
         NEW kind \in ReachKinds, NEW v \in ReachLines(kind)
  PROVE  IsValue(kind, v)
<1> DEFINE S == ReachSums(query, helper)
<1>1. /\ query \in Queries /\ helper \in Helper
  BY DEF ControlTypeOK
<1>2. AccOf(Report) = TupleSums(ReachSegments(query), ReachVector(query, helper), Report)
  BY DEF AccOf, AccFor
<1>3. ReachPairs = Graph(S)
  BY <1>1, <1>2, ReachAligned, ReachCovers DEF ReachPairs
<1>4. ASSUME NEW b \in DOMAIN S
      PROVE  b \in Nat /\ S[b] \in [Reach!Fields -> Word]
  <2>1. b \in ReachBuckets(query)
    BY DEF ReachSums
  <2>2. PICK k \in 0 .. Reach!VectorLength(query.reach) - 1 : b = k * BucketSize(query)
    BY <2>1 DEF ReachBuckets
  <2>3. BucketSize(query) \in Nat \ {0} /\ b \div BucketSize(query) = k
    BY <1>1, <2>2, BucketIndex
  <2>4. S[b] = TupleSum(ReachVector(query, helper), Report, k)
    BY <2>1, <2>3 DEF ReachSums
  <2>5. ASSUME NEW x \in Reach!Fields
        PROVE  SumOver(Report, TupleTerms(ReachVector(query, helper), x, k)) % Modulus \in Word
    <3> DEFINE f == TupleTerms(ReachVector(query, helper), x, k)
    <3>1. \A r \in Report : f[r] \in Int
      BY <1>1, ReachVectorFacts DEF TupleTerms
    <3> HIDE DEF f
    <3>2. SumOver(Report, f) \in Int
      BY <3>1, ReportsAssumption, SumAdd
    <3> QED
      BY <3>2, DivMod, WordRemainder DEF Word, f
  <2>6. b \in Nat
    BY <2>2, <2>3
  <2> QED
    BY <2>4, <2>5, <2>6 DEF TupleSum
<1> HIDE DEF S
<1>5. CASE kind = "histogram"
  <2>1. v \in Graph(S)
    BY <1>3, <1>5 DEF ReachLines
  <2>2. PICK b \in DOMAIN S : v = <<b, S[b]>>
    BY <2>1 DEF Graph
  <2>3. v[1] = b /\ v[2] = S[b]
    BY <2>2
  <2> QED
    BY <1>4, <1>5, <2>3 DEF IsValue
<1>6. CASE kind = "rq"
  <2>1. v \in {Reach!FormatRQ(pair) : pair \in Graph(S)}
    BY <1>3, <1>6 DEF ReachLines
  <2>2. PICK pair \in Graph(S) : v = Reach!FormatRQ(pair)
    BY <2>1
  <2>3. PICK b \in DOMAIN S : pair = <<b, S[b]>>
    BY DEF Graph
  <2>4. PICK fields \in [Reach!Fields -> Word] : fields = S[b]
    BY <1>4
  <2>5. v = <<b, [R |-> fields["R"], Q |-> fields["Q"]]>>
    BY <2>2, <2>3, <2>4 DEF Reach!FormatRQ
  <2>6. v[1] = b /\ v[2] = [R |-> fields["R"], Q |-> fields["Q"]]
    BY <2>5
  <2>7. fields["R"] \in Word /\ fields["Q"] \in Word
    BY DEF Reach!Fields
  <2>8. v[2].R \in Word /\ v[2].Q \in Word
    BY <2>6, <2>7
  <2>9. v[1] \in Nat
    BY <1>4, <2>6
  <2> QED
    BY <1>6, <2>8, <2>9, Zenon DEF IsValue
<1> QED
  BY <1>5, <1>6 DEF ReachKinds

\* What a step that writes nothing leaves has its type.
LEMMA SameValues ==
  ASSUME ValuesInv, query' = query, files' = files,
         job' = "writing" => job = "writing" /\ unwritten' = unwritten
  PROVE  ValuesInv'
<1>1. \A kind, v : IsValue(kind, v)' = IsValue(kind, v)
  BY DEF IsValue
<1> QED
  BY <1>1 DEF ValuesInv

\* The accumulators of a job have their type if its steps leave them alone.
LEMMA SameAccumulators ==
  ASSUME AccumulatorsInv, query' = query, level' = level, merged' = merged, bundle' = bundle,
         job' \in {"running", "writing", "done"} => job \in {"running", "writing", "done"}
  PROVE  AccumulatorsInv'
<1>1. \A acc : HoldsWords(acc)' = HoldsWords(acc)
  BY DEF HoldsWords
<1> QED
  BY <1>1 DEF AccumulatorsInv

\* So do the steps that add up, when they add typed values.
LEMMA AddsWords ==
  ASSUME JobInv, AccumulatorsInv, query.kind = "dpf", job = "running",
         query' = query, level' = level,
         \A w \in Worker : \/ bundle'[w].acc = bundle[w].acc
                           \/ bundle'[w].acc = CreateAccumulator
                           \/ \E r \in Report : bundle'[w].acc = AddInput(bundle[w].acc, r),
         \/ merged' = merged
         \/ \E w \in Worker : merged' = MergeAccumulators(merged, bundle[w].acc)
  PROVE  AccumulatorsInv'
<1>1. ControlTypeOK /\ CheckExpansionParameters(Dpf!AsQueryParams(Params))
  BY DEF JobInv, ControlTypeOK, CanStart, HasLevels
<1>2. /\ HoldsWords(CreateAccumulator)
      /\ \A acc : \A r \in Report : HoldsWords(acc) => HoldsWords(AddInput(acc, r))
      /\ \A a, b : HoldsWords(a) /\ HoldsWords(b) => HoldsWords(MergeAccumulators(a, b))
  BY <1>1, WordsKept
<1>3. HoldsWords(merged) /\ \A w \in Worker : HoldsWords(bundle[w].acc)
  BY DEF AccumulatorsInv
<1>4. HoldsWords(merged') /\ \A w \in Worker : HoldsWords(bundle'[w].acc)
  BY <1>2, <1>3
<1>5. \A acc : HoldsWords(acc)' = HoldsWords(acc)
  BY DEF HoldsWords
<1> QED
  BY <1>4, <1>5 DEF AccumulatorsInv

\* Every step keeps the accumulators' type.
LEMMA Next_Accumulators ==
  ASSUME DataInv, DataInv', AccumulatorsInv, [Next]_vars
  PROVE  AccumulatorsInv'
<1> USE DEF DataInv
<1>t. bundle = [w \in Worker |-> bundle[w]]
  BY DEF JobInv, ControlTypeOK
<1> SUFFICES ASSUME query'.kind = "dpf", job' \in {"running", "writing", "done"}
             PROVE  AccumulatorsInv'
  BY DEF AccumulatorsInv
<1>1. CASE BeforeJob \/ UNCHANGED vars \/ ExtractOutput \/ RestartJob
           \/ \E f \in unwritten : WriteFile(f) \/ WriteFails(f)
  <2>1. /\ query' = query /\ level' = level /\ merged' = merged /\ bundle' = bundle
        /\ job \in {"running", "writing", "done"}
    BY <1>1 DEF BeforeJob, vars, jobVars, workVars, ExtractOutput, RestartJob, WriteFile,
                WriteFails, Failure
  <2> QED
    BY <2>1, SameAccumulators
<1>2. CASE StartJob
  <2>1. /\ query' = query /\ level' = level /\ helper' = helper
        /\ merged' = CreateAccumulator /\ bundle' = [w \in Worker |-> EmptyBundle]
    BY <1>2 DEF StartJob
  <2>2. ControlTypeOK /\ CheckExpansionParameters(Dpf!AsQueryParams(Params))
    BY <1>2, <2>1 DEF JobInv, StartJob, CanStart, HasLevels
  <2>3. HoldsWords(CreateAccumulator)
    BY <2>1, <2>2, WordsKept
  <2>4. HoldsWords(merged') /\ \A w \in Worker : HoldsWords(bundle'[w].acc)
    BY <2>1, <2>3 DEF EmptyBundle
  <2>5. \A acc : HoldsWords(acc)' = HoldsWords(acc)
    BY <2>1 DEF HoldsWords
  <2> QED
    BY <2>4, <2>5 DEF AccumulatorsInv
<1>3. ASSUME NEW w \in Worker, NEW line \in pending, ProcessElement(w, line)
      PROVE  AccumulatorsInv'
  <2>1. /\ query' = query /\ level' = level /\ merged' = merged /\ job = "running"
    BY <1>3 DEF ProcessElement
  <2>2. line.report \in Report
    BY DEF JobInv, ControlTypeOK
  <2>3. PICK shard : bundle' = [bundle EXCEPT ![w] =
          [lines |-> @.lines \cup {line},
           sharded |-> IF WritesDecrypted THEN @.sharded \cup {<<line.report, shard>>} ELSE {},
           acc |-> AddInput(@.acc, line.report)]]
    BY <1>3 DEF ProcessElement
  <2>4. \A v \in Worker : bundle'[v].acc = IF v = w THEN AddInput(bundle[w].acc, line.report)
                                           ELSE bundle[v].acc
    BY <1>t, <2>3
  <2> QED
    BY <2>1, <2>2, <2>4, AddsWords
<1>4. ASSUME NEW w \in Worker, DropBundle(w), job = "running"
      PROVE  AccumulatorsInv'
  <2>1. /\ query' = query /\ level' = level /\ merged' = merged
        /\ bundle' = [bundle EXCEPT ![w] = EmptyBundle]
    BY <1>4 DEF DropBundle
  <2>2. \A v \in Worker : bundle'[v].acc = IF v = w THEN CreateAccumulator ELSE bundle[v].acc
    BY <1>t, <2>1 DEF EmptyBundle
  <2> QED
    BY <1>4, <2>1, <2>2, AddsWords
<1>5. ASSUME NEW w \in Worker, CommitBundle(w)
      PROVE  AccumulatorsInv'
  <2>1. /\ query' = query /\ level' = level /\ job = "running"
        /\ merged' = MergeAccumulators(merged, bundle[w].acc)
        /\ bundle' = [bundle EXCEPT ![w] = EmptyBundle]
    BY <1>5 DEF CommitBundle
  <2>2. \A v \in Worker : bundle'[v].acc = IF v = w THEN CreateAccumulator ELSE bundle[v].acc
    BY <1>t, <2>1 DEF EmptyBundle
  <2> QED
    BY <2>1, <2>2, AddsWords
<1>6. CASE NextLevel
  BY <1>6 DEF NextLevel
<1> QED
  BY <1>1, <1>2, <1>3, <1>4, <1>5, <1>6 DEF Next, RunnerStep, Fault, BundleFails, LoseWorker

\* And what is to be written is of its type.
LEMMA ExtractOutput_Values ==
  ASSUME DataInv, DataInv', AccumulatorsInv, ValuesInv, ExtractOutput
  PROVE  ValuesInv'
<1> USE DEF DataInv
<1>1. /\ query' = query /\ level' = level /\ helper' = helper /\ files' = files
      /\ job = "running" /\ job' = "writing" /\ unwritten' \in OutputFiles
      /\ ControlTypeOK
  BY DEF ExtractOutput, JobInv
<1>2. \A kind, v : IsValue(kind, v)' = IsValue(kind, v)
  BY <1>1 DEF IsValue
<1>3. CASE query.kind = "reach"
  <2>1. TuplesExpand' /\ TuplesExpand' = TuplesExpand
    BY <1>1, <1>3 DEF ReachInv, TuplesExpand
  <2>2. Reach!ExpandOK(query.reach)
    BY <1>3, <2>1 DEF TuplesExpand
  <2>3. \A f \in unwritten' : f[1].kind \in ReachKinds /\ f[2] \subseteq ReachLines(f[1].kind)'
    BY <1>1, <1>3 DEF ReachInv
  <2>4. \A kind : ReachLines(kind)' = ReachLines(kind)
    BY <1>1, SameReachLines
  <2>5. \A f \in unwritten' : \A v \in f[2] : IsValue(f[1].kind, v)
    BY <1>1, <1>3, <2>2, <2>3, <2>4, ReachWords
  <2> QED
    BY <1>1, <1>2, <2>5 DEF ValuesInv
<1>4. CASE query.kind # "reach"
  <2>1. \A pair \in Aligned : IsLine(pair)
    <3>1. CASE query.kind = "dpf"
      <4>1. CheckExpansionParameters(Dpf!AsQueryParams(Params)) /\ HoldsWords(merged)
        BY <1>1, <3>1 DEF AccumulatorsInv, ControlTypeOK, CanStart, HasLevels
      <4> QED
        BY <1>1, <3>1, <4>1, AlignedWords
    <3>2. CASE query.kind = "one_party"
      BY <3>2, OnePartyWords
    <3> QED
      BY <1>1, <1>4, <3>1, <3>2, QueriesAssumption DEF ControlTypeOK
  <2>2. \A lines \in Histograms : \A v \in lines : IsLine(v)
    BY <1>4, <2>1, HistogramWords
  <2>3. ASSUME NEW f \in unwritten', f[1].kind # "decrypted", NEW v \in f[2]
        PROVE  IsValue(f[1].kind, v)
    <3>1. PICK lines \in Histograms :
            unwritten' = {<<HistogramName, lines>>} \cup ShardedFiles("decrypted", query.shards, sharded)
      BY <1>1, <1>4 DEF OutputFiles
    <3>2. \A g \in ShardedFiles("decrypted", query.shards, sharded) : g[1].kind = "decrypted"
      BY ShardedFacts
    <3>3. PICK h : h = <<HistogramName, lines>>
      OBVIOUS
    <3>4. f = h
      BY <2>3, <3>1, <3>2, <3>3
    <3>5. f[1] = HistogramName /\ f[2] \in Histograms
      BY <3>3, <3>4
    <3>6. IsLine(v) /\ f[1].kind = "histogram"
      BY <2>2, <3>5 DEF HistogramName
    <3> QED
      BY <1>4, <3>6 DEF IsValue, IsLine
  <2> QED
    BY <1>1, <1>2, <2>3 DEF ValuesInv
<1> QED
  BY <1>3, <1>4

\* Every step keeps the type of what is written.
LEMMA Next_Values ==
  ASSUME DataInv, DataInv', AccumulatorsInv, ValuesInv, [Next]_vars
  PROVE  ValuesInv'
<1>1. CASE ExtractOutput
  BY <1>1, ExtractOutput_Values
<1>2. ASSUME NEW f \in unwritten, WriteFile(f)
      PROVE  ValuesInv'
  <2>1. /\ query' = query /\ unwritten' = unwritten \ {f} /\ job = "writing"
        /\ files' = [n \in DOMAIN files \cup {f[1]} |->
             IF n = f[1] THEN [run |-> jobRun, lines |-> f[2]] ELSE files[n]]
    BY <1>2 DEF WriteFile
  <2>2. \A kind, v : IsValue(kind, v)' = IsValue(kind, v)
    BY <2>1 DEF IsValue
  <2>3. \A g \in unwritten : g[1].kind # "decrypted" => \A v \in g[2] : IsValue(g[1].kind, v)
    BY <2>1 DEF ValuesInv
  <2>4. ASSUME NEW n \in DOMAIN files', n.kind # "decrypted", NEW v \in files'[n].lines
        PROVE  IsValue(n.kind, v)
    <3>1. CASE n = f[1]
      <4>1. files'[n].lines = f[2]
        BY <2>1, <3>1
      <4> QED
        BY <2>3, <2>4, <3>1, <4>1
    <3>2. CASE n # f[1]
      <4>1. n \in DOMAIN files /\ files'[n] = files[n]
        BY <2>1, <3>2
      <4> QED
        BY <2>4, <4>1 DEF ValuesInv
    <3> QED
      BY <3>1, <3>2
  <2> QED
    BY <2>1, <2>2, <2>3, <2>4 DEF ValuesInv
<1> DEFINE Writes == job' = "writing" => job = "writing" /\ unwritten' = unwritten
           Same == query' = query /\ files' = files /\ Writes
<1>3. CASE BeforeJob \/ UNCHANGED vars \/ StartJob \/ RestartJob \/ NextLevel
  <2>1. Same
    BY <1>3 DEF BeforeJob, vars, jobVars, StartJob, RestartJob, NextLevel
  <2> QED
    BY <2>1, SameValues
<1>4. ASSUME NEW w \in Worker, NEW line \in pending,
             ProcessElement(w, line) \/ BundleFails(w, line)
      PROVE  ValuesInv'
  <2>1. Same
    BY <1>4 DEF ProcessElement, BundleFails, DropBundle, Failure
  <2> QED
    BY <2>1, SameValues
<1>5. ASSUME NEW w \in Worker, CommitBundle(w) \/ LoseWorker(w)
      PROVE  ValuesInv'
  <2>1. Same
    BY <1>5 DEF CommitBundle, LoseWorker, DropBundle, Failure
  <2> QED
    BY <2>1, SameValues
<1>6. ASSUME NEW f \in unwritten, WriteFails(f)
      PROVE  ValuesInv'
  <2>1. Same
    BY <1>6 DEF WriteFails, Failure
  <2> QED
    BY <2>1, SameValues
<1> QED
  BY <1>1, <1>2, <1>3, <1>4, <1>5, <1>6 DEF Next, RunnerStep, Fault

\* Whatever is drawn, lost, mixed or done again: the keys, the control, the lines and
\* the files of a helper's jobs have their types, and the files' values are words.
THEOREM JobTypes == JobSpec => []TypeOK
<1> DEFINE Inv == DataInv /\ AccumulatorsInv /\ ValuesInv
<1>1. JobInit => Inv
  <2> SUFFICES ASSUME JobInit PROVE Inv
    OBVIOUS
  <2>1. job = "new" /\ DOMAIN files = {}
    BY DEF JobInit
  <2> QED
    BY <2>1, JobInit_Data DEF AccumulatorsInv, ValuesInv
<1>2. Inv /\ [Next]_vars => Inv'
  BY Next_Data, Next_Accumulators, Next_Values
<1>3. Inv => TypeOK
  <2> SUFFICES ASSUME Inv PROVE TypeOK
    OBVIOUS
  <2>1. ControlTypeOK /\ FilesInv
    BY DEF DataInv, JobInv
  <2>2. ASSUME NEW f \in DOMAIN files, NEW v \in files[f].lines
        PROVE  IsValue(f.kind, v)
    <3>1. CASE f.kind = "decrypted"
      <4>1. v \in Report
        BY <2>1, <3>1 DEF FilesInv
      <4> QED
        BY <3>1, <4>1 DEF IsValue
    <3>2. CASE f.kind # "decrypted"
      BY <3>2 DEF ValuesInv
    <3> QED
      BY <3>1, <3>2
  <2> QED
    BY <2>1, <2>2 DEF ControlTypeOK, TypeOK
<1> QED
  BY <1>1, <1>2, <1>3, PTL DEF JobSpec
=============================================================================
