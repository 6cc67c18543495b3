---------------------------- MODULE DpfPipeline ----------------------------
(***************************************************************************)
(* What the Beam pipeline of pipeline/dpfaggregator.go computes for one    *)
(* element, and the Go side of the DPF library it calls                    *)
(* (encryption/incrementaldpf.go).  BeamJob says when, on which worker and *)
(* how often.                                                              *)
(*                                                                         *)
(* A DPF key stands for the point function it was made from and one helper *)
(* of two; Mask is the pseudo-random share of helper 1.  Vectors have the  *)
(* indexes 0 .. n - 1 of the Go slices.  A file is the set of its lines.   *)
(***************************************************************************)
EXTENDS Query

CONSTANT Mask(_, _, _)  \* external: (seed, hierarchy level, prefix) -> Word

Indexes(n) == 0 .. n - 1

(* GetDefaultDPFParameters: the LogDomainSize of each level, one per bit.    *)
DefaultDPFParameters == [l \in Indexes(KeyBitSize) |-> l + 1]

LogDomainSize(l) == DefaultDPFParameters[l]

(* putValueForHierarchies and GenerateKeys: one value for every level.       *)
GenerateDPFKeys(seed, report) ==
  [h \in Helper |->
     [helper |-> h, seed |-> seed, alpha |-> report.bucket,
      betas |-> [l \in Indexes(KeyBitSize) |-> report.value]]]

PrefixOf(alpha, l) == alpha \div 2 ^ (KeyBitSize - LogDomainSize(l))

(* The shares of the two helpers add up to beta on the path, to 0 off it.    *)
Share(key, l, prefix) ==
  LET value == IF PrefixOf(key.alpha, l) = prefix THEN key.betas[l] ELSE 0
      mask == Mask(key.seed, l, prefix)
  IN  IF key.helper = 1 THEN mask ELSE (value - mask) % Modulus
-----------------------------------------------------------------------------
(* The prefixes of the pipeline are a slice, those of Query a set.           *)
AsQueryParams(params) ==
  [params EXCEPT !.prefixes = {params.prefixes[i] : i \in DOMAIN params.prefixes}]

SizePerPrefix(params) ==
  2 ^ (LogDomainSize(params.level) - LogDomainSize(params.previousLevel))

GetVectorLength(params) ==
  IF params.previousLevel = -1
    THEN 2 ^ LogDomainSize(params.level)
    ELSE Len(params.prefixes) * SizePerPrefix(params)

\* An empty slice stands for the indexes of the vector.
CalculateBucketID(params) ==
  IF params.previousLevel = -1
    THEN <<>>
    ELSE LET size == SizePerPrefix(params)
         IN  [i \in 1 .. Len(params.prefixes) * size |->
                params.prefixes[(i - 1) \div size + 1] * size + ((i - 1) % size)]

(* A hierarchical expansion resumes at the previous level: for each prefix,  *)
(* in the order given, the shares of the prefixes below it.                  *)
EvaluateUntil64(params, key) ==
  IF params.prefixes = <<>>
    THEN [i \in Indexes(2 ^ LogDomainSize(params.level)) |-> Share(key, params.level, i)]
    ELSE [i \in Indexes(Len(params.prefixes) * SizePerPrefix(params)) |->
            LET size == SizePerPrefix(params)
                prefix == params.prefixes[i \div size + 1]
            IN  Share(key, params.level, prefix * size + (i % size))]

EvaluateAt64(params, key) ==
  [i \in Indexes(Len(params.prefixes)) |->
     Share(key, params.level, params.prefixes[i + 1])]

(* The level is above the one in the context: CheckLevels ran before.        *)
ExpandDpfKey(params, key) ==
  IF params.direct THEN EvaluateAt64(params, key) ELSE EvaluateUntil64(params, key)
-----------------------------------------------------------------------------
(* ExpandAndCombineHistogram *)
VectorLength(params) ==
  IF params.direct THEN Len(params.prefixes) ELSE GetVectorLength(params)

AllBucketIDs(params) ==
  IF params.direct THEN params.prefixes ELSE CalculateBucketID(params)

\* Mutant: the remainder has no segment.
SegmentsNoRemainder(n, combine) ==
  IF combine.direct
    THEN {[start |-> 0, length |-> n]}
    ELSE {[start |-> i * combine.segmentLength, length |-> combine.segmentLength] :
            i \in Indexes(n \div combine.segmentLength)}

(* The combines of a job: directCombine has one of the whole vector,         *)
(* segmentCombine has one for each piece of it.                              *)
Segments(n, combine) ==
  IF combine.direct
    THEN {[start |-> 0, length |-> n]}
    ELSE LET size == combine.segmentLength
             count == n \div size
         IN  {[start |-> i * size, length |-> size] : i \in Indexes(count)}
               \cup (IF n % size = 0
                       THEN {} ELSE {[start |-> count * size, length |-> n % size]})

\* The accumulators of all the combines of a job.
CreateAccumulator(segments) == [s \in segments |-> [i \in Indexes(s.length) |-> 0]]

AddInput(e, p) ==
  [s \in DOMAIN e |->
     [i \in DOMAIN e[s] |-> (e[s][i] + p[i + s.start]) % Modulus]]

MergeAccumulators(a, b) ==
  [s \in DOMAIN a |-> [i \in DOMAIN a[s] |-> (a[s][i] + b[s][i]) % Modulus]]

\* Pairs of a bucket ID and the sum.
AlignVector(bucketIDs, acc) ==
  UNION {{<<IF bucketIDs # <<>> THEN bucketIDs[i + s.start + 1] ELSE i + s.start,
            acc[s][i]>> : i \in DOMAIN acc[s]} : s \in DOMAIN acc}

\* Mutant: the sum is a signed number.
AddNoiseSigned(pair, noise) == <<pair[1], pair[2] + noise>>

(* uint64 of a noise that may be negative.                                   *)
AddNoise(pair, noise) == <<pair[1], (pair[2] + noise) % Modulus>>
-----------------------------------------------------------------------------
(* ReadPartialHistogram *)
ReadHistogram(lines) ==
  [b \in {line[1] : line \in lines} |->
     (CHOOSE line \in lines : line[1] = b)[2]]

(* The offline merge tool joins the two files by bucket: an error when one   *)
(* has no share, and no line when the sum is 0.                              *)
MergeHistogramOK(lines1, lines2) ==
  {line[1] : line \in lines1} = {line[1] : line \in lines2}

\* Mutant: buckets with a zero share are dropped.
MergeHistogramNonzeroShares(lines1, lines2) ==
  {<<p[1][1], (p[1][2] + p[2][2]) % Modulus>> :
     p \in {q \in lines1 \X lines2 :
              q[1][1] = q[2][1] /\ q[1][2] # 0 /\ q[2][2] # 0}}

MergeHistogram(lines1, lines2) ==
  {<<p[1][1], (p[1][2] + p[2][2]) % Modulus>> :
     p \in {q \in lines1 \X lines2 :
              q[1][1] = q[2][1] /\ (q[1][2] + q[2][2]) % Modulus # 0}}
=============================================================================
