-------------------------- MODULE OnePartyPipeline --------------------------
(***************************************************************************)
(* What the Beam pipeline of pipeline/onepartyaggregator.go computes: the  *)
(* sum of the contributions to each target bucket, in the clear.           *)
(***************************************************************************)
EXTENDS Integers, FiniteSets

CONSTANT Modulus  \* the number of values of a sum: 2^64 in the code

(* SumRawReport: the sums per key of a bundle hold the keys it met.          *)
EmptySums == [b \in {} |-> 0]

ValueAt(sums, b) == IF b \in DOMAIN sums THEN sums[b] ELSE 0

MergeSums(a, b) ==
  [x \in DOMAIN a \cup DOMAIN b |-> (ValueAt(a, x) + ValueAt(b, x)) % Modulus]

(* A report emits one pair for each contribution it has.                     *)
Contribution(sums, c) == MergeSums(sums, [b \in {c.bucket} |-> c.value])

\* Mutant: the join keeps the buckets that have a result.
FilterBucketMet(targets, sums) == {<<b, sums[b]>> : b \in targets \cap DOMAIN sums}

(* filterBucketFn: a bucket that is no target is dropped, a target nobody    *)
(* contributed to is 0.                                                      *)
FilterBucket(targets, sums) == {<<b, ValueAt(sums, b)>> : b \in targets}

AddNoise(pair, noise) == <<pair[1], (pair[2] + noise) % Modulus>>

ReadHistogram(lines) ==
  [b \in {line[1] : line \in lines} |->
     (CHOOSE line \in lines : line[1] = b)[2]]
=============================================================================
