--------------------------- MODULE ReachPipeline ---------------------------
(***************************************************************************)
(* What the Beam pipeline of pipeline/reachaggregator.go computes for one  *)
(* element: DPF keys whose values are tuples of five words, and the check  *)
(* the two helpers make on the sums with each other's R and Q.             *)
(***************************************************************************)
EXTENDS Integers, Sequences

CONSTANTS
  KeyBitSize,        \* AggregatePartialReportParams.KeyBitSize
  Modulus,           \* the number of values of a word: 2^64 in the code
  Mask(_, _, _)      \* external: (seed, field, prefix) -> word of helper 1

Helpers == {1, 2}
Indexes(n) == 0 .. n - 1

\* The fields of a ReachTuple; Rf and Qf are R and Q times the person.
Fields == {"C", "Rf", "R", "Qf", "Q"}
ReachTuple == [Fields -> Indexes(Modulus)]
ZeroTuple == [x \in Fields |-> 0]

(* reachReportToTuple of the test converter; r and q are drawn there.        *)
ReachReportToTuple(report) ==
  [C |-> 1,
   Rf |-> (report.r * report.person) % Modulus, R |-> report.r,
   Qf |-> (report.q * report.person) % Modulus, Q |-> report.q]

GenerateReachTupleKeys(seed, report) ==
  [h \in Helpers |-> [helper |-> h, seed |-> seed, alpha |-> report.bucket,
                      beta |-> ReachReportToTuple(report)]]

Share(key, bits, prefix) ==
  LET value(x) == IF key.alpha \div 2 ^ (KeyBitSize - bits) = prefix
                    THEN key.beta[x] ELSE 0
      mask(x) == Mask(key.seed, x, prefix)
  IN  [x \in Fields |-> IF key.helper = 1 THEN mask(x)
                                          ELSE (value(x) - mask(x)) % Modulus]
-----------------------------------------------------------------------------
(* GetTupleDPFParameters: the domain sizes of the levels of the keys; <<>>   *)
(* stands for an error.                                                      *)
GetTupleDPFParameters(params) ==
  IF params.fullHierarchy
    THEN [i \in 1 .. KeyBitSize |-> i]
    ELSE IF params.evalBits <= 0 \/ params.prefixBits >= params.evalBits
              \/ params.evalBits > KeyBitSize
      THEN <<>>
      ELSE (IF params.prefixBits > 0 THEN <<params.prefixBits>> ELSE <<>>)
             \o <<params.evalBits>>
             \o (IF params.evalBits < KeyBitSize THEN <<KeyBitSize>> ELSE <<>>)

(* getHierarchyLevels: where the prefix and the evaluation are in them.      *)
GetHierarchyLevels(params) ==
  IF params.fullHierarchy
    THEN [prefix |-> params.prefixBits - 1, eval |-> params.evalBits - 1]
    ELSE IF params.prefixBits > 0 THEN [prefix |-> 0, eval |-> 1]
                                  ELSE [prefix |-> -1, eval |-> 0]

(* The library refuses levels the keys do not have, and one that is not      *)
(* below the one before.                                                     *)
ExpandOK(params) ==
  LET sizes == GetTupleDPFParameters(params)
      levels == GetHierarchyLevels(params)
  IN  params.useHierarchy =>
        sizes # <<>> /\ levels.prefix < levels.eval /\ levels.eval < Len(sizes)

(* EvaluateReachTuple expands the whole domain; EvaluateReachTupleBetween-   *)
(* Levels what is below the zero prefix of one level, down to another.       *)
ExpandDpfKey(params, key) ==
  IF ~ params.useHierarchy
    THEN [i \in Indexes(2 ^ KeyBitSize) |-> Share(key, KeyBitSize, i)]
    ELSE LET sizes == GetTupleDPFParameters(params)
             levels == GetHierarchyLevels(params)
             evalBits == sizes[levels.eval + 1]
             prefixBits == IF levels.prefix < 0 THEN 0 ELSE sizes[levels.prefix + 1]
         IN  [i \in Indexes(2 ^ (evalBits - prefixBits)) |-> Share(key, evalBits, i)]

(* ExpandAndCombineHistogram *)
(* A shift by a negative number of bits, as a uint64, leaves nothing.        *)
VectorLength(params) ==
  LET bits == IF params.useHierarchy THEN params.evalBits - params.prefixBits ELSE KeyBitSize
  IN  IF bits < 0 THEN 0 ELSE 2 ^ bits

SuffixBitSize(params) == IF params.useHierarchy THEN KeyBitSize - params.evalBits ELSE 0
-----------------------------------------------------------------------------
AddTuple(a, b) == [x \in Fields |-> (a[x] + b[x]) % Modulus]

Segments(n, combine) ==
  IF combine.direct
    THEN {[start |-> 0, length |-> n]}
    ELSE LET size == combine.segmentLength
             count == n \div size
         IN  {[start |-> i * size, length |-> size] : i \in Indexes(count)}
               \cup (IF n % size = 0
                       THEN {} ELSE {[start |-> count * size, length |-> n % size]})

CreateAccumulator(segments) ==
  [s \in segments |-> [i \in Indexes(s.length) |-> ZeroTuple]]

AddInput(e, p) ==
  [s \in DOMAIN e |-> [i \in DOMAIN e[s] |-> AddTuple(e[s][i], p[i + s.start])]]

MergeAccumulators(a, b) ==
  [s \in DOMAIN a |-> [i \in DOMAIN a[s] |-> AddTuple(a[s][i], b[s][i])]]

\* Pairs of a bucket ID, the index with the suffix bits zero, and the sums.
AlignVector(params, acc) ==
  UNION {{<<(i + s.start) * 2 ^ SuffixBitSize(params), acc[s][i]>> : i \in DOMAIN acc[s]} :
           s \in DOMAIN acc}
-----------------------------------------------------------------------------
(* The lines of the RQ file: what the other helper may see.                  *)
FormatRQ(pair) == <<pair[1], [R |-> pair[2]["R"], Q |-> pair[2]["Q"]]>>

(* ReadReachRQ, ReadPartialHistogram and ReadReachResult *)
ReadLines(lines) ==
  [b \in {line[1] : line \in lines} |->
     (CHOOSE line \in lines : line[1] = b)[2]]

CreatePartialResultOK(otherRQ, selfResult) == DOMAIN otherRQ = DOMAIN selfResult

\* Mutant: a helper checks with its own R and Q alone.
CreatePartialResultAlone(otherRQ, selfResult) ==
  [b \in DOMAIN selfResult |->
     LET self == selfResult[b]
     IN  [count |-> self["C"],
          verification |-> (self["R"] * self["Qf"] - self["Q"] * self["Rf"]) % Modulus]]

CreatePartialResult(otherRQ, selfResult) ==
  [b \in DOMAIN selfResult |->
     LET self == selfResult[b]
         r == otherRQ[b].R + self["R"]
         q == otherRQ[b].Q + self["Q"]
     IN  [count |-> self["C"],
          verification |-> (r * self["Qf"] - q * self["Rf"]) % Modulus]]

MergeReachResults(result1, result2) ==
  [b \in DOMAIN result1 |->
     [count |-> (result1[b].count + result2[b].count) % Modulus,
      verification |-> (result1[b].verification + result2[b].verification) % Modulus]]
=============================================================================
