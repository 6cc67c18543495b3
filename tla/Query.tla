------------------------------- MODULE Query -------------------------------
(***************************************************************************)
(* The data the two helpers of a query exchange, and the pure functions    *)
(* that service/query.go, pipeline/dpfaggregator.go and                    *)
(* encryption/incrementaldpf.go compute on it: which buckets a level       *)
(* expands, how two partial histograms are merged, and which prefixes the  *)
(* next level expands.                                                     *)
(*                                                                         *)
(* A partial histogram is a function from bucket IDs to words.  A bucket   *)
(* ID of a level with prefix length n is a number below 2^n, as in the     *)
(* code.  Sums are 64-bit words: Modulus stands for 2^64.                  *)
(***************************************************************************)
EXTENDS Integers, Sequences, FiniteSets

CONSTANTS
  PrefixLengths,                \* HierarchicalConfig.PrefixLengths
  ExpansionThresholdPerPrefix,  \* HierarchicalConfig.ExpansionThresholdPerPrefix
  BucketIDs,                    \* DirectConfig.BucketIDs
  KeyBitSize,                   \* AggregateRequest.KeyBitSize
  Modulus,                      \* the number of values of a sum: 2^64 in the code
  DpfVectors(_, _, _),          \* external: what a helper's DPF keys may add up to
                                \* on a DPF level and a bucket set
  NoiseVectors(_)               \* external: the noise drawn for a bucket set

Word == 0 .. Modulus - 1
Helper == {1, 2}
Partner(h) == 3 - h

\* validateHierarchicalConfig and validateDirectConfig; the privacy budgets
\* are not represented.
ValidHierarchicalConfig ==
  /\ Len(PrefixLengths) > 0
  /\ Len(ExpansionThresholdPerPrefix) = Len(PrefixLengths)
  /\ \A i \in 1 .. Len(PrefixLengths) : PrefixLengths[i] > 0
  /\ \A i \in 1 .. Len(PrefixLengths) - 1 : PrefixLengths[i] < PrefixLengths[i + 1]

ValidDirectConfig == BucketIDs # {}

ASSUME QueryAssumption ==
  /\ PrefixLengths \in Seq(Nat)
  /\ ExpansionThresholdPerPrefix \in Seq(Word)
  /\ ValidHierarchicalConfig
  /\ BucketIDs \subseteq Nat
  /\ ValidDirectConfig
  /\ KeyBitSize \in Nat \ {0}
  /\ Modulus \in Nat \ {0}
-----------------------------------------------------------------------------
ExpandParameters == [level : Int, previousLevel : Int, prefixes : SUBSET Int,
                     direct : BOOLEAN]

\* A histogram is any function from integers to words: files are compared by
\* what they hold, never by which set of functions they belong to.
IsHistogram(f) == DOMAIN f \subseteq Int /\ f \in [DOMAIN f -> Word]

\* A Go map or slice with nothing in it, nil included.
EmptyHistogram == [b \in {} |-> 0]

(* 2^bits, the number of buckets below one prefix. *)
ExpansionSize(bits) == 2 ^ bits

(* CalculateBucketID for prefixes; a full expansion has the vector indices. *)
ExpandedBuckets(params) ==
  IF params.direct
    THEN params.prefixes
    ELSE IF params.previousLevel = -1
      THEN 0 .. ExpansionSize(params.level + 1) - 1
      ELSE LET size == ExpansionSize(params.level - params.previousLevel)
           IN  {p * size + j : p \in params.prefixes, j \in 0 .. size - 1}

(* The hierarchy of the DPF keys has one level per bit of the bucket ID. *)
CheckLevels(params) ==
  /\ params.previousLevel >= -1
  /\ params.previousLevel < params.level
  /\ params.level <= KeyBitSize - 1

CheckExpansionParameters(params) ==
  /\ CheckLevels(params)
  /\ params.direct => params.previousLevel = -1 /\ params.prefixes # {}
  /\ ~ params.direct => (params.previousLevel = -1 <=> params.prefixes = {})
-----------------------------------------------------------------------------
(* MergePartialResult returns an error unless the key sets fit. *)
Mergeable(partial1, partial2) ==
  /\ Cardinality(DOMAIN partial1) = Cardinality(DOMAIN partial2)
  /\ \A b \in DOMAIN partial1 : b \in DOMAIN partial2

MergePartialResult(partial1, partial2) ==
  [b \in DOMAIN partial1 |-> (partial1[b] + partial2[b]) % Modulus]

\* A word read as a two's complement number.
SignedWord(x) == IF 2 * x < Modulus THEN x ELSE x - Modulus

GetNextNonemptyPrefixes(result, threshold) ==
  {b \in DOMAIN result : result[b] >= threshold}

(* The levels of a query are counted from 0, the sequences from 1. *)
FirstLevelParams(queryLevel) ==
  [level |-> PrefixLengths[queryLevel + 1] - 1, previousLevel |-> -1,
   prefixes |-> {}, direct |-> FALSE]

GetCurrentLevelParams(queryLevel, previousResults) ==
  IF previousResults = EmptyHistogram
    THEN FirstLevelParams(queryLevel)
    ELSE [level |-> PrefixLengths[queryLevel + 1] - 1,
          previousLevel |-> PrefixLengths[queryLevel] - 1,
          prefixes |-> GetNextNonemptyPrefixes(previousResults,
                          ExpansionThresholdPerPrefix[queryLevel]),
          direct |-> FALSE]

(* The parameters of the two kinds of query that have one level. *)
DirectParams == [level |-> KeyBitSize - 1, previousLevel |-> -1,
                 prefixes |-> BucketIDs, direct |-> TRUE]

ReachParams == [level |-> KeyBitSize - 1, previousLevel |-> -1,
                prefixes |-> {}, direct |-> FALSE]
-----------------------------------------------------------------------------
(* AggregatePartialReport writes every bucket its parameters expand to: the  *)
(* helper's shares added up, with the noise drawn for it, negative or not,   *)
(* added to the word.                                                        *)
AggregatePartialReport(buckets, shares, noise) ==
  [b \in buckets |-> (shares[b] + noise[b]) % Modulus]

\* The results one aggregation may write; without a budget there is no noise.
PartialResults(h, params, noised) ==
  LET B == ExpandedBuckets(params)
      Shares == DpfVectors(h, params.level, B) \cap [B -> Word]
      Drawn == IF noised THEN NoiseVectors(B) \cap [B -> Int] ELSE {[b \in B |-> 0]}
  IN  {AggregatePartialReport(B, shares, noise) : shares \in Shares, noise \in Drawn}

\* The object stores of the helpers: for each, a function from the levels
\* that have a file to what the file holds.
EmptyStore == [h \in Helper |-> [l \in {} |-> 0]]

Exists(store, h, l) == l \in DOMAIN store[h]

Put(store, h, l, content) ==
  [store EXCEPT ![h] = [x \in DOMAIN store[h] \cup {l} |->
                          IF x = l THEN content ELSE store[h][x]]]
=============================================================================
