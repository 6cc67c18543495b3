------------------------- MODULE MCAggregatorService -------------------------
(***************************************************************************)
(* Small instances of AggregatorService for TLC.  The reports count three  *)
(* clicks in the buckets below prefix 0 and one below prefix 1; a          *)
(* threshold of 2 prunes the second unless noise lifts it.                 *)
(***************************************************************************)
EXTENDS AggregatorService, TLC

CONSTANTS w1, w2, w3

MCPrefixLengths2 == <<1, 2>>
MCPrefixLengths3 == <<1, 2, 3>>
MCThresholds2 == <<2, 2>>
MCThresholds3 == <<2, 2, 2>>
MCBucketIDs == {1, 2}

\* One replica per helper, and a second one of the first helper.
MCOneEach == (w1 :> 1) @@ (w2 :> 2)
MCTwoAndOne == (w1 :> 1) @@ (w2 :> 2) @@ (w3 :> 1)

\* Both helpers on Dataflow, on the direct runner, or one on each.
MCDataflow == [h \in Helper |-> "dataflow"]
MCDirect == [h \in Helper |-> "direct"]
MCOneDirect == [h \in Helper |-> IF h = 1 THEN "dataflow" ELSE "direct"]

\* The true count of a bucket at a DPF level, and its two shares.
Count(level, b) == IF b = 0 THEN 3 ELSE IF b = 2 ^ level THEN 1 ELSE 0

MCDpfVectors(h, level, B) ==
  LET mask(b) == 3 * level + 5 * b + 1
      share(b) == IF h = 1 THEN mask(b) ELSE Count(level, b) - mask(b)
  IN  {[b \in B |-> share(b) % Modulus]}

\* The noise vectors of an instance: none; one more in the second bucket of
\* the first level; or one less in the last bucket of a level, which wraps
\* around where the sum of the shares is 0.
NoNoise(B) == {[b \in B |-> 0]}

MCFirstLevelNoise(B) ==
  NoNoise(B) \cup (IF B = {0, 1} THEN {[b \in B |-> b]} ELSE {})

MCNegativeNoise(B) ==
  NoNoise(B) \cup {[b \in B |-> IF \A c \in B : c <= b THEN -1 ELSE 0]}
=============================================================================
