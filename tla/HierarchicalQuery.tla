-------------------------- MODULE HierarchicalQuery --------------------------
(***************************************************************************)
(* What a hierarchical query promises, without subscriptions, replicas and *)
(* jobs: each helper releases the result of a level once; above the first  *)
(* level it does so when both helpers have released the level before, for  *)
(* the prefixes the two results of that level, merged, leave over.         *)
(***************************************************************************)
EXTENDS Query

VARIABLE result   \* per helper, the released results by level

QueryLevel == 0 .. Len(PrefixLengths) - 1

\* The parameters that the results of both helpers give a level.
AgreedParams(l) ==
  GetCurrentLevelParams(l,
    IF l = 0 THEN EmptyHistogram
             ELSE MergePartialResult(result[1][l - 1], result[2][l - 1]))

Init == result = EmptyStore

Release(h, l) ==
  /\ ~ Exists(result, h, l)
  /\ l > 0 => \A g \in Helper : Exists(result, g, l - 1)
  /\ \E histogram \in PartialResults(h, AgreedParams(l), TRUE) :
       result' = Put(result, h, l, histogram)

Next == \E h \in Helper, l \in QueryLevel : Release(h, l)

Spec == Init /\ [][Next]_result
=============================================================================
