---------------------------- MODULE MCPipelines ----------------------------
(***************************************************************************)
(* Small instances of the aggregation jobs: buckets of three bits, words of  *)
(* three, and every kind of job with the flags that change what it does.   *)
(***************************************************************************)
EXTENDS BeamJob

CONSTANTS r1, r2, r3

MCReport == {r1, r2, r3}

\* Two reports of one person in one bucket, whose values overflow a word, and
\* one of another person in another bucket.
MCRaw ==
  [r \in MCReport |->
     CASE r = r1 -> [bucket |-> 5, value |-> 3, person |-> 1, r |-> 3, q |-> 5,
                     data |-> <<[bucket |-> 5, value |-> 3], [bucket |-> 0, value |-> 7]>>]
       [] r = r2 -> [bucket |-> 5, value |-> 6, person |-> 1, r |-> 1, q |-> 6,
                     data |-> <<[bucket |-> 5, value |-> 6], [bucket |-> 5, value |-> 1]>>]
       [] OTHER -> [bucket |-> 1, value |-> 2, person |-> 2, r |-> 7, q |-> 2,
                    data |-> <<[bucket |-> 0, value |-> 2]>>]]

\* Shares that look like anything, different for every report and prefix.
MCMask(seed, l, p) ==
  (MCRaw[seed].r * (p + 1) + 5 * l + p * p * MCRaw[seed].q) % Modulus

Code(field) ==
  CASE field = "C" -> 1 [] field = "Rf" -> 2 [] field = "R" -> 3
    [] field = "Qf" -> 4 [] OTHER -> 6

MCReachMask(seed, field, p) == MCMask(seed, Code(field), p + 1)

\* What Query's DpfVectors are: the sums of the shares at each bucket.
MCDpfVectors(h, l, B) ==
  LET value(r, b) == IF MCRaw[r].bucket \div 2 ^ (KeyBitSize - 1 - l) = b
                       THEN MCRaw[r].value ELSE 0
      share(r, b) == IF h = 1 THEN MCMask(r, l, b) ELSE value(r, b) - MCMask(r, l, b)
  IN  {[b \in B |->
          FSets!FoldSet(LAMBDA r, s : s + share(r, b), 0, MCReport) % Modulus]}

MCNoiseVectors(B) == [B -> Noise]

MCNoise == {-1, 1}
MCPrefixLengths == <<1, 3>>
MCThresholds == <<1, 1>>

All(form) == [r \in MCReport |-> form]
Forms3(x, y, z) == [r \in MCReport |-> CASE r = r1 -> x [] r = r2 -> y [] OTHER -> z]

Direct == [direct |-> TRUE, segmentLength |-> 1]
Segmented == [direct |-> FALSE, segmentLength |-> 3]

Level(l, previous, prefixes) ==
  [level |-> l, previousLevel |-> previous, prefixes |-> prefixes, direct |-> FALSE]
At(prefixes) ==
  [level |-> KeyBitSize - 1, previousLevel |-> -1, prefixes |-> prefixes, direct |-> TRUE]

Plain == [useHierarchy |-> FALSE, fullHierarchy |-> FALSE, prefixBits |-> 0, evalBits |-> 0]
Selected == [Plain EXCEPT !.useHierarchy = TRUE, !.evalBits = 1]
SelectedBelow == [Plain EXCEPT !.useHierarchy = TRUE, !.prefixBits = 2, !.evalBits = 3]
Full == [useHierarchy |-> TRUE, fullHierarchy |-> TRUE, prefixBits |-> 1, evalBits |-> 2]
Beyond == [Full EXCEPT !.evalBits = KeyBitSize + 1]
Upward == [Selected EXCEPT !.prefixBits = 2]

Flags ==
  [kind |-> "dpf", levels |-> <<Level(2, -1, <<>>)>>, combine |-> Segmented,
   reach |-> Plain, targets |-> {}, shards |-> 1, noised |-> FALSE,
   forms |-> All("sealed"), keyRuns |-> 1]

ReachFlags(params) == [Flags EXCEPT !.kind = "reach", !.reach = params]
OnePartyFlags(forms) ==
  [Flags EXCEPT !.kind = "one_party", !.targets = {0, 3, 5}, !.forms = forms]

MCQueries ==
  { \* a hierarchical query with two levels, the prefixes in any order
    [Flags EXCEPT !.levels = <<Level(0, -1, <<>>), Level(2, 0, <<1, 0>>)>>, !.shards = 2],
    [Flags EXCEPT !.levels = <<Level(1, -1, <<>>), Level(2, 1, <<2, 0>>)>>,
                  !.combine = Direct, !.forms = All("clear")],
    \* a level below the first with no prefix above the threshold
    [Flags EXCEPT !.levels = <<Level(1, -1, <<>>), Level(2, 1, <<>>)>>,
                  !.forms = All("clear")],
    \* direct queries, with noise, and with payloads of different forms
    [Flags EXCEPT !.levels = <<At(<<6, 5>>)>>, !.noised = TRUE, !.forms = All("keyed")],
    [Flags EXCEPT !.levels = <<At(<<1, 5, 0>>)>>, !.combine = Direct,
                  !.forms = Forms3("sealed", "clear", "keyed")],
    \* keys made twice
    [Flags EXCEPT !.keyRuns = 2],
    [ReachFlags(Plain) EXCEPT !.forms = All("clear")],
    [ReachFlags(Selected) EXCEPT !.shards = 2],
    [ReachFlags(SelectedBelow) EXCEPT !.combine = Direct],
    ReachFlags(Full),
    [ReachFlags(Beyond) EXCEPT !.forms = All("clear")],
    [ReachFlags(Upward) EXCEPT !.forms = All("clear")],
    OnePartyFlags(All("sealed")),
    [OnePartyFlags(All("keyed")) EXCEPT !.noised = TRUE],
    OnePartyFlags(Forms3("sealed", "sealed", "clear")) }
=============================================================================
