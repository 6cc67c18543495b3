-------------------------- MODULE MCBrowserSimulator --------------------------
(***************************************************************************)
(* Small instances of the collector with browsers and the simulator.       *)
(***************************************************************************)
EXTENDS BrowserSimulator

CONSTANTS b1, b2, s1, s2

Encrypted == [encrypted |-> "valid", cleartext |-> "empty"]
Debug == [encrypted |-> "valid", cleartext |-> "valid"]
BadEncrypted == [encrypted |-> "invalid", cleartext |-> "empty"]
BadCleartext == [encrypted |-> "valid", cleartext |-> "invalid"]

Post(payloads) ==
  [method |-> "POST", path |-> TRUE, encoding |-> "json", payloads |-> payloads]

MPC == Post(<<Encrypted, Encrypted>>)
MPCDebug == Post(<<Debug, Debug>>)
MPCBadCleartext == Post(<<Debug, BadCleartext>>)
MPCBadEncrypted == Post(<<Encrypted, BadEncrypted>>)
OneParty == Post(<<Encrypted>>)
ThreePayloads == Post(<<Encrypted, Encrypted, Encrypted>>)
OtherPath == [MPC EXCEPT !.path = FALSE]
Get == [MPC EXCEPT !.method = "GET"]
CBORReport == [MPC EXCEPT !.encoding = "cbor"]

Of(x, y) == [r \in Report |-> CASE r = b1 -> x [] r = b2 -> y [] OTHER -> CBORReport]

\* What two browsers send: batches that fill and mix, and requests that are
\* turned away at every place the code has for it.
MCContents ==
  {Of(MPC, MPC), Of(MPCDebug, MPCDebug), Of(OneParty, MPCDebug),
   Of(MPCDebug, MPCBadCleartext), Of(OtherPath, ThreePayloads),
   Of(MPCBadEncrypted, Get)}

MCSimulated1 == <<s1>>
MCSimulated2 == <<s1, s2>>
=============================================================================
