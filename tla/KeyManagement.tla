--------------------------- MODULE KeyManagement ---------------------------
(***************************************************************************)
(* The helper's encryption keys: tools/create_hybrid_key_pair.go saves the *)
(* private keys one by one, then the collection that says where they are,  *)
(* then the public keys; browsers encrypt with a copy of the public keys;  *)
(* the pipelines read the collection and decrypt                           *)
(* (encryption/cryptoio.go, encryption/standardencrypt.go).                *)
(*                                                                         *)
(* A key is its ID.  Encryption with it hides the payload from everybody   *)
(* but the reader of the private key with the same ID.                     *)
(***************************************************************************)
EXTENDS Integers, FiniteSets

CONSTANTS
  Report,    \* the reports of a batch
  KeyCount,  \* --key_count
  MaxRuns    \* bound: how often the operator runs the tool

Key == (1 .. MaxRuns) \X (1 .. KeyCount)

\* An AggregatablePayload with an empty KeyId, and one without ciphertext.
NoKey == <<0, 0>>

ASSUME KeysAssumption == KeyCount \in Nat \ {0} /\ MaxRuns \in Nat

VARIABLES
  run,          \* how often the tool was started
  tool,         \* what the tool does next, "idle" when it is not running
  secrets,      \* the private keys stored in files or the SecretManager
  privateInfo,  \* the key IDs in --private_key_info_file, {} while there is none
  publicInfo,   \* the key IDs in --public_key_info_file
  cached,       \* the public keys the browser holds
  payload       \* report -> its payload: the form, and the KeyId it names

keyVars == <<run, tool, secrets, privateInfo, publicInfo, cached, payload>>

(* The forms of a payload: encrypted; cleartext that names a key (the test   *)
(* converter without encryption); cleartext with the empty KeyId (the        *)
(* collector's cleartext batches).                                           *)
Form == {"sealed", "keyed", "clear"}

NoPayload == [form |-> "none", keyId |-> NoKey]
Payload == {[form |-> f, keyId |-> k] : f \in {"sealed", "keyed"}, k \in Key}
             \cup {[form |-> "clear", keyId |-> NoKey]}

KeyTypeOK ==
  /\ run \in 0 .. MaxRuns
  /\ tool \in {"idle", "private_keys", "private_info", "public_info"}
  /\ secrets \subseteq Key /\ privateInfo \subseteq Key
  /\ publicInfo \subseteq Key /\ cached \subseteq Key
  /\ payload \in [Report -> Payload \cup {NoPayload}]

KeyInit ==
  /\ run = 0 /\ tool = "idle"
  /\ secrets = {} /\ privateInfo = {} /\ publicInfo = {} /\ cached = {}
  /\ payload = [r \in Report |-> NoPayload]
-----------------------------------------------------------------------------
NewKeys == {k \in Key : k[1] = run}

(* main of the tool, up to the loop: GenerateHybridKeyPairs makes new IDs.   *)
GenerateHybridKeyPairs ==
  /\ tool = "idle" /\ run < MaxRuns
  /\ run' = run + 1
  /\ tool' = "private_keys"
  /\ UNCHANGED <<secrets, privateInfo, publicInfo, cached, payload>>

\* Mutant: the public keys are offered before the collection names them.
SaveStandardPrivateKeyThenPublish(k) ==
  /\ tool = "private_keys" /\ k \in NewKeys \ secrets
  /\ secrets' = secrets \cup {k}
  /\ tool' = IF NewKeys \subseteq secrets' THEN "private_info" ELSE tool
  /\ publicInfo' = NewKeys
  /\ UNCHANGED <<run, privateInfo, cached, payload>>

(* One turn of the loop, in the order a Go map is read.                      *)
SaveStandardPrivateKey(k) ==
  /\ tool = "private_keys" /\ k \in NewKeys \ secrets
  /\ secrets' = secrets \cup {k}
  /\ tool' = IF NewKeys \subseteq secrets' THEN "private_info" ELSE tool
  /\ UNCHANGED <<run, privateInfo, publicInfo, cached, payload>>

(* The two files are overwritten: they name the keys of this run only.       *)
SavePrivateKeyParamsCollection ==
  /\ tool = "private_info"
  /\ privateInfo' = NewKeys
  /\ tool' = "public_info"
  /\ UNCHANGED <<run, secrets, publicInfo, cached, payload>>

SavePublicKeys ==
  /\ tool = "public_info"
  /\ publicInfo' = NewKeys
  /\ tool' = "idle"
  /\ UNCHANGED <<run, secrets, privateInfo, cached, payload>>

(* Any of these calls may fail: log.Exit.                                    *)
ToolExits ==
  /\ tool # "idle"
  /\ tool' = "idle"
  /\ UNCHANGED <<run, secrets, privateInfo, publicInfo, cached, payload>>

(* The browser reads the public keys once, when it starts.                   *)
ReadPublicKeys ==
  /\ publicInfo # {} /\ publicInfo # cached
  /\ cached' = publicInfo
  /\ UNCHANGED <<run, tool, secrets, privateInfo, publicInfo, payload>>

(* GetRandomPublicKey and Encrypt for a sealed payload.                      *)
Encrypt(r, k) ==
  /\ payload[r] = NoPayload /\ k \in cached
  /\ payload' = [payload EXCEPT ![r] = [form |-> "sealed", keyId |-> k]]
  /\ UNCHANGED <<run, tool, secrets, privateInfo, publicInfo, cached>>

LeaveKeyed(r, k) ==
  /\ payload[r] = NoPayload /\ k \in cached
  /\ payload' = [payload EXCEPT ![r] = [form |-> "keyed", keyId |-> k]]
  /\ UNCHANGED <<run, tool, secrets, privateInfo, publicInfo, cached>>

LeaveClear(r) ==
  /\ payload[r] = NoPayload
  /\ payload' = [payload EXCEPT ![r] = [form |-> "clear", keyId |-> NoKey]]
  /\ UNCHANGED <<run, tool, secrets, privateInfo, publicInfo, cached>>

MakePayload(r, f) ==
  \/ f = "sealed" /\ \E k \in Key : Encrypt(r, k)
  \/ f = "keyed" /\ \E k \in Key : LeaveKeyed(r, k)
  \/ f = "clear" /\ LeaveClear(r)

ToolStep ==
  \/ GenerateHybridKeyPairs \/ SavePrivateKeyParamsCollection \/ SavePublicKeys
  \/ \E k \in Key : SaveStandardPrivateKey(k)
  \/ ToolExits
-----------------------------------------------------------------------------
(* ReadPrivateKeyCollection returns an error when the collection or one of   *)
(* the private keys it names is missing.                                     *)
CollectionReadable == privateInfo # {} /\ privateInfo \subseteq secrets

(* What standardencrypt.Decrypt finds: an error without a private key, on    *)
(* data that is no ciphertext, and with the private key of another pair.     *)
Decrypts(p, keys) == p.form = "sealed" /\ p.keyId \in keys

(* DecryptOrUnmarshal tries the payload as CBOR when it cannot be decrypted; *)
(* a ciphertext is no CBOR.                                                  *)
DecryptOrUnmarshalOK(p, keys) == Decrypts(p, keys) \/ p.form # "sealed"

(* Every public key a browser may hold has its private key stored, and until *)
(* the tool is run again the helper's collection names it                    *)
(* (create_hybrid_key_pair.go:51-78): a step that fails part way offers no   *)
(* key that nobody can decrypt with.                                         *)
PublishedReadable ==
  /\ cached \cup publicInfo \subseteq secrets
  /\ run <= 1 => cached \cup publicInfo \subseteq privateInfo
=============================================================================
