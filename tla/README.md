# Verification of the Privacy Sandbox Aggregation Service

TLA+ models of the aggregation service in this repository (`src/`), TLC configurations
that check them on small instances, and proofs that TLAPS checks for every value of
the constants.

Two *helpers* hold secret shares of the same reports. For a query each helper runs a
pipeline on its own shares, adds noise and publishes a partial histogram; adding the two
gives the answer. A hierarchical query repeats this for longer and longer prefixes of the
bucket IDs: what a level expands depends on the two partial histograms of the level
before, so the helpers wait for each other's files at every level. There is no
coordinator: each helper is driven by its own Pub/Sub subscription.

## 1. Inventory

| Component | State | Operations | Talks to |
|---|---|---|---|
| Aggregator service (`service/aggregatorservice.go`, `aggregator_server.go`) | the message in hand; everything else is in Pub/Sub, Dataflow and Cloud Storage | pull a request; list, poll jobs; dispatch on the kind of query; look for the partner's result; save expansion parameters; run the pipeline binary; publish the next level; Ack, Nack | its own topic, Dataflow API, both helpers' buckets |
| Query protocol (`service/query.go`) | configuration, expansion parameters | validate a configuration, read and merge results, prune prefixes, compute the parameters of a level | buckets |
| DPF pipeline (`pipeline/dpfaggregator.go`, `encryption/incrementaldpf.go`) | input shares, decrypted shares after the first level, partial histogram | check parameters, decrypt, expand, combine, add noise, write | buckets |
| Reach pipeline (`pipeline/reachaggregator.go`) | tuples per bucket | aggregate tuples, validity test, merge | buckets |
| One-party pipeline (`pipeline/onepartyaggregator.go`) | buckets and sums | decrypt, filter, add up, add noise | buckets |
| Collector service (`service/collectorservice.go`, `collector_server.go`, `shared/reporttypes.go`) | a bounded channel; per protocol and form of the payloads a batch in memory with a list for each helper; batch files | HTTP handler, batching goroutine, batch write, shutdown | browsers, buckets of both helpers |
| Query tool (`tools/aggregation_query_tool.go`) | none | read the helpers' shared information, publish one request to each | both topics |
| Browser simulator (`tools/browser_simulator.go`) | an unbuffered channel to its request workers, a count | generate and encrypt reports, send with retries | collector |
| Keys and encryption (`encryption/cryptoio.go`, `standardencrypt.go`) | a collection of private keys and a list of public keys, by key ID | generate, store, read, choose, encrypt, decrypt or unmarshal | secret manager, buckets |
| Shared helpers (`shared/utils.go`) | none | object existence, reading and writing objects, publishing | Cloud Storage, Pub/Sub |
| Job monitor, control plane (`service/jobmonitor.go`, `control-plane/`) | job documents | merge level states, display | Firestore |
| Merge pipeline, converters, offline tools (`tools/`, `test/`) | none | one-shot batch programs | files |
| DPF bridge (`encryption/distributed_point_function_c_bridge.cc`) | none | marshalling to the DPF library | external library |

What is hard here:

* **Concurrency without locks.** The list of jobs is read in one call and a job started in
  a much later one; replicas, or an expired lease and its redelivery, can come between.
* **At-least-once delivery.** Every request may be delivered again after any step. Only the
  job's name (`queryId-level-origin`) tells a handler that the work is done or under way,
  and only with the Dataflow runner.
* **Mutual waiting.** Each helper fails its request until the partner's file is there.
* **Partial failure.** Each call of the handler may fail; Publish may fail and have
  happened; the binary may fail while the job it started goes on.
* **Numbers.** Sums are unsigned 64-bit words to which signed noise is added, and sums of
  shares that wrap around at every step.
* **Accepted and not yet stored.** The collector holds reports it has answered for in a bounded
  channel and in lists; its writer only logs a failed write; its shutdown closes the channel
  under handlers that may be about to send.
* **Bundles done again.** A Beam runner may run any part of a batch more than once, on any
  worker, while the code of the pipelines keeps state in accumulators, in DoFn instances
  (`isEncryptedBundle`) and in shards drawn at random.

What makes each component correct:

* Aggregator service: one aggregation per level (the privacy budget is spent once), levels
  in order, no request lost without a trace, both helpers finish.
* Query protocol: both helpers expand the same prefixes, those the merged result leaves over.
* Pipelines: one bucket per expanded ID, every report counted once, at its own bucket; a batch
  of one form never fails for the way it was split into bundles.
* Reach pipeline: the merged count is the number of reports, and the verification is zero for a
  bucket of one person.
* Collector: the two files of a batch hold shares of the same reports; what was accepted is
  written; a shutdown neither loses a report nor panics.
* Keys: what was encrypted with a published key can be decrypted, wherever the key tool stopped.
* Simulator: it ends, and no sooner than every report has an answer or has failed all its tries.

## 2. Modules

| Module | Models |
|---|---|
| `Query.tla` | the data the helpers exchange and the pure functions on it: `ExpandedBuckets`, `CheckExpansionParameters`, `MergePartialResult`, `GetCurrentLevelParams`, `AggregatePartialReport` |
| `AggregatorService.tla` | the handler of `SetupPullRequests` in both helpers, with the subscription, the jobs and the files |
| `HierarchicalQuery.tla` | what a hierarchical query promises: each level released once by each helper, when both have released the level before, for the prefixes those leave over |
| `MCAggregatorService.tla` | instances for TLC |
| `CollectorService.tla` | the collector: handlers, channel, writer, files, and the process that shuts it down |
| `BrowserSimulator.tla` | EXTENDS it with the simulator and other browsers, its clients |
| `MCBrowserSimulator.tla` | instances for TLC |
| `KeyManagement.tla` | the key tool, the keys the browser holds, the payloads it makes |
| `DpfPipeline.tla`, `ReachPipeline.tla`, `OnePartyPipeline.tla` | what each pipeline computes for one element, as operators: expansion, segments, accumulators, alignment, noise, the offline merge |
| `BeamJob.tla` | one helper's jobs, from keys and payloads to files, on a Beam runner: EXTENDS `KeyManagement` and `Query`, INSTANCEs the three pipelines |
| `MCPipelines.tla` | instances for TLC |
| `AggregatorService_proofs.tla` | proofs: type correctness, for every kind of query and fault |
| `ProgressProofs.tla` | proofs: the order of the levels, and no request lost, in every deployment |
| `AgreementProofs.tla` | proofs: agreement of the helpers and the refinement of `HierarchicalQuery` |
| `CollectorProofs.tla` | proofs: the safety properties of the collector, and how often it stores a report |
| `SimulatorProofs.tla` | proofs: the same with the simulator as its client, and the simulator's end |
| `BeamJobProofs.tla` | proofs: keys, and the control of a job: failures, bundles, shards and files |
| `CombineProofs.tla` | lemmas: sums over sets and in words, vectors and segments, what each combine holds of a set of reports, the buckets of an expansion |
| `PipelineProofs.tla` | proofs: the data of a job: what its results are, what the results of both helpers say together, its types |

### State and actions of AggregatorService

| Variable | In the system |
|---|---|
| `kind` | what the configuration of the query is, never changes |
| `requested` | the helpers the query tool has published a request to |
| `sub`, `attempts`, `dead` | outstanding messages, their delivery attempts, the dead-letter topic |
| `pc`, `msg`, `lease` | the point a replica has reached, its message, whether that delivery is still its own |
| `jobDone`, `own`, `run` | local variables of the handler: `jobDone`, the helper's own result once read, the job it waits for |
| `expandParams`, `partial`, `decrypted` | objects in the helpers' buckets: expansion parameters and partial histograms by level, decrypted shares |
| `jobs` | per helper and level the Beam jobs, in the order in which they were started |

| Action | Code |
|---|---|
| `RequestQuery` | `aggregation_query_tool.go` `main`: one request to helper 1, then one to helper 2 |
| `Pull` | the Receive callback; straight to the dispatch with the direct runner |
| `ListJobs`, `PollJob` | `jobsSvc.List`, the polling loop on `Get` |
| `Dispatch` | reading the configuration and choosing the branch, with `HierarchicalStep` the tests on `jobDone` and the level |
| `CheckPartner` | `IsGCSObjectExist` on the partner's previous result |
| `ReadOwnResult`, `SaveExpandParameters` | `GetRequestExpandParamsURI`: two reads, merge, prune, write |
| `Launch`, `AwaitRun` | `runPipeline`: the binary starts a job and returns when it ends |
| `Publish`, `Ack`, `Nack` | the request for the next level and the end of the callback |
| `LeaseExpires`, `Crash` | the environment of a replica |
| `JobWrites`, `JobSucceeds`, `JobFails` | a run of the pipeline, which goes on whatever becomes of the replica on Dataflow and dies with it on the direct runner |

Each action is one external call of the handler with the code up to the next one, so any
other step may come in between. A handler's local variables die with it.

Abstractions: one query at a time (queries share nothing but the page of the job list,
which the fault "page" stands for); parsing of messages and URIs, privacy budgets and the
contents of shares are left out; shares and noise are vectors from a set that is a
parameter. A message is its helper and level: the rest of a request never changes along a
query. `copy` tells duplicates apart.

### State and actions of CollectorService and BrowserSimulator

| Variable | In the system |
|---|---|
| `content`, `faults` | what the reports contain and what may go wrong, chosen at the start |
| `main`, `restarts` | the main goroutine (`serving`, `closing` in `srv.Shutdown`, `flushing` in `wg.Wait`, `exited`, `crashed`) and how often an instance was replaced |
| `answer` | what the client knows of each request |
| `sending` | the handlers that have come to the send on the channel |
| `reportsCh` | the channel |
| `writer`, `toWrite`, `pending`, `timestamp` | the writer goroutine: the batches it is to write, and the files of the first of them that are not written yet |
| `batches` | `batches[key][index]` of `bufferedReportWriter.start` |
| `files`, `dropped` | the batch directory, and the payloads that a failed write or a crash has lost |
| `simulator`, `generated`, `busy`, `conversionsSent` | the main goroutine of the simulator and its workers |

| Action | Code |
|---|---|
| `ServeHTTP`, `SendReport`, `PanicOnClosed` | `ServeHTTP` up to the send on the channel, the send, and the send when the channel is closed |
| `BreakConnection` | the client goes away, the handler does not notice |
| `TakeReport` | one turn of the writer's loop up to the writes of a full batch |
| `WriteFile`, with `AfterBatch` | the goroutines of `writeBatchKeyBatches`, `g.Wait` and the reset of the lists |
| `Flush` | the loop after the channel is closed, in any order of the map |
| `Signal`, `CloseChannel`, `Exit` | `main`: the signal and `srv.Shutdown`, `handler.Shutdown`, the return of `wg.Wait` |
| `Crash`, `Restart` | the environment of the process |
| `HandOver`, `Attempt`, `FinishRequest`, `Done`, `ExitSimulator` | the simulator: a report goes to a free worker, `client.Do` and its retries, the status, the wait group, `log.Exit` |
| `BrowserRequest` | other browsers |

### State and actions of KeyManagement and BeamJob

| Variable | In the system |
|---|---|
| `run`, `tool` | the key tool: how often it was started, what it does next |
| `secrets`, `privateInfo`, `publicInfo` | stored private keys, the collection that names them, the public keys |
| `cached`, `payload` | the keys a browser has read, and the form and key ID of each payload |
| `query`, `helper`, `level`, `job`, `jobRun` | the flags of the job, whose it is, and how far it is |
| `privateKeys`, `encryptedBundle` | the fields of the decryption DoFn; the second one belongs to an instance on a worker |
| `pending`, `bundle`, `merged`, `sharded` | lines nobody works on, lines and accumulator of the bundle on each worker, what was committed |
| `unwritten`, `files`, `failures`, `faults` | outputs, files, failures of the job, faults so far |

| Action | Code |
|---|---|
| `GenerateHybridKeyPairs`, `SaveStandardPrivateKey`, `SavePrivateKeyParamsCollection`, `SavePublicKeys`, `ToolExits` | `create_hybrid_key_pair.go`, one stored object at a time |
| `ReadPublicKeys`, `MakePayload` | the browser, and the converters that leave payloads in the clear |
| `StartJob` | `main` of a pipeline binary with its `log.Exit`s |
| `ProcessElement`, `BundleFails` | decryption, expansion and `AddInput` of one line, or the error of one of them |
| `CommitBundle`, `LoseWorker` | the runner: `MergeAccumulators`, or the bundle is done again |
| `ExtractOutput` | alignment with bucket IDs, noise, formatting, sharding |
| `WriteFile`, `WriteFails` | text outputs |
| `RestartJob`, `NextLevel` | the aggregator runs the binary again, or for the next level |

Abstractions: a ciphertext never happens to parse as CBOR. The DPF library is external: a key
stands for its point function and a helper, and its shares are a mask and what is left of the
value modulo the word, with the mask a constant. The runner commits a file as a whole. The key
tool runs before the first job (a bound: it could run again later, and then the collection
names the new keys only). A file is the set of its lines.

## 3. Runs

| Run | Question | Answer |
|---|---|---|
| `one_replica_faults` | three levels, everything that reports an error may do so, messages are duplicated: does a level run twice, out of order, or is a query lost? | no (`OneRunPerLevel`, `LevelsInOrder`, `NoSilentLoss`, `TypeOK`) |
| `one_replica_crash` | a replica stops at any point, noise is random, the configuration may be unreadable: do the helpers still agree, is a published result ever replaced, is it the query of `HierarchicalQuery`? | they agree (`KeysAgree`, `ExpandsMergedResult`, `WriteOnce`, `OneRunPerLevel`, `ImplementsQuery`) |
| `two_replicas` | two replicas of one helper, leases expire at any time | levels stay in order and nothing is lost; one job per level is **not** guaranteed, which is why the property is not in this run |
| `settles` | API, storage, launch and job failures, fair scheduling, dead-letter policy | every request is answered by a result, a dead letter or a failed job, and the subscription drains |
| `both_complete` | two helpers that wait for each other, no faults, no dead-letter policy, noise that wraps around | both finish |
| `one_level_queries` | direct, reach and one-party queries, one helper on each runner, crashes and jobs the list does not show | never dropped silently, settled in the end |
| `collector` | two browsers and the simulator; failing writes, broken connections, a shutdown at any point that may time out, crashes and restarts | what was answered with 200 is kept (`AcceptedIsKept`), the helpers' files and the debug files agree (`FilesPaired`, `DebugBatchesAgree`), rejected reports are never stored, batches fill and never overflow, a report is stored once per request; handlers, shutdown and simulator end |
| `pipelines` | keys, payloads of every form and the three kinds of job, workers that are lost and writes that fail | a DPF job writes one of the results `Query` assumes (`DpfJobImplementsQuery`), the offline merge agrees with the aggregator's (`MergedIsPlainHistogram`), `ReachVerifies`, `OnePartySums`, `DecryptedOnce`; the next level reads every report whatever earlier runs have left (`EveryReportPassedOn`); a job fails only for a reason (`FailureExplained`); published keys are readable (`PublishedReadable`) |

`DpfJobImplementsQuery` ties the two halves together: `AggregatorService` takes the result of a
job from `PartialResults`, and this is what `BeamJob` is shown to write.

Four runs show where the code departs from what the repository says of it:

* `config_read_lost`: the job of a level is found done, but the configuration cannot be read
  this time. The handler then falls through to the one-party or the log-only branch and
  acknowledges: the next level is never requested. The comment on the job states promises
  "ack message and schedule next level if applicable".
* `direct_runner_rerun`: the direct runner has no list of jobs, so a level is aggregated again
  on redelivery and its published result replaced with one with new noise. If the partner has
  merged the first, the helpers expand different prefixes and neither gets any further.
* `negative_noise`: noise is added modulo 2^64 and the threshold is compared with the unsigned
  word, so a prefix whose noised count is below zero is always expanded.
* `simulated_reports`: the simulator marshals reports with `MarshalCBOR`, the collector decodes
  JSON, so every simulated report is answered with 400. `README.md` says that it "sends them to
  the `collector_server` endpoints".

More facts that the models rest on and that need no run:

* `EventuallySettled` counts a dead letter, a failed job and a job that is run again as ends: it says
  that no request is left open, not that it was answered, or answered once. What may run twice is the
  matter of `OneRunPerLevel`, `WriteOnce` and the run `direct_runner_rerun`.
* A reach query ignores `jobDone` and is aggregated again on every redelivery after its job is
  done (`aggregatorservice.go:272`); no property excludes it.
* A one-party query never works, for its binary is not configured (`aggregator_server.go:97`) and the
  flag it would be given is not one it defines (`aggregatorservice.go:483`); in `one_level_queries` it
  ends in the dead-letter topic.
* The collector answers an unsupported path with 404 and stores the report all the same
  (`collectorservice.go:84-87`, no return). A report that does not validate is answered with 400
  and sent to the writer too, where `GetProtocol` turns it away. A report whose payloads do not
  convert is answered with 200 and only logged.
* Batches are kept per protocol and form, while the comment at `collectorservice.go:46-47` speaks
  of pairs of helper origins. Whether a report is a debug report depends on its first payload.
* `WriteLines` ignores the error of closing the object (`utils.go:128`), so a failed upload is
  taken for a write; in the model a write may be lost in either way.
* The collector's batches of debug cleartext have the empty key ID, which the DPF pipeline takes
  for a cleartext report and the one-party pipeline for an unknown key.
* A shard with no lines is not written. After a job that failed during its writes and was run
  again, the next level's glob may find a shard of the earlier run and read reports twice
  (`StaleShard`); the properties of sums say what holds when this has not happened. That no report is
  missing there holds always (`EveryReportPassedOn`).
* `addNoiseFn` of the reach pipeline is dead code; an output with no line leaves no file.

**Bounds.** Two helpers, as in the code. Two levels let a level depend on another one; three
let a handler be behind or ahead by more than one and make the middle level both read and
released. One replica per helper or two of one of them: the handlers of different helpers
meet only in files, so two racing handlers of one helper show what more would.
`MaxCopies` bounds how many copies of one request are outstanding at a time, never how many
are sent in all: a publisher waits at the bound. `one_replica_crash` has two, with redelivery
that never ends; the others have one, so that duplicates come one after the other. `MaxRuns`
is 2 or more, so that a second job for a level is possible where a property forbids it.
`MaxDeliveryAttempts` is the dead-letter policy's; without a policy the count stops at the
bound and redelivery does not. Words are small (`Modulus`); the vectors are chosen so that one
prefix passes the threshold and one depends on the noise.

`collector`: three reports, one of them the simulator's, and two requests for each, so that a
batch of two fills, one is left to flush, and a report may be stored twice. Six mixes of contents
go through every branch of the handler and the writer: encrypted, debug, one-party, several
payloads, bad payloads, other paths. Faults come in three groups (writes and the timeout; the
network; crashes and one restart), which combine freely within a group; the groups keep the
instance small.
`BufferPercent` is 50 instead of 20, so that a batch of two has a channel of one: a handler can
find it full, empty or closed.

`pipelines`: three reports, two of one person in one bucket, whose values overflow words of three
bits; two workers, so that bundles split a batch in any way; buckets of three bits and segments of
three, so that vectors have a remainder; two lost workers or failed writes, which is as many as
the runner tolerates, and one restart. Fifteen queries choose the kind, the levels, the combine,
the shards, the noise, the forms of payloads and whether the keys are made twice; one asks for a level
below the first with no prefix, which the binary refuses (`ParametersRefused`), and two reach queries ask
for a level the keys do not have or one above the level before, where the library refuses to expand
(`ExpandOK`) and the job fails on its first line.

**Fairness** (`FairSpec`): a replica keeps taking and handling messages, since the client
library calls the callback as long as the process runs; Pub/Sub redelivers what is not
acknowledged; Dataflow ends every job. Nothing is assumed of the query tool, of faults and
of crashes. Weak fairness per replica and per job is enough: no step relies on being
enabled only now and then.

In the collector the handlers, the writer and the main goroutine go on when they can: goroutines
run, writes end with or without an error, and `srv.Shutdown` gives up after ten seconds. There
are finitely many requests, so that no handler is passed over for ever and `RequestsEnd` may say
that in the end no client waits. The workers of the simulator run. Signals, faults, restarts and
other browsers are not assumed. `BeamJob` states safety only and assumes no
fairness: that a job ends is up to the runner, which is not part of this code.

**Deadlock checking is off** in all runs: when a query is over, the collector has exited, or a job
is done, the system has nothing to do.

## 4. Proofs

All proofs are for every value of the constants. There is one lemma per action and, under it, one
step for each part of the invariant that the action can disturb. TLC checked every invariant on the
runs' instances before it was proved.

### Aggregator service

`AggregatorService_proofs` proves `Spec => []TypeOK`: any number of levels, replicas, buckets, any
noise, word size, bounds, set of faults and runner. `TypeOK` alone is not inductive. `TypeInv` adds
that requests are for levels of the query (or Publish would leave the range), that parameters are in
place before a launch, that a job has parameters the binary checked (or what it writes is no
histogram), and that a handler waits for a job that exists.

`ProgressProofs` needs no assumption on the deployment either:

* `LevelsInOrderAlways`: no level is skipped or started early. `ProgressInv` carries the reason
  along the chain of requests: a request above the first level was sent after the level before was
  done (`QueueInOrder`), a handler that says "done" saw a job that is (`HandlerInOrder`), and a done
  job has left its result (`ResultsWritten`).
* `OutcomesStay`: no step takes back an ended job, a result or a dead letter (`Grows`). This is what
  lets a fact about a request survive every other step, and it is an action property of its own.
* `NoSilentLossAlways`, when the fault "config" is excluded: a handler acknowledges only what the
  query can do without (`AckCovered`): the query is settled, or a request for a later level is
  outstanding. The proof breaks exactly where `config_read_lost` finds its counterexample, and the
  hypothesis is that one fault: all the others may happen.

`AgreementProofs` assumes `OneAtATime`: one replica per helper, the Dataflow runner, all jobs
on the page that is read, no reach query. These are what the code relies on; the runs
`two_replicas`, `direct_runner_rerun` and the facts above show what happens without them.
Under it, for every configuration and whatever crashes, fails or is delivered twice:

* `OneRunPerLevelAlways`: at most one job per helper and level;
* `KeysAgreeAlways`, `ExpandsMergedResultAlways`: the helpers' results fit and are for the
  prefixes that both results of the level before leave over;
* `WriteOnceAlways`: a published result is never replaced;
* `ImplementsQueryAlways`: the system implements `HierarchicalQuery`.

The argument goes in a circle, which the inductive invariant `AgreementInv` closes. A handler
on its way to a launch has found no job for its level, and there is no other handler to start
one (`HandlerAgrees`); so a level has one job (`OneRunPerLevel`); so a result is written once,
and what a level expands, once its inputs are there, is settled for good (`FilesAgreed`,
`ExpectedStable`); so what a handler has read is still what the file holds, and what it saves
is what the partner saves (`SavedIsExpected`, where merging is symmetric because both files
have the same buckets); so both helpers' jobs expand the same (`JobsAgreed`), and their files
have the same buckets again.

### Collector and simulator

`CollectorProofs` proves all the safety properties of the collector for any number of reports and
requests, any batch size and buffer, and all faults together. `CollectorInv` says what the code
keeps between its statements and never writes down:

* `WriterInv`: where the writer is. What it has still to write is not empty, no key comes twice, and
  a flush happens on an empty channel, with every other list empty. Without it a flush could end
  with reports left (`AcceptedIsKept`), or a crash be mistaken for an exit.
* `BatchInv`: the lists of a batch are equal for all its indexes, hold only reports that belong to
  it, and are full exactly when they are about to be written. Equal lists are what makes the two
  helpers' files equal (`FilesPaired`).
* `FilesInv`: which of the indexes that are being written are in files by now, and that a file with
  the current time stamp comes from the batch that is being written; so a second batch never
  completes the pair of the first.
* `DebugInv`: a debug list and the one of the other form are equal except in the middle of writing
  the two, where one is empty and the other one is what was written.

It also proves `StoredOncePerRequest` by counting: for every line, the copies in files,
in the list that is not written yet, in the channel and in handlers about to send are together at
most the requests taken for its report (`CountInv`). Each step moves a copy or adds one with a
request. `SimulatorProofs` shows that the composed system is a collector with particular clients
(`StepOfBoth`), so all of this holds of it, and that `DoneWhenAllSent` holds: every report handed
over is complete or with a worker (`SimulatorInv`), and an answer is for good (`FinalStays`).

### Keys and jobs

`BeamJobProofs` covers the keys and the control of a job, over all levels, restarts, failures and
any number of reports, workers and shards, with `JobInv`:

* `KeyInv`: stored before named, named before published; gives `PublishedReadable`.
* `ShardInv`: while a job that leaves decrypted reports runs, each report waits, or is with one worker
  with the one shard drawn for it, or is committed with its shard. A bundle that is done again takes
  its draws along. With `FilesInv`, which says that what is written is what the outcome gave, it
  gives `DecryptedOnce`.
* `FailureInv`: failures beyond the faults have a reason in the batch, and a DoFn instance expects
  reports in the clear only after it has met one; gives `FailureExplained`.

`PipelineProofs` covers the data of a job, for any reports, shares, word size, key size, prefixes,
segment length, noise, targets and workers. The inductive invariant is `DataInv`, which adds to `JobInv`

* `WorkInv`: while a job works, each report is with the lines nobody works on, in the bundle of one worker,
  or committed (`PlacesInv`), and the committed accumulator and those of the bundles are what the combine
  makes of exactly these reports (`SumsInv`). A bundle that fails or is lost gives its reports back and
  its sums up, in one step; so does a job that starts again.
* `LeftInv`: below the first level each report is in one of the files the first level left, so that the
  next one reads it once. It needs what `ShardInv` says of draws, and fails where runs are mixed (`StaleShard`).
* `HistogramInv`, `ReachInv`: what a job is about to write, or has written, is one of the outputs its sums
  allow. A reach job writes its lines in shards that may be drawn differently by each run, so `ReachInv` says
  of each line that a file of this run has it, and of each file of any run that it has no other.

The steps rest on `CombineLaws` (`CombineProofs`): for each kind of job, the accumulator of no report is
what `CreateAccumulator` makes, `AddInput` adds one report to a set that has not got it, and
`MergeAccumulators` puts disjoint sets together. They hold whether a vector is one array or in segments
(`SegmentsCover`), in unsigned words, for the tuples of reach and for the targets of a one-party query.
Sums over sets are folds, whose values come from induction on finite sets. The induction theorems of the
library take an operator; the form used here takes a *set* of good subsets, shows that it holds the empty set
and is closed under adding an element, and finds that it holds all (`SmallestSubset`, `SubsetInduction`).

From the invariant:

* `JobsImplementQuery`: a DPF job writes one of `Query`'s `PartialResults`. That a line stands at the bucket its
  sum belongs to, whatever the order of the prefixes, is `Expanded` and `TableIndex`.
* `OnePartySumsAll`: a line for each target and no other, with the sum of all contributions and its noise.
* `MergedGivesTheSums`: shares of one report add up to its value at its own bucket (`SharesAddUp`), so do their sums
  in words, and the merge tool and `MergePartialResult` find the same.
* `ReachResultsVerify`: both helpers write the same buckets; the counts add up to the number of reports; and the
  verification, made of products of sums that wrapped around in two helpers, is 0 where the reports are of one
  person. The products are congruent to those of the plain sums (`SameProducts`), and these cancel (`Cancels`).
* `ReportsArePassedOn`: below the first level every report is among the files of the first, also where runs are mixed: a
  run that is done has overwritten every shard it has lines for, and later steps take no line away (`PassedOnInv`).
* `JobTypes`: `BeamJob`'s `TypeOK`, also where runs are mixed and a report is added twice, from what accumulators
  and lines hold in every state (`AccumulatorsInv`, `ValuesInv`).

Three corrections of the models came from these proofs. `IsValue`, the type of a line, had two overlapping cases for a reach
job's `R` and `Q` lines, of which TLC evaluates the first. The reach pipeline's `ExpandOK` accepted levels the keys
do not have, for which the vector's length is no power. The constants' types of reports, masks and reach flags had been left implicit.

### Assumptions

Assumptions on constants are those of `QueryAssumption`, `AggregatorAssumption`, the collector's and
the simulator's, `KeysAssumption`, `JobAssumption`, `QueriesAssumption`, `ReportsAssumption`, `SharesAssumption` and
`ReachMaskAssumption`: a valid configuration, levels that go on where the one before ended, batches
that are not empty, bounds that are positive; finitely many reports, with numbers for buckets and values that are
words; masks of shares that are words. `SharesAssumption` says that the vectors `Query` is given are the sums
of these shares, which the model of the aggregator takes as given. TLC evaluates all of them in every run that uses them.

### Only model-checked

Every safety property of a passing run is proved. What is left is liveness: `RequestsEnd`, `ShutdownEnds`,
`SimulatorEnds`, `EventuallySettled`, `EventuallyDrained` and `BothComplete` rest on fairness and
`ENABLED`, beyond the proof system's reach.

## 5. Not modelled, and the plan

The safety properties that the passing runs check are all proved. What is left of the plan:

* action properties of the collector and of jobs in the manner of `OutcomesStay`: an answer, a file of a
  finished level and a stored key stay what they are;
* a promise for the collector, as `HierarchicalQuery` is one for the helpers, and its refinement;
* the composition of `BeamJob` and `AggregatorService` as one theorem: today they meet in `DpfJobImplementsQuery`.

Not modelled:

* the DPF arithmetic and its bridge (`distributed_point_function_c_bridge.cc`): an external
  library and marshalling to it;
* the distribution of the noise (`encryption/distributednoise.go`): a model takes any noise of a set;
* the job monitor and the control plane: they display documents no service here writes;
* the generator of random raw conversions, and the parsing of raw input of the converters;
* in the query tool, the reading of the helpers' shared information, two reads before its first step;
* paths, formats of files and messages, authorization tokens, budgets;
* the deployment, beyond the retry and dead-letter policies that enter as constants.
