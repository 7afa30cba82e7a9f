# A TLA+ model of the CollectiveOS isomorphic core

The modules in this directory model the parts of this repository in which
several processes, threads or tasks meet, or in which a failure can leave
something half done: the weight store, the execution of the model family, the
two servers in front of it, the publication of evidence files and of Forge
runs, and what Model Forge simulates, verifies and inspects. TLC checks small instances
of them; TLAPS proves their safety for every value of the constants.

## The system

| Part | Source | State | Operations |
|---|---|---|---|
| Weight store | `oims/weights.py` | per tier: GGUF files and `weights.lock.json` | `pull_tier`, `inspect_tier` |
| Backends | `oims/backends.py` | a loaded model in memory | construct (verify, then load), `generate`, `close` |
| Runtime | `oims/runtime.py` | sealed tier records, family report | `run_tier`, `run_family` |
| Collective request | `oims/collective.py` | sealed response | `run_collective_request` |
| Verifier | `oims/verify.py`, `cli.py verify` | none | `verify_artifact`, `--require-weight-backed` |
| Chat server | `oims/server.py` | one semaphore unit | `GET /health`, `POST /v1/chat`, a thread each |
| Service | `oims/service.py`, `doctor.py` | one `asyncio.Lock`, the loop's executor | `GET /health`, `POST /v1/collective`, a task each |
| Durable files | `oims/proof.py` | the file at a path | `atomic_write_json`, `atomic_create_json` |
| Forge simulation | `oims/model_forge.py` | run directory, staging directories | `simulate_forge_run`, `verify_forge_run` |
| Forge plan and decision | `oims/model_forge.py` | none | `validate_forge_plan`, `forge_plan_decision` |
| Forge preflight | `oims/model_forge.py` | what it has observed, the errors so far | `inspect_physical_preflight` |
| Forge container | `forge/oims_forge_entrypoint.py` | sealed memory files, library directory, environment | attest, verify, bind, execute |
| Forge launcher | `scripts/run_model_forge.ps1` | leases on host paths, build processes, environment | lease, render, build, confirm, run, clean up |
| Declarations | `oims/manifest.py`, `contracts.py`, `agents.py` | immutable documents | load, resolve, `validate_input`, `validate_output` |
| Tools | `tools/*.py` | none | capability graph, skill checks, packaging |

How they interact. The command line, the chat server and the service call
`run_collective_request`, which calls `run_tier`; `run_family` calls `run_tier`
for each tier of the manifest. `run_tier` asks git for HEAD, checks the prompt,
constructs a backend (which inspects the weight store twice: once to hash, once
to load), generates, releases the backend and publishes a sealed record through
`atomic_write_json`. Nothing locks the weight store or the repository: a pull, a
copy or a commit may happen between any two of those steps. `verify_artifact`
recomputes what a report claims. A Forge simulation stages a directory and
renames it into place; `verify_forge_run` reads it file by file and replays the plan it
finds in it. Whether a plan is valid decides what simulation, verification and preflight
do at all. The launcher runs
the Forge commands in a container: it pipes `git archive` into `docker build`, and
mounts the host's paths. In the container the entrypoint runs before any project code;
for `forge probe` it copies the driver's files, which are mounted from the host, into
sealed memory files, and the preflight of `oims/model_forge.py` executes `nvidia-smi`
from there.

What is hard here, and where, is the list `hazards` of `PROJECT.json`.

## The modules

`WeightStore` — the weight directory and everything that writes it. A file is
one of four contents (pinned, altered with the pinned size, another size,
missing): what `stat` and SHA-256 tell apart. `PullStart`, `Download`,
`HashDownloaded` and `WriteLock` are the two loops and the end of `pull_tier`, one
file per step; `DownloadFails` and the mismatch branch are its two errors;
`DiskChanges` is any other writer.

`FamilyRuntime` — extends `WeightStore` with processes that execute. `BeginTier`
is `_base_record` and `validate_input`; `InspectLock`, `InspectFile`,
`CheckIdentity` and `Load` are `LlamaCppBackend.__init__`, one read per step, so
other processes act in between; `Generate`; `Release` is the `finally` clause and
`_write_tier_artifact`; `Seal` ends `run_family` or `run_collective_request`; `Crash`
is a kill or an exception no handler expects, at any point. `HeadMoves` is a
commit. `TierVerifies` and `FamilyVerifies` are the verifier, `Accepted` the
acceptance of `verify --require-weight-backed`. Two fields of a record and the variable
`moved` are history: the bytes llama.cpp read, and the files that were rewritten
since they were hashed.

`SerializedInference` — what both servers promise: requests open, at most one is
inferring at a time, and every one that inferred is closed.

`ChatServer` — a thread per connection. The actions are the stretches of `do_POST`
between two points where another thread or the client can act. `SendBody` is the arrival of
the body, for which `ReadBody` waits without a time limit, as `rfile.read` does; `Disconnect` can
happen at any point, and an answer written to a client that has gone may
succeed or raise. `ChatServer!ImplementsSerialized` is the refinement of
`SerializedInference`.

`CollectiveService` — a task per request on one event loop; an action is what a
task does between two awaits. `LockFree`, `WokenTakesLock` and `Woken` are
`asyncio.Lock` (first in, first out, with a free lock handed to the first
waiter), `TakeWork` the executor. Both are libraries and are modelled as
`service.py` uses them.

`WriteOnce` — a cell that is written only when empty, and emptied.

`ForgePublish` — processes that simulate one plan, the operator who creates or
removes the run directory, and verifiers. The artifacts are numbered in the order in
which they are written. `Prepare` is everything `simulate_forge_run` does before it
touches the disk, `CheckAbsent` is `_safe_run_directory`, `Publish` is the
`renameat2` call, `HandleError` and `Cleanup` its `except` and `finally`. A verifier
reads one file per step, lists the checkpoints and meters the whole, and any reading may fail. Which
of `plan.json` and the receipt are longer than `_read_bounded_bytes` takes is chosen in `Init`
(`oversized`): it depends on the plan, and simulation does not look at it.

`ForgePlan` — a plan and when `validate_forge_plan` accepts it. The fields that are compared
with one another (capacities, ceilings, budgets, checkpoints, losses, peaks) are kept;
the fields that must have one exact value are the Boolean `exact`. Every list of errors in
`model_forge.py` is the set of the checks that failed (`Failed`).

`ForgeEvidence` — what one simulation writes and what `verify_forge_run` accepts.
`Simulate` is `simulate_forge_run` up to its metering loop, with the refusals in the order of
the code; `MeterAgain` and `Publish` are a round that does and one that does not change
`output_bytes`. `Errors` is `verify_forge_run`, one operator per block of checks, with the
conditions under which a block is skipped. The environment then edits the published
directory: damage, files of other runs, renamed checkpoints, another plan, changed fields,
and `Reseal`, which recomputes every hash and length from the first checkpoint to the seal. A
digest is the value it is taken of, and a file that is not the JSON object its reader
expects is one whose `json` is false, whatever else it holds. The order in which
`verify_forge_run` meets the checkpoints is that of their numbers (`Rank`, `Sorted`).
The sandbox checks of the simulation lane are a Boolean
here (`sandboxed`) and the subject of `ForgeSandbox`; `verify_forge_run` is applied to a
directory that stands still, while `ForgePublish` reads one that does not.

Python calls `True` and `1` equal, so a checkpoint whose loss is spelled `true` passes the
semantic replay once its hashes are recomputed. The model keeps that (`spelled`, `Meaning`),
and `AcceptsOnlyReplay` says so.

`ForgeSandbox` — what Model Forge reads of the container: the mount table, the cgroup files of
both hierarchies, the process status, the interfaces. `ForgeMountPolicy` and
`RuntimeSandboxErrors` are the functions of those names; `Visible` is the kernel's rule which
mount a path is looked up in.

`ForgePreflight` — `inspect_physical_preflight`, one observation per step, while the host may
change (`Change`). The observations are those of the code, grouped where it reads several
files of one kind together: the environment with the attestation, the attestation again, the
process status, root mount with route and interfaces, the mount table with the write test,
the cgroup files, `/proc/meminfo`, and `nvidia-smi`. `Seal` derives the constraint signals and
the verdict. That the output mount is the plan's, and that the receipt does not exist yet, is
checked in `cli.py` before and after it.

`AtomicFiles` — the two ways in which `proof.py` publishes one file, step by step,
with kills and failures between the steps.

`ForgeContainer` — the entrypoint of the container. `OpenFile` to `Seal` are the body of
the loop in `nvidia_runtime_mount_attestation`, one `read` per `CopyChunk`; `Abandon` is
its two `finally` clauses; `MakeDirectory`, `LinkLibrary`, `Bound` and `Unbind` are
`bind_attested_nvidia_runtime`; `Refuse` and `Execute` the ends of `main`; `RunSmi` is the
`subprocess.run` of the preflight. It only sets `LD_LIBRARY_PATH`, so a library whose name has no link
in the library directory is looked for in the default directories, where the mounted files are as
the host has them by then (`DefaultOf`). The links have the base names of the mounted files; whether
nvidia-smi asks for those or for a SONAME that the image links to one of them, is the driver's
affair. The loader knows names only here; what the driver opens by a path of its own is not modelled.
`HostChanges` replaces a mounted file at any moment, also between two reads of it. A file
is its number of chunks and whether they are the approved ones. What the entrypoint
finds out about mounts and the installed package is a verdict that may go either way
(`Begin`, `Verify`). Descriptors appear as the state of the memory file they belong to: a
second `close` of one gives a state outside `ContainerTypeOK`.

`ForgeLauncher` — the launcher, with git, docker and the host as further actors. `TakeLease`
is a snapshot: the object and where it is (`spot`). On Linux it comes with an open descriptor, which
the mount names; on Windows with a handle opened without access rights, and the mount names the path
(`windows` is chosen in `Init`). `StartDocker` to `KillBuild` are
`Invoke-ForgeImageBuild`; `Confirm` and `Confirmed` are `Assert-ForgeHostMountIdentity`, one
path per step; `Run` starts `docker run`, and `Bind` is the daemon, which creates the container when it
gets to it, whether or not the launcher is still alive: then a descriptor is gone and a path is not.
`Finally` is the outer `finally` clause. `HostRebinds` puts another object at a path, `HostMoves`
moves an object to another place, `HostRetags` moves the tag, and `LauncherKilled` is a kill at any
point. Everything before the `try` block that can throw is `StopsEarly`. Which places contain
each other is a constant, `Overlapping`; which objects do is not, since they move. Not modelled is
that a dead launcher's process ID, and the number of its descriptor, are used again before the
daemon looks at `/proc`.

`MC*` modules give the constants their values; the `*Proofs` modules hold the
theorems, and `ForgeLemmas` the lemmas about lists of errors and sums that two of them need.
`FamilyRuntimeProofs` also holds the theorems about `AtomicFiles`, and `ForgeProbeProofs`
those about `ForgeContainer` and `ForgePreflight`, the two halves of a probe.

In every module a definition whose comment begins with "Fault:" is not part of
the specification: it is a plausible bug of the definition after it, kept to show
that a property notices it.

## What the runs show

| Run | Instance | Shows |
|---|---|---|
| `family_runtime` | 2 tiers (of 2 and 1 files), 1 puller, 1 run, 1 foreign change, 1 HEAD move | `WeightEvidence`, `OneTierAtATime`, `RejectedOnlyForCommits`, `LockOnlyForPinnedBytes`, and in `TypeOK` that no record has a status outside the four |
| `chat_server` | 3 clients | `SlotAccounting`, `AnswerTellsResult`, `AnsweredOnce`, `BusyOnlyBehindAnother`, `ThreadsEnd`, refinement |
| `collective_service` | 3 requests, 2 executor threads | `LockDiscipline`, `NoOvertaking`, `HealthDuringInference`, `NoStarvation`, refinement |
| `forge_publish` | 2 writers of different sources, 1 verifier, 2 steps, 1 removal, 1 creation, each of plan and receipt within the record limit or beyond it | `PublishedWhole`, `VerdictTellsPublication`, refinement |
| `atomic_files` | 2 writers, 3 probes, 2 removals | `CreatedIsKept`, `UnfinishedOnlyIfKilled`, `NeverReplaced`, and in `FileTypeOK` that the record is always whole |
| `forge_container` | 4 driver files, two of the same name, and another name for one of them; approved files of 2 chunks, room for 7; every subset of them mounted | `AttestedNamesApproved`, `DescriptorsOwned`, `CopiesBounded`, `LibrariesExact`, and in `ContainerTypeOK` that nothing is closed twice |
| `forge_evidence` | 7 plans: of one to three steps, at and one byte beyond the output budget, with a plan file, a receipt or telemetry beyond its limit, altered, and a probe; 2 sources; 2 edits and any resealing | `AcceptsOnlyReplay`, `PublishedVerifies`, `MeteringConverges` |
| `forge_preflight` | 5 plans, 84 hosts, 1 change | `VerdictMatchesSignals`, `IncompleteOnlyByRace`, `InputsUnwritable`, `SimulationLaneIsStricter` |
| `forge_launcher` | a read-only path and the output, 2 objects in 3 places of which two overlap, 1 move, both platforms | `MountsAreConfirmed`, `ImageIsExact`, `NothingLeft`, `BuildEnds` |

`ChatServer`, `ForgePublish`, `ForgeLauncher`, `ForgeEvidence` and `ForgePreflight` have a `TypeOK` too;
it is proved (below) and no run repeats it.

`PublishedVerifies` has an exception in it, which is what the code does: `simulate_forge_run`
writes `plan.json` and the receipt without the record limit that `verify_forge_run` reads them with, so a
plan whose arrays make either file longer than that is simulated, published and then never
accepted. `VerdictTellsPublication` has the same exception. It is in two halves: a run that a verifier
finds valid, however the directory was changed under it, has a receipt of the verifier's own source
and nothing in it from a directory somebody else made; and a verifier that nothing disturbed, no
failing read included, finds every published run of its source valid that is within the limit.

`AttestedNamesApproved` is about the names that were attested. Under another name for the same
library the probe may load what the host has there at the time, approved or not; the model does
that (`RunSmi`), and a property without the restriction fails.

`MountsAreConfirmed` depends on the platform. On Linux the container gets the confirmed objects or
none. On Windows the handle of `CreateFile` has no access rights (`run_model_forge.ps1`, lines 460 to
467), and the system checks sharing only against handles that have some; MODEL_FORGE.md, line 206, says
that "non-delete-sharing filesystem handles retain the verified names until Compose returns", which
this handle does not do. So a path that was rebound after the check is an exception there. On both, an
object can still be moved into another after the check, and the property says of the overlap
only that it did not exist when the paths were checked: it is about objects not moved since.

Some properties delimit a harm that the code cannot exclude rather than exclude it:
`UnfinishedOnlyIfKilled` and `CreatedIsKept` (a receipt created in place is cut off by a kill, and a failed
probe unlinks whatever is at the path by then), `LockOnlyForPinnedBytes` (files replaced after the
puller hashed them) and `BuildEnds` (nothing is said of the children of a killed launcher, although
`ImageIsExact` and `MountsAreConfirmed` hold of a container docker still starts for it).

`SimulationLaneIsStricter` goes one way only: the preflight asks for any
user but root and for any memory limit above the ceiling, the simulation lane for UID 65532 and
a limit within the declared memory.

Three runs expect a violation, of what a document or a comment says:

* `chat_answers`: a connected client may get no answer at all. `normalize_request`
  raises `TypeError` for a JSON body that is not an object, which `do_POST` does not
  catch.
* `family_accepted`: `verify --require-weight-backed` accepts a NONCONFORMANT report,
  though VERIFICATION.md lists `"runtime_isomorphic": true` among what an accepted
  report must contain.
* `family_bytes`: bytes replaced between the hash and the load are executed under a
  record that vouches for the pinned ones. `WeightEvidence`, which holds, says
  exactly how far the record can be trusted.

### Bounds, and why they are enough

* Tiers: two, one of them split over two files, so that a tier can be half
  downloaded or half hashed and a run can fail at its second tier. Tiers do not
  interact except through the loop over them.
* Runs and pullers: one of each. Runs share nothing but the weight directory, which
  they only read, and HEAD; a second run adds no behaviour the first cannot see. The
  artifacts two runs write to one path are `AtomicFiles`' subject.
* `MaxChanges` counts the times bytes other than the pinned ones reach the disk (from
  upstream or from elsewhere); `MaxHeadMoves` the commits during a run. One of each is
  enough to fall into any window; several only repeat it.
* Requests: three, so that one holds the slot or the lock and two wait or are refused,
  and the queue of the lock has an order to violate.
* `Workers = 2`: the smallest pool `WorkersAssumption` allows; the executor of a real
  loop has at least 5 (`min(32, cpu_count + 4)`). Two is the worst case for /health.
* `Steps = 2`: a first and a later checkpoint, so that the chain is read past its start.
* `MaxRemovals`, `MaxCreations`: the operator removes and creates the directory
  once; with two writers this gives every order of owner changes a verifier can
  straddle. Three probes and two removals let a probe unlink the receipt of a second
  one and a third one create it again.

* Driver files: `nvidia-smi` and three libraries of which two have one name, so that a
  copy can fail with others already sealed, and a link with another already made. Three
  approved files fit into `MaxChunks = 7` and four do not, so the limit is met with a
  legal set too, and a growing file passes it at any point of the loop.
* Paths and objects: one read-only path instead of three, which are treated alike and only
  compared with the output. Two objects, so that each path can get the other's; in three places, of
  which one contains another, so that they can be apart or overlap, and either by the one move.

* Forge plans and lengths: the lengths are scaled down to two digits so that the receipt's own
  digits move the total across 100: that is the slowest the metering can be, and larger numbers
  only repeat it (the proof covers them). Three steps give a first, a middle and a last
  checkpoint; two edits let a second change hide what the first one did. `EvidenceAssumption`
  limits a run to ten digits of bytes, which the telemetry limit and the step limit keep
  any real one below.
* Hosts: a good one and every one that differs from it in one respect, at each limit and
  one beyond it, and the mount tables in which a mount below, above or on top of a protected
  one decides. One change during the inspection puts any two of them together.

### Fairness

* `ChatServer`: weak fairness of a thread's own steps: it is scheduled again and again. None of the
  client's steps (`SendBody`, `Disconnect`, and `Respond`, which a client that does not read can
  block) and none of `RunnerEnds`: nothing makes a client send its body, and no inference has to
  end. `ThreadsEnd` has those as its hypotheses, for one request at a time: a thread ends if its own
  client and its own inference let it, whatever the other clients and inferences do.
* `CollectiveService`: weak fairness of the loop's and the executor's steps
  (`TaskStep`), and none of `RunnerEnds`: COLLECTIVE_INTEGRATION.md leaves forced
  cancellation of an inference outside OIMS, so an inference may never end.
  `NoStarvation` states that every inference ends as its hypothesis;
  `HealthDuringInference` does without it.
* `ForgeLauncher`: weak fairness of the launcher's own steps, of git while its output is
  read (git blocks on a full pipe otherwise, so `GitFinishes` needs the launcher to be
  copying), and of docker once its input is closed. None for the failures, and none for
  `RunEnds`: a container need not end. `BuildEnds` is about the pipes between the three.
* The other modules state safety only and no fairness: a killed process need not
  come back.

## What is proved

All constants are arbitrary, subject to the assumptions named in the modules. TLC
evaluates those assumptions on every run.

`ChatServerProofs` (for any set of requests):
`SlotSafety` is `TypeOK /\ SlotAccounting`. The two conjuncts are inductive together:
`SlotAccounting` says that the semaphore's value is 1 or 0 as no thread or exactly one
thread is between taking and releasing it, which pins down who a step of another thread
can disturb. `AnswerSafety` strengthens `AnswerTellsResult` with what is known of result and
reply at every place of the handler (`AnswerInv`), and uses `TypeOK` of the next
state from `SlotSafety`. `AnsweredOnceSafety` and `BusySafety` are action properties
from these invariants. `SerializesInference` is the refinement: every step maps
to a step of `SerializedInference` or leaves the phases alone; the one step that needs
the invariant is the one that begins an inference, where `SlotAccounting` excludes a
second one.

`CollectiveServiceProofs` (any number of clients and of executor threads): `ServiceTypes` and
`LockSafety` come from one inductive invariant. `LockDiscipline` is inductive only together with
what the executor's queue holds, which is exactly the tasks that asked for a thread, each once
(`PoolInv`): a thread that took a task twice would end an inference under a lock that
belongs to another. `ResultInv` adds that a task which resumes has a result, so its answer is one of the
routes'. `FirstComeFirstServed` is the action property that nobody takes the lock past
a waiting request; it follows because a lock that is free with a queue has woken the head of it.
`QueueSerializesInference` is the refinement of `SerializedInference`, the specification that
the chat server implements too: `LockDiscipline` excludes the second inference.

`ForgePublishProofs` (any number of writers, verifiers and steps):
`PublishedWholeSafety` needs that a staged directory is renamed only when it holds
every artifact. `WritesOnce` is the refinement of `WriteOnce`. `VerdictSafety` is about
a verifier in the middle of its reading: its invariant says that while nobody
disturbed it, the owner it saw first is still in place and what that owner published is good so
far, within the record limit; and of every verifier, that what it accepted so far was
read of published runs, under a receipt of its own source.

`ForgeLauncherProofs` (any paths, objects, places and overlaps): `MountSafety` needs that confirmed
objects are the leased ones until the leases are given up; that a confirmed object is still at its path
unless the path is noted as rebound, and still where its snapshot says unless it is noted as
moved; and that all this is there as long as docker has not answered, also after a kill. `ImageSafety` needs that an archive is
whole only if git ended well, and that docker builds what it got. `CleanUpSafety` needs
that no process of the build runs outside it.

`FamilyRuntimeProofs` (any tiers, files, order, pullers and runs): types and `Stage` are inductive
together (a run that is in a tier has a tier left, one past the preflight has an accepted
prompt, one past the checks saw pinned bytes and a matching lock). `OneTierHeld` needs that a
model is held exactly in the stages in which it is used (`Resident`). `WeightsWereChecked` needs that a
file a run hashed still is what it saw unless it is noted in `moved` (`HashInv`), also while others
write, and that every record published so far is good (`GoodRecord`). `OnlyCommitsRefuse` adds
that the records and the tiers still to come are the family in its order (`Covers`), so
that the sealed report is the verifier's own. `LockMeansPinned` is an action property that rests on
what the second loop of `pull_tier` has seen (`PullInv`).

The same module, about `AtomicFiles` (any number of writers, probes and removals): `FileSafety`
(`FileTypeOK` and `CreatedIsKept`), `UnfinishedSafety` and `NeverReplacedSafety` rest on where a
probe's file is (`Located`): a probe that writes has its file at the path, or the file was
taken from it. Without it, a probe that finishes could be thought to finish another's file.

`ForgeProbeProofs`, about `ForgeContainer` (any finite set of files, names and sizes; it is finite
because the entrypoint refuses more than `MAX_NVIDIA_RUNTIME_MOUNTS`): `AttestedCodeApproved`
(`ContainerTypeOK` and `AttestedNamesApproved`), `NoDescriptorLost` and `DirectoryExact` share one
invariant. It says of every place of the entrypoint which memory files are open, that the sealed
ones are approved, and that every link made so far names an attested file. What the host does is
harmless because nothing of the invariant mentions what is mounted, and what is loaded from the
default directories has no attested name: an attested library has its link. `MemoryBounded` is about a
sum over all files, however they grow: its invariant (`CopiesInv`) adds that the sum is never more
than `total`, the counter the code compares with its limit, and every step that touches one file
changes the sum by what it changes of that file (`SumChange`).

About `ForgePreflight` (any plans and hosts, any number of changes): `JudgementsAgree` and
`OnlyTheRace` share an invariant that says of each phase what an empty list of errors implies of
the observations made so far; at the end these are the conditions of the signals, but for
the second reading of the attestation. `PreflightTypes` is `TypeOK`. `ReadyIsReadOnly` is for any
mount table and any set of paths: what was observed is the table of some host (`TableInv`), and a
path is looked up in the newest mount at or above it (`LookedUpIn`). That mount is read-only, or
it is one the policy lets be writable: then it lies in the output, or is the runtime's own, and so
does the path. The theorem is about paths with a mount at or above them (`Mounted`). The preflight does
require a root mount, but in an earlier observation, and the table may have changed since.
`LanesAgree` compares the lists of errors of the two lanes, check by check.

`ForgeEvidenceProofs` (any plans and lengths): `MeteringSettles` is arithmetic. The length of
a number's digits is monotone and grows by at most one over the few bytes that
the digits themselves add, so the claimed length is settled by the third correction; the
invariant says which of the four lengths each round has reached. `EvidenceTypes` is `TypeOK`.

`VerifierReplays` (`AcceptsOnlyReplay`) needs of the history only that every edit leaves a directory
with files of the right shape (`IsDirectory`): no edit, in no order, with no resealing, gets anything
else accepted. An empty list of errors means that every check in it succeeded (`NoneFailed`),
and from the checks follow, in the order of the code: the plan, the receipt's fields and
length, the number of checkpoints, then each checkpoint. The chain of hashes is a recursive
function of the checkpoint's number; what it holds for every length is shown by looking at the
least number at which two chains differ (`LeastElement`, `LinksExist`, `SameLinks`,
`ChainFrom`), since the induction theorems of the library cannot be used.

`VerifierAcceptsPublished` (`PublishedVerifies`) is the other direction. What was published and not
changed since is the evidence of its plan with the settled length (`PublishInv`); each list of
errors of `verify_forge_run` is then shown to be empty (the `Fitting...` lemmas), where the
length of the whole directory is a sum over its files (`SumOfFiles`). The record limit, which
`simulate_forge_run` applies neither to `plan.json` nor to the receipt, is the exception the
property names; every other limit of the verifier follows from one the simulation applied.
`EvidenceAssumption` states that a checkpoint and a candidate are no longer than a
record: their fields are hashes, numbers and constants, so `MAX_RECORD_BYTES` is far away.

Every safety invariant, action property and refinement of a passing run is a theorem. Only
model-checked are the liveness properties (`ThreadsEnd`, `HealthDuringInference`, `NoStarvation`,
`BuildEnds`), because the prover has no rule for fairness and `ENABLED`, and the three
violations, which are counterexamples.

## What is not modelled, and the plan

1. The closure computed by `tools/resolve_capability_graph.py` against reachability.
2. The entrypoint's checks of the mount table and of the installed package, and the
   sealing of the attestation at build time, which are verdicts in `ForgeContainer`.
3. Strict JSON parsing, and the exact values of a plan's sections one by one:
   `forge_plan_decision` adds a seal to the verdict of `validate_forge_plan` and keeps no
   state.

Left out for good: field-by-field validation of JSON documents, formatting, the skill
and plugin packaging tools, and the documents themselves. They have no state and
nothing in them interleaves.
