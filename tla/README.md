# A TLA+ model of parsl-ephemeral-provider

The program is a Parsl execution provider that runs each job ("block") on AWS resources it
creates, reuses and deletes itself. What can go wrong in it is rarely in one function: it is in
two threads that meet in the middle of a call, an AWS call that fails half way, a process that
dies between an effect and the record of it, two processes that share nothing but parameters.
This directory models those parts in TLA+, checks them with TLC and proves the most important
facts with TLAPS.

Paths below are relative to `src/parsl_ephemeral_provider/` unless they start with `src/`.

## 1. The system

| Component | State | Operations | Makes it correct |
|---|---|---|---|
| `EphemeralProvider` (`provider.py`) | `resources`, `job_map`, the re-entrant `_lock`, a document in the state store | `submit`, `status`, `cancel`, `scale_in`, `shutdown`, `_cleanup_resources` (also the warm-pool pass), `_save_state`, `_load_state` | jobs are never killed for another's sake, never reported over before they are, always settle; capacity and pool bounds; nothing is leaked |
| `StandardMode` (`modes/standard.py`, `modes/base.py`) | `resources`, `_warm_instances`, `initialized`, its own document | `submit_job`, `get_job_status`, `cancel_jobs`, `cleanup_resources`, `cleanup_all`, `cleanup_infrastructure`, `handle_instance_interruption`, `handle_fleet_interruption`, `save_state`, `load_state` | every running instance is in its records; a reused instance is idle and alive; interruptions stick |
| `SpotFleetManager` (`compute/spot_fleet.py`); the last sweep of a shutdown is in `modes/standard.py` 2268-2326, that of serverless mode in `compute/spot_fleet_cleanup.py` | `blocks`, `fleet_requests`, `launch_templates`, the `worker_init` it takes the script from | `create_blocks`, `get_block_status`, `terminate_block`, `cleanup_all_resources` | a fleet runs its own job; what a failed submit made is taken back |
| `SpotInterruptionMonitor` (`compute/spot_interruption.py`) | handlers, event queue, SQS warnings | register, poll, dispatch, on a thread of its own | each reclaim is reported, and only reclaims |
| `DetachedMode` and the program on its bastion (`modes/detached.py`) | SSM parameters `jobs/X`, `status/X`, `cancel` shared by two processes; the mode's records | client: submit, status, cancel, cleanup; bastion loop: update, cancel, launch | a job is launched once; a cancel reaches its workers; an end is final and true |
| The bastion's life (`modes/detached.py`, `utils/aws.py`) | bastion id, instance profile, script bucket and who owns them; the document | `initialize`, resume, `cleanup_infrastructure`, `cleanup_all`, `load_state` | one bastion per workflow; a teardown leaves nothing; a caller that retries gets a bastion |
| `ServerlessMode` (`modes/serverless.py`) | records, CloudFormation stacks, staged packages, fleets, code bucket, document | submit as Lambda stack, ECS stack or fleet; status, cancel, cleanup, shutdown, resume | a job's answer and a job's deletion concern that job; nothing is left |
| State stores (`state/*.py`) | one document per key | `save_state`, `load_state`, `delete_state` | one key's write leaves the others alone; a reader sees a whole document |
| ECS and Lambda managers, error handling, cleanup tool, certificates, credentials, audit, network policy, configuration, Globus Compute | clients, files and settings | mostly pure | out of the model, or only its outcomes (section 8) |

Interaction: Parsl calls the provider from its own threads; the provider calls its mode
*outside* its lock; the mode calls AWS and has no lock at all; the monitor's thread writes into
the mode's records; provider and mode each write one document. A restarted process rebuilds
both from the two documents. In detached mode a second program, on the bastion, shares three
kinds of SSM parameter with the mode, and every parameter call is atomic but no two are.

Hard behaviours, listed one by one with their lines under `hazards` in `PROJECT.json`:
decisions taken under the lock and carried out after it; two books of the same instances
updated apart; errors swallowed on one side and forgotten on the other; the copy-then-write of
`_save_state`; crashes between an AWS effect and its record; the reuse of an instance, of a
stack name, of a template name, of one `/cancel` parameter by a second job; what a new session
concludes from the leftovers of earlier ones.

## 2. Modules

| Module | Models | Extends |
|---|---|---|
| `StandardMode` | EC2 and SSM as far as the mode observes them; the mode's records, reuse list and document; one operator per uninterrupted stretch of a mode method | community modules |
| `Provider` | the provider's calls as step-by-step processes over `StandardMode`, with the lock, the two documents, crash and restart; all properties | `StandardMode` |
| `SpotFleetManager` | the manager's books, EC2 Fleets, their instances and templates; one operator per stretch between AWS calls | standard modules |
| `SpotMonitor` | the monitor's loop over a queue of warnings and the registered fleets | `SpotFleetManager` |
| `FleetMode` | `StandardMode` with `use_spot_fleet`: callers' threads, the monitor's thread, restart; all properties of the three | `SpotMonitor` |
| `DetachedMode` | client and bastion program over the SSM parameters, with the workers they start | standard modules |
| `BastionLifecycle` | bastion, instance profile, bucket and script over any number of sessions | standard modules |
| `ServerlessMode` | serverless jobs as stacks or fleets, the code bucket, two callers, restart | standard modules |
| `KeyedStore` | what `state/base.py` promises of a store: abstract specification | |
| `FileStateStore` | `state/file.py`: the read-modify-write of one JSON file, with several clients and crashes; implements `KeyedStore` | instantiates `KeyedStore` |
| `MCProvider`, `MCFleets`, `MCDetached`, `MCServerless` | values of the constants for TLC | what they name |
| `ProviderProofs`, `TrackingProofs`, `CallsProofs`, `FileStateStoreProofs`, `BastionProofs`, `DetachedProofs`, `FleetProofs`, `ServerlessProofs` | the proofs of section 4 | what they name |

### How state corresponds to the code

| TLA+ | Code |
|---|---|
| `mode_resources[i]` (`StandardMode`), `resources[..]` (`FleetMode`, `ServerlessMode`, `DetachedMode`) | the mode's `resources`; `Absent` = no such key |
| `warm_instances` | `StandardMode._warm_instances` |
| `resources[i]`, `job_map[j]` (`Provider`) | the provider's two dictionaries; of `warm_since` the model keeps its age, `warm_age` |
| `lock` | the holder of `provider._lock` between steps of one `with` block |
| `pc[t]`, `frame[t]` | where thread `t`'s call stands, and its local variables |
| `mode_store`, `provider_store` | the documents under `STATE_KEY_MODE` and `STATE_KEY_PROVIDER` |
| `reported` (`FleetMode`, `ServerlessMode`) | the provider's status of each job, all that these modules keep of the provider; "collected" once its record is gone |
| `blocks`, `fleet_requests`, `launch_templates`, `worker_init` | the attributes of `SpotFleetManager`, and `provider.worker_init` of its stand-in provider |
| `job_params`, `status_params`, `cancel_param` | the parameters `jobs/X`, `status/X`, `cancel` |
| `bastion` (`DetachedMode`) | where the bastion's `main()` stands and what it holds across calls |
| `mode`, `host`, `profile`, `bucket`, `script` (`BastionLifecycle`) | the attributes of `DetachedMode` that concern what it owns; what stands in AWS |
| `stack[k]` (`ServerlessMode`) | the CloudFormation stack with the name that all Lambda (ECS) jobs of a provider share |
| `ec2`, `command`, `host`, `node`, `fleet`, `work`, ... | external: AWS's own state |
| `file`, `pending`, `pc` (`FileStateStore`) | what is at `file_path`; what a writer is about to write; whether it has read, emptied or is removing the file |
| `cancelled`, `canceled`, `submits`, `ran`, `finished`, `happened` | history: what callers asked, what ran to its end, which events occurred |

### How actions correspond to the code

A call is cut where somebody else can get in: where it takes or releases `provider._lock`, and
at each AWS call. So the provider's `submit` is `Submit` (capacity check under the lock),
`TakeWarm` or `TakeCold`, then `DispatchWarm`, `TrackWarm`, or `Create`, `WaitRunning`,
`Deliver`, `TrackCold`, then `RecordJob` (second lock region) and `SaveJob` (write, return).
`status` is `StatusBegin`, `Group`, `PollSsm`/`PollEc2`/`PollRaises`, `StatusUpdate`,
`SaveStatus` and then the cleanup pass; `cancel`, `scale_in` and `shutdown` share their steps.

In `FleetMode` a submit is `Submit` (the script goes into `worker_init`), `CreateTemplate`
(which reads it), `Create` (the fleet), `WaitRunning`, then `Register` and `Track`, or
`Discard`; the monitor's loop is `ReceiveWarning`, `ListFleet`, `DescribeListed`, `TakeEvent`
and, inside the handler, `MarkInterrupted` or `HandlerRaises`. In `DetachedMode` the bastion's
loop is `UpdateRead` .. `PutChanged`, `CancelRead` .. `DeleteCancel`, `ListJobs` ..
`RecordLaunch`, each about one call, and the client's `submit_job` is two puts, `SubmitJob` and
`SubmitStatus`. In `ServerlessMode` a submit is `Submit`, then `EnsureBucket`, `Stage`,
`CreateLambdaStack`, or `CreateEcsStack`, or `CreateTemplate`, `CreateFleet`, `Unfilled`, then
`SaveJob` or `Undo`. In `BastionLifecycle` `initialize()` is `Initialize`, `ResolveProfile`,
`EnsureBucket`, `Stage`, `Launch`, `WaitRunning`, `Record`, with `Undo` on every failure, and a
cleanup is `Terminate`, `Unstage`, `Unprofile`, `Close`, `DeleteState`.

Where the model is coarser than the code, deliberately:

* two lock regions with nothing but local work between them are one step, and the copy that
  `_save_state` takes is part of the update before it. The *write* of the copy is a step of
  its own: that is where the hazard is;
* a mode's `save_state()` is merged with the assignment it follows, except at the end of the
  provider's cleanup pass, which calls it separately (`SavePassMode`), and in
  `BastionLifecycle`, where the order of saving and assigning decides what a successor finds;
* a loop of calls that only read (`get_command_invocation`, `describe_fleets`) in one poll is one step with one
  answer per item; `PollCommandsRaises` keeps the case that it stops half way;
* `Provider` folds the EC2 states `pending` and `shutting-down` into `unused`/`running` and
  `terminated`; `DetachedMode` keeps them apart, because the bastion does;
* that copy is a shallow one: in the code a status inside it may be fresher than the copy by
  the time it is written, but never the set of jobs and instances;
* `Provider` writes each document in one step, as `KeyedStore` promises; what the file behind
  it really does is `FileStateStore`. Writing a document does not fail (a failed save is logged
  and ignored by the code);
* running out of `Instances` or `Fleets` is EC2 refusing the launch, which a submit has to
  survive anyway;
* a block, its fleet and its template share one identifier in `SpotFleetManager`: the code
  never mixes them up;
* `FleetMode` and `ServerlessMode` call the mode as the provider does, but keep of the provider
  only `reported`; the provider's own races are in `Provider`;
* `auto_shutdown` has its default, TRUE; `shutdown` on a provider already shut down, and
  `cancel([])` are left out; configuration does not change between a process and its successor.

Single spot instances launch, wait and register exactly like on-demand ones and share their
actions in `StandardMode`.

### Faults and events

`Provider`: the environment injects at most `MaxFaults` faults of the kinds in `Faults`:

| Kind | What fails |
|---|---|
| `launch` / `wait` | `run_instances` raises / `wait_for_resource` raises after the launch |
| `dispatch` | `send_command` (or waiting for its agent) raises |
| `poll` | `get_command_invocation` or `describe_instances` raises |
| `terminate` | `terminate_instances` raises |
| `forget` | EC2 drops a terminated instance from its records |
| `interrupt` | the spot monitor receives a reclaim warning |
| `crash` | the process dies and a successor starts |

A run leaves out the kinds under which its property is known not to hold; section 5 names
each of those. `CancelFinished` says whether a caller may cancel a job it was told is over. It is
TRUE in `warm_pool`, `warm_two_callers` and `restart`, where `NoCollateralKill` and `WarmPoolSound`
name what such a cancel does (`CancelledLate`); FALSE in `user_data`, where it makes `TerminalIsFinal` fail, and in
`one_shot` and `warm_pool_live`, which cancel nothing.

The other modules do it the other way round: all kinds of event (`EventKinds`, listed with
their meaning at the head of each module) are possible in the run, `happened` remembers which
occurred, and each property names the events that break it. An exception in a property is
therefore a statement about the code: under exactly these events it does not hold. Besides the
events of the environment, `ScheduleKinds` notes what the order of the program's own steps
brought about -- two submits that overlap, a late answer -- which is never bounded.

## 3. Runs

| Run | Setting | Checks | Shows |
|---|---|---|---|
| `warm_pool` | SSM, pool of 1, one caller, which may also cancel jobs it was told are over, 3 jobs, 3 instances; launch, dispatch, poll, interrupt | `AtMostOneCommand`, `WarmPoolSound`, `NoCollateralKill`, `CapacityRespected` | reuse, eviction and TTL expiry are sound while one thread calls; the cancel of a finished job is the one thing that takes another's instance |
| `warm_two_callers` | as above, 2 threads (submit and cancel; status), 2 jobs; dispatch | `LiveInstanceTracked`, `CancelTakesEffect`, `NoFalseCompletion`, `NoResurrection` | what survives the races between a cleanup pass, submit and cancel |
| `one_shot` | one-shot, 2 threads (submit; status), fairness; launch, dispatch, poll | `NoCollateralKill`, `BooksAgree`, `FinishedBlocksCollected` | without reuse the two books agree whenever no call is under way, and finished blocks are collected |
| `user_data` | command in UserData; launch, poll, terminate, forget, interrupt | `TypeOK`, `TerminalIsFinal` | the `describe_instances` path; a terminal status never changes |
| `restart` | pool of 1, all methods, crash, wait, dispatch, two faults | `StoreCurrent`, `RestartKeepsJobs`, `ShutdownLeavesNothing` | a successor adopts every accepted job, at whatever step its predecessor died, and `shutdown` deletes either document only when what both describe is gone, the crash between the two deletions included |
| `warm_pool_live` | pool of 1, fairness, terminations succeed; launch, dispatch, poll | `EveryJobSettles`, `WarmInstanceLeaves` | polling settles every job; an idle warm instance gets a job again or is terminated |
| `file_store` | the state file, one client, crashes except between emptying and filling it | `ImplementsKeyedStore` | saving or deleting one key leaves the others untouched, the upgrade of an old file included |
| `detached` | one job, as single instances or a fleet of two nodes, 3 instances, any 2 of 13 kinds of event, fairness | `TypeOK`, `LaunchedOnce`, `NoFalseCompletion`, `NoFalseCancellation`, `NoOrphan`, `CancelStopsWorkers`, `FinalStays`, `EveryJobSettles` | what the two programs owe each other over three parameters, and which events break it |
| `fleets` | 2 jobs, 2 fleets of 2 instances, the poller (submit, status, cancel, shutdown), the main thread (submit), the monitor's thread, a restart, any 1 of 13 kinds of event | `FleetRunsItsJob`, `FailedSubmitRunsNothing`, `NoFalseCompletion`, `ReleasedFleetStops`, `ShutdownLeavesNothing`, `InterruptionIsSticky` | the fleet life cycle from template to last sweep |
| `serverless` | 2 jobs of one type (each type in turn), the poller (submit, status, cancel), the main thread (submit, shutdown), a restart, any 1 of 10 kinds of event | `NoFalseCompletion`, `ReleasedJobStops`, `ShutdownLeavesNothing`, `NoCollateralDelete` | shared names do no harm but for the exceptions named |
| `bastion` | any number of sessions over 4 identifiers, each way a bastion is made, kept or given a profile, any 2 of 7 kinds of event, fairness | `OneBastion`, `TeardownLeavesNothing`, `InitializeRecovers` | sessions find what they need and leave what they should |
| `lambda_never_runs` | as `serverless`, without any event | `CompletedJobRan` violated | section 5 |

Bounds. In the provider: two jobs and two instances (three of each where reuse and eviction
need a third party), one or two calling threads, a pool of one, a TTL of one tick, one or two
faults. A violation needs at most an old job and a new one, one instance they share and one
that replaces it, a thread that decided and a thread that acts in between; two faults let a
crash meet another failure. In detached mode jobs meet only in the `cancel` parameter and the shared
template name, so one job with up to three workers, and requests that follow and overlap each other,
reach the cases; two events let a crash follow any other trouble, and allow a plain job the three
launches of which `LaunchedOnce` speaks. Two fleets of two nodes let
one be discarded while another runs, and one node end before the other. Two serverless jobs are
what it takes to share a name. Four bastion identifiers hold what one session leaves behind, what
its successor makes, what a lost call made and what replaces them; `MaxLeft` ends the run of sessions that each leak one
more. In `fleets` one thread makes every call and another submits beside it, so submits overlap each
other and the shutdown while the monitor's thread runs; in `serverless` the second thread also
shuts down, so the shutdown meets polls and cancels. In both, one event per behaviour means that the second of two
failures in a row (a refused deletion of what a refused creation left) is not explored.

Jobs, instances, fleets and nodes are interchangeable and the safety runs use the symmetry; the
runs with liveness do not. Deadlock checking is on where callers may always come back or `Rest` marks the
end; it is off in the four modules whose systems stop by themselves once every job is done and
everything torn down. Each property of a passing run has a mutant in `PROJECT.json`: a plausible
bug in one definition under which TLC finds that property violated.

Fairness. `Provider`: a call in progress goes on (`WF` of `Continue(t)`: the code has no
unbounded wait of its own, its AWS calls return or raise); Parsl keeps polling (`SF` of
`StatusBegin(t)`: its poller runs periodically, and the lock is held for local work only);
commands end and time passes. `DetachedMode`: systemd keeps the bastion's loop running, EC2
boots and stops instances, commands end, and Parsl polls each job it waits for. `BastionLifecycle`: the process
runs, instances boot, and the caller tries again, whatever else it does in between (`SF` of
`Initialize`). No fairness on submitting, cancelling, ending a session or on any fault.

## 4. Proofs

`TypeCorrect` (`ProviderProofs`): `Spec => []TypeOK` for all constants: any number of threads,
jobs and instances, any assignment of methods to threads, any faults. `TypeOK` is inductive
as it stands because it contains `SubmitOK`: a submit in progress holds a job identifier and, after
the mode has answered, an instance identifier. Without that conjunct `RecordJob` could not be shown to
write a record. There is a lemma per mode operator, a lemma per action, and `TypeStep` puts them together.

`InstancesTracked` (`TrackingProofs`): under `FaultsKeepTrack`, `Spec => []LiveInstanceTracked`.
A running instance always has a record in the mode, where the next cleanup looks for it, or a
submit waits for it to come up: for any number of threads calling any methods, shutdown
included. `LiveInstanceTracked` is not inductive: had EC2 forgotten one instance, a cleanup
naming it together with live ones would drop all their records; `NoLostInstance` adds that no
instance is forgotten. Each step is then shown not to orphan a running instance
(`NoNewOrphan`) and not to lose a waiting submit (`StillWaiting`); `TrackingKept` combines the
two. `FaultsKeepTrack` excludes the waits that fail after a launch, crashes, forgotten
instances, and terminations failing together with dispatches. Each of these is a real leak
(section 5): the theorem says there is no other.

`StoreKeptCurrent` (`TrackingProofs`): for one thread, `Spec => []StoreCurrent`, crashes and every other
fault included. `StoreFollows` is inductive: the snapshot a call is about to write, and else the
stored document, leads every job where memory does. With two threads the later write may be the
older copy (`_save_state` copies under the lock and writes after releasing it), hence one.

`SuccessorAdopts` (`TrackingProofs`): under `OneShotCaller` (one thread calling any methods, no reuse, any
number of crashes beside the other faults; EC2 terminates what it is asked to and forgets nothing),
`Spec => RestartKeepsJobs`. `Adoptable`: both documents lead each accepted job at work to its
instance, whose record, in memory and in the mode's document, names the job's command. It needs that
every command has an instance to itself (`OwnHosts`), that records in memory, in the document and in the copy
about to be written name the job that was sent to their instance (`DocumentsKnow`), so that a pass forgets
no job it did not stop, and `StoreFollows`. None of these rests on `Base` (below), which a crash
breaks: the successor knows of jobs whose submit never returned. A step either leaves a record with its
job (`StaysInCharge`) or silences its instance (`Silenced`). The run `restart` checks the same
property with a pool of one, which the theorem does not cover.

`CallsProofs` proves the safety of `Provider` for any number of threads that call any methods at once,
and, where section 5 shows that two threads are too many, for one. The invariants are layers:

* `Base` (in `TrackingProofs`; no crash, any other fault): what frames and books say of who has which
  job, instance and host. An instance never launched, or launched and being waited for, is known
  to nobody else (`InstancesNew`); nobody knows a job before its submit returns, and only that submit
  sends its command, once (`JobsNew`); a job runs where its call, its record and its entry
  say (`HostsKnown`); without a warm pool no two calls and no two jobs share an instance
  (`HostsApart`). A step inside a submit is a `Going`, a step of any other call a `Turning`; the
  three conditions `Fading`, `Dropping` and `Turning` are all that the other layers need to know of most
  steps.
* `Accounted`, under `Reliable`: a live command is on a running instance and its job is mapped or its
  submit still at work (`LiveCommand`); what a cleanup pass is about to forget is not running
  (`ForgetsDead`); a shutdown that has cleaned up has left nothing (`ShutdownOver`); a cancelled
  job's command is over or a cancel that has its instance is still to come (`CancelReaches`); a running
  instance is counted or about to be (`RunningCounted`). `CancelStopsJob`, `CapacityKept` and
  `ShutdownEndsAll` follow. `Reliable` excludes the faults that lose a command for good (failed waits,
  failed terminations, forgotten instances, crashes: section 5) and a shutdown beside a
  submit, which can record its block after the shutdown has looked. `CapacityKept` needs one
  submitting thread: `submit` checks `max_blocks` in one hold of the lock and records the block in
  another.
* `SentToHost` and `Base` give `OneCommandPerHost` when no instance is reused.
* `ReportsClose`, with a single polling thread, for every fault but a crash and a poll without an answer: a job
  reported over is `Closed` (its entry is gone, terminal, or leads to an instance that the mode does
  not know and, being known elsewhere, never will again), and what a status or cancel under
  way carries opens no closed job (`CallCloses`). `EndedStaysEnded` follows, warm pool
  included. With two pollers the older answer may be told last; when `describe_instances`
  fails in UserData mode, a running job is told COMPLETED (section 5) and RUNNING after that.
* `Truthful`, under `Reliable` and without a warm pool: every status in a record of either book, in the
  answers a call carries and behind what it is about to terminate is true of the instance
  (`BooksTrue`, `CallTrue`), the command a record names is the one that was sent there (`Commanded`),
  and a record stays while a submit works on its instance (`LaunchTracked`). What a status
  promises is stable (`Advancing`), so a late answer does no harm. `WorkKilledOnlyForCause`
  follows, `CompletedIsOver` with `OwnersInformed` (what a poll collected under the lock is what it
  asks for, and nothing it asks for goes without an answer) and `BooksMatch` with `BooksKept`
  (whatever one book lacks is in the hands of a call). With a reused instance a status may be about the
  job before; `PollsAnswer` excludes the failed `describe_instances` of section 5.
* `Orderly`, under `OneCaller` (one thread that cancels no job known to be over and does not shut down; no
  crash; with a pool, EC2 forgets no instance), over any fault else: a record and its job's entry name
  each other and tell the same status, and an entry without such a record is of a job that completed
  (`BooksAlike`); the reuse list has WARM records only, each once (`ListedWarm`); what a call carries fits
  the books it was read from (`CallFits`). `EndsAreFinal` follows: the only entry an answer can change is
  one that is not over. `OneCaller` is the setting of the runs `user_data` and `warm_pool`.
* `PoolTrue`, under `Pooled` (`OneCaller`, `Reliable` and a pool): what a record, an answer or the next
  step says of an instance is true of the job that has the instance *now*. It is `Truthful` with the job
  before taken out: an instance on the list has no live command, a submit that has taken one off the list
  has it alone until the command is on the record, and what is about to be terminated is over. `PoolIsSound`,
  `OneAtATime`, `EvictionKillsNobody` and `ReuseKeepsAnswersApart` follow: the reuse list is
  sound and reuse harms neither the old job nor the new one, for a caller that cancels no job it was told
  is over; what a late cancel does is in section 5. `EvictionKillsNobody` and `WorkKilledOnlyForCause` prove
  `NoCollateralKill` without its exception for late cancels (`KilledForCause`). With two threads TLC refutes the first three
  (section 5: the pass that terminates what a submit has just taken, the instance listed twice).

`OneClientKeyedStore` (`FileStateStoreProofs`): one client of the file that does not die while it
is filling it implements `KeyedStore`, for any keys and documents. The refinement takes a
write to happen when the file is emptied, since from then on nothing else can be read from
it. The invariant `Writer` says that what a client has read is still in the file when it
empties it, and `Readable` that the file is unreadable only while it is being filled, so that
a delete never takes the file away with somebody else's document in it.

`BastionProofs`: `TypeCorrect` (`Spec => []TypeOK`), `AtMostOneBastion` (`Spec => []OneBastion`) and
`TeardownComplete` (`Spec => []TeardownLeavesNothing`), for any number of identifiers, sessions and events. Neither
property is inductive: both follow from what the mode and its document *know*. `Known` holds
whatever goes wrong: a mode that is creating knows no bastion, a caller's profile is never
owned. `HostInv` says that a live bastion is the one being created or the one that both the mode
and its document name; `TeardownInv` says the same of stacks, profile, bucket and script, step
by step through the teardown. Both are conditional on the events that break them, and the
condition is itself stable, because `happened` only grows (`HistoryGrows`): the step lemmas
(`HostStep`, `TeardownStep`) need to consider each event once, where it occurs.

`DetachedProofs` proves every invariant and action property that the run `detached` checks, for any number
of jobs, instances and events. All rest on `BookInv`: what the bastion holds while it is at each label
(`Placed`), what a document, read or stored, may name (`DocsSound`: only the job's own workers, a fleet
that exists), what the two books agree on. On top of it:

* `CompletionIsTrue` and `CancellationIsTrue` follow a status from EC2 to the client: `ComplInv`
  and `CancelInv` say of an instance's state, of what the bastion has seen, of what it is about
  to put, of the document and of the client's record that each is true when the next is written.
  `Left` (the client has given the job up) is stable, so a late answer about such a job does no harm;
* `EndIsFinal`: a document leaves its end only by a put of the bastion; `OpenInv` says that a job
  pending or being launched has not ended, `PutsInv` that only ends are put, `UntouchedInv` that a
  job whose submission is not over has not been seen;
* `NoWorkerIsLost` and `CancellationStops` share `SightInv`, under `Calm` (none of the
  `OrphanEvents`; the client's clean-up is not one of them): every live worker, but for those whose
  document that clean-up deleted before the job had ended (`forsaken`), is named, held or doomed (`InSight`), an ended document has
  no worker that is not doomed (`DocsTell`), what is launched has none (`Launchable`), what is
  followed names all (`Followed`), and the cancellation has collected all of a job it is done
  with (`Collected`). None of the five is inductive without the others;
* `LaunchesOnce` counts: the workers of a plain job, plus one if the bastion may still launch it
  (`MayLaunch`), plus one if `submit_job()` will yet make it look new (`MayRestart`), are at most
  one plus the events. Every launch takes away a `MayLaunch`, every new `MayLaunch` an event or
  a `MayRestart`. A fleet's bound needs the client token only.

The proof sharpened the module: `NoFalseCompletion` and `FinalStays` were first stated with more
exceptions than they need.

`FleetProofs` proves every property that the run `fleets` checks, for any number of threads, jobs, fleets,
nodes and restarts. `BookInv` says what the frames of the threads hold at each step
(`FramesSound`), that no two launch one fleet (`Apart`), and that books, document and EC2 agree on
each fleet (`FleetsSound`); it gives `CompletionIsTrue` directly. `ReleaseStops` adds
`ReleaseInv` (a released block has no instance), `InterruptionStays` adds `MarkInv` (no poll is
about to overwrite a mark), `ScriptReachesItsFleet` and `RaisedJobStops` add `JobInv` (the script in
`worker_init`, template and fleet is that of the job in the frame), and `ShutdownStopsAll` adds
`ShutInv` (what the last sweep still has to find). `ShutdownStopsAll` assumes `RefusedOnce`: no
deletion was refused, or nothing else went wrong beside it. The code asks again once, so of
two refusals in a row a fleet can stay; the run, with one event, is inside that
assumption. The proof also corrected the model: `CreateTemplate` could reserve the same fleet
identifier for two threads, which EC2 cannot.

`ServerlessProofs` proves every property that the run `serverless` checks, for any number of threads,
jobs and restarts. One action of the code may touch a stack, a fleet, a record, the books and a
thread at once, so the proof takes each step apart first: `Effects` says what a step may do to one
stack, one fleet, one record, one job's status and one thread, and why (`LetGo`: the job's
submission failed, it is settled, or a shutdown cleans up); `StepEffects` shows that every step but a
restart has these effects. Whether an invariant is kept is then a question about one thing at a time:

* `DeletesOwnStack` needs `NameInv`: a record with the name of a stack that exists is that of the
  stack's job (`OneHolder`, unless `stale`), the document names nothing the records do not (`Covered`),
  nobody submits during a shutdown (`Ordered`, unless `late_submit`);
* `ReleasedJobsStop` needs, besides, that what stands is in a record (`Held`) and that a job is
  stopped as soon as *anything* says it is released: the books, the record, the document, an
  answer a thread still carries, or a shutdown that is under way (`Released`);
* `ShutdownIsComplete` adds who accounts for the template, the bucket and the packages:
  a record, the flag that the mode owns the bucket, or a thread about to note it (`SweptInv`);
* `CompletionIsTrue` needs that a submitted job that is not over is run by something
  (`Running`), that a shutdown settles every job it finds (`Settling`), and that
  COMPLETED, or "does not exist", stands in a record, the document, an answer or
  the books only for a job that is over (`Believed`).

The proofs rest on the named assumptions `ModeAssumption`, `ProviderAssumption`,
`StoreAssumption` (of `FileStateStore`), `BastionAssumption`, `DetachedAssumption`, `FleetAssumption` and
`ServerlessAssumption`, which TLC evaluates in every run; those of the detached and the fleet mode include that instances and
fleets are finitely many, since properties and guards count them.
Only model-checked: liveness under fairness (`EveryJobSettles`, `WarmInstanceLeaves`,
`FinishedBlocksCollected`, `InitializeRecovers`), which is beyond the prover; of
`Provider`, `NoFalseCompletion` with a warm pool and two callers (`warm_two_callers`; proved for one caller, and
for any number without a pool), and `RestartKeepsJobs` and `ShutdownLeavesNothing` with a warm pool *and* crashes
(`restart`): after a crash the reuse list and the records may tell of different moments, and what
`Orderly` says of one process does not hold of its successor. `CompletedJobRan` is refuted, not proved: section 5.

## 5. Where the code and its words part

`lambda_never_runs` is a run: **a Lambda job is reported complete and never runs.**
`_submit_lambda_job` creates the function's stack; nothing invokes the function
(`LambdaManager.submit_job` is never called), and `_get_lambda_status` answers RUNNING until
`lambda_timeout` has passed and SUCCEEDED afterwards. `src/docs/architecture.md:92`: "Tasks run
on Lambda or ECS/Fargate with no EC2 instances."

The following are stated in the modules and TLC refutes each in the configuration named; no run is kept for
them.

* **A job dispatched to an instance that is being evicted is killed** (`NoCollateralKill`, pool
  of 1, a submitting beside a polling thread). The cleanup pass decides under the lock that a
  warm instance's TTL has expired and takes it off the reuse list in a later lock region;
  `_get_warm_instance` takes no lock. `provider.py:1691`: "Remove TTL-expired warm instances
  from the mode's reuse list before the network termination call (so they can't be dispatched
  to mid-flight)".
* **Cancelling a finished job kills the job that has its instance now** (`NoCollateralKill` without its
  exception `CancelledLate`; pool of 1, one caller, `CancelFinished`, no fault). `j1` completes, its
  instance becomes WARM, `j2` takes it, `cancel([j1])`: `cancel` looks the instance up in `job_map`
  (`provider.py` 1423-1433) and terminates it without asking whose it is. `j2` is killed, and the
  pass that follows drops its record and entry. While the instance is still WARM, the same
  cancel terminates it and drops its records but leaves it on `_warm_instances`: the next submit takes
  a dead instance off the list and raises (the exception in `WarmPoolSound`). In UserData mode such
  a cancel turns COMPLETED in `job_map` into CANCELED (`TerminalIsFinal` with `CancelFinished`).
* **A cancel in detached mode leaves the worker running** (`CancelStopsEveryWorker`, no event).
  `EphemeralProvider.cancel` calls the mode's `cancel_jobs`, which only puts a request, and then
  its clean-up (`provider.py` 1433, 1449), which deletes `jobs/X` and `status/X`. Unless the bastion
  has read the request and the job's document by then, it finds nothing that names the worker, which runs its command to
  the end. `src/docs/architecture.md:82`: the bastion "handles cancellations". Of a fleet whose
  id the client's record has, the clean-up deletes the fleet itself.
* **A reclaimed instance is recycled** (`InterruptedStaysOut`, pool of 1, `interrupt`). The
  marker reaches the mode's record only, and a job already COMPLETED is not polled again.
  `provider.py:1599`: "it must never be recycled into the pool".
* **Finished blocks are never collected in the default mode** (`FinishedBlocksCollected`,
  UserData, no fault). `status` runs the cleanup pass only for warm pools and one-shot; with the
  command in UserData finished records count against `max_blocks` until some cancel.
  `provider.py:1634`: "the COMPLETED branch above collects the record".
* **A throttled poll completes a running job** (`NoFalseCompletion` of `Provider`, UserData,
  `poll`). After a `ClientError` the mode answers nothing for the instance, which `status` reads
  as "already cleaned up" (`provider.py:1371`).
* **A preserved bastion is not adopted** (`PreservedBastionIsAdopted`, no event). `shutdown`
  deletes the document that names the bastion it leaves running. `src/README.md:170`: the bastion
  "keeps running -- and keeps billing -- after `shutdown()`. That is what makes adoption
  possible"; `src/docs/operating_modes.md:427` says the opposite, that `shutdown()` removes it.
* **The bastion halts while its workers run** (`BastionOutlivesWork`, `idle`). The timer counts
  `parsl-worker` processes on the bastion, where none runs, and only a launch touches its
  activity file. `src/docs/architecture.md:84`: "The bastion shuts down after `idle_timeout`
  minutes with no work". A job still running then never reports its end (the exception in
  `EveryJobSettles`).

Each exception in a property, and each fault a run leaves out, is a case in which the code does not
keep the property; widening the run's configuration, or dropping the exception, shows the trace.
In the provider and standard mode:

* two submitting threads both pass the `max_blocks` check (`CapacityRespected`):
  `src/docs/globus_compute.md:328` calls it a "Hard ceiling";
* two threads polling append one instance to the reuse list twice, and two jobs share it
  (`AtMostOneCommand`, three jobs);
* a crash between `send_command` to a warm instance (`modes/standard.py:1072`) and the save at
  1088 leaves a busy instance on the stored reuse list (`AtMostOneCommand` with crashes);
* a termination that fails in the cleanup pass leaves the record with the mode only, and is not
  retried (`BooksAgree` with `terminate`; the failure is swallowed at `modes/standard.py` 2205-2209 and
  `provider.py` 1713-1718 drops the record). An expired warm instance then runs on for ever, in no book of the
  provider's, so `WarmInstanceLeaves` is checked with terminations that succeed.
  `modes/standard.py:2206`: "will be retried on next
  cleanup cycle". Failing in `shutdown` it is lost with the state documents, as is
  the instance of a submit that finishes during a shutdown on another thread;
* an older copy of the provider's document can be written over a newer one by another thread
  (`StoreCurrent` with two threads);
* a wait that raises after `run_instances`, or a crash before the first save, leaves an instance
  that is in no record (`LiveInstanceTracked` with `wait` or `crash`);
* one instance that EC2 has forgotten makes a whole batch fail: `cancel_jobs` reports every
  member COMPLETED and `cleanup_resources` drops every record, though none was terminated;
* the state file is emptied before its lock is taken, so two threads that save at once lose each
  other's key, and a crash before the file is filled loses both (`ImplementsKeyedStore` with
  two clients, or with `fill` among the crash points; `state/base.py:132`: "Writing one key
  must leave the other keys in the store untouched");
* of a command whose host is gone the model lets SSM answer RUNNING for ever (or FAILED), and `status`
  does not look at the instance: a host reclaimed while its job runs need never settle it
  (`EveryJobSettles` with `interrupt`, hence not in `warm_pool_live`);
* a job cancelled while PENDING or RUNNING is removed by the same `cancel`, so later polls answer UNKNOWN,
  never CANCELED (which is why the liveness runs do not cancel).

In fleet mode:

* `worker_init` belongs to an object all submits share: of two that overlap, one may launch with
  the other's script (`overlap` in `FleetRunsItsJob`);
* a notice that arrives during a poll's calls is overwritten by the answer (`late_mark` in
  `InterruptionIsSticky`; `modes/standard.py:1954`: "An interruption is sticky");
* a block of which EC2 has forgotten one instance is COMPLETED though others run (`forget`);
* the templates of a predecessor are in no record and survive a shutdown (`crash`); a resumed
  mode never starts its monitor (`modes/standard.py:895`), so nothing marks what is reclaimed
  after a restart;
* the monitor asks for a fleet's instances that are `pending`, `running` or stopping, so of its
  second way to notice a reclaim -- an instance found shutting down -- only one that stops between two calls is
  left; and the handler walks over records a submit may be adding to.

In detached mode:

* after a crash, a failed put, or a poll between the two puts of `submit_job`, a plain job is launched
  again, and of a slowly booting one the status goes back to PENDING with the same effect
  (`RelaunchEvents`); fleets are protected by their client token;
* a cancel that overlaps another is lost or half lost, and a call of the bastion that raises
  after CANCELED was written leaves the workers running (`OrphanEvents`);
* a fleet that cannot be listed, an instance that is reclaimed or forgotten count as completed.

In serverless mode:

* stacks and templates are named after the first eight characters of a job id, and
  `provider.py:1255` makes those the provider's: a second job of a type cannot be created
  while the first one's stack stands, and a cancelled job's record, cleaned up later, deletes the
  new stack of that name (`stale` in `NoCollateralDelete`);
* a failed deletion is forgotten with the record; a failed `create_stack` leaves the
  staged package, which the record does not name yet;
* an own bucket found again after a crash is not owned any more, and stays.

Of the bastion:

* a waiter that times out, or a reply that is lost, leaves a launched bastion no document names, and the next
  attempt launches another (`slow`, `lost` in `OneBastion`);
* a bastion in a stack that shut itself down leaves the stack complete, and resuming takes it for alive;
* `delete_instance_profile_pair` reports failure by its result, which is not looked at: the role
  stays (`delete`);
* after `cleanup_all` with `preserve_bastion` died half way, the document names a bucket that is
  gone, and no later initialization succeeds (the exception in `InitializeRecovers`).

## 6. Plan

Done, in this order: `StandardMode` and `Provider` with their proofs; `FileStateStore` as a
refinement of `KeyedStore`; `DetachedMode`; `SpotFleetManager`, `SpotMonitor` and `FleetMode`;
`ServerlessMode`; `BastionLifecycle` and `BastionProofs`.

`DetachedProofs`, `FleetProofs` and `ServerlessProofs` followed.

`CallsProofs` and `SuccessorAdopts` followed. Left: the theorems about reused instances across a crash; the composition of
`DetachedMode` with `BastionLifecycle` (a bastion that is replaced while jobs run); the monitor's track
for single instances; the live members of a batch that fails because one id is unknown; a change
of `warm_pool_size` across a restart.

## 7. Reproducing

`tlc -config <run>.cfg <module>.tla` with the module `PROJECT.json` names for the run, `tlapm
<module>.tla` for the proofs. The longest runs take two to four minutes on two workers, the
longest proof module about twenty.

## 8. Not modelled

* ECS and Lambda managers (`compute/ecs.py`, `compute/lambda_func.py`): `ServerlessMode`
  constructs them and calls none of their operations; nothing else uses them.
* Error handling (`error_handling.py`): `poll_until` is the wait of `FleetMode`;
  `retry_with_backoff` and the recovery handlers repeat or translate errors, and appear as the
  outcomes of the calls that use them.
* AWS state stores: one object or parameter per key, written by one call: `KeyedStore` as it
  stands.
* `cleanup.py`: a command that deletes what AWS lists under the program's tags and keeps no
  state.
* The standard mode's own launch template, instance profile and baked AMI; `list_resources` of every mode;
  `provider.cleanup_all` (`scale_out` only returns an empty list).
* Certificates, credentials, encryption, audit, network policy, security configuration, Globus
  Compute configuration, serialization, CloudFormation templates and developer tools: data,
  cryptography or logging without interplay with jobs and instances.
* The spot monitor and the INTERRUPTED marker of detached mode (`modes/detached.py` 184-194,
  2047-2053): the marker is set in the client's record by another thread and only keeps a poll from
  reading the document.
* boto3 and AWS appear as outcomes of calls; what a command does is whether and when it ends.
