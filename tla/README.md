# Omicron in TLA+: trust quorum, and the handoff between generations of Nexus

This directory holds TLA+ models of two parts of Omicron in which several
processes have to agree although any of them may crash at any time:

- *trust quorum*: how the sleds of a rack share the secrets that unlock their
  disks, and how Nexus adds sleds to and removes sleds from the group that
  shares them;
- *sagas and quiescing*: how the instances of Nexus run and recover sagas, and
  how one generation of instances drains and hands the database over to the
  next one during an update.

TLC checks the models on small instances. TLAPS checks proofs about them for
any number of sleds, Nexus instances, sagas, epochs and blueprints.

Source paths below are relative to the repository root. `PROJECT.json` lists
for every definition the source lines it models.

## 1. The system

### Trust quorum

A rack has up to 32 sleds. A *configuration* has an epoch, a set of member
sleds, a coordinator, and the encrypted rack secrets of earlier epochs. For
every epoch there is a rack secret, split into one share per member, of which
any K = N/2 + 1 reconstruct it.

| Part | Where | Role |
| --- | --- | --- |
| protocol node | `trust-quorum/protocol/src/{node,coordinator_state,compute_key_share,rack_secret_loader,persistent_state,validators,...}.rs` | sans-IO state machine of one sled: prepare, commit, share collection, key share computation, loading of rack secrets |
| node task | `trust-quorum/src/task.rs` | runs the node: one event at a time, saves to the ledgers before it sends |
| database | `nexus/db-queries/src/db/datastore/trust_quorum.rs` | one row per epoch with the state of the configuration and of each member |
| API of Nexus | `nexus/src/app/trust_quorum.rs` | add sleds, remove a sled, abort |
| background task | `nexus/src/app/background/tasks/trust_quorum.rs` | polls the coordinator, records acknowledged prepares, decides, sends commits, records acknowledged commits |
| rack setup | `sled-agent/rack-setup/src/service.rs` | creates epoch 1 and hands it off to Nexus |

A reconfiguration: the operator proposes it through Nexus, which inserts a row
in state Preparing and sends one `ReconfigureMsg` to a coordinator. The
coordinator collects K shares of the last committed epoch to recover its
secret, encrypts the old secrets into the new configuration, saves it and sends
each member its share in a `Prepare`. Members save and acknowledge. A
background task of Nexus polls the coordinator; once K + Z members have
acknowledged, the row becomes Committing and Nexus tells the members to commit:
`Commit` to those known to be prepared, `PrepareAndCommit` with the
configuration to the others, which compute their share from those of K peers.
The row becomes Committed when all have acknowledged. The next proposal may be
made as soon as K + Z have; the row then becomes CommittedPartially.

### Sagas, recovery and quiescing

| Part | Where | Role |
| --- | --- | --- |
| saga executor | `nexus/src/app/saga.rs` | creates sagas and starts them in Steno, the (external) saga engine |
| saga recovery | `nexus/saga-recovery/src/recovery.rs`, `nexus/src/app/background/tasks/saga_recovery.rs` | after a restart or a reassignment, finds the unfinished sagas of this instance and resumes those it does not run |
| saga table | `nexus/db-queries/src/db/datastore/saga.rs` | state and owner (`current_sec`) of every saga; reassignment |
| quiesce tracking | `nexus/types/src/quiesce.rs` | which sagas are pending, whether new ones are allowed, and as of which blueprint the process is drained |
| quiesce driver | `nexus/src/app/quiesce.rs` | waits until every instance is drained as of one blueprint, then gives up the database |
| blueprint execution | `nexus/src/app/background/tasks/blueprint_{load,execution}.rs`, `nexus/reconfigurator/execution/src/` | tells the process to quiesce, cleans up the records of expunged instances, reassigns their sagas |
| records | `nexus/db-queries/src/db/datastore/db_metadata.rs` | table `db_metadata_nexus`: which instance may use the database; `attempt_handoff` |

An update bumps the Nexus generation in the blueprint. Instances that execute
that blueprint stop creating sagas, finish theirs and take over those of
expunged instances. An instance that has none left records the blueprint it is
drained as of. Once all instances in service are drained as of the same one,
they quiesce the database and record that, and when no record is Active any
more the next generation takes over.

### The rest of the repository

Omicron has some 3800 source files. `PROJECT.json` lists the parts with their
status. Parts that are I/O, data conversion or sequential scripts (metrics, the
management gateway, most of sled agent) are not modelled; section 6 says what
else is left out.

## 2. Modules

```
TQTypes                     epochs, configurations, K, Z, size limits
  |-- TQNode                the nodes and their messages
  |-- TQNexus               database, API handlers, background tasks
        |-- TQNexusEnv      Nexus alone, with sleds that answer anything
TrustQuorum   = TQNode + TQNexus + rack setup
RackMembership              what Nexus promises: one history of memberships
  |-- RackTrustQuorum       what the whole system promises: sleds commit it

SagaQuiesce                 SagaQuiesceStatus and its functions
  |-- SagaRecovery          sagas: created, run, finished, lost, recovered
        |-- NexusQuiesce    blueprints, quiescing, records, handoff

MCTrustQuorum, MCNexus, MCNexusQuiesce    instances for TLC

TQNexusProofs, TQNexusEnvProofs, TrustQuorumProofs, TQRecoverableProofs,
TQDecidedProofs, SagaRecoveryProofs, DrainedProofs, HandoffProofs
```

### TQNode

| Variable | Code |
| --- | --- |
| `configs`, `shares`, `commits`, `expunged` | `PersistentState`, saved in the ledgers |
| `coord` | `Option<CoordinatorState>`, as a set of at most one record; `op` is the `CoordinatorOperation` |
| `ksc` | `Option<KeyShareComputer>` |
| `collector`, `loaded` | `RackSecretLoader`: share collection in progress and loaded secrets |
| `alarms` | alarms raised by the node |
| `msgs` | peer messages sent |

There is one action per message handler (`HandlePrepare`, `HandlePrepareAck`,
`HandleGetShare`, `HandleShare`, `HandleExpunged`, `HandleCommitAdvance`), one
per API request (`CoordinateReconfiguration`, `CommitConfiguration`,
`PrepareAndCommit`, `LoadRackSecret`, `ClearSecrets`), and `Restart`, which
keeps what is in the ledgers. A handler, with the save and the sends that
follow it, is one step because the node task handles one event at a time and
saves before it sends.

Abstractions of data:

- A share is determined by epoch and owner, so it is represented by its epoch.
  Digests are left out: a share that passes the checks on sender, epoch and
  membership is the right one. `secrets` is the set of epochs whose secrets a
  configuration holds in encrypted form.
- One rack: rack ids and their checks are left out.
- Messages stay in `msgs` and may be handled any number of times, in any order,
  or never: delay, reordering, duplication and loss. Connections are therefore
  implicit. The messages that `on_connect` sends again are singled out by
  `IsResent`; only those are assumed to arrive in the end.

### TQNexus, TQNexusEnv, RackMembership

| Variable | Code |
| --- | --- |
| `rows` | tables `trust_quorum_configuration` and `trust_quorum_member` |
| `task` | per Nexus instance, the activation of the background task in progress: the row it loaded and the answer it got |
| `requests` | requests sent to sled agents |
| `commitAcks` | successful answers to commit requests |

A datastore function is a serializable transaction, hence one action
(`TqPropose`, `TqAbort`, `TqUpdateCommitStatus`, and the update in
`TaskUpdatePrepareStatus`). An activation of the background task awaits
between loading the row (`TaskLoad`), the coordinator's answer (`TaskPoll`) and
recording it (`TaskUpdatePrepareStatus`), and these are separate actions that
interleave with all others. `TaskFail` ends an activation at any of them.

`Overtaking` says whether the operator may abort or propose while an
activation awaits its poll. The code does not prevent it, and with
`Overtaking = TRUE` some invariants are violated (finding `stale_epoch`).
`FALSE` is an assumption on the environment: it lets TLC and the proofs examine
everything else that could break the properties that need it.

`TQNexusEnv` runs Nexus against sleds that give any answer: any status of any
proposed configuration, any commit acknowledgement at any time. What holds
there does not depend on the nodes being correct. `RackMembership` is the
abstract specification that it implements (`OneHistory`): the decided
memberships form one history, at most one change to the latest of them is
pending, and that change joins the history or is dropped. The refinement
mapping reads decided, pending and used epochs off the rows.

### TrustQuorum

Composes the nodes with Nexus: an action of one side that the other takes part
in (a poll, a commit request, a ReconfigureMsg) is one action that conjoins
both handlers. It adds `rss`, the progress of `init_trust_quorum`: reconfigure
at one peer, commit there once all have acknowledged, proxy the commit to the
others, then hand off the first row.

`RackTrustQuorum` is what the composition implements (`OneRack`): the history
of `RackMembership`, and sleds that commit only decided memberships which have
them as members. A sled may skip a membership. It may also commit one after a
later one, because `commit_configuration` does not end a key share computation
for an earlier epoch. The refinement mapping reads the history off the rows;
before the handoff, when there are none, it is the membership of rack setup.

### SagaQuiesce and SagaRecovery

`SagaQuiesce` has no variables: `SagaQuiesceHandle` changes its state in
closures under one lock, so each function is an operator from the old status to
the new one (`SetQuiescing`, `SagaCreate`, `SagaCompletion`,
`ReassignedAllAsOf`, `RecoveryStart`, `RecoveryDone`, ...). A blueprint id is
its position in the history of targets; the code only compares ids.

| Variable of SagaRecovery | Code |
| --- | --- |
| `saga` | the saga table, and which ids were drawn but have no row yet |
| `alive` | the processes that run |
| `quiesce` | `SagaQuiesceHandle` of each process |
| `creating`, `sec` | Steno: sagas whose INSERT is under way; what it knows of each saga |
| `channel`, `started`, `removeNext` | `sagas_started` channel and `RestState` of the recovery task |
| `pass` | the recovery pass of each process |

Creating a saga (`Prepare`, `Insert`, `CreateOk`, `CreateFails`), finishing it
(`RecordDone`, `Complete`) and a recovery pass (`StartPass`, `ListBatch`,
`ListFails`, `MakePlan`, `Resume`, `ResumeFails`, `FinishExecution`, `Abandon`)
are split where the code awaits. `Crash` loses everything but the table.
Running and Unwinding sagas are one state.

Three constants say what the environment may do:

- `SlowInsert`: an INSERT that one recovery pass has missed may still be
  pending when the next pass starts. Without it, `InTime` makes the next pass
  wait for the row. That is a little more than the comment in `Plan::new`
  needs: there the row only has to be in time for the next pass's listing.
- `LostReply`: an INSERT may be applied and yet be reported as failed.
- `Transient`: the recovery of a single saga, the abandoning of one, or the
  clean-up of records may fail and have to be tried again.

### NexusQuiesce

| Variable | Code |
| --- | --- |
| `blueprints` | the blueprints that have been the target, in order: which instances are in service, which expunged ones are ready for cleanup, whether this generation is to quiesce |
| `loaded`, `exec` | the latest blueprint each process loaded; the execution in progress |
| `phase` | `QuiesceState`; DrainingDb and RecordingQuiesce are one phase |
| `check`, `recorded` | `check_all_sagas_drained` in progress, `last_recorded_blueprint_id` |
| `access` | table `db_metadata_nexus` |
| `handedOff` | `attempt_handoff` of the next generation succeeded |

The planner appends blueprints (`BumpGeneration`, `ExpungeSled`, `ExpungeDisk`,
`MarkReady`). Every instance loads and executes them at its own pace
(`LoadBlueprint`, `StartExecution`, `ReassignSagas`, `ReassignmentDone`,
`ReassignmentFails`) and quiesces (`StartCheck`, `RecordDrained`, `MoveOn`,
`CheckFails`, `RecordQuiesced`). Processes end and start again.
`ExpungeSled` is an operator's statement that the sled is gone, which the model
takes to be true. `DiskExpunge` says whether zones may be expunged because of
their disk, while their processes may still be running.

## 3. What TLC checks

All runs finish in less than five minutes. Deadlock is not checked: both
systems may rest (no operator proposes anything, every request is answered, the
handoff is done), and the bounds stop them.

| Run | Start | What it shows |
| --- | --- | --- |
| `reconfigure` | uninitialized rack | rack setup, handoff and one reconfiguration to commit or abort, any node restarting at any time, operator overtaking: `RecordedIsCommitted`, `CommittedIsPrepared`, `AckedIsPrepared`, `DecidedIsRecoverable`, and the refinement `OneRack` |
| `overlapping` | four sleds: epoch 2, which removes one of them, aborted while its coordinator prepares it, and epoch 3, which removes another one instead, proposed with another coordinator; or a member computes its share of epoch 2 while epoch 3 is prepared | two coordinators at work with two memberships, and commits of two epochs overlapping: `SameMembership`, `CommittedIsDecided`, `CollectingCanPrepare`, `NotCoordinatingAndComputing`, `CommittedIsPrepared`, `RecordedIsCommitted`, `TypeOK` |
| `loading` | a member was removed and does not know, or missed the prepare; it loads the secret while epoch 2 is committed, and restarts | it is told that it is expunged only rightly (`ExpungedIsRemoved`), never finds a commit lost (`CommitNeverLost`), and its load of the rack secret ends (`LoadEnds`) |
| `settling` | Committing with one late member and restarts, or a coordinator that just accepted epoch 2 | `ReconfigurationEnds` |
| `nexus` | Nexus alone, 3 epochs | `ActiveIsLatest`, `ChainOfCommits`, `RowsOnlyAdvance`, and the refinement `OneHistory` |
| `recovery` | one instance and two sagas; crashes, lost replies, failed recoveries | `NoDoubleResume`, `AssertionsHold` (the assertions in the code) |
| `quiesce` | the generation was just bumped, two instances, one with an unfinished saga; that one may crash at any point, start again or be expunged | `RunsInOneProcess`, `DrainedHasNoSagas`, `HandoffAfterSagas` |
| `handoff` | the same, one instance lost, failures | `HandoffHappens` |

Four runs are expected to find a violation; each is a finding in
`PROJECT.json`:

- `stale_secrets` (`SameConfiguration`). A poll answered while the coordinator
  still collects shares stores the digests without the encrypted secrets. A
  later activation loads that row, its own poll completes the row and makes it
  Committing, and `prepare` goes on to commit the row *as it was loaded*, so
  that a member gets a `PrepareAndCommit` whose configuration has no encrypted
  secrets. It then differs from what the other members store.
- `stale_epoch` (`AbortedIsNotCommitted`). The status request names no epoch.
  If the operator aborts epoch 2 and proposes epoch 3 with the same
  coordinator while an activation for epoch 2 awaits its poll, the answer is
  about epoch 3, and `prepare` then commits the epoch 2 it had loaded.
- `stale_computation` (`AcceptedWhileNotComputing`).
  `coordinate_reconfiguration` cancels a key share computation and doubts that
  this can happen; it can, because committing a later epoch does not end the
  computation for an earlier one.
- `unrecovered` (`DrainedHasNoSagas` with `Transient = TRUE`). A recovery pass
  that fails to resume a saga is still reported as a success, so the process
  counts as drained while an unfinished saga is assigned to it.

Three more settings of the switches violate a property that holds otherwise,
and contradict a comment of the code. They have no run of their own; changing
the configuration named shows each of them.

- `SlowInsert = TRUE` in `recovery.cfg` violates `NoDoubleResume`. Against
  `nexus/saga-recovery/src/recovery.rs:213-215`, "Any items that aren't in that
  list either cannot still be running, so we can safely remove them from our
  ignore set", and 249-250, "If it's not in that list, the saga must have
  finished": a saga whose row appears only after the second listing is in
  neither, and the third listing finds and resumes it while it runs.
- `LostReply = TRUE` in `quiesce.cfg`, with `Owner = {NoNexus}` so that the
  saga is yet to be created, violates `DrainedHasNoSagas`. Against
  `nexus/src/app/quiesce.rs:156-159`, "we've recovered all sagas assigned to
  us": a saga whose creation was reported as failed but whose row exists is not
  counted until a recovery pass finds it. `unrecovered` refutes the same comment
  along another path.
- `DiskExpunge = TRUE` in `quiesce.cfg` violates `HandoffAfterSagas`. Against
  `nexus/src/app/quiesce.rs:164-167`, "all of the active Nexus instances have
  finished all sagas in the system": an instance whose zone was expunged because
  of its disk is not waited for any more, but its process and its sagas may
  still be running, and they are not reassigned before it is ready for cleanup.

What the passing runs do not exercise:

- `OneRack` passes in `reconfigure` with the operator overtaking because there
  is no epoch 3 to be taken for epoch 2, the case of `stale_epoch`. The theorem
  `SystemIsOneRack` states the assumption that is needed for any number of epochs.
- In `quiesce` no saga is created anew, and no reassignment fails: these are in
  `recovery` and `handoff`, and for the safety properties of `quiesce` in the
  theorems, which restrict neither.
- In `handoff` one of the two instances is gone, so the other waits for its
  record and not for its progress. That two live instances never wait for each
  other with different blueprints for ever is not checked by a run: liveness
  with two live instances takes TLC a quarter of an hour even from a start late
  in the protocol.

### Bounds

- Three sleds are the fewest a configuration may have (`ValidSize`): K = 2 and
  Z = 0, so a quorum leaves one sled behind, which is the interesting one. The
  runs about removal, about two memberships and about late members have four,
  where K = 3. Z > 0 needs
  five sleds and is beyond TLC here; the proofs cover it.
- `MaxEpoch = 2` is one reconfiguration, 3 one that overtakes another. The
  overtaking runs start in the middle (`InitAborted`, `InitStraggler`,
  `InitCommitting`, `InitCoordinating` in `MCTrustQuorum`), because from the
  start they are too large. These are states the program reaches: the module
  says which events lead to each, and messages of those events that are not in
  `msgs` any more have been handled and lost with their connections.
- `Task` has one instance in the system runs, none where everything is decided
  already. `Restarters` and `Loaders` limit who restarts and who loads secrets.
- Two sagas are enough for one to be found and one missed by a pass; two
  instances for one to take over from the other. `MaxBlueprint = 3` leaves room
  for one more change of the target after the generation was bumped.
  `MaxGeneration` bounds the reassignments that fail.
- Symmetry: the members that rack setup starts with, except special ones;
  sagas and interchangeable instances. Only in runs without liveness
  properties, and not where the start tells the members apart.

Between them the passing runs fire every action and every disjunct of the
next-state relations.

### Fairness

`Fairness` in `TrustQuorum` assumes what the code keeps doing.

- *Nodes*: weak fairness of the nodes' progress as a whole, by a message that
  `on_connect` sends again or by a commit request. Connections that break are
  re-established by the connection manager and the outstanding messages are
  sent again; commit requests are repeated by every activation.
- *Loading*: weak fairness of `LoadSecrets`; key manager clients retry.
- *Background task*: activations are periodic, so `TaskLoad`, `TaskCommit` and
  `TqUpdateCommitStatus` are weakly fair. Polls and their transactions may fail
  and are tried again for ever: strong fairness.
- In run `settling`, processes restart finitely often.

Nothing is assumed of the operator, nor of the `ReconfigureMsg`, which is sent
once. A coordinator that restarts loses its state, and then only the operator's
abort ends the attempt: `ReconfigurationEnds` is about a coordinator that
does not restart in the Preparing case.

`FairnessOf` in `NexusQuiesce`: sagas finish; blueprints are loaded and
executed, and sagas recovered, by periodic background tasks; `do_quiesce`
loops. Listings do not fail for ever, and a check that could succeed does not
time out for ever. Nothing is assumed of the planner or of processes that
ended. `HandoffHappens` assumes that the final blueprint asks for the handoff,
that the instances in service run or have quiesced, and that the records of the
others are cleaned up. The last is an assumption because a failed clean-up is
only a warning, and is not tried again once everyone else has quiesced.

## 4. What is proved

The theorems hold for every value of the constants that meets the assumptions
of the modules. Those are weak: `Node` is finite (needed to count quorums),
`MaxEpoch` and `MaxBlueprint` are positive, `InitialMembers` is a membership
that rack setup accepts, `Loaders` and `Restarters` are subsets, the switches
are Booleans. `Task`, `Nexus` and `Saga` are arbitrary sets. The theorems about
`TrustQuorum` have the form `(Init \/ InitAfterHandoff) /\ [][Next]_vars => []P`:
from an uninitialized rack, or from one just handed off.

Some theorems also assume that a switch is off. No switch is there for
convenience: the runs `stale_epoch` and `unrecovered` and the combinations that
section 3 lists show, for each of them, a property that fails when it is on.

| Assumption | Theorems |
| --- | --- |
| none | all of `TrustQuorumProofs`, `TQRecoverableProofs` and `TQNexusEnvProofs`; `NodesInvariant`, `CollectingAlwaysCanPrepare`, `CommitIsNeverLost` |
| `~ Overtaking` | the other theorems of `TQDecidedProofs` |
| `~ SlowInsert` | all of `SagaRecoveryProofs` |
| also `~ LostReply`, `~ Transient` | all of `DrainedProofs` |
| also `~ DiskExpunge` | all of `HandoffProofs` |

### Nexus alone (`TQNexusEnvProofs`, on `TQNexusProofs`)

`NexusInvariant`, from which `NexusActiveIsLatest` and `NexusChainOfCommits`
follow, `NexusRowsOnlyAdvance`, and the refinement `NexusOneHistory`.
`RowsInv` adds to the two invariants that a row is identified by its epoch, the
first one is decided, and a CommittedPartially row is never the latest. The
last is needed because `tq_abort_config` refuses Committing and Committed but
not CommittedPartially. For the refinement, a transaction replaces one row:
either decided, pending and used epochs all stay the same (`ReplaceStutters`),
or the pending change is settled (`ReplaceSettles`), or a row is added, which
is a proposal (`ProposeImplements`).

### Ledgers (`TrustQuorumProofs`, `TQRecoverableProofs`)

`TypeCorrect`; `NodeDiskInvariant`, from which `CommittedIsAlwaysPrepared`
follows; `DiskInvariant`, from which `AckedIsAlwaysPrepared` and
`DecidedIsAlwaysRecoverable` follow. The invariants follow an acknowledgement
on its way: a `PrepareAck` message, an entry in the coordinator's state
(`NodeDiskInv`), a status that a background task holds, a Prepared member of a
row (`DiskInv`). At each stage the member has configuration and share on disk,
and ledgers only grow (`Grows`). A node that computes its share has stored the
configuration already (`KscConfigured`): that is what makes the commit at the
end of the computation safe. `DecidedIsRecoverable` then follows by counting at
the one transaction that decides.

### Memberships (`TrustQuorumProofs`)

`AgreementInvariant`, from which `MembershipIsAlwaysTheSame` and
`RecordedIsAlwaysCommitted` follow. The *header* (epoch, members, coordinator)
of a configuration is in use when a ledger, a coordinator, a message, a
request, a row or an activation carries it. `AgreementInv`: headers in use for
one epoch are equal, and every epoch in use is 1 or was proposed, i.e. is at
most the epoch of some row. Only a proposal and rack setup bring in a header,
and a proposal's epoch is above every row and so above all in use. A commit
request may be answered Ok by a node that has only committed a later epoch.
Such an epoch is in that node's ledger, hence in use, hence proposed; the
answer is then about a row that is no longer the latest, and
`TqUpdateCommitStatus` ignores it. This is `AckedCommits`, in `CommitInv`.

### What nodes do (`TQDecidedProofs`)

Whatever the operator does, `NodesInvariant` gives `CollectingAlwaysCanPrepare`
and `CommitIsNeverLost`. `RequestsInv` says that a request to coordinate names
the epoch that its row builds on. `NodesInv` adds that a node stores only
configurations that it is a member of, coordinates only what names it as
coordinator after it has committed what that epoch builds on, and asks for
shares only of epochs whose configuration it has.

With `~ Overtaking`, `DecidedInvariant` gives `CommittedIsAlwaysDecided`,
`AbortedIsNeverCommitted`, `ExpungedIsAlwaysRemoved` and
`NeverCoordinatingAndComputing`. `DecidedInv`: an epoch that is committed at a
node, or on its way to that (a commit request, a key share
computation), is that of rack setup or has a decided row. What makes it inductive is
`TaskInv`, about activations of the background task: as long as one awaits its
poll its row is the latest, and the answer it gets is not about a later epoch.
`RemovedInv` follows the `Expunged` message: whoever it is for is not a member
of the decided epoch it names.

### The whole system (`TQDecidedProofs`, last part)

`SystemIsOneRack`: nodes, Nexus and rack setup together implement
`RackTrustQuorum` (`OneRack`). A step of the nodes commits at most one epoch at
one node (`CommitsOnly`), which is decided and has the node as a member by
`CommittedIsDecided` and `AgreementInv` (`CommitImplements`); a step of Nexus
changes no ledger and implements a step of `RackMembership` by the lemmas of
`TQNexusProofs`; the handoff of rack setup is a stuttering step, because the
mapping takes the membership of rack setup for the history before it
(`HistoryOfRows`). `FirstRow` says that the row of epoch 1 is never lost.

### Sagas (`SagaRecoveryProofs`)

`SagaInvariant`, from which `NeverDoubleResume`, `AssertionsAlwaysHold` and
`SagasRunInOneProcess` follow. `SagaInv(n)` relates what a process holds of a
saga to the table (`TableInv`), and says that the recovery task knows of every
saga the process has (`StartedInv`), that what a pass found and does not know
of is unfinished and nobody's (`PassInv`), and that a saga the last pass missed
although the process has it is found by this one (`MissedInv`). The last is why
two passes have to miss a saga before it is forgotten, and it is where
`~ SlowInsert` is needed. `BlueprintInv`: expunged instances never come back.

### Drained (`DrainedProofs`)

`DrainInvariant`, from which `DrainedNeverHasSagas` follows. An unfinished saga
of a process that is not pending there (`Waiting`) is one that recovery has yet
to find: if the counters say that recovery has caught up then a reassignment
to the process is about to be counted (`CaughtUpInv`); during a pass, this pass
has it still ahead or the next pass is already due (`AheadInv`).

### Handoff (`HandoffProofs`)

`HandoffInvariant`, from which `HandoffOnlyAfterSagas` follows. The core is
`UndrainedInv`: as long as a saga is unfinished, for every blueprint there is
an instance whose record keeps the others from finding everyone drained as of
it: the saga's owner, or an instance that is gone for good. When a saga is
reassigned, its new owner is not drained as of any blueprint in which the old
owner was gone, because the blueprints a process counts as reassigned have no
unfinished sagas of expunged instances (`ClearInv`). `ClosingInv` says that a
process drained as of a blueprint creates no more sagas, and `GivenUpInv` that
once any process goes on to give up the database there are none left.

## 5. What is only model-checked

Every safety property that a run expects to hold is a theorem too. With TLC
alone stay:

- liveness (`ReconfigurationEnds`, `LoadEnds`, `HandoffHappens`), which the
  prover does not handle;
- the violations, which are counterexamples;
- what the mid-way initial states of `MCTrustQuorum` and `MCNexusQuiesce` lead
  to; the theorems are about the initial states of the specifications.

## 6. Not modelled

| What | Why, or what is planned |
| --- | --- |
| LRTQ upgrade | `coordinate_upgrade_from_lrtq`, `tq_upgrade_from_lrtq` and the LRTQ share messages; planned |
| trust quorum API | repeated `ReconfigureMsg` and its documented idempotence, the proxy tracker; planned |
| connections | explicit sessions with loss on disconnect and resend on connect, refined to the message set of `TQNode`; NetworkConfig gossip |
| starting sled agents | the part of the background task that starts sled agents on committed members |
| bootstore v0 | the LRTQ finite state machine |
| quiescing | `quiesce_start`, by which an operator quiesces one instance by hand; disabled blueprint targets; instances added to the same generation; queries in flight while the connection pool drains |
| next generation | `sagas_abandon_orphans`, the schema upgrade and the records of the next generation |
| saga recovery | rows that fail conversion in the listing, reports of past passes, an INSERT that survives the crash of its process |
| action graphs | what the individual sagas do |

Out of reach or of little use to a model checker: secret sharing over GF(256)
and the encryption of rack secrets (pure functions, represented by the
threshold rule), framing and TLS, ledger files (an atomic save), authorization
and logging.

## 7. Running

```
tlc -config reconfigure.cfg MCTrustQuorum
tlc -config nexus.cfg MCNexus
tlc -config quiesce.cfg MCNexusQuiesce
tlapm TrustQuorumProofs.tla
```

`TQDecidedProofs` takes about twenty minutes, the other proof modules less.

`PROJECT.json` lists the module and configuration of every run, the source
lines each definition models, and for every property a mutation of the model,
resembling a plausible bug in the code, that the property catches. The
operators named `Mut...` in the modules are those mutations; nothing else
refers to them.
