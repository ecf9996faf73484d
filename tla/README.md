# TLA+ verification of Gear

Gear runs WebAssembly programs as actors: programs and users exchange messages, every
message pays for its execution and storage with gas, and a program may stop in the middle
of a message to wait for a reply. The repository holds two networks that do this: Vara, a
Substrate chain with a bridge to Ethereum, and ethexe, whose validators execute the programs
off chain and commit the results to contracts on Ethereum. This directory models what makes
them safe (gas, money, queues, holds, reservations, locks; the bridge; batches, Ethereum
blocks and consensus blocks in ethexe), checks the models with TLC on small instances and
proves the central theorems with TLAPS for instances of any size.

`PROJECT.json` lists the components, the runs, the mutants every property was tried on,
the map from definitions to source lines, the findings, the hazards and the theorems.

## 1. The system

### 1.1 Parts and how they interact

| Part | State | Operations | Module |
|---|---|---|---|
| Gas tree (`vara/common/src/gas_provider`) | nodes by key, total issuance | create, split, cut, reserve, spend, lock, unlock, system reserve, consume | `GasTree`, `GasTreeLoop` |
| Gas deposits (`pallets/gear`) | deposit per account, multiplier | deposit and create, spend, consume and retrieve | `GasBank` |
| Bank (`pallets/gear-bank`) | books of gas and value, unused value, transfers put off | deposit, withdraw, spend, transfer, on_finalize | `GearBank` |
| Message queue (`pallets/gear-messenger`, `common/src/storage`) | head, tail, links, counter, switch | push, pop, requeue, clear | `MessageQueue` |
| Waitlist, mailbox, stash, task pool (`pallets/gear`, `gear-scheduler`) | holds with their interval, tasks by block, locks in gas nodes | block hooks, extrinsics, tasks, journal notes | `MessageFlow`, `HoldBound` |
| Gas reservations (`protocol/core/src/reservation.rs`, `pallets/gear`) | reserver of an execution, program map, gas nodes, tasks | reserve, unreserve, send from, journal notes, expiry, exit | `Reservations` |
| gstd locks (`sdk/gstd/src/sync`, `async_runtime`) | memory of a program: lock, access queue, futures, deadlines | poll, drop, wake, trap, signal | `GstdMutex`, `GstdRwLock` |
| Ethereum bridge (`pallets/gear-eth-bridge`) | queue, its id and root, info by queue, timer, nonce, block of the overflow | all calls and hooks, the builtin actor | `EthBridge` |
| ethexe consensus and batches (`ethexe/consensus`, `contracts/src/Router.sol`) | role and saved requests of each validator, its database, the Router by Ethereum block | heads, building, validating, replying, submitting, `commitBatch` | `EthexeBatches` |
| ethexe preparing (`ethexe/observer`, `compute/src/prepare.rs`, `codes.rs`, `blob-loader`) | synced and prepared blocks, known codes, codes that load | sync, take a block, prepare, load, process | `EthexePrepare` |
| ethexe node (`ethexe/malachite`, `compute/src/compute.rs`, `service`) | Malachite store, database, app between its awaits, events held back, executions | proposals, decisions, cascades, callbacks, compute, crash | `EthexeNode` |
| Everything else | see section 8 | | |

An extrinsic deposits tokens in the bank and creates a gas node; the dispatch enters the
queue. In each block `run` first processes the tasks that are due, then the queue until it
is empty or the gas allowance of the block is used up. Executing a dispatch yields a
journal whose notes burn gas, send messages, put the dispatch into the waitlist, make
reservations, or consume it. A hold (in the waitlist, the mailbox or the stash of delayed
dispatches, or a reservation) locks gas for its rent and owns a task that ends it. When a
node is consumed, the gas it still has flows up the tree and back to the account.

On the bridge, messages to Ethereum are queued by extrinsics and programs, and at the end of
a block the Merkle root of the queue is published, for relayers to prove it on Ethereum once
the block is final. A change of the authority set clears the queue, and so does a proof that
the block in which it overflowed is final.

An ethexe node follows Ethereum: the observer syncs chains of Ethereum blocks (EBs), compute
prepares them, for which it needs the codes they validated, and the blob loader fetches
these. Malachite, a BFT engine, decides a chain of Malachite blocks (MBs), each of which may
advance to a later EB; a node executes an MB once its EB is prepared. For every EB one
validator is the coordinator: it builds a batch from the MBs that are final and computed,
the participants derive the same batch from their own databases and sign it, and the Router
contract accepts it if it follows the last one it has.

### 1.2 What is hard about it

* Every hold is described in several stores at once: the message, its task, its lock, its
  gas node. Extrinsics, tasks and journal notes end holds in any order.
* Tasks run late when a block is full, and rent goes on.
* The gas tree deletes in cascades; the counters that drive them are kept by hand.
* The handlers call `unreachable!` wherever they rely on an invariant of another store: a
  violation stops block production.
* The bank owes refunds to accounts that may have ceased to exist.
* A program's memory is rolled back on a trap, the runtime's stores are not; locks of gstd
  live in the memory, deadlines and wake-ups in the runtime.
* The two resets of the bridge's queue and the messages of a block come in any order within
  it, and what is published at its end must identify the queue to Ethereum for good.
* Ethereum forks under the batches; requests and replies are lost, late and repeated; a
  submission outlives the state it came from.
* An ethexe node writes to two stores, one after the other, and may crash between them.

The hazards in `PROJECT.json` name the line at which each of these bites.

## 2. Modules

`Storage` has the maps and the empty item of the runtime's storage (`None`, which is also
`Option::None` in the memory of a program). `Tally` defines the sum of a function without
recursion (the number of units its values consist of), so that conservation can be stated and
proved.

**GasTree.** `tree` is the storage map, `total` is `TotalValue`. The three kinds of money
of a node (value, locks, system reserve) are the slots of `held`. One action per method of
`Tree`; an operation that returns an error changes nothing and is no step. `Consume` states
the result of the two loops of the code by the sets they visit: `IsClimb` (the ancestors
`find_ancestor_patron` passes) and `IsRemoval` (the nodes the cascade deletes).
**GasTreeLoop** translates `consume`, `catch_value`, `find_ancestor_patron` and
`try_remove_consumed_ancestors` as the loops they are, every internal error included;
`LoopsAgree` shows that the loops and the formula leave the same storage, return the same
value, and that the formula has exactly one solution.

**GasBank** adds to GasTree what `pallet-gear` does with the bank around it. An origin is an
account and the multiplier in force when its gas was bought, as the
tree keeps them.

**GearBank.** Variables are the storage items of the pallet and the free balances;
`pallet_balances` is external and modelled from its use: reaping below the existential
deposit, and KeepAlive. `on_finalize` is split at its loop, because its total and its map
are changed apart. Each `unreachable!` and each error documented as unreachable sets
`fault`.

**MessageQueue** has the three storage items of `DequeueImpl`, the counter and the switch of
the messenger with the callbacks that drive them, and the loop of `process_queue`.
**ArrivalOrder** is the abstract specification: dispatches are handled once, one at a time,
in arrival order. `Waiting` is the refinement mapping: the dispatch in hand, then the list
the links make up.

**HoldBound** is the arithmetic of rent: how long an amount of gas lasts, what is locked,
what is due. **MessageFlow** composes queue, waitlist, mailbox, stash and task pool for one
program and its users, with the block's phases as control state. The actions are the hooks,
the extrinsics `send_message`, `send_reply`, `claim_value`, `set_execute_inherent`, the
tasks, and the journal notes. The queue is a set here (its order is MessageQueue's subject)
and a gas node is the purse its holder pays from (the tree is GasTree's subject). Every
`unreachable!` clears `gas.ok`.

**Reservations** follows a reservation through `GasReserver`, the journal notes
`reserve_gas`, `unreserve_gas`, `update_gas_reservation` and `send_dispatch`, the program
map, the gas nodes and the removal tasks, over waits, traps, retries and exits.

**GstdMutex** and **GstdRwLock** (over **GstdRuntime**, where a message is) model messages that take a lock, may await a reply while
they hold the guard, and drop it. An execution is one step, since a program is never
interleaved with itself within one. A trap leaves the memory as it was and queues a signal,
whose handler drops the future. In GstdMutex time is the number of blocks left to each
deadline. GstdRwLock has no deadlines of its own, and time is reduced to whether a wait
ended by its timer.

**EthBridge.** Variables are the storage items of the pallet, the balances of the senders
and what the pallet sees of the chain: the block and the phase of its execution, the last
finalized block, and the block in which the authority set changed (which stands for
`AuthoritySetHash`). A message is its nonce, sender and block; a Merkle root is the sequence
of the messages, so equal roots mean equal queues. A finality proof is the number of a
finalized block after the change of the set: `verify_finality_proof` takes only
justifications by the present authorities.

**EthexeBatches** composes the validators with the Router. An EB's record is the Router after
it, which is what a validator that prepared the EB reads. Blocks are mined on any block, so
forks of every shape occur. Messages that were published stay in a set, from which they are
received at any time, any number of times, or never. `CreateBatchCommitment` is the
coordinator's walk, `Accepts` the participant's, and `CommitBatch` the requirements of the
contract. What the other services of a node write to its database is interleaved while a
batch is built or validated, the only time it is read.

**EthexePrepare** is the pipeline from an observed head to a prepared block; a restart keeps
what is in the database. **EthexeNode** extends it with the Malachite app, its store, the
callbacks and execution. The app handles one message at a time but awaits between its writes,
so `app` records where the handler is (`record`, `save`, `mark_saved`, `ingest`, `finalize`,
`mark_finalized`) and a crash may fall at each point. The engine hands it proposals, values
fetched from peers and decisions, as the code in `src/` uses it.

`Lists` has the operators on sequences that the two ethexe models use.

`*Proofs`, `MessageFlowLemmas` and `TallyTheorems` hold the proofs (`PaymentProofs` those of
GearBank and Reservations, `QueueProofs` of MessageQueue, EthBridge and the locks, `BatchProofs`
of EthexeBatches, `EthexeProofs` of EthexePrepare and EthexeNode); `MC*` modules instantiate the
specifications for TLC. Operators marked "Mutant" next to a
definition are faulty variants of it: each property was tried on a model with one of them
in place, and fails there.

## 3. Runs

| Run | What it shows |
|---|---|
| `gas_tree` | invariants 1 to 9 and 11 to 13 of the code's property tests, conservation of gas, and that the loops of `consume` and its formula agree |
| `gas_bank` | an account's deposit is the price of the gas in its nodes, at any multiplier |
| `pallets` | the links of the message queue are one list, which refines `ArrivalOrder`; the bank is solvent, reaches nothing unreachable and pays scheduled fees (liveness); the root and nonces the bridge publishes are those of its queue, the messages of an authority set do not outlive it by more than a block, a reset by proof drops messages of final blocks only |
| `message_flow` | holds, tasks, locks, gas nodes and rent agree while blocks run short of allowance and `ExecuteInherent` is switched off and on |
| `reservations` | the three stores of a reservation agree, no id is used twice, what the journal takes was set aside |
| `gstd_sync` | Mutex: exclusion; every message ends, whatever fails (liveness). RwLock: a writer is alone, readers are counted; without traps and lock timeouts every message ends (liveness) |
| `ethexe_batches` | on every Ethereum chain the Router applies each MB once and in order, its anchor lies on that chain, no code reverts a batch that follows, and a peer with the data and the commitment delay of the coordinator derives the same batch |
| `ethexe_node` | blocks are prepared and MBs executed after what they need; the Malachite store is never ahead of the database; the finalized MB moves by one; unless a code cannot be loaded, blocks are prepared, every MB proposed since the last start is executed, and every recorded one if the node never restarts (liveness) |
| `gstd_rwlock_signal`, `reservations_limit`, `ethexe_batches_delay`, `ethexe_node_restart` | each refutes a sentence of a comment, see 3.1 |

`pallets` and `gstd_sync` check components that share no state side by side: the initial state
chooses one of them, and only its variables change afterwards (`MCPallets`, `MCGstdSync`).

### 3.1 Where the code and its comments disagree

Four runs refute a sentence of a comment; the findings quote it.

* `gstd_rwlock_signal`: the signal handler cannot drop a guard of an `RwLock`, so the lock of a
  message that trapped or, as in the trace, ran out of rent while it held a guard stays taken,
  although the guard is "used to release the shared read access of a lock when dropped"
  (`gstd/src/sync/rwlock.rs:160`).
* `reservations_limit`: a program may store `max_reservations + 1` reservations
  (`reservation.rs:152`, against `:91` and `:135`). `PaymentProofs!StoredStaysBounded` proves
  that this is the bound there is.
* `ethexe_batches_delay`: `commitment_delay_limit` is said to be "Coordinator-local" and "set
  freely per-coordinator" (`batch/types.rs:17-19`, `common/src/lib.rs:108-110`), but the
  participant derives the batch again with its own limit (`batch/manager.rs:315`) and compares
  the digests, so two validators with unequal limits never agree. `PeersAgree` says what is left:
  with the expiry the participant would choose itself, equal data give equal batches.
* `ethexe_node_restart`: the `BlockProposal` of an MB is sent when the MB is saved, from memory.
  A node that saved an MB and restarts before executing it does not send the event again
  (`malachite/core/src/store.rs:267`), so its `BlockFinalized` comes with nothing computing it,
  against `service/src/lib.rs:981-984` and `malachite/service/src/lib.rs:43-44`. A later
  proposal computes it as an ancestor; without one it is not executed. `ExecutedIsReady` shows
  that nothing is executed early for it, and `ExecutedOrBlocked` states what liveness remains:
  what was proposed since the last start is executed, and all that is recorded if there was no
  restart.

The models show more disagreements, which have no run of their own:

* While `ExecuteInherent` is off, the tasks of a block are passed over and
  `FirstIncompleteTasksBlock` does not say so (`gear/src/lib.rs:474`, against
  `common/src/scheduler.rs:31`). `NoTaskLeftBehind` is stated for the runs switched on.
* A message woken exactly at the deadline of its only lock finds nothing to wait on and
  panics (`async_runtime/locks.rs:161`, against `:151`). `EveryMutexMessageEnds` shows
  that messages end in spite of it.
* A message queued and a reset by proof in one block reach the branch that logs "Queue were
  changed within the block, but it's empty" (`gear-eth-bridge/src/internal.rs:192`).
  `RootIsQueue` shows that what is stored is right all the same. `clear_bridge` does not
  remove the authority set hash, as its comment says it does (`internal.rs:231`).
* An empty checkpoint commits the latest finalized MB also when MBs below it have transitions
  that are not computed or do not fit (`batch/manager.rs:96-98`). Participants reject it,
  since they derive those transitions; with a threshold of one nobody is asked. `CommittedOnce`
  holds for every threshold from two on (section 6).
* `validate_batch_commitment` fails, and with it the node, where its comment says that it
  rejects (`batch/manager.rs:124-125`): a header off the validator's chain or an MB the Router
  committed and the node does not have is an error.
* A blob that failed to load stays in `codes_loading`, and is skipped by every later request
  (`blob-loader/src/lib.rs:272-276`), so preparing may wait for it until a restart, against
  `compute/src/lib.rs:59-61`. `PreparedOrStalled` makes this the only exception.
* After a crash a callback may run again, so "fires once" and "exactly once"
  (`malachite/core/src/externalities.rs:17` and `:27`) are at least once.
* After a crash between storing a proposal and recording the block, `all_ancestors_saved`,
  which `malachite/core/src/app.rs:714` asserts in debug builds, need not hold.

## 4. Bounds

* Gas tree: four nodes and two units of gas. Four nodes are enough for a root, a chain
  of two local nodes and a fourth node beside or below them, so cascades of three deletions, patrons at a
  distance and blocked value all occur. Two units tell a partial transfer from a whole one.
  Node ids are symmetric. `gas_bank` has three nodes, two accounts and two prices.
* Bank: two accounts, one of them the treasury, an existential deposit of 2 and amounts of 1
  and 2, so that accounts are reaped, refused and revived.
* Queue: four messages, `MaxDequeued` 3 per block: first, inner and last elements differ.
* Message flow: two messages with their replies, three blocks (`MaxBlock`), a margin of one
  block (`ReserveFor`), gas limits none, 0, 2 and 6 (`GasLimits`), delays of one and two
  blocks (`Delays`), one unit burnt (`Burns`). Below, at and above the mailbox threshold all
  occur; tasks are late by up to two blocks.
* Reservations: two messages, up to two reservations each (`MaxNonce`), two sends
  (`MaxSends`), three blocks, a limit of one stored reservation.
* Mutex: three messages, ownership for one block, waits of two. RwLock: three messages (four in `gstd_rwlock_signal`), at most two readers.
* Bridge: one user and one account of governance, a capacity of two, five blocks, five
  messages and sessions of two blocks: two changes of the set, an overflow, messages beyond
  it and a reset all fit.
* Batches: two validators who must both sign, three Ethereum blocks after the first in any
  tree, four blocks and MBs altogether (`MaxWork`, a code counting for two when it is first requested, on whichever block), batches of one
  transition or code, a saved request each, and no quarantine, so that Ethereum reorganises
  below a finalized MB. Two blocks make a fork, the third lets a late batch land on one side. Both validators have
  the same commitment delay, since with unequal ones two signatures are never collected;
  `ethexe_batches_delay` gives them unequal ones.
* Node: a line of two EBs under two MBs, with a code requested by the first EB and validated
  by the second, and a fork of four EBs that validate different codes; one crash; two stored
  MBs (`MaxMbs`). With three stored MBs (491,683 states) the properties hold too.

Bounded models of blocks stop at the last block: `Over` stutters there, and deadlock stays
checked everywhere else. `Ended` does the same for messages that all ended in `gstd_sync`. The runs of the
batches and of the node and `gstd_rwlock_signal` have no deadlock check: the last Ethereum block
may be mined, a node without new blocks has nothing to do, and all messages may have ended.

## 5. Fairness

* `GearBank`, in `MCPallets!PalletsSpec`: weak fairness of `on_finalize`, which the runtime calls in every block.
* `GstdMutex`, in `MCGstdSync!SyncSpec`: blocks are produced, queued messages are executed, due messages are
  woken, signals are handled: weak fairness of each. Replies are not assumed to arrive: the
  timeout of a reply is part of the code.
* `GstdRwLock`, in `MCGstdSync!SyncSpec`: weak fairness of executions and of replies. Timers, traps and rent
  may or may not strike; `EveryRwRequestEnds` speaks of the behaviours in which no message
  traps and no wait for the lock times out, to see whether the wake-ups alone suffice. (With
  a trap or rent that runs out they do not: see `gstd_rwlock_signal`.)
* `EthexeNode!Spec`: weak fairness of one action, that the node takes some step of its own
  (preparing, a handler that was started, executing). New Ethereum blocks, proposals and
  decisions are not assumed to come. The code gives more, as every task is polled; since
  every step of the node uses up work, this suffices. A blob either loads or fails: it is
  read in a bounded number of attempts. That an attempt ends is an assumption: the HTTP client
  sets no timeout (`blob-loader/src/lib.rs:301`), and a read that hangs stalls preparing as a
  failed one does.

The other runs check safety, and assume no fairness.

## 6. Proofs

All theorems hold for every value of the constants under the named assumptions of the
modules (finite sets of accounts or messages, naturals as amounts, `None` and the like
outside the sets).

Some theorems are about properties no run lists: they were model-checked while they were
being proved, and the theorem says more than a run. These are type correctness and
`CascadeDeletesConsumed` of the gas tree, `ScheduleIsSummed` and `SurplusKept` of the bank,
`NoError` and `DequeuedCounts` of the queue.

**Gas tree** (`GasTreeProofs`; 6 theorems). The checked invariants are not inductive together.
`IInv` adds three facts: `Ranked` (following parents ends: there is a depth function), `Shaped`
(unspecified nodes hold no value, and only kinds with a flag are consumed), and that the tree is
finite. `Ranked` is what makes the cascade tractable: the deleted nodes form a chain, so each
parent on it loses exactly one child, which is what its counter is lowered by (`RemovalChain`,
`GoneFacts`). The value of the emptied node goes to at most one patron (`PatronFacts`), so the
total changes by what is handed back (`CaughtGas`), and what is deleted is empty
(`RemovedIsEmpty`).

**Gas deposits** (the second half of `GasTreeProofs`; 1 theorem, `BankMatchesTree`). A deposit
is a sum over the nodes of an account's trees at the price each tree was bought for, so the
proof follows origins: a node has the origin of its root, the root stays as long as the node
does (`LineageStands`, from the first half), and hence splitting, cutting, reserving and the
cascade move gas only between nodes of one origin (`PatronOrigin`, `TransferOwed`, `CaughtOwed`).
Spending and refunds are charged at the price of the origin, not at the multiplier of the day,
which is why the sum and the deposit change alike.

**Bank** (`PaymentProofs`; 4 theorems). `Inv` is type correctness, solvency, the exact
schedule and the absence of faults: solvency is what makes each guard of a payment pass, so
the faults and the balances have to be proved together. Every step but a donation keeps the
surplus, which is the action property `SurplusKept`.

**Message queue** (`QueueProofs`; 4 theorems). The invariant says that a list exists
of which the stored links are the picture (`Links`), with the dispatch in hand not in it.
The list is unique (`LinksUnique`), so the refinement mapping is well defined; each
operation is shown to append, prepend or take off one element (`AppendLinks`, `ConsLinks`,
`TailLinks`), and each step is a step of `ArrivalOrder` or a stutter.

**Message flow** (`MessageFlowLemmas`, `MessageFlowProofs`; 6 theorems, one for each property
of its run). That no handler reaches unreachable code needs every hold to have its task, its
gas node and its rent, and each of these needs the others, so all are one invariant, `IInv`.
Beyond the checked properties it says: nothing refers to a message not yet sent (`Known`); a
reply is made when its message is gone (`ReplyFollows`) and only messages of the program are
held for users (`FromProgram`); a gas node made for a reply is a deposit or belongs to a message
that a task will deliver (`ReplyNodes`); gas is locked only for a hold that exists
(`LocksAreHolds`), and the lock pays for the hold to its end with the margin, which is stronger
than what is due at the moment (`Paid`); a delayed message has one task (`OneStashTask`), and one
on its way to the mailbox has a purse of its own with the gas the mailbox asks for
(`ForMailbox`). Each step is shown to keep these by naming the message it moves, the node it
makes or ends, and that nothing else changes. The lemmas on `HoldBound` (`MaximumPays`,
`LeastPays`, `DelayRent`, `DueIsCovered`, `ChargeBound`) are the arithmetic of rent: what the gas
buys, with truncating division and saturating subtraction, always covers what is charged later.
`NoTaskLeftBehindHolds` is an action property, and its argument is about the cursor of
`process_tasks` and the block recorded when the allowance runs out.

**Reservations** (`PaymentProofs`; 4 theorems: one for each property of its run, and that no more
than `max_reservations + 1` are stored). Between
executions the stores agree; while a journal is handled they agree up to the notes that are left,
so `Agree` and `Notes` say what each note still has to do, from the states of the reserver
(`Reserver`). That no id is used twice comes from `Older`: what is stored or pays for a message
has a nonce below the one its message goes on with, across waits. `Sends` keeps the gas of a
reservation that pays for a message until the message is sent. `Covered` is the sum the gas
counter gave for the notes not yet handled, which is why no note finds too little gas, and
`Bounded` counts the reserver during the execution and the map after it.

**Locks of gstd** (`QueueProofs`; 3 theorems). For the RwLock the invariant is inductive as
checked: the count tells a writer that there is no reader, the record of the writer tells a
reader that there is no writer, and neither is changed by traps, timers or signals. For the
Mutex, `GuardMeansOwner` is inductive with the types of the memory: every operation on a memory
is shown to keep it (`Good`), so it does not matter which memory a trap rolls back to.

**Bridge** (`QueueProofs`; 4 theorems, one for each of its properties). `BridgeInv` adds to
the properties how the block, the timer and the queue hang together: finality and the change
of the set lie in the past (`Clock`), an uninitialized bridge is empty (`Fresh`), messages are
of blocks gone by, and of this one only while a change is outstanding (`Dated`), the recorded
block of an overflow is not before that of any message published since (`Overflow`), and the
timer says how long the queue may still hold messages of the old set (`Timer`, `Old`). That
sessions last at least two blocks is needed: the timer runs out before it is set again.
`Numbered` orders the nonces of the queues.

**Batches of ethexe** (`BatchProofs`; 4 theorems, one for each property
of its run). `BatchInv` has five parts: the Ethereum blocks are a tree and the MBs advance along
one of its chains (`World`); what a Router has committed is an MB and the Ethereum block it
advanced to, on the Router's own chain (`Anchored`); a committed batch was built on an earlier
block of the chain where it was not yet the last one, it does not come back once another follows
it, and while it is the last one the committed MB stays and codes are only added to those that
wait (`HistoryAt`); a batch on the network is what `create_batch_commitment` makes (`Built`), and
one that a participant signed carries exactly the transitions between the MB committed at its
block and its head (`Backed`); and every validator is in a state that the messages sent account
for (`Validating`). `History` is what makes `commitBatch`'s comparison of digests mean something:
if a batch names the last batch of its own block and a Router has that one as its last, then the
Router is at the MB, and has the codes, that the batch was built from. `CommittedOnce` is proved
for `Threshold >= 2` (3.1 says why one signature is not enough), the other three hold without
such a condition. Each validator has a `commitment_delay_limit` of its own: `PeersAgree` itself
says that the expiry of the request is the one the participant would choose. The number of validators, their slots and periods, the size limit, the
quarantine, the codes and the numbers of blocks are arbitrary.

**A node of ethexe** (`EthexeProofs`; 4 theorems, one for each safety property of its run).
`PrepareInv`: parents are prepared before their children, the chain being prepared starts above
a prepared block, and codes that its blocks report as validated are known or waited for.
`StoreInv` relates the two stores and the handler between its awaits: the blocks below a saved
one are in the database, those below the latest finalized one are marked as finalized, the chain
that a cascade still has to save or finalize goes on where the store ends, and a block about to
be marked has been passed to its callback (`AppInv`). It holds at each point where a crash may
fall, and the restart starts from less. `ExecInv` rests on both: an MB taken for execution is in
the database with its Ethereum block prepared, hence so are all its ancestors (`OneBelow`, as an
MB advances to a descendant of what its parent advanced to), which are executed without an event
of their own.

Both rest on chains (the path to a block, the transitions between two heights), which are
recursive functions. That these exist and what they return is shown by a least
counterexample in a set of naturals (`LeastNat`), in place of the library's induction theorems.

`TallyTheorems` has the facts on sums the conservation proofs use. The inductive invariants of
MessageFlow, Reservations, EthexeBatches and EthexeNode, which are the long ones, hold in every
state of the instances of their runs, too.

Only model-checked:

* All liveness (`FeesAreSettled`, `EveryMutexMessageEnds`,
  `EveryRwRequestEnds`, `PreparedOrStalled`, `ExecutedOrBlocked`): fairness and ENABLED are out of the prover's reach.
* `LoopsAgree`: GasTreeLoop uses recursive operators, which the prover cannot reason about.

## 7. Abstractions

* Payloads, ids and encodings are model values. Message ids are hashes over nonces in the
  code and distinct here.
* Gas and block numbers stay far below their widths (u64, u32); saturation at zero and the
  upper bound of the gas total are kept.
* MessageFlow has one program. It leaves out value transfers, signals and system
  reservations, init messages, and replies sent with gas of their own. Gas consumed at a
  distance follows the line of payers, not the whole tree.
* `GasHasOwner` is stated while the program is active: after an exit, claiming a message
  leaves the gas node of a reply deposit behind, because no reply is made.
* One lock per message in the models of gstd.
* EthexeBatches has one era, and so one validator set; validators and rewards commitments, and
  how transitions of one actor are squashed, are left out. The previous batch a batch names is
  the one its block has, so its hash adds nothing. `PeersAgree` leaves checkpoints out (3.1).
* EthexeNode has one node. All MBs of a height are proposed above the decided block before
  it, as the engine guarantees. The quarantine of an advance and injected transactions are
  left out; what an execution computes is, too.
* `pop_back` and `drain` of the dequeue, which no production code calls, are left out.

## 8. Not modelled

The `components` list says why for each part. In short: parts without protocol state
(primitives, tools, RPC, configuration, cryptography), parts below the level of these models
(lazy pages, sandbox, instrumentation), and parts still on the plan. Most of the repository by
lines is of the first two kinds (WebAssembly execution, code generation, tests, clients and
weights).

After an exit of a program, `claim_value` leaves the gas node of a reply deposit behind
(`gear/src/lib.rs:1574`); no property is stated about nodes after an exit, because what is
right there depends on the life cycle of programs, which is not modelled.

## 9. Plan

1. ethexe: database sync with retries and partial responses; the schedule and the transitions
   of the runtime; the rotation of validators in the batches.
2. Vouchers; signals and system reservations; init messages and the life cycle of programs in
   MessageFlow.
3. Algorithms: page allocation (`protocol/core/src/memory.rs`), the gas counters
   (`gas.rs`) against reference definitions.
4. Proofs: that the loops of the gas tree leave what its formulas say, for trees of any size.
