# TLA+ models of optimism-preimage-maker

The server under `server/src` keeps a store of *preimages* for a light client of
an OP-stack chain: for consecutive ranges of L2 blocks it derives the witness
data that proves the range from an L1 head, keeps it in files for a TTL, and
serves it over HTTP together with the light-client data of the L1 head. This
directory models the parts that decide *what is stored, listed and removed, and
in which order*: TLC checks them on small instances, and TLAPS proves the main
results for every value of the parameters.

    tlc -config MCCollector.cfg MCCollector      # one run
    tlapm CollectorProofs.tla                    # one module of proofs

## The system

| component | code | state it keeps | operations |
|---|---|---|---|
| collector | `collector.rs` | `latest_l2`, the last claimed block; the locals of one batch | `start`, `collect`, `get_l1_head_and_finalized_data`, `parallel_collect`, `commit_batch`, one spawned `collect` task per range |
| build_batch | `collector.rs:51-72` | none (a loop) | ranges of `distance` blocks up to `finalized_l2` |
| preimage repository | `data/file_preimage_repository.rs` | a directory, and `metadata_list`, the set that is served | `new`, `upsert`, `get`, `list_metadata`, `latest_metadata`, `purge_expired` |
| finalized L1 repository | `data/file_finalized_l1_repository.rs` | a directory | `upsert`, `get`, `purge_expired` |
| purger | `purger.rs` | none | `start`, `run_once` |
| process | `main.rs` | the three tasks | start-up, `select!` on the first task that ends |
| web API | `web.rs` | none | `get_latest_metadata`, `list_metadata`, `get_preimage`, `get_finalized_l1` |
| clients | `client/*.rs` | none | rollup node, beacon node and L1 node over HTTP, each call with a timeout |
| derivation host | `derivation/host/single` | per derivation a memory store, and `used`, what was set in it | one kona server and client joined; `encode_to_bytes` of what was set |
| light client (of the tests) | `../tests/e2e.rs` | what it has fetched | a session of requests; the replay of each preimage |

How they interact. The collector polls the rollup node for the finalized L2
block and the beacon node for a finalized L1 head, spawns one derivation per
range, awaits them in order, and calls `upsert` of the preimage repository once
per range; before that it calls `upsert` of the finalized L1 repository. The
purger, in another task, calls `purge_expired` of the two repositories in turn.
The handlers of the web API read one of them each; a reader asks for the latest
metadata, then for the list up to it, then for L1 data and preimage of each
entry, and replays the derivation. The repositories are shared by `Arc`; the
only lock is the one around `metadata_list`, and it is never held across a file
operation. A restart finds the two directories and nothing else.

What is hard here:

- every `.await` is a place where another task runs: the purge lists, examines
  and removes files while `upsert` writes and renames them, and updates the
  cache long after the files are gone;
- two nodes that advance independently answer one after the other, and the code
  must not pair a batch with an L1 head that is too old for it;
- the L1 data is two answers of a beacon chain that moves on between the calls,
  and around a boundary of sync committee periods they do not fit together;
- a batch is not atomic: a derivation fails, an upsert in the middle fails, the
  process dies, and collection must resume without a hole or an overlap;
- the tasks of a failed batch are detached, not aborted;
- expired files are removed in the order of the directory, so that a purge cut
  short leaves holes, and the two repositories share a TTL but not an age;
- a reader's session is several requests, between which the collector stores,
  the purger removes, a task ends or the process restarts;
- the preimage is what was *set* in the store during one derivation, not what
  was read from it: a store that outlived a derivation would make the next
  preimage incomplete.

The full list, each entry at its line, is under `hazards` in `PROJECT.json`.

## The modules

Paths are relative to `server/src`. `PROJECT.json` maps every definition to the
lines it stands for.

**`BuildBatch`** is the loop of `build_batch`, one step per iteration, in
arithmetic modulo `Modulus` (2^64 in the code: a release build wraps).
**`BatchRanges`** is its closed form. The collector's model calls the closed
form, which `ReturnsClosedForm` proves to be what the loop returns.

**`FilePreimageRepository`** has one action per piece of code between two
suspensions. `files` and `tmp` are the directory (a file is its modification
time and whether its bytes are complete), `metadata_list` the cache, `put` and
`purge` the program counters and locals of the one `upsert` and the one
`purge_expired` that can be in progress. `UpsertFails`, `PurgeFails` and
`Restart` may happen at any step. `dangling` is a history variable: what a
failed purge removed and did not take off the cache. `Strays` are names that do
not parse: they are never listed, but they are purged.

**`PreimageStore`** is what the trait `PreimageRepository` promises: a preimage
is listed only while it is stored, delisted only when it is gone, and dropped
only when it is as old as the TTL. `FilePreimageRepository` implements it with
`since <- files[m].mtime`, `stored <- OnDisk`, `listed <- metadata_list`.

**`FinalizedL1Repository`** is the simpler store of light-client data. It has no
cache, it removes each expired file before it looks at the next one, and the
same head is stored again by every batch derived from it.

**`Collector`** is the collector task. `pc` walks through `collect`: `sync`
(also the sleep between two calls), `l1_head` and `l1_check` (the loop that
picks the L1 head), `save_l1`, `join`, `commit` and `ack` (one upsert: the file
is durable, then the call returns). `tasks[i]` is the task of the i-th range,
`orphans` counts the running tasks whose handle was dropped. The rollup node and
the beacon node are `node_l1` and `beacon_l1`; `SafeL2[n]` is the last L2 block
derivable from L1 up to block `n`, any monotone function. The preimage
repository is the set `stored`, from which `Expire` takes any element at any
time. `Restart` loses everything but the two repositories.

**`L1Head`** is the loop of `get_l1_head_and_finalized_data`, of which
`Collector` keeps two steps. `finality` and `best` are the beacon node: its
latest finality update, and for each period its light client update. `pc` names
the next call: `finality` and `update` are the two of `get_finalized_l1_data`,
`number` the one to the L1 node. `Mismatch`, `Delayed` and `L1Fails` are the
`continue`s, `FinalityUpdateFails` and
`LightClientUpdateFails` the early return. `began` and `rounds` are history.
A slot stands for the execution block finalized with it.

**`HeadPicker`** is what the collector relies on: the head was final for the
beacon node at some point of the search, and is not behind the L1 block of the
sync status. `L1Head` implements it with `beacon_l1 <- finality.finalized`, and
`Collector`'s two steps implement it too, so that the small loop and the full
one meet in it.

**`ClaimChain`** is what the collector promises: preimages are stored one after
the other, each for the `Distance` blocks that follow the last one and with an
L1 head that covers them; a restart resumes at the highest claim that is stored,
or at the beginning if there is none. `Collector` implements it with
`reached <- Reached`, the end of the last range that is durable, which runs
ahead of `latest_l2` while a batch is being committed.

**`PreimageMaker`** extends `Collector` by the purger, a clock and the ages of
what is stored; its own names carry the prefix `Maker` where the collector has
the same one (`MakerInit`, `MakerNext`, `MakerTypeOK`). The collector's `Expire`
becomes the purger's `PurgeRemove`; the preimage repository is at the level of
`PreimageStore`, of which the composition is shown to keep the contract; the L1
repository keeps its two-step purge because that is where its hazard lies.

**`Service`** is the process and its readers. `phase` walks through `main`:
`chain_id` and `rollup_config` (the calls to the L2 nodes, the second on a
devnet only), `repositories`, then `running`, the `select!`. `tasks` are the
three tasks: `TaskEnds` is a panic of any, or an error of the HTTP server, and
`Exit` the `select!` that takes the process down with it; `Respawn` is whatever
supervises the process. The purger may be at work before the collector has
chosen its resume point. `reader` is a client of the web API that repeats the
session of `tests/e2e.rs` for what it does not have yet, and leaves out what it
cannot get; the validations of the handlers are `BadRange` and `BadMetadata`.
The preimage repository is an INSTANCE of `PreimageStore`, so that the module
depends on what the repository promises (and `FilePreimageRepository` keeps),
not on its files. The collector is what `Collector` promises: one upsert after
the other, each for the range after the last.

**`Derivation`** is one spawned task after another: `output_root_at` for both
ends of the range, a fresh store, the kona server and client on it, and the
encoding. `request` is the `DerivationRequest`, `mem` and `used` the two maps
inside `TracingKeyValueStore`, `Local` the `LocalKeyValueStore` that answers for
the local keys. Which keys the server fetches and the client reads is left open;
`read` is history. `LightClient(k)` is what the replay of `tests/e2e.rs` finds
under `k`: the local keys from the metadata and its own node, everything else,
the configurations of a devnet included, from the preimage.

The modules `MC*` give TLC the constants; `*Proofs` hold the theorems.

## What the runs check

| run | question | what it shows |
|---|---|---|
| `build_batch` | does the loop return the closed form? | for all 4-bit arguments: `ReturnsBatch` where no addition wraps; `NeverBeyondFinalized` everywhere, overflow and `distance = 0` included |
| `preimage_repository` | do cache and directory agree, and is the contract kept? | `CacheMatchesDisk` says exactly how they may differ; `ImplementsStore` that no interleaving purges a young preimage or delists a stored one; `NoTornFile` that no reader finds half a file, leftovers included; `ExpiredIsPurged` and `StoredIsListed` that every file is reached in the end, through failures and restarts |
| `preimage_repository_dirty` | (violation) is every listed preimage there? | a purge that fails in the middle leaves the cache dirty |
| `finalized_l1_repository` | the same for the L1 data | `NoTornFile`, `ExpiredIsPurged` |
| `finalized_l1_repository_fresh` | (violation) is fresh data kept? | a renewal between the look at a file's age and its removal is lost |
| `collector` | is what is stored a chain of covered claims, and does collection go on? | `HeadCoversClaims`, `NoOverlap`, `ImplementsChain`, `ImplementsPicker` of its search for the L1 head, and `Progress` |
| `collector_running` | (violation) does `max_collect_concurrency` bound the derivations? | a failed batch leaves derivations running beside the next batch |
| `l1_head` | do the saved updates fit together, and does the loop get through a period boundary? | `SavedPairFits`, `OneBoundary`, `ImplementsPicker` |
| `preimage_maker` | do the parts keep their promises together? | `FreshChain`, `StoresNewKeys`, `OldHeadsOnly`; `DelistsOldest`: a purge, failed or not, takes the oldest preimages off the list or none; `ImplementsStore`: seen from its readers, the repository is `PreimageStore` |
| `preimage_maker_l1_data` | (violation) does every listed preimage have its L1 data? | the L1 data expires first, without any failure |
| `service` | does a reader get everything, once and in order? | `NothingMissed`: within a TTL of its last session, less the time of an upsert, it is offered the unbroken continuation of what it has; `GoneOnlyIfOld`: it gets each preimage it was offered; `ReaderCatchesUp`: whatever task ends, in the end |
| `derivation` | is a stored preimage enough? | `Replayable`: the light client finds all that the host's client read, and the same; `TaskEnds`, though the rollup node hangs |

The four violations are described, with the lines of the code and of the doc or
test they disagree with, under `findings` in `PROJECT.json`.

### Bounds

- `MCBuildBatch`: width 16, every argument. Concurrency 20 exceeds any number of
  ranges that fits, 3 is exceeded by it, 1 and 0 are the edges.
- `MCFilePreimageRepository`: two preimages (a purge that fails *between* two
  removals, an upsert beside the purge of another file), one stray file, a TTL
  of 2 in a clock of 0..4, so that what is written first expires, is purged and
  can be written again; two faults, since the hazards need a failure and a
  restart.
- `MCFinalizedL1Repository`: two heads, a TTL of 2, a clock of 0..3.
- `MCCollector`: three L1 blocks that finalize uneven stretches of L2 (distance
  2), so that batches are empty, partial and full; three ranges at once, so that
  a failed task leaves one joined and one running; four faults, so that a failed
  upsert, a restart and two failed retries fit in one run.
- `MCL1Head`: periods of three epochs of two slots, and 18 slots: the chain
  crosses two boundaries and reaches a third, so that a search can meet one
  boundary and the next. A signature is at most 5 slots ahead of what it
  finalizes, one less than a period, and `OneBoundary` fails with 6: a chain that
  does not finalize for a whole period never leaves the mismatch. A committee of
  three, of whom two are just enough and one is not.
- `MCPreimageMaker`: two L1 blocks and three ranges, a TTL of 2 in a clock of
  0..4: two generations of purges. Its distance of 1 makes every block a range.
- `MCService`: one L1 block that finalizes three ranges, the fewest with which a
  hole can be in the middle of a list and an upsert in progress behind it; a TTL
  of 3 in a clock of 0..3, so that the first ranges expire, are purged and the
  later ones stay, and an `UpsertTime` of 1, so that an upsert may be cut in two
  by a tick; with these bounds TLC finds `GoneOnlyIfOld` violated as soon as the
  margin of `UpsertTime` is left out. One fault, at a start-up or in any task:
  what it leaves, a restart with another list, is the same after each.
- `MCDerivation`: a devnet (both configurations are in the preimage), two ranges
  that share a block, two heads, three pieces of data, and any number of
  attempts. `Replays` covers chains that are no devnet.

Every bound (`MaxClock`, `MaxFaults`, `MaxL1`) is a constant of its module and a
guard of an action; the proofs hold for all of their values.

### Fairness

- `FilePreimageRepository`: an `upsert` that has begun is polled to its end, and
  the loop of `PreimagePurger::start` calls `purge_expired` again whatever it
  returned (`purger.rs:14-19`). Beginning an upsert is not fair.
- `FinalizedL1Repository`: the purge alone.
- `Collector`: the collector task and each spawned task are polled by the
  runtime, a derivation that does not fail ends, and the beacon node gets to
  every block the rollup node holds for final. Nothing makes the rollup node
  advance. Faults are finitely many: without that a collector whose derivations
  fail for ever makes no progress, which is what the code does.

- `Service`: main and its tasks are polled, an upsert that has begun ends, the
  process is started again when it is down, and the reader comes back. The
  collector need not store, nor the purger purge. Faults are finitely many.
- `Derivation`: the timer of the HTTP client runs out (`TimesOut`; every request
  has one), and the kona server and client are polled and assumed to end, which
  no timeout of this code would force.

Deadlock is checked in every run but `build_batch`, which is a function that
returns.

### Assumptions

- `Distance > 0` and `Ttl > 0`. With a distance of 0 the collector would store
  empty claims for ever; no default or script sets it. `BuildBatch` covers 0.
- `UpsertIsPrompt`: an upsert renames and inserts a file before the file is a
  TTL old. The TTL is days, an upsert two file operations. `PreimageMaker` makes
  the same assumption of one upsert.
- `NewKey`: the caller of the preimage repository never stores a metadata that
  is still stored or listed. Without it a purge may remove a file that was
  written again after it was examined. `StoresNewKeys` checks that the collector
  is such a caller, in composition with the purger and restarts.
- `InitialClaimed > 0` in `Service`: `list_metadata` refuses a `gt_claimed` of 0
  (`web.rs:111`), so that a reader who has nothing could not ask for what follows
  block 0.
- `Service`: an upsert returns within `UpsertTime` of the rename of its file, and
  `UpsertTime < Ttl` (the assumption of `UpsertIsPrompt`, with the number that
  the reader's promise depends on); a purge delists only preimages older than all
  that are stored, which is `DelistsOldest` of `PreimageMaker`. `NothingMissed`
  and `GoneOnlyIfOld` speak of a reader whose last complete session began less
  than a TTL ago, less `UpsertTime`: what was being written when that session
  asked for the latest metadata is not on the list yet, but ages already. Without
  that margin `GoneOnlyIfOld` is false.
- `Derivation`: a hash determines the data it is the key of, and the nodes of the
  service and of the light client agree on finalized output roots. On a devnet
  `--l1-chain-config` is given: without it the start-up fails (`main.rs:66`).
- `SafeL2` is monotone, and the rollup node's `finalized_l2` is derivable from
  the `finalized_l1` of the same answer. Finalized blocks do not reorganise.
- `L1Head`: a whole attempt of the loop, which asks every 10 seconds, ends
  between two steps of the beacon chain, which are epochs apart; this is what
  `rounds` counts, and only `OneBoundary` depends on it. The rollup node is at
  most an epoch ahead of the beacon node. Which light client update a node holds
  for the best of its period is left open.
- Reading a directory is one step. A file renamed into it in the meantime may be
  missed or seen by the real listing; both are behaviours of the model.
- A crash is one of the process: what a system call did stays done. The code
  syncs nothing, so a power loss is outside these models.

## What is proved

TLAPS checks these for every value of the constants, from the ASSUMEs of the
modules alone.

- `BuildBatchProofs`: `TypeCorrect`, `ReturnsClosedForm`, `BoundedByFinalized`.
  The invariant says that after `iterations` rounds `batch` is the first
  `iterations` ranges of the closed form and `current` their end, and that no
  addition has wrapped while the arguments are in range. `QuotientUnique` is the
  arithmetic of the closed form: when does one more range fit?
- `FilePreimageRepositoryProofs`: `TypeCorrect`, `NeverTorn`, `CacheExact` and
  `Refinement` (`ImplementsStore`). `NoTornFile` is not inductive: it needs that
  the temporary file is whole once `upsert` is about to rename it. `CacheExact`
  needs that a file named in `target_cached` or `dangling` is gone and stays
  gone, which is where `NewKey` enters. The refinement needs that what the purge
  holds as a target is still old, since the file may not have been written
  again.
- `CollectorProofs`: `TypeCorrect`, `HeadCovers` (`HeadCoversClaims`),
  `Disjoint` (`NoOverlap`) and `Refinement` (`ImplementsChain`). The inductive
  invariant ties the program counter to the batch: the batch ends within the
  finalized L2 block of the sync status; from `save_l1` on the head is not
  behind the sync status; every stored claim ends at or before `Reached`; and
  what is stored is pairwise disjoint. `Disjoint` follows from the two last: a
  new claim begins at `Reached`. `PickerRefinement` (`ImplementsPicker`) needs
  the type invariant only.
- `L1HeadProofs`: `TypeCorrect`, `SavedPair` (`SavedPairFits`) and `Refinement`
  (`ImplementsPicker`). The invariant says of each `pc` which checks the two
  answers in hand have passed; it does not depend on the pace of the chain.
  `WaitsOneBoundary` (`OneBoundary`) does, from `DelayBounded`: a signature slot
  is less than a period ahead of the slot it finalizes. Its invariant: a search
  never sees the chain finalize more than the first slot of the next period,
  because with that slot final the signature is of the same period, and an
  attempt made on such a chain is not sent round again.
- `FinalizedL1RepositoryProofs`: `TypeCorrect` and `NeverTorn` (`NoTornFile`).
- `DerivationProofs`: `TypeCorrect` and `Replays` (`Replayable`), for devnets and
  others. The invariant says that during a derivation the memory store holds
  exactly what was recorded (`mem = used`, from the fresh store), that whatever
  the client has read was local or is in it, and that the request agrees with
  the metadata as far as the task has got.

- `PreimageMakerProofs`: `MakerTypeCorrect`, `MakerChain` (`ImplementsChain` of
  the composition), `YoungChain` (`FreshChain`), `NewKeysOnly`
  (`StoresNewKeys`), `OldHeadsPurged` (`OldHeadsOnly`), `OldestDelisted`
  (`DelistsOldest`) and `StoreRefinement` (`ImplementsStore`). The collector's
  invariant is kept by what the purger does, and five facts are added to it:
  all that is stored or listed ends at or before `Reached` (`BelowReached`, hence
  a new claim is a new key); of two stored preimages the later claim is not the
  older file (`AgeInv`, hence what a purge removes is older than what it leaves);
  the file of an upsert that is about to return is young and not a target of the
  purge (`AckInv`); what the purge means to remove is old, and what it removed is
  gone and before all that stays (`PurgeInv`); and a head it means to remove
  had outlived the TTL or was renewed since (`HeadsInv`). `FreshChain` is itself
  a conjunct.
- `ServiceProofs`: `TypeCorrect`, `ReaderMissesNothing` (`NothingMissed`) and
  `OffersAreKept` (`GoneOnlyIfOld`), for every `Ttl` and every `UpsertTime` below
  it. The heart is `Continues(b, t)`: what is stored behind block `b` was stored
  at `t` or later, or at most an upsert before it, and until the first of it
  may expire it follows on `b` without a hole, none of it that is listed is gone,
  and the collector goes on from its end. `ContinuesNext` proves that every step
  keeps it for any claimed `b` and any `t`, so that it holds of what the reader
  has and the time it knows it as of; `LatestContinues` establishes it for a
  latest metadata that is stored, when the reader asks for it, and
  `ContinuesReached` for one that is stored again behind a restart.
  Around it stand the facts about the repository that the two need (`StoreInv`):
  claims lie on one grid of blocks, no two rows claim the same block, only the
  upsert in progress is stored and not listed, and it follows on a listed one.
  `Listing` proves of the sorted list that it holds each row of the range once, in
  ascending order; that such an order exists is `SortedExists`, by counting.

Together they close the argument from the files to the reader: `Service`
assumes of the repository what `FilePreimageRepositoryProofs!Refinement` and
`StoreRefinement` prove, and of the purger what `OldestDelisted` proves; the
repository assumes of the collector what `NewKeysOnly` proves; the collector
assumes of `build_batch` and of the search for the L1 head what
`ReturnsClosedForm` and `L1HeadProofs!Refinement` prove.

Only model-checked: the liveness properties (`ExpiredIsPurged`, `StoredIsListed`,
`Progress`, `TaskEnds`, `ReaderCatchesUp`), as fairness is out of the prover's
reach. Every other property of a passing run is a theorem.

## What is not modelled

- The count of attempts, which only sets the level of a log line (the macro
  `warn_or_error!` compares with `>`, its comment says `>=`).
- The bytes: preimages, JSON, hashes, names. A name either parses or does not.
- The derivation itself (kona): which keys its client reads and what its server
  asks of the nodes is left open; it ends well or fails.
- Operations without a caller outside tests: `get_block_by_number`,
  `get_genesis`, and the conversions from timestamps in `period.rs`.
- `tests/inspect.rs`, which prints files, scripts, the Hardhat project and CI.

## Plan

1. Proofs: the collector of `Service` as a refinement of `ClaimChain`.
2. The L1 data of a head is saved before the derivations of its batch, which
   nothing bounds, so that no bound on how much earlier than its preimages it
   expires can be stated; what could be is that it is there when the batch is
   committed within a TTL of a successful save.
