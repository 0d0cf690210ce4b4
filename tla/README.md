# A TLA+ model of GroveDB

GroveDB is a hierarchical authenticated store: a tree of Merk (Merkle AVL)
trees, kept in RocksDB, in which every tree element of a parent records the
root key and binds the root hash of the Merk below it. This directory holds a
TLA+ model of its write path, the model-checking instances, and TLAPS proofs.
Source paths below are relative to `src/`.

## 1. The system

| Part | State | Operations | What makes it hard |
|---|---|---|---|
| Merk AVL tree (`merk/src/tree`) | nodes with Reference / Modified / Uncommitted / Loaded links | `apply_to`, `build`, `apply_sorted`, `recurse`, `remove`, `maybe_balance` | one sorted batch removes, promotes and rotates many nodes; only nodes behind Modified links are written |
| Merk (`merk/src/merk`) | root node in memory, nodes in the data column family, root key in the roots column family or in the parent's element | `apply`, `commit`, `clear`, `open_*`, `load_root` | the root key is written only when a commit notices that it changed; a root key that leads nowhere silently opens an empty tree |
| Direct operations (`grovedb/src/operations`) | the grove as a caller's transaction sees it, a pending `StorageBatch` | `insert`, `delete`, `clear_subtree`, `mmr_tree_append`, propagation to the root Merk | an operation touches one Merk per level; reads never see the pending batch; nested operations commit half way; errors in a caller's transaction leave what was committed into it |
| Storage and transactions (`storage/src/rocksdb_storage`) | four column families, optimistic transactions | contexts, `commit_multi_context_batch`, `commit`, `rollback` | reads are not tracked, writes are tracked late, no snapshot |
| Batches (`grovedb/src/batch`) | operations grouped by level, a cache of Merks | `apply_batch`, `apply_partial_batch` | level-wise propagation merges an upward root-hash update with explicit operations on the same key |
| State sync (`grovedb/src/replication`, `merk/src/merk/restore.rs`) | sessions, pending chunk ids per subtree, one transaction | `start_snapshot_syncing`, `fetch_chunk`, `apply_chunk`, `commit_session` | chunks arrive in any order, fail, or are repeated; subtrees are discovered while others are in flight |
| Append-only trees (MMR, bulk append, dense, commitment crates) | entries under the subtree's prefix, size and root in the parent's element | append, compaction | two places to keep equal, positions computed from sizes |
| Queries, proofs, references | read only | `query`, `prove_query`, `follow_reference` | limits and offsets across subtrees, reference cycles |
| Costs, versions, flags, debugger, tutorials | none or derived | | |

## 2. Modules

| Module | Models | State and actions |
|---|---|---|
| `MerkAvl` | `merk/src/tree/ops.rs`, `tree/mod.rs` | pure operators: the AVL algorithms on trees whose links know whether they are Modified |
| `Merk` | `merk/src/merk` over `MerkAvl` | `tree` (memory), `nodes` and `root` (storage), `content` (history); `ApplyUnchecked`, `Clear`, `OpenBase` |
| `GroveState` | the stored grove, opening and writing a Merk, `find_subtrees`, `verify_grovedb` | operators on a grove record; no state of its own |
| `Grove` | the direct operations (`grovedb/src/operations`, propagation in `grovedb/src/lib.rs`) | `store`, `view`, `work`, `op`, `tx`, and `seen`, a history of the view between operations; one action per step of an operation |
| `GroveMap` | what the direct operations promise | a hierarchical map, committed and pending, and whether a transaction is open; one step per operation, commit or rollback |
| `GroveBatch` | `apply_batch` (`grovedb/src/batch`) | `store`, `work`, `job`; `ApplyBatch` (checks, preprocessing, policies), `ExecuteOpsOnPath`, `NextLevel`, `BatchFails`, `CommitBatch`, `Crash` |
| `Transactions` | RocksDB optimistic transactions as GroveDB uses them | committed and per-transaction nodes and sequence numbers; open, propagate, commit batch, commit, fail, roll back, look up |
| `TransactionsProofs` | | the TLAPS proofs about `Transactions` |
| `StateSync` | `grovedb/src/replication`, the parts of `restore.rs` a session sees | `session`, `current`, `processed`, `inBatch`, `discovered`, `asked`, `call`, `tx`, `db`; one action per turn of `apply_chunk` |
| `MCGrove`, `MCGroveBatch`, `MCTransactions`, `MCStateSync` | | instances for TLC |

Each definition of these modules that stands for code has its source lines in
`PROJECT.json` under `map`. Definitions introduced by a comment beginning with
"Mutant" are deliberate faults of the definition that follows them: each
property was seen to fail with one of them in place.

### How the state corresponds to the code

**A grove** (`GroveState`) is what RocksDB holds: per path the raw nodes
(`raw`), which of them are linked from the top of the AVL tree (`linked`,
`top`), the number of entries of a log (`data`), and the root key in the roots
column family (`base`). An element carries its root key, its entry count and a
`hash` that stands for `combine_hash(value_hash, child_root_hash)`; hashes are
terms over what they hash, so they are equal exactly when the hashed trees are.
Which key ends up on top after a change is left open here: `MerkAvl` computes
it, and everything above holds whichever it is. A pointer to a missing node
opens an empty tree, as `load_root` does. `MmrTree` stands for the four tree
types whose data is not a Merk: the direct operations treat them alike, and so do
batches but for one arm. `InsertIfNotExists` of a `CommitmentTree`
(`grovedb/src/batch/mod.rs:1982`) makes no existence check; for batches `MmrTree`
stands for the other three types. A log is its length.

**A direct operation** (`Grove`) writes the element (`Insert`, `DeleteFrom`,
`MmrTreeAppend`), is then carried up one parent per `PropagateStep`, and ends
in `CommitBatch`. `store` is the database, `view` what the transaction reads,
`work` that plus the pending `StorageBatch`. An operation's
reads see `view` and never its pending batch. `clear_subtree`
with nested trees goes over the Merk once and runs a whole `delete` per tree inside
the same transaction (`ClearNested`, with `op.ahead` the trees not yet reached), and `mmr_tree_append` commits its entries before it touches
the element (`MmrTreeAppendElement`). `ReturnError` drops the batch and, when
the transaction is the operation's own, what was committed into it; a caller's
transaction keeps it. `Crash` may happen anywhere. What a caller may do beyond
calls with default options is chosen by the constant `Callers`, so each run
says for which callers its properties hold.

**A batch** (`GroveBatch`) is a set of operations. `ApplyBatch` is everything
before the levels: `verify_consistency_of_operations`, the execution of appends
(`Preprocessed`, `Appended`), the deletion policies (`NotEmpty`, `Kept`,
`Doomed`) and the new Merks given to inserted trees (`NewMerks`).
`ExecuteOpsOnPath` runs one path of the current level on the Merk in the cache,
or on one opened from the transaction, and turns the new root into an operation
above (`OpsAfter`): `ReplaceTreeRootKey`, or the insertion above it rewritten to
`InsertTreeWithRootHash`. `CommitBatch` is the clean-up of deleted trees with
the commit. Deletion under `DontCheckWithNoCleanup` is left out: its caller
vouches for the subtree.

**A transaction** (`Transactions`) reads the parent and the subtree at
different moments (`OpenMerk`, `PropagateChanges`), and its writes enter the
optimistic transaction only in `CommitBatch`, with the sequence number of that
moment, as `rebuild_from_writebatch` does. `CommitTransaction` compares those
numbers (`Valid`). RocksDB is external and modelled from how
`storage/src/rocksdb_storage` uses it.

**A sync session** (`StateSync`): a subtree is a number of chunks, and chunk
`c` names `2c` and `2c + 1`. The source answers with the right chunk, a damaged
one or empty data. The session transfers Merk nodes only: the data of trees that are
not Merks is not part of a chunk, and the model has no such data. A call to `apply_chunk` goes through `TakeGroup`,
`ApplyInnerChunk` (one chunk), `ContinueSubtree`, `SubtreeInvalid` or
`FinishSubtree`, and `ReturnNext`; an error ends it and keeps what it did.

## 3. Runs

| Run | Instance | Shows |
|---|---|---|
| `grove_core` | three nested paths, two keys, three tree types, transactions of two operations, one log entry | default calls: `GroveVerifies`, `NoKeyLostOrLeft`, `PropagationSucceeds`, `OperationsAreAtomic` |
| `grove_forced` | a tree that holds two trees, forced deletions and clears of nested trees, transactions of one operation | `OperationsAreAtomic` (refinement of `GroveMap`) |
| `grove_options` | every option of the calls, forced ones below the root path; three tree types, no caller transactions | `MerkTreesVerify`: what can be stale is at non-Merk trees, and the counts of a `ProvableCountTree` |
| `grove_force_top` | forced deletion at the root path | violation, finding 1 |
| `merk_apply` | every batch over six keys, two of them with two values | `TreeIsAvl`, `ContentIsTheBatches`, `StorageMirrorsTree`, `ReopensAsItWas` |
| `transactions_serial` | two writers, one reader, one subtree of two keys | `RootBindsSubtrees`, `NoLostUpdate` |
| `transactions_overlap` | two subtrees, commits inside operations | violation, finding 2 |
| `transactions_lookup` | one writer, one reader | violation, finding 5 |
| `batch_levels` | three nested paths, batches of up to three operations of five kinds and three policies | `BatchesVerify`, `BatchesLeaveNothing`, `BatchIsWhole` |
| `batch_refill` | insertions of trees with operations below them | violation, finding 3 |
| `state_sync` | five subtrees of zero to three chunks, batches of two subtrees, two sessions | `RightAnswersSync`, `StoredFromTheTop`, `SessionsEnd` |
| `state_sync_damaged` | one session, answers right or damaged | violation, finding 4 |

`TypeOK` is checked once per module with state.

The properties, in words:

- `GroveVerifies`: `verify_grovedb` finds nothing in the database at any moment,
  nor in a transaction between two operations.
- `NoKeyLostOrLeft`, `BatchesLeaveNothing`: the nodes reached from root pointers
  are the nodes stored, logs have the entries their elements count, and prefixes
  no element leads to are empty.
- `PropagationSucceeds`: an operation that passed its own checks does not fail on
  the way to the root.
- `OperationsAreAtomic`: each operation, however many Merks, batches and nested
  calls it takes, is one step of a hierarchical map. The map's pending side is
  `seen`, what the caller sees between two calls, so that the deletions inside a
  `clear_subtree` are no steps of the map, and a database that shows one of them
  without the rest has no counterpart in it. A transaction of the caller is begun,
  committed and rolled back in the map too.
- `MerkTreesVerify`: with any options of the calls, the element of a Merk tree binds the Merk
  below it. A forced deletion inside a `ProvableCountTree` hashes the tree as the
  type of what it deleted; the property says that the keys and elements are right
  even then and only the counts are left out of the hash.
- `BatchIsWhole`: a committed batch has the effect its operations have all at
  once, whatever the levels and the order; otherwise nothing changed.
- `StorageMirrorsTree`, `ReopensAsItWas`: the incremental writes of a commit leave
  storage equal to memory, and a restart opens the same tree.
- `RootBindsSubtrees`, `NoLostUpdate`: transactions serialise, provided no commit
  falls inside another transaction's operation.
- `RightAnswersSync`: a session that reports completion shows the whole snapshot,
  in whatever order and however often packages were applied and whatever an
  earlier session left. `StoredFromTheTop`: whatever is on disk when the process
  stops, a subtree with stored chunks has all chunks of its parent stored, the one
  with its tree element included.
  `SessionsEnd`: a session that gets right answers ends, because `apply_chunk` has
  always told its caller what to fetch next.

### Bounds

Two keys give every shape the grove level distinguishes: a Merk that is empty,
has only the key concerned, or has another key that may be on top. Three nested
paths give a parent that is itself a child, so that propagation takes more than
one turn; the four paths of `grove_forced` give a clear with two nested deletions,
between which the process may stop. One entry per
log (`MaxEntries`) separates empty from non-empty, which is all that the
operations test. Two operations per transaction (`MaxTxOps`) let one read what
the other wrote. Batches of three operations are enough for an insertion, an
operation below it and one beside it, and for a deletion whose tree is emptied
by the other two. Six keys give AVL trees of height three, in which a batch can
remove a node with two children below a rotation. Two writers are enough for
every pairwise conflict, and two commits (`MaxCommits`) for a commit that is based
on, or in conflict with, an earlier one; the proofs hold for every number of
subtrees, keys, writers and commits. The snapshot of `state_sync` has an empty subtree, a
subtree in three chunks whose last one holds another subtree, and more subtrees
than fit into one batch.

### Fairness

`StateSync`: weak fairness of the steps of a call, which runs on its caller's thread
to its end; weak
fairness of committing a session that reports completion, and strong fairness of
applying a package that is still awaited, which are the caller's part in the
protocol (`apply_chunk` documents that its result is to be fetched and applied);
strong because old packages may be applied again in between. `Grove` assumes none:
its operations are finite walks up a path or once over a Merk, and nothing in them
waits.

## 4. Proofs

`TransactionsProofs` proves, for every set of subtrees, keys, writers and
readers and every `MaxCommits`:

- `TypeCorrect`: `Spec => []TypeOK`;
- `RootAlwaysBindsSubtrees`: `Spec => []RootBindsSubtrees`;
- `NoUpdateIsLost`: `Spec => []NoLostUpdate`;

the last two under the hypothesis `~Interleave`, that no commit falls between
the opening of the Merk and the batch commit of another transaction's operation
(finding 2 shows that it is needed).

Neither property is inductive: a transaction that is open may hold a root node
that is long overwritten. The invariant `IInv` adds, for every transaction `t`,
`Sound(t)`: what an operation of `t` has read is what it would read now, and if
`t` is `Current` (nobody overwrote the root node since `t` first
wrote it) then the root node it sees binds the subtrees it sees, and the keys it
sees are the committed ones with its own operations applied. `Numbers` says that sequence
numbers in use were given out and that a written subtree comes with a written
root node. The step that matters is `CommitTransaction`: a commit that wrote
anything wrote the root node, hence every other transaction that wrote is no
longer `Current` and owes nothing, and the committing one passes `Valid` only if
it is `Current`, so its view becomes the committed state.

The assumptions are `ASSUME`s of `Transactions` (`None` is not a key, `Root` not
a subtree, `MaxCommits` a natural number) and are evaluated by TLC in every run of it.

Only model-checked: liveness (the prover does not do fairness), the AVL
algorithms (recursive definitions), and so far `Grove`, `GroveBatch` and
`StateSync`.

## 5. Findings

1. *Root key left behind* (`grove_force_top`,
   `grovedb/src/operations/delete/mod.rs:847`): a forced deletion of a non-empty
   tree at the root path goes through a layered handle, which does not write the
   roots column family when the root Merk rotates.
2. *Overlapping transactions commit* (`transactions_overlap`,
   `storage/src/rocksdb_storage/storage.rs:549`): the documentation of
   `start_transaction` says one of them fails; writes are tracked only from the
   end of an operation, so a commit that falls into it is not noticed.
3. *Existing trees are replaced* (`batch_refill`,
   `grovedb/src/batch/mod.rs:2592`): `InsertIfNotExists` of a tree with operations
   below it in the same batch has no existence check.
4. *Failed chunks count as applied* (`state_sync_damaged`,
   `grovedb/src/replication/state_sync_session.rs:107`): the id leaves
   `pending_chunks` before verification, the session then reports completion, and
   `commit` compares the root Merk only.
5. *Lookups miss keys* (`transactions_lookup`, `grovedb/src/util/compat.rs:47`): the
   documentation of `start_transaction` says that reads are safe beside a single
   writer; a lookup without a snapshot reads the root key in the parent and the
   subtree's nodes at two moments, and a commit in between that deletes the root
   node or rotates it away makes it miss a key that is there all along.

Observed while modelling and kept out of the passing runs by their constants:
`clear_subtree` of a log leaves size and hash in the parent's element
(`clear_non_merk`); a clear of nested trees at the root path stops half way for the
reason of finding 1 (`clear_subtrees_top`); an insertion at the path of a log puts
keys into a Merk beside it (`fill_non_merk`); with default options a batch may
overwrite a tree and leave its storage (`ValidateTree`), and a plain `Delete` of a tree in a batch
does the same; an append and an insertion of the same tree in one batch pass the
consistency check (`Distinct`); `InsertIfNotExists` of a `CommitmentTree` replaces an
item that is there. Kept in, and allowed for by `MerkTreesVerify`: a forced deletion
of another kind of tree inside a `ProvableCountTree`
(`grovedb/src/operations/delete/mod.rs:852`) leaves an element that
`verify_grovedb` reports.

## 6. Not modelled, and the plan

Not modelled because there is no state to model: costs and their estimates,
versions, visualisation, the debugger, tutorials. Byte encodings are derived by
a library; prefixes are assumed not to collide.

Planned, in this order:

1. `Restorer` (chunks of one Merk: parent links, heights, finalize) as what
   `StateSync` assumes of `ApplyInnerChunk`, and chunk production.
2. The append-only trees: `Mmr` (positions and peaks as pure operators against a
   reference definition), `DenseTree`, `BulkAppend` (buffer, compaction, overlay),
   `CommitmentTree` (two structures in step); each with its direct operation and
   its batch preprocessing.
3. Batches: references, `apply_partial_batch` with add-on operations,
   `apply_operations_without_batching`, `delete_up_tree_while_empty`, `MerkCache`.
4. Read-only algorithms as operators with reference definitions: query items and
   their merging and intersection, limits and offsets, reference resolution, the
   proof stack machine, epoch storage flags.
5. Proofs: `RightAnswersSync` for any snapshot and batch size; `BatchesVerify`
   and `GroveVerifies` for any paths and keys; that `Grove` implements `GroveMap`;
   lemmas about the position arithmetic of the mountain range.
