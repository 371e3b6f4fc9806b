# A TLA+ verification of share-coin 2.x

shcoind is a daemon that runs several bitcoin-derived coins (SHC, USDE, EMC2
and a TEST coin) side by side. This directory holds TLA+ models of the parts of
it where a long sequence of legal steps could do harm, the TLC configurations
that check them on small instances, and proofs, checked by TLAPS, of the
lookup of the record database for instances of every size.

Paths below are relative to `src/src/share-coin/` of the repository.
`PROJECT.json` lists all components, runs, mutants, source lines, findings,
hazards and theorems in a form that tools can read.

## 1. The system

One event loop (`shcoind_daemon.c`, `unet/unet.c`) accepts connections, reads
and writes sockets, runs timers and calls the handlers of the coins. A handler
runs to its end before the next one starts, so the interleavings that matter
are those of handlers: a block may arrive between two passes of a scan, a
command between two blocks, a restart between any two handlers. Every module
uses this: **a handler is one step**.

| Part | Sources | Modules | State of the work |
|---|---|---|---|
| block record database | `blockchain/bc_block.c`, `bc_index.c`, `bc_table.c`, `bc_arch.c` | BcStore, BcStoreProofs, MCBcStore | modelled, lookup proved |
| file maps | `blockchain/bc_fmap.c` | BcStore (what a write leaves, failed growth) | partly |
| block chain and coin state | `server/block.cpp`, `coin.cpp`, `server/*/..._block.cpp`, `..._txidx.cpp` | Chain, MCChain | partly |
| memory pool | `server/txmempool.cpp` | Mempool, MCMempool | partly |
| chain service | `server/chain.cpp` | ChainService | partly (no import and export) |
| peer protocol | `server_iface.cpp`, `server/*/..._netmsg.cpp` | as inputs of Chain and ChainService | partly |
| commands | `server/rpc` | those that start a scan or purge | partly |
| mining interface, stratum | `block_iface.cpp`, `stratum/` | | planned |
| network layer, descriptors | `unet/`, `shcoind_descriptor.c` | | planned |
| address manager | `server/addrman.cpp` | | planned |
| version bits | `server/versionbits.cpp` | | planned |
| wallet, key pool | `server/wallet.cpp` | its scans, in ChainService | planned |
| extended transactions, matrix | `server/ext/`, `matrix.cpp`, `spring.c` | | planned |
| scripts, fees, keys, hashes, encodings, json, fractal, irc | | | not modelled: pure computation or pure input and output |

How the parts interact: peers and miners hand blocks to *ProcessBlock* and
transactions to the *memory pool*. ProcessBlock keeps the block index, chooses
the best chain and writes three *record databases* per coin: blocks by height,
transactions by hash, spent coins by hash. It tells the pool about connected
and disconnected blocks, and removing a pool transaction writes to the same
databases. The *chain service* visits the chain in the background for the
download, the validation, the wallet and the peer list.

## 2. The modules

### BcStore - the record database

State: `idx` (index file, one record per position), `tab` (hash table file, a
hint per slot), `arch` (archive file), `jrnl` (data journals). Each public
operation of `bc_block.c`, `bc_index.c`, `bc_table.c` and `bc_arch.c` that
changes a file is an action. `bc_write` is three actions, after its outcomes:
`WriteFresh` (no record there), `WriteExisting` (`_bc_rewrite` in place, then
the data is appended *again*), `WriteFailed` (the journal cannot grow, and the
index record is cleared, also one that existed before). A lookup is an action
too, `Find`, because it refreshes the slot of the hash.

A fresh record may be written past the end of the index: the positions between
are blank then, as the growth of the map leaves them. A failed write there
leaves its own position blank too.

A payload is a sequence of cells, the checksum an operator constant. `bc_purge`
is modelled for positions above 0: for 0 the loop of the code compares an `int`
with an unsigned 0 and does not end; the tests, its only callers, pass 1 or
more.

### Chain - block index, best chain, files

State: `ix` (`mapBlockIndex`), `best`, `bestWork` (`bnBestChainWork`),
`orphans`, `pool` (the queues of the memory pool that hold transactions),
`addr` (where the allocator put the index entries) and `db` (the files).

The handlers go through intermediate states of the files and leave them behind
when a later step fails. They are therefore written as functions from one node
state to the next (`core_ConnectBlock`, `core_DisconnectBlock`,
`core_CommitBlock`, `SetBestChain`, `AddToBlockIndex`, `AcceptBlock`; from
`core_CommitBlock` on, to the set of possible next states, because what the pool
does depends on fees, ages and chance), and an action (`ProcessBlock`, `AcceptTx`, `UpdateBlockCoins`, `Restart`,
`core_Truncate`) applies them to the whole state.

- `addr` is there because `core_CommitBlock` connects and disconnects in the
  order of a `map<CBlockIndex *, ...>`, that is by address.
- `Restart` is a clean stop and start between two handlers: memory is lost,
  `FillBlockIndex` and `LoadBlockIndex` rebuild it from the files. SHC's loader
  takes the records from the top down, that of USDE and EMC2 goes up from the
  genesis block and stops at a block whose parent it has not met.
- The pool is here because the removal of an active transaction writes to the
  files (`revert`) and because blocks may spend its outputs. `AddTx`,
  `AddActiveTx`, `PurgeActiveTx`, `PurgeOverflowTx` and `Commit` are those of
  Mempool with limits, fees and priorities left open: every verdict and every
  order is a possible result. `inval` is left out, since nothing but a refusal,
  which is possible anyway, comes from it.
- The databases are used through what BcStore establishes: a lookup by hash
  finds the newest record, and a record that is there can be read.
- Scripts, amounts, difficulty and proof of work are sets of blocks and
  transactions that pass (`SigOk`, `CheckBlockOk`).
- The coins differ in `ChecksInputs` (SHC, TEST), `KeepsAnyOrphan` (USDE, TEST),
  `LoadsUpward` (the loader of USDE and EMC2) and `coinbase_maturity`, which are
  constants. `chain_fork` and `chain_return` are set as SHC, the others as USDE.

### Mempool - the queues of the pool

State: the five queues of `CPool`, and `rec` and `coin`, what it reads from and
writes to the files. Actions: `AddTx`, `UnacceptWalletTransaction` and
`ConnectBlock`, which ends with `CPool::Commit`. Expiry and promotion
(`PurgeActiveTx`, `PurgePendingTx`, `PurgeOverflowTx`) are called inside these
and are part of them. A block may hold whatever `core_ConnectCoinInputs` and the
weight test of `CheckBlock` let pass: transactions whose inputs are only in the
pool, and ones that the chain has already. The chain only grows here. What fees, standards and lock
times say of a transaction, and which entries are too old, are parameters of
the step. `PurgeActiveTx` hands over a reference to a map entry that the callee
erases; what is read through it afterwards is either the old entry or lost. A
corrupted entry is not represented.

### ChainService - the four scans

State: the flags of `iface->flags`, the best height, what peers claim, and how
far the validation and the wallet scan have come. `toValidate` and `toScan`
record which heights a request asked for and no pass has visited; they
influence nothing. An accepted block may take the best height anywhere: up by
one, not at all, or to the height of another branch, which may be lower. A
request about a height that is gone then has nothing left to do there. One action, `ServiceEventState`, is a pass; the others are
the requests of peers, blocks and commands. `nValidateHeight` is not
initialised by the program, so Init takes any outcome. `wallet.rescan` is not
an action: the list it fills stays empty (`server/rpc/rpc_command.cpp:2137`)
and it requests nothing.

### MC modules

MCBcStore, MCChain and MCMempool define the values of the constants. The
statements about code lie in the modules they extend.

## 3. What TLC checks

Passing runs:

| Run | Shows |
|---|---|
| `bc_lookup` | With three hashes in two slots and three positions: the slot of a record never hides it (`TableSound`), and a lookup returns the newest record with the hash (`FindExact`), through any order of lookups, writes, failed writes, clears and purges. |
| `bc_data` | With payloads of two sizes in shared journals: every record passes its checksum test (`Readable`), and the bytes of an archived block never change (`ArchiveStable`). |
| `chain_fork` | A fork of four against three blocks, in any order of arrival, with orphans, a block ahead of the clock, restarts, a pool transaction of both branches and any order of addresses: the best chain is the heaviest, files, links and archive follow it, no orphan is stranded, a commit leaves none of the connected transactions in the queues that blocks are made from (`CommitClearsPool`), a restart finds the same best chain, and the node ends on a heaviest chain (`Converges`). |
| `chain_spend` | The same for the coin and transaction files and the pool when blocks spend outputs of their own branch, and with the upward loader: across reorganisations the files hold exactly the spends and transactions of the best chain. |
| `chain_twice` | With purges, failed reorganisations and a block that spends an output again: no output is spent twice on the best chain and every input was made before. |
| `mempool` | A transaction is in one queue, active transactions agree with each other and with the coin file, and fit into one block, also when blocks spend outputs of the pool or repeat a transaction. |
| `service` | One scan runs at a time, a finished validation visited all that was asked for, and without new requests every scan ends. |

Every property of these runs has a mutant in `PROJECT.json`: a plausible bug in
one definition (marked "Mutant" in the modules) under which TLC finds the
property violated.

Runs that show a disagreement between the code and what the repository says of
it:

| Run | What happens |
|---|---|
| `chain_order` | After a failed reorganisation `pnext` is not on the longest branch. The blocks of a branch are connected in the order of their addresses, and one may be tried before its parent. |
| `chain_return` | After a reorganisation to a heavier but shorter chain and back, the transactions of a block whose record had stayed in place are not found: `WriteBlock` writes the references only together with the record. |
| `chain_respend` | A pool transaction that lost against a block is removed after the block was connected, and the removal clears the spent mark the block had set; the next block may spend the output again. |
| `mempool_confirmed` | A confirmed transaction whose stale entry is left behind becomes active again. The last step needs the old entry behind the erased reference to be intact (`server/txmempool.cpp:693-694`, erased at `:569`), one of the two outcomes of the model. |
| `service_rescan` | The scan of the whole chain after the import of a key is dropped if the last scan ended at the best height. |

### Bounds, and why they are enough

- BcStore: two or three positions, at most four cells per journal and two
  archive records. The smallest instance in which a slot is shared, a hole lies
  below a record, and a journal is shared by records of different sizes. The
  lookup properties are proved without bounds.
- Chain: eight blocks, two branches from the genesis block. The node moves from
  A to B at B3 and back at A4, so each block of both branches is connected,
  disconnected and connected again. `MaxHeight` is the height of the tree;
  `MaxRefs` bounds the records that purges leave behind (it only disables
  further purges). Three orders of addresses in `chain_fork` and `chain_order`:
  rising, falling, mixed; rising only in the others, so that no commit fails for
  that reason.
- Mempool: five transactions beside the one on the chain: a conflict, a second
  conflict that makes a chain of them, a dependency and one that fills a block.
  All queue limits are below the number of transactions: 2 for the others, and
  for `inval` 1 in `mempool` and 2 in `mempool_confirmed`.
- ChainService: heights 0 to 4, passes of three blocks and one unreadable
  block, so that a pass ends in the middle of the chain. The orphans that follow
  a block extend the chain by one at most.

A note for changes to the modules: quantify two subsets of the same set
separately (`\E a \in SUBSET S : \E b \in SUBSET S : ...`). TLC 2.19 finds no
values for `\E a, b \in SUBSET S` when S is empty.

Deadlock is checked except for Mempool, where a pool that has confirmed or
refused every transaction of the instance really is finished.

### What the passing instances leave out

TLC refutes some properties on larger inputs, and the passing runs do not claim
them there. These are consequences of the code, not of the models:

- A reorganisation that fails half way leaves records of both branches:
  `StoreFollowsBest` fails (`server/block.cpp:3344`). `chain_fork` has no block
  with invalid inputs. For the same reason `IndexedObtainable` fails when an
  invalid block extends the best chain. `BestIsHeaviest`, `NoStrandedOrphan` and
  `Converges` too are claims about nodes on which every commit succeeds.
- `core_Truncate` does not disconnect the blocks it purges and does not lower
  `bnBestChainWork`: `SpendsFollowBest` fails, and the next blocks on top of the
  purged chain do not become the best chain (`server/coin.cpp:801, 821`).
- With `ChecksInputs`, a side-branch block whose inputs are only on that branch
  is dropped (`server/shc/shc_block.cpp:821`), and `Converges` fails. It also
  fails after a restart with a record left above a shorter best chain
  (`server/shc/shc_txidx.cpp:101`).
- `SpendsFollowBest` fails with conflicting pool transactions (see
  `chain_respend`); the pool transactions of `chain_fork` and `chain_spend` share
  no input with another.
- A transaction of the chain may be in the pool after all: as a stale entry, or
  active again when the chain moves twice in one step. `CommitClearsPool`
  therefore speaks of a step that moves the chain once, and of the queues without
  `stale`.
- That a block may spend an output which is only in the pool
  (`server/coin.cpp:401`) is modelled, but no property tells such a spend apart.
- Pending pool transactions are not looked at again when their inputs arrive
  (`server/txmempool.cpp:486`).
- `ComesToRest` assumes a readable last block; without it the validation never
  ends (`server/chain.cpp:201`).
- The note at `blockchain/bc_index.c:344` says that clearing the last record
  reduces the index count; the code does not reduce it.

### Fairness

- Chain, `FairSpec`: no block stays deliverable for ever without being
  delivered. Nodes announce their blocks to each new connection and answer
  requests for them again and again. The formula says `[]<>~Deliverable(b)`:
  this is weak fairness of the delivery, written so that TLC need not enumerate
  its steps. `Converges` is about nodes that eventually stop restarting.
- ChainService, `FairSpec`: weak fairness of a pass in which a minute has gone by
  and a peer is ready. The event loop calls `event_cycle_chain` in every cycle.
  `ComesToRest` states its own assumptions: requests end, there are peers, and
  the blocks they claim have arrived.

## 4. What is proved

`BcStoreProofs` proves, for all sets of hashes, slots and payloads, all
checksums, journal sizes and bounds, from `BcAssumption` alone:

- `TypeCorrect`: `Spec => []TypeOK`.
- `TableAlwaysSound`: `Spec => []TableSound`.
- `LookupExact`: `Spec => []FindExact`.

The argument: `FindExact` is not inductive, because it speaks of what a lookup
would return now and not of why. `TypeOK /\ TableSound` is: a slot is marked
"search", or it is an upper bound of the positions of its records, and an empty
mark means that there are none. Clearing a record only removes obligations
(`SoundWhenFewer`); writing resets the slot of the new hash; the delicate step
is a lookup, which raises or empties the slot. `FindKeepsSound` shows that the
scan has then passed every record of the slot. `SoundMeansExact` derives
`FindExact`: below a sound hint the downward scan misses no record. The helper
`Highest` is characterised by `HighestIsGreatest`, from the least-number
principle.

Only model-checked: `Readable`, `ArchiveStable` and everything about Chain,
Mempool and ChainService. Liveness (`Converges`, `ComesToRest`) is beyond the
installed provers, as is induction over recursive definitions such as `Branch`.

## 5. The plan

In this order, the most important behaviour first:

1. **Crashes inside an operation**: BcStore with single writes, a stop between
   any two, and what the checksum then catches; shown to implement BcStore
   where nothing stops. An abstract store (a map from positions to records)
   that BcStore implements.
2. **File maps** (`bc_fmap.c`): growth, truncation, idle unmapping, 32-bit
   sizes. Block file import and export on top of it.
3. **Proofs**: `Readable` (records occupy disjoint ranges of a journal),
   `ActiveCompatible` and `OneQueue` of Mempool, `OneScan` and `Validated` of
   ChainService.
4. **Stratum and the mining interface**: worker list and balances, payouts that
   fail, work blocks against pruning.
5. **Network**: event table of peer verification, descriptor reuse, message
   framing, shutdown of a socket.
6. **Address manager**, with the consistency its own code asserts, and
   **version bits**, checked against a definition without the cache.
7. **Wallet key pool**: reserve, keep and return across restarts.
8. **Extended transactions**: tables that must follow disconnected blocks.

Points to look at there, beside the hazards of `PROJECT.json`: the growth of a
map in 32 bits (`blockchain/bc_fmap.c:181`); a write at a used position that
keeps the old hash (`bc_block.c:217`); an export pass that returns without
moving its position (`server/chain.cpp:366`); the timeout of a verification that
another connection renews (`unet/unet_event.c:146`) and a round that begins
again with the event that used up its time (`:270`); balances lowered before a
payout that may fail (`stratum/stratum_task.c:302`); a repeated nonce recognised
by the last nonce tried (`block_iface.cpp:415`); a key used before it leaves the
pool file (`server/wallet.cpp:1687`).

## 6. Running

    tlc -workers 2 -config BcStoreLookup.cfg MCBcStore
    tlc -workers 2 -config BcStoreData.cfg MCBcStore
    tlc -workers 2 -config ChainFork.cfg MCChain        # also ChainSpend, ChainTwice,
                                                        # ChainOrder, ChainReturn, ChainRespend
    tlc -workers 2 -config Mempool.cfg MCMempool        # also MempoolConfirmed
    tlc -workers 2 -config ChainService.cfg ChainService # also ChainServiceRescan
    tlapm BcStoreProofs.tla

The longest runs, `service`, `chain_fork` and `mempool`, take two to three
minutes with two workers.
