------------------------------- MODULE Chain -------------------------------
(***************************************************************************)
(* The block chain of one coin: the in-memory block index, the choice of   *)
(* the best chain, and the three record databases (blocks by height,       *)
(* transactions by hash, spent coins by hash) that follow it.  Handlers    *)
(* run to completion on the daemon's one event loop, so a handler is one   *)
(* step; it is written as a function from a node state s (a record of all  *)
(* variables) to the next one, because the code goes through intermediate  *)
(* states of the databases and leaves them behind when a step of it fails. *)
(*                                                                         *)
(* The databases are used through what BcStore establishes: a lookup by    *)
(* hash finds the newest filled record, and a record that is there can be  *)
(* read.  Scripts, amounts and proof of work are the sets CheckBlockOk and *)
(* SigOk.  The wallet is left out: it follows the steps, and the only      *)
(* coins it writes (chain_UpdateWalletCoins) are spends of the best chain, *)
(* which UpdateBlockCoins writes as well.                                  *)
(***************************************************************************)
EXTENDS Integers, Sequences, FiniteSets, SequencesExt

CONSTANTS
    None,               \* the null hash / NULL pointer
    Block, Genesis,
    hashPrevBlock,      \* Block -> Block, None for Genesis
    GetBlockWork,       \* Block -> Nat
    Tx,
    vtx,                \* Block -> sequence of Tx
    vin,                \* Tx -> set of outputs <<tx, n>>; empty for a coinbase
    vout,               \* Tx -> number of outputs
    CheckBlockOk,       \* blocks that pass CheckBlock, difficulty and checkpoint tests
    SigOk,              \* transactions with valid scripts and amounts
    Ahead,              \* blocks whose time may be ahead of this node's clock
    coinbase_maturity,
    PoolTx,             \* transactions that peers and the wallet offer to the pool
    ChecksInputs,       \* ProcessBlock calls CheckTransactionInputs (SHC, TEST)
    KeepsAnyOrphan,     \* orphans without an origin peer are kept (USDE, TEST)
    LoadsUpward,        \* FillBlockIndex goes up from the genesis block (USDE, EMC2)
    Addresses,          \* the possible orders of the CBlockIndex objects in memory
    MaxHeight,          \* bound: heights of the block database
    MaxRefs             \* bound: core_Truncate leaves records of a transaction behind

VARIABLES
    ix,         \* mapBlockIndex: indexed block -> its CBlockIndex
    best,       \* iface->block_besthash
    bestWork,   \* bnBestChainWork
    orphans,    \* mapOrphanBlocksByPrev, in insertion order
    pool,       \* CPool: the queues of transactions
    addr,       \* Block -> Nat, where the allocator puts its CBlockIndex
    db          \* the files

vars == <<ix, best, bestWork, orphans, pool, addr, db>>

Out == {<<t, n>> \in Tx \X (1 .. 2) : n <= vout[t]}

ASSUME ChainAssumption ==
    /\ Genesis \in Block /\ None \notin Block \cup Tx
    /\ hashPrevBlock \in [Block -> Block \cup {None}]
    /\ \A b \in Block : hashPrevBlock[b] = None <=> b = Genesis
    /\ GetBlockWork \in [Block -> Nat \ {0}]
    /\ vtx \in [Block -> Seq(Tx)] /\ vout \in [Tx -> 1 .. 2] /\ vin \in [Tx -> SUBSET Out]
    /\ \A a \in Addresses : a \in [Block -> Nat] /\ IsInjective(a)

IsCoinBase(t) == vin[t] = {}

Heights == 0 .. MaxHeight

\* CBlockIndex.  A blank one (InsertBlockIndex of a hash that was not read) has
\* height 0, no parent and no difficulty.
Index == [nHeight : Heights, bnChainWork : Nat, pprev : Block \cup {None},
          pnext : Block \cup {None}]

Files == [blk : [Heights -> Block \cup {None}],     \* "<coin>_block" by height
          arch : SUBSET Block,                      \* its archive
          tx : [Tx -> Seq(Heights)],                \* "<coin>_tx", newest record last
          coin : [Out -> Tx \cup {None}],           \* "<coin>_coin": the spender
          saved : Block \cup {None}]                \* preference "shcoind.<coin>.chain"

Queues == [active : SUBSET Tx, pending : SUBSET Tx, overflow : SUBSET Tx, stale : SUBSET Tx]

NoTx == [active |-> {}, pending |-> {}, overflow |-> {}, stale |-> {}]

TypeOK ==
    /\ DOMAIN ix \subseteq Block /\ \A b \in DOMAIN ix : ix[b] \in Index
    /\ best \in DOMAIN ix /\ bestWork \in Nat
    /\ orphans \in Seq(Block) /\ pool \in Queues /\ addr \in Addresses
    /\ db \in Files

(***************************************************************************)
(* Reading the databases.                                                  *)
(***************************************************************************)
\* GetBlockByHash, then GetArchBlockByHash.
Stored(s, b) == b \in DOMAIN s.ix /\ \E h \in Heights : s.db.blk[h] = b
Obtainable(s, b) == Stored(s, b) \/ b \in s.db.arch

VerifyTxHash(s, t) == s.db.tx[t] # << >>

\* The block ReadTx takes a transaction from.
TxBlock(s, t) == s.db.blk[Last(s.db.tx[t])]

ReadTx(s, t) ==
    /\ VerifyTxHash(s, t)
    /\ TxBlock(s, t) # None
    /\ t \in Range(vtx[TxBlock(s, t)])

\* The transactions that new blocks are made of or that may join them.
Queued(s) == s.pool.active \cup s.pool.pending \cup s.pool.overflow

HaveTx(s, t) == t \in Queued(s) \cup s.pool.stale

\* A transaction with an input made in the same block is not looked at further.
CheckTransactionInputs(s, b) ==
    \A t \in Range(vtx[b]) :
        \/ \E o \in vin[t] : o[1] \in Range(vtx[b]) \ {t}
        \/ \A o \in vin[t] : VerifyTxHash(s, o[1])

(***************************************************************************)
(* Writing the databases.                                                  *)
(***************************************************************************)
\* Mutant: the height of the next block is recorded.
WriteTx_NextHeight(tx, t, h) == [tx EXCEPT ![t] = Append(@, h + 1)]

WriteTx(tx, t, h) ==
    IF tx[t] # << >> /\ Last(tx[t]) = h THEN tx ELSE [tx EXCEPT ![t] = Append(@, h)]

\* Mutant: a record of another block at the height is left in place.
WriteBlock_KeepsRecord(d, b, h) ==
    IF d.blk[h] # None THEN d
    ELSE [d EXCEPT !.blk[h] = b,
                   !.tx = FoldLeft(LAMBDA tx, t : WriteTx(tx, t, h), @, vtx[b])]

\* The record of another block at the height is cleared, which archives it.  The
\* transaction references are not written when the block is already there.
WriteBlock(d, b, h) ==
    IF d.blk[h] = b THEN d
    ELSE [d EXCEPT !.arch = IF d.blk[h] = None THEN @ ELSE @ \cup {d.blk[h]},
                   !.blk[h] = b,
                   !.tx = FoldLeft(LAMBDA tx, t : WriteTx(tx, t, h), @, vtx[b])]

WriteArchBlock(d, b) == [d EXCEPT !.arch = @ \cup {b}]

\* Mutant: the record stays.
EraseTx_Keeps(tx, t) == tx

EraseTx(tx, t) == IF tx[t] = << >> THEN tx ELSE [tx EXCEPT ![t] = Front(@)]

EraseCoins(coin, t) == [o \in Out |-> IF o[1] = t THEN None ELSE coin[o]]

(***************************************************************************)
(* core_ConnectBlock.                                                      *)
(***************************************************************************)
\* Mutant: a spent output may be spent again.
InputOk_NoSpentTest(s, b, q, t, o) ==
    ReadTx(s, o[1]) \/ HaveTx(s, o[1]) \/ o[1] \in Range(vtx[b])

\* One input of t in block b; q holds the spends queued by this block.
InputOk(s, b, q, t, o) ==
    /\ ReadTx(s, o[1]) \/ HaveTx(s, o[1]) \/ o[1] \in Range(vtx[b])
    /\ IsCoinBase(o[1]) =>
           /\ ReadTx(s, o[1])
           /\ TxBlock(s, o[1]) \in DOMAIN s.ix
           /\ s.ix[b].nHeight - s.ix[TxBlock(s, o[1])].nHeight >= coinbase_maturity
    /\ q[o] \in {None, t}

core_ConnectCoinInputs(s, b, acc, t) ==
    [ok |-> acc.ok /\ (IsCoinBase(t) \/ (t \in SigOk /\ \A o \in vin[t] : InputOk(s, b, acc.q, t, o))),
     q |-> [o \in Out |-> IF o \in vin[t] THEN t ELSE acc.q[o]]]

\* Every input is tested before a spend is written; the block record follows.
core_ConnectBlock(s, b) ==
    LET r == FoldLeft(LAMBDA acc, t : core_ConnectCoinInputs(s, b, acc, t),
                      [ok |-> TRUE, q |-> s.db.coin], vtx[b])
    IN  IF r.ok THEN [ok |-> TRUE,
                      s |-> [s EXCEPT !.db = WriteBlock([@ EXCEPT !.coin = r.q], b, s.ix[b].nHeight)]]
        ELSE [ok |-> FALSE, s |-> s]

(***************************************************************************)
(* core_DisconnectBlock: the transactions in reverse order.                *)
(***************************************************************************)
\* Mutant: the outputs a disconnected transaction spent stay spent.
core_DisconnectInputs_KeepsSpends(s, t) ==
    [s EXCEPT !.db.coin = EraseCoins(@, t), !.db.tx = EraseTx(@, t)]

core_DisconnectInputs(s, t) ==
    LET freed == {o \in vin[t] : ReadTx(s, o[1])} IN
    [s EXCEPT !.db.coin = EraseCoins([o \in Out |-> IF o \in freed THEN None ELSE @[o]], t),
              !.db.tx = EraseTx(@, t)]

core_DisconnectBlock(s, b) == FoldRight(LAMBDA t, x : core_DisconnectInputs(x, t), vtx[b], s)

(***************************************************************************)
(* The memory pool.  Fees, limits, standards, lock times, weights and ages *)
(* decide what becomes of a transaction (Mempool has most of them), so an  *)
(* operator gives the set of states that may result.  The queue of invalid *)
(* transactions only makes AddTx refuse, which it may do here anyway.      *)
(***************************************************************************)
\* CPool::RemoveTx: revert() disconnects an active transaction from the files.
RemoveTx(s, t) ==
    LET d == IF t \in s.pool.active THEN core_DisconnectInputs(s, t) ELSE s
    IN  [d EXCEPT !.pool = [@ EXCEPT !.active = @ \ {t}, !.pending = @ \ {t}, !.overflow = @ \ {t}]]

\* The transactions of T in the pool that have an input in used are removed.
RemoveWithInput(s, T, used) ==
    FoldLeft(RemoveTx, s, SetToSeq({t \in T : vin[t] \cap used # {}}))

\* A new, overflow or stale transaction takes the place of the active ones that share an
\* input with it, and is then refused if an input is spent.
AddActiveTx(s, t) ==
    LET e == [s EXCEPT !.pool = [@ EXCEPT !.overflow = @ \ {t}, !.stale = @ \ {t}]]
        r == RemoveWithInput(e, e.pool.active, vin[t])
    IN  IF \E o \in vin[t] : r.db.coin[o] # None THEN r ELSE [r EXCEPT !.pool.active = @ \cup {t}]

\* With no active entry a random stale one comes back, or is lost with the reference to it;
\* otherwise one active entry, if it has expired, becomes stale.
PurgeActiveTx(s) ==
    IF s.pool.active # {}
    THEN {s} \cup {[RemoveTx(s, x) EXCEPT !.pool.stale = @ \cup {x}] : x \in s.pool.active}
    ELSE IF s.pool.stale = {} THEN {s}
    ELSE UNION {{AddActiveTx(s, x), [s EXCEPT !.pool.stale = @ \ {x}]} : x \in s.pool.stale}

\* Some entries expire, and some of the others become active, in the order of priority.
PurgeOverflowTx(s) ==
    UNION {{FoldLeft(AddActiveTx, [s EXCEPT !.pool.overflow = @ \ exp], q) :
                q \in UNION {SetToSeqs(T) : T \in SUBSET (s.pool.overflow \ exp)}} :
           exp \in SUBSET s.pool.overflow}

\* CPool::AddTx: a transaction is refused, waits for an input that is not known (and some
\* that have waited expire), goes to overflow, or, after PurgeActiveTx, becomes active
\* unless there is no room (overflow) or it may not replace what it is in conflict with.
AddTx(s, t) ==
    IF t \notin PoolTx \/ IsCoinBase(t) \/ HaveTx(s, t) \/ VerifyTxHash(s, t) THEN {s}
    ELSE {s} \cup
         IF \E o \in vin[t] : ~HaveTx(s, o[1]) /\ ~ReadTx(s, o[1])
         THEN {[s EXCEPT !.pool.pending = (@ \ exp) \cup {t}] : exp \in SUBSET s.pool.pending}
         ELSE {[s EXCEPT !.pool.overflow = @ \cup {t}]}
              \cup UNION {{p, [p EXCEPT !.pool.overflow = @ \cup {t}], AddActiveTx(p, t)} :
                          p \in PurgeActiveTx(s)}

\* Mutant: the pool is not told of the connected block.
Commit_Nothing(s, b) == {s}

\* CPool::Commit: PopTx takes the transactions of the block out of the pool, and
\* cpool_RemoveTxWithInput those that share an input with them.  Neither looks at stale.
Commit(s, b) ==
    LET T == Range(vtx[b])
        p == [s EXCEPT !.pool = [@ EXCEPT !.active = @ \ T, !.pending = @ \ T, !.overflow = @ \ T]]
    IN  PurgeOverflowTx(RemoveWithInput(p, Queued(p), UNION {vin[t] : t \in T}))

\* Blocks in the order of map<CBlockIndex *, CBlock *>.
ByAddress(s, B) == SetToSortSeq(B, LAMBDA a, b : s.addr[a] < s.addr[b])

\* The pool is offered the transactions of the disconnected blocks, then told of the
\* connected ones.
PoolAfter(s, gone, came) ==
    LET left == FlattenSeq([i \in 1 .. Cardinality(gone) |-> vtx[ByAddress(s, gone)[i]]])
        back == FoldLeft(LAMBDA S, t : UNION {AddTx(x, t) : x \in S}, {s}, left)
    IN  FoldLeft(LAMBDA S, b : UNION {Commit(x, b) : x \in S}, back, ByAddress(s, came))

(***************************************************************************)
(* core_CommitBlock: the best chain moves to the new block b.  It and what *)
(* calls it give the set of results, one for each outcome of the pool.     *)
(***************************************************************************)
\* A block and its ancestors by pprev, newest first.
Branch(x, b) ==
    LET up[c \in DOMAIN x \cup {None}] == IF c = None THEN << >> ELSE <<c>> \o up[x[c].pprev]
    IN  up[b]

\* Mutant: the branch that is left keeps its links.
Relink_KeepsOld(x, came, gone, c) ==
    IF \E k \in came : x[k].pprev = c THEN CHOOSE k \in came : x[k].pprev = c ELSE x[c].pnext

\* pnext of c after the links of the old branch are cut and those of the new one made.
Relink(x, came, gone, c) ==
    IF \E k \in came : x[k].pprev = c
    THEN CHOOSE k \in came : x[k].pprev = c
    ELSE IF \E k \in gone : x[k].pprev = c THEN None ELSE x[c].pnext

core_CommitBlock(s, b) ==
    LET new == Range(Branch(s.ix, b))
        old == Range(Branch(s.ix, s.best))
        gone == old \ new
        came == new \ old
        s1 == IF hashPrevBlock[b] = s.best THEN s ELSE [s EXCEPT !.db = WriteArchBlock(@, b)]
        s2 == FoldLeft(core_DisconnectBlock, s1, ByAddress(s, gone))
        r == FoldLeft(LAMBDA acc, c : IF acc.ok THEN core_ConnectBlock(acc.s, c) ELSE acc,
                      [ok |-> TRUE, s |-> s2], ByAddress(s, came))
        s3 == [r.s EXCEPT !.db.saved = b,
                          !.ix = [c \in DOMAIN @ |-> [@[c] EXCEPT !.pnext = Relink(s.ix, came, gone, c)]]]
    IN  IF old \cap new = {} THEN {[ok |-> FALSE, s |-> s]}
        ELSE IF \E c \in (gone \cup came) \ {b} : ~Obtainable(s1, c) THEN {[ok |-> FALSE, s |-> s1]}
        ELSE IF ~r.ok THEN {r}
        ELSE {[ok |-> TRUE, s |-> p] : p \in PoolAfter(s3, gone, came)}

\* Mutant: bnBestChainWork keeps the work of the old chain.
SetBestChain_KeepsWork(s, b) ==
    {IF r.ok THEN [r EXCEPT !.s.best = b] ELSE r : r \in core_CommitBlock(s, b)}

SetBestChain(s, b) ==
    {IF r.ok THEN [r EXCEPT !.s.best = b, !.s.bestWork = s.ix[b].bnChainWork] ELSE r :
        r \in core_CommitBlock(s, b)}

(***************************************************************************)
(* AcceptBlock and AddToBlockIndex.  The index entry is not taken back     *)
(* when SetBestChain fails.                                                *)
(***************************************************************************)
NewIndex(x, b) ==
    LET p == x[hashPrevBlock[b]] IN
    [nHeight |-> p.nHeight + 1, bnChainWork |-> p.bnChainWork + GetBlockWork[b],
     pprev |-> hashPrevBlock[b], pnext |-> None]

\* Mutant: a block off the best chain is not archived.
AddToBlockIndex_NoArchive(s, b) ==
    LET e == NewIndex(s.ix, b)
        s1 == [s EXCEPT !.ix = [c \in DOMAIN @ \cup {b} |-> IF c = b THEN e ELSE @[c]]]
    IN  IF e.bnChainWork > s.bestWork THEN SetBestChain(s1, b)
        ELSE {[ok |-> TRUE, s |-> s1]}

AddToBlockIndex(s, b) ==
    LET e == NewIndex(s.ix, b)
        s1 == [s EXCEPT !.ix = [c \in DOMAIN @ \cup {b} |-> IF c = b THEN e ELSE @[c]]]
    IN  IF e.bnChainWork > s.bestWork THEN SetBestChain(s1, b)
        ELSE {[ok |-> TRUE, s |-> [s1 EXCEPT !.db = WriteArchBlock(@, b)]]}

\* early: the blocks whose time is still ahead of the clock.  The difficulty test
\* wants the least difficulty after a blank index entry.
AcceptBlock(s, b, early) ==
    IF /\ hashPrevBlock[b] \in DOMAIN s.ix
       /\ b \notin early /\ b \notin DOMAIN s.ix
       /\ s.ix[hashPrevBlock[b]].bnChainWork = 0 => GetBlockWork[b] = 1
    THEN AddToBlockIndex(s, b)
    ELSE {[ok |-> FALSE, s |-> s]}

(***************************************************************************)
(* The work queue of ProcessBlock: orphans of an accepted block are        *)
(* accepted in turn, and are forgotten whether that succeeds or not.       *)
(***************************************************************************)
AcceptOrphans(acc, early) ==
    IF acc.queue = << >> THEN {acc}
    ELSE LET kids == SelectSeq(acc.s.orphans, LAMBDA o : hashPrevBlock[o] = Head(acc.queue))
             rest == SelectSeq(acc.s.orphans, LAMBDA o : hashPrevBlock[o] # Head(acc.queue))
             accept(a, o) == {[s |-> x.s, queue |-> IF x.ok THEN Append(a.queue, o) ELSE a.queue] :
                                  x \in AcceptBlock(a.s, o, early)}
         IN  {[a EXCEPT !.s.orphans = rest] :
                 a \in FoldLeft(LAMBDA A, o : UNION {accept(a, o) : a \in A},
                                {[s |-> acc.s, queue |-> Tail(acc.queue)]}, kids)}

\* Mutant: only the direct orphans of the block are looked at.
DrainOrphans_OneLevel(s, b, early) ==
    {a.s : a \in AcceptOrphans([s |-> s, queue |-> <<b>>], early)}

DrainOrphans(s, b, early) ==
    {a.s : a \in FoldLeft(LAMBDA A, i : UNION {AcceptOrphans(a, early) : a \in A},
                          {[s |-> s, queue |-> <<b>>]}, [i \in 1 .. Cardinality(Block) |-> i])}

(***************************************************************************)
(* The actions.                                                            *)
(***************************************************************************)
Node == [ix |-> ix, best |-> best, bestWork |-> bestWork, orphans |-> orphans,
         pool |-> pool, addr |-> addr, db |-> db]

Become(s) ==
    /\ ix' = s.ix /\ best' = s.best /\ bestWork' = s.bestWork
    /\ orphans' = s.orphans /\ pool' = s.pool /\ addr' = s.addr /\ db' = s.db

\* The databases hold the genesis block (shc_CreateGenesisBlock on an empty
\* directory: its second SetBestChain also archives it).
Init ==
    /\ ix = [b \in {Genesis} |-> [nHeight |-> 0, bnChainWork |-> GetBlockWork[Genesis],
                                  pprev |-> None, pnext |-> None]]
    /\ best = Genesis /\ bestWork = GetBlockWork[Genesis]
    /\ orphans = << >> /\ pool = NoTx /\ addr \in Addresses
    /\ db = [blk |-> [h \in Heights |-> IF h = 0 THEN Genesis ELSE None],
             arch |-> {Genesis},
             tx |-> [t \in Tx |-> IF t \in Range(vtx[Genesis]) THEN <<0>> ELSE << >>],
             coin |-> [o \in Out |-> None],
             saved |-> Genesis]

\* ProcessBlock of a block that is neither indexed nor an orphan: it is rejected by
\* CheckBlock, kept as an orphan, dropped because of an unknown input transaction,
\* or accepted together with the orphans that waited for it.
ProcessBlock(b, pfrom, early) ==
    /\ b \in CheckBlockOk \ DOMAIN ix
    /\ b \notin Range(orphans)
    /\ IF hashPrevBlock[b] \notin DOMAIN ix
       THEN /\ pfrom \/ KeepsAnyOrphan
            /\ Become([Node EXCEPT !.orphans = Append(@, b)])
       ELSE /\ ChecksInputs => CheckTransactionInputs(Node, b)
            /\ \E r \in AcceptBlock(Node, b, early) :
                   \E s \in IF r.ok THEN DrainOrphans(r.s, b, early) ELSE {r.s} : Become(s)

\* A peer or the wallet hands a transaction to the pool (CPool::AddTx).
AcceptTx(t) ==
    /\ ~HaveTx(Node, t) /\ ~VerifyTxHash(Node, t)
    /\ \E s \in AddTx(Node, t) : Become(s)

\* core_Truncate to the block at a height.  The loop that should disconnect the blocks
\* above leaves at its first block (its test compares the hash with itself), the loop
\* that clears the records runs; bnBestChainWork keeps its value.
core_Truncate(h) ==
    /\ \A t \in Tx : Len(db.tx[t]) <= MaxRefs
    /\ h <= ix[best].nHeight /\ db.blk[h] # None /\ db.blk[h] \in DOMAIN ix
    /\ LET b == db.blk[h]
           above == {k \in Heights : k > h /\ db.blk[k] # None}
       IN  /\ best' = b
           /\ ix' = [ix EXCEPT ![b].pnext = None]
           /\ db' = [db EXCEPT !.arch = @ \cup {db.blk[k] : k \in above},
                               !.blk = [k \in Heights |-> IF k \in above THEN None ELSE @[k]],
                               !.saved = b]
    /\ UNCHANGED <<bestWork, orphans, pool, addr>>

\* One block of ServiceValidateEvent: UpdateBlockCoins corrects the spenders recorded
\* for the inputs of a block of the best chain, if all of them are found.
UpdateBlockCoins(h) ==
    /\ h <= ix[best].nHeight /\ db.blk[h] # None
    /\ LET T == Range(vtx[db.blk[h]]) IN
       /\ \A t \in T : \A o \in vin[t] : ReadTx(Node, o[1])
       /\ db' = [db EXCEPT !.coin =
                    [o \in Out |-> IF \E t \in T : o \in vin[t]
                                   THEN CHOOSE t \in T : o \in vin[t] ELSE @[o]]]
    /\ UNCHANGED <<ix, best, bestWork, orphans, pool, addr>>

(***************************************************************************)
(* Restart: FillBlockIndex and LoadBlockIndex rebuild the index from the   *)
(* block database; the archive is not indexed.  SHC takes the records from *)
(* the top down and makes a blank entry for a parent that it does not      *)
(* meet; USDE and EMC2 go up and stop at a block whose parent they did not *)
(* meet.                                                                   *)
(***************************************************************************)
\* Mutant: one height too few.
nBestIndex_OneLow == CHOOSE h \in Heights :
    /\ \A k \in 0 .. h : db.blk[k] # None
    /\ h + 1 < MaxHeight => db.blk[h + 2] = None

\* The last height of the unbroken run of records from 0.
nBestIndex == CHOOSE h \in Heights :
    /\ \A k \in 0 .. h : db.blk[k] # None
    /\ h < MaxHeight => db.blk[h + 1] = None

\* The last height that is loaded.
nTopIndex ==
    LET known(h) == h \in 1 .. nBestIndex /\ hashPrevBlock[db.blk[h]] \in {db.blk[k] : k \in 0 .. h - 1}
    IN  IF LoadsUpward THEN CHOOSE h \in 0 .. nBestIndex : (\A k \in 1 .. h : known(k)) /\ ~known(h + 1)
        ELSE nBestIndex

Loaded == {db.blk[h] : h \in 0 .. nTopIndex}

\* The block at height h is linked with the one at height h - 1.
Linked(h) == h \in 1 .. nTopIndex /\ (LoadsUpward \/ hashPrevBlock[db.blk[h]] = db.blk[h - 1])

FillBlockIndex ==
    LET work[h \in 0 .. nTopIndex] ==
            GetBlockWork[db.blk[h]] + (IF Linked(h) THEN work[h - 1] ELSE 0)
        at(b) == CHOOSE h \in 0 .. nTopIndex : db.blk[h] = b
        blank == [nHeight |-> 0, bnChainWork |-> 0, pprev |-> None, pnext |-> None]
    IN  [b \in Loaded \cup ({hashPrevBlock[c] : c \in Loaded} \ {None}) |->
            IF b \notin Loaded THEN blank
            ELSE [nHeight |-> at(b), bnChainWork |-> work[at(b)],
                  pprev |-> IF Linked(at(b)) THEN db.blk[at(b) - 1] ELSE hashPrevBlock[b],
                  pnext |-> IF Linked(at(b) + 1) THEN db.blk[at(b) + 1] ELSE None]]

hasGenesisRoot(x, b) == Last(Branch(x, b)) = Genesis

\* The stored best block if it is indexed and reaches the genesis block, else the highest
\* linked block.
LoadedBest(x) ==
    IF db.saved \in DOMAIN x /\ hasGenesisRoot(x, db.saved) THEN db.saved
    ELSE IF \E h \in Heights : Linked(h)
         THEN db.blk[CHOOSE h \in Heights : Linked(h) /\ \A k \in Heights : Linked(k) => k <= h]
         ELSE IF LoadsUpward THEN Genesis ELSE None

\* Blocks of the loaded chain whose inputs are not all known move the stored best block
\* below the lowest of them; the best block in memory stays.
LoadBlockIndex(a) ==
    LET x == FillBlockIndex
        b == LoadedBest(x)
        bad == {c \in Range(Branch(x, b)) : x[c].pprev # None /\ ~CheckTransactionInputs(Node, c)}
        low == CHOOSE c \in bad : \A d \in bad : x[c].nHeight <= x[d].nHeight
    IN  Become([Node EXCEPT !.ix = [x EXCEPT ![b].pnext = None],
                            !.best = b, !.bestWork = x[b].bnChainWork,
                            !.orphans = << >>, !.pool = NoTx, !.addr = a,
                            !.db.saved = IF bad = {} THEN @ ELSE x[low].pprev])

Restart(a) == LoadedBest(FillBlockIndex) # None /\ LoadBlockIndex(a)

(***************************************************************************)
(* Specifications.  Next is a node without the purge command.              *)
(***************************************************************************)
Next ==
    \/ \E b \in Block, pfrom \in BOOLEAN, early \in SUBSET Ahead : ProcessBlock(b, pfrom, early)
    \/ \E t \in PoolTx : AcceptTx(t)
    \/ \E h \in Heights : UpdateBlockCoins(h)
    \/ \E a \in Addresses : Restart(a)

NextPurge == Next \/ \E h \in Heights : core_Truncate(h)

Spec == Init /\ [][Next]_vars
SpecPurge == Init /\ [][NextPurge]_vars

\* ProcessBlock of the block would do something.
Deliverable(b) ==
    /\ b \in CheckBlockOk \ DOMAIN ix /\ b \notin Range(orphans)
    /\ hashPrevBlock[b] \in DOMAIN ix =>
           /\ ChecksInputs => CheckTransactionInputs(Node, b)
           /\ ix[hashPrevBlock[b]].bnChainWork = 0 => GetBlockWork[b] = 1

\* Peers offer every block again and again (a node announces its blocks to each new
\* connection and answers PushGetBlocks): no block stays deliverable without being
\* delivered.  This is weak fairness of the delivery of each block, which ends with the
\* block indexed or an orphan, in a form that does not enumerate the steps.
FairSpec == Spec /\ \A b \in Block : []<>~Deliverable(b)

(***************************************************************************)
(* Properties.                                                             *)
(***************************************************************************)
BestChain == Range(Branch(ix, best))
BestTx == UNION {Range(vtx[b]) : b \in BestChain}

\* The best chain is the one with the most work: AddToBlockIndex moves to every heavier
\* branch, and no reorganisation that succeeds, restart or orphan leaves a heavier block
\* behind.  (A block that fails to connect stays indexed with more work than the best one:
\* this property, StoreFollowsBest and ForwardLinks are about blocks that connect.)
BestIsHeaviest ==
    /\ bestWork = ix[best].bnChainWork
    /\ \A b \in DOMAIN ix : ix[b].bnChainWork <= bestWork

\* What WriteBlock leaves at each height up to the best block's is the best chain, so that
\* a reader by height (GetBlockByHeight) and a reader by pprev see the same chain.
StoreFollowsBest ==
    /\ \A b \in BestChain : db.blk[ix[b].nHeight] = b
    /\ db.saved = best

\* The coin database records exactly the spends of the best chain: ConnectBlock and
\* DisconnectBlock are inverse to each other across any sequence of reorganisations.
SpendsFollowBest ==
    \A o \in Out : \A t \in Tx :
        db.coin[o] = t <=> t \in BestTx /\ o \in vin[t]

\* GetTransaction finds exactly the transactions of the best chain, in its blocks.
TxFollowBest ==
    \A t \in Tx : IF t \in BestTx THEN ReadTx(Node, t) /\ TxBlock(Node, t) \in BestChain
                  ELSE ~VerifyTxHash(Node, t)

\* No output is spent twice on the best chain, and every input of it is an output of an
\* earlier transaction of the same chain (core_ConnectCoinInputs).
SpendsAreOrdered ==
    \A b \in BestChain : \A i \in DOMAIN vtx[b] : \A o \in vin[vtx[b][i]] :
        /\ \E c \in BestChain : \E j \in DOMAIN vtx[c] :
               /\ vtx[c][j] = o[1]
               /\ ix[c].nHeight < ix[b].nHeight \/ (c = b /\ j < i)
        /\ \A t \in BestTx \ {vtx[b][i]} : o \notin vin[t]

\* "pprev and pnext link a path through the main/longest chain" (CBlockIndex): following
\* pnext from the genesis block visits the best chain and ends at the best block.
ForwardLinks ==
    /\ \A b \in BestChain \ {best} : ix[ix[b].pnext].pprev = b /\ ix[b].pnext \in BestChain
    /\ \A b \in DOMAIN ix : ix[b].pnext # None => b \in BestChain \ {best}

\* Every indexed block can be read back from the block file or the archive, which a later
\* core_CommitBlock onto or away from its branch needs.
IndexedObtainable == \A b \in DOMAIN ix : Obtainable(Node, b)

\* No orphan waits for a block that is indexed: the work queue of ProcessBlock reaches
\* orphans of orphans.  (Where every block connects: the orphans of a block that was
\* indexed but not accepted are not looked at.)
NoStrandedOrphan == \A o \in Range(orphans) : hashPrevBlock[o] \notin DOMAIN ix

\* "remove connectd block tx's from pool" (core_CommitBlock): when the best chain moves, no
\* transaction of the blocks that joined it is left where new blocks take theirs from, and
\* none comes back there in the same step, whatever the disconnected blocks return to the
\* pool, expires, is revived from stale or promoted from overflow on the way.  (A stale one
\* can come back in a later step, and in a step that moves the chain twice, which leaves a
\* block indexed in that step off the best chain.)
CommitClearsPool ==
    [][DOMAIN ix' \ DOMAIN ix \subseteq BestChain' =>
           Queued(Node)' \cap UNION {Range(vtx[b]) : b \in BestChain' \ BestChain} = {}]_vars

\* A restart finds the best block, its work and its links as they were.
RestartKeepsBest ==
    [][(\E a \in Addresses : Restart(a)) =>
           /\ best' = best /\ bestWork' = bestWork
           /\ \A b \in BestChain : b \in DOMAIN ix' /\ ix'[b] = ix[b]]_vars

\* "pnext will only point forward to the longest branch" (CBlockIndex): a block that has a
\* successor is an ancestor of an indexed block of the most work.
PnextOnHeaviest ==
    \A b \in DOMAIN ix : ix[b].pnext # None =>
        \E c \in DOMAIN ix : /\ b \in Range(Branch(ix, c))
                             /\ \A d \in DOMAIN ix : ix[d].bnChainWork <= ix[c].bnChainWork

\* The blocks no other block outweighs.
ChainWork[b \in Block] ==
    GetBlockWork[b] + (IF b = Genesis THEN 0 ELSE ChainWork[hashPrevBlock[b]])
HeaviestTips == {b \in Block : \A c \in Block : ChainWork[c] <= ChainWork[b]}

\* A node that stops restarting ends on a chain of the most work, in whatever order the
\* blocks reached it.
Converges ==
    <>[][\A a \in Addresses : ~Restart(a)]_vars => <>[](best \in HeaviestTips)
=============================================================================
