------------------------------ MODULE Mempool ------------------------------
(***************************************************************************)
(* The transaction memory pool of one coin (CPool): its five queues, the   *)
(* moves between them, and what it reads from and writes to the files of   *)
(* the chain.  The chain only grows here; Chain has the reorganisations.   *)
(*                                                                         *)
(* Fees, scripts, soft limits and lock times decide which of three things  *)
(* AddTx does with a transaction, and are a parameter of the step.  The    *)
(* age of an entry is not kept: which entries have expired is a parameter  *)
(* too.  (fLocal, which exempts an entry of overflow from expiry, is not   *)
(* initialised for a transaction of a peer, so any entry may be exempt.)   *)
(***************************************************************************)
EXTENDS Integers, FiniteSets, FiniteSetsExt, SequencesExt

CONSTANTS
    None,
    Tx,
    Out,            \* the outputs in play, <<transaction, number>>
    vin,            \* Tx -> set of Out
    Genesis,        \* transactions of the chain at the start
    weight,         \* Tx -> Nat, for the size of a transaction as well
    hash,           \* Tx -> Nat, the order of the hashes
    dFeePriority,   \* Tx -> Nat
    Keeps,          \* pairs <<a, t>>: an active a is not replaced by t (a is newer than t,
                    \* or one of them is a channel transaction)
    MaxWeight,      \* GetMaxWeight
    MaxQueueMem,    \* GetMaxQueueMem
    MaxInval        \* entries of inval (1000)

VARIABLES
    active, pending, overflow, stale, inval,
    rec,            \* transactions with a record in the transaction file
    coin            \* Out -> the spender recorded in the coin file, or None

vars == <<active, pending, overflow, stale, inval, rec, coin>>

ASSUME MempoolAssumption ==
    /\ None \notin Tx /\ Out \subseteq Tx \X Nat /\ Genesis \subseteq Tx
    /\ vin \in [Tx -> SUBSET Out] /\ weight \in [Tx -> Nat]
    /\ hash \in [Tx -> Nat] /\ IsInjective(hash)
    /\ dFeePriority \in [Tx -> Nat] /\ IsInjective(dFeePriority)
    /\ Keeps \subseteq Tx \X Tx
    /\ MaxWeight \in Nat /\ MaxQueueMem \in Nat /\ MaxInval \in Nat \ {0}

TypeOK ==
    /\ active \subseteq Tx /\ pending \subseteq Tx /\ overflow \subseteq Tx
    /\ stale \subseteq Tx /\ inval \subseteq Tx /\ rec \subseteq Tx
    /\ coin \in [Out -> Tx \cup {None}]

Pool == [active |-> active, pending |-> pending, overflow |-> overflow, stale |-> stale,
         inval |-> inval, rec |-> rec, coin |-> coin]

Become(s) ==
    /\ active' = s.active /\ pending' = s.pending /\ overflow' = s.overflow
    /\ stale' = s.stale /\ inval' = s.inval /\ rec' = s.rec /\ coin' = s.coin

(***************************************************************************)
(* Helpers.                                                                *)
(***************************************************************************)
HaveTx(s, t) == t \in s.active \cup s.pending \cup s.overflow \cup s.stale

Weight(T) == MapThenSumSet(LAMBDA t : weight[t], T)

WithInput(T, used) == {t \in T : vin[t] \cap used # {}}

\* FillInputs of a new entry.  Its branch for orphans is never taken: GetTx has looked at
\* the pending queue already.
FillInputs(s, t) == \A o \in vin[t] : HaveTx(s, o[1]) \/ o[1] \in s.rec

\* Mutant: the marks of the outputs of t are dropped from the coin file.
revert_Drops(s, t) ==
    [s EXCEPT !.coin = [o \in {p \in Out : p[1] # t} |-> IF o \in vin[t] /\ o[1] \in s.rec THEN None ELSE @[o]],
              !.rec = @ \ {t}]

\* revert: core_DisconnectInputs frees the inputs that come from the chain and erases the
\* coin and transaction records of t.
revert(s, t) ==
    [s EXCEPT !.coin = [o \in Out |-> IF o[1] = t \/ (o \in vin[t] /\ o[1] \in s.rec) THEN None ELSE @[o]],
              !.rec = @ \ {t}]

\* The first queue that has the transaction loses it.
RemoveTx(s, t) ==
    IF t \in s.active THEN [revert(s, t) EXCEPT !.active = @ \ {t}]
    ELSE IF t \in s.pending THEN [s EXCEPT !.pending = @ \ {t}]
    ELSE IF t \in s.overflow THEN [s EXCEPT !.overflow = @ \ {t}]
    ELSE IF t \in s.stale THEN [s EXCEPT !.stale = @ \ {t}]
    ELSE [s EXCEPT !.inval = @ \ {t}]

RemoveAll(s, T) == FoldLeft(RemoveTx, s, SetToSortSeq(T, LAMBDA a, b : hash[a] < hash[b]))

(***************************************************************************)
(* Into the queues.                                                        *)
(***************************************************************************)
\* The least hashes go when there are too many.
AddInvalTx(s, t) ==
    LET I == s.inval \cup {t} IN
    [s EXCEPT !.inval = IF Cardinality(I) <= MaxInval THEN I
                        ELSE I \ {CHOOSE u \in I : \A w \in I : hash[u] <= hash[w]}]

AddOverflowTx(s, t) ==
    IF t \in s.overflow \/ Weight(s.overflow) + weight[t] > MaxQueueMem THEN s
    ELSE [s EXCEPT !.overflow = @ \cup {t}]

AddStaleTx(s, t) ==
    IF t \in s.stale \/ Weight(s.stale) + weight[t] > MaxQueueMem THEN s
    ELSE [s EXCEPT !.stale = @ \cup {t}]

\* Mutant: conflicting active transactions stay.
ResolveConflicts_None(s, t) == [ok |-> TRUE, s |-> s]

ResolveConflicts(s, t) ==
    LET clash == WithInput(s.active, vin[t]) IN
    IF \E a \in clash : <<a, t>> \in Keeps THEN [ok |-> FALSE, s |-> s]
    ELSE [ok |-> TRUE, s |-> RemoveAll(s, clash)]

AreInputsSpent(s, t) == \E o \in vin[t] : s.coin[o] # None

\* Mutant: the weight of the new entry is left out.
HasRoom_OneOver(s, t) == Weight(s.active) <= MaxWeight

HasRoom(s, t) == Weight(s.active) + weight[t] <= MaxWeight

\* Mutant: a stale entry stays where it is.
AddActiveTx_KeepsStale(s, t) ==
    IF t \in s.active THEN s
    ELSE IF ~HasRoom(s, t) THEN AddOverflowTx(s, t)
    ELSE LET r == ResolveConflicts([s EXCEPT !.overflow = @ \ {t}], t) IN
         IF ~r.ok \/ AreInputsSpent(r.s, t) THEN AddInvalTx(r.s, t)
         ELSE [r.s EXCEPT !.active = @ \cup {t}]

\* The inputs of an entry of overflow or stale were found when it was new and are kept
\* with it, so FillInputs does not fail here.
AddActiveTx(s, t) ==
    IF t \in s.active THEN s
    ELSE IF ~HasRoom(s, t) THEN AddOverflowTx(s, t)
    ELSE LET r == ResolveConflicts([s EXCEPT !.overflow = @ \ {t}, !.stale = @ \ {t}], t) IN
         IF ~r.ok \/ AreInputsSpent(r.s, t) THEN AddInvalTx(r.s, t)
         ELSE [r.s EXCEPT !.active = @ \cup {t}]

(***************************************************************************)
(* Expiry.                                                                 *)
(***************************************************************************)
\* With no active entry a random stale one, x, is brought back.  AddActiveTx is given a
\* reference to the entry of stale that it erases: what it goes on with is the old entry
\* while its memory lasts (kept), or the entry is lost.  Otherwise x is the first expired
\* active entry, if any, and becomes stale.
PurgeActiveTx(s, x, kept) ==
    IF x = None THEN s
    ELSE IF s.active = {}
         THEN IF kept THEN AddActiveTx(s, x) ELSE [s EXCEPT !.stale = @ \ {x}]
         ELSE AddStaleTx(RemoveTx(s, x), x)

\* What x may be.
Purgeable(s) ==
    IF s.active # {} THEN s.active \cup {None}
    ELSE IF s.stale # {} THEN s.stale ELSE {None}

PurgePendingTx(s, exp) == [s EXCEPT !.pending = @ \ exp]

\* Final entries become active in the order of dFeePriority.  The running weight does not
\* fall when a new entry replaces an active one.
PurgeOverflowTx(s, exp, final) ==
    LET d == [s EXCEPT !.overflow = @ \ exp]
        vPoolTx == SetToSortSeq(d.overflow \cap final, LAMBDA a, b : dFeePriority[a] < dFeePriority[b])
        step(acc, t) ==
            IF t \notin acc.s.overflow \/ acc.nWeight + weight[t] > MaxWeight THEN acc
            ELSE LET n == AddActiveTx(acc.s, t) IN
                 [s |-> n, nWeight |-> acc.nWeight + (IF t \in n.active THEN weight[t] ELSE 0)]
    IN  FoldLeft(step, [s |-> d, nWeight |-> Weight(d.active)], vPoolTx).s

(***************************************************************************)
(* The actions.                                                            *)
(***************************************************************************)
Init ==
    /\ active = {} /\ pending = {} /\ overflow = {} /\ stale = {} /\ inval = {}
    /\ rec = Genesis /\ coin = [o \in Out |-> None]

\* AddTx of a transaction that is not known and is sound in itself.  verdict: it breaks a
\* standard or the relay fee ("inval"); it breaks a soft limit, pays less than the soft fee
\* or is not final ("overflow"); or neither.
AddTx(t, verdict, x, kept, exp) ==
    /\ t \notin inval /\ ~HaveTx(Pool, t) /\ t \notin rec
    /\ Become(IF weight[t] > MaxWeight THEN AddInvalTx(Pool, t)
              ELSE IF ~FillInputs(Pool, t) THEN [PurgePendingTx(Pool, exp) EXCEPT !.pending = @ \cup {t}]
              ELSE CASE verdict = "inval" -> AddInvalTx(Pool, t)
                     [] verdict = "overflow" -> AddOverflowTx(Pool, t)
                     [] verdict = "active" -> AddActiveTx(PurgeActiveTx(Pool, x, kept), t))

\* core_UnacceptWalletTransaction.  Its loop over the coins never frees one: it skips an
\* input whose coins can be read.
UnacceptWalletTransaction(t) == HaveTx(Pool, t) /\ Become(RemoveTx(Pool, t))

\* Mutant: the entries in conflict with the block stay.
Commit_KeepsConflicts(s, T, exp, final) ==
    LET known == {t \in T : HaveTx(s, t)}
        p == [s EXCEPT !.active = @ \ known, !.pending = @ \ known, !.overflow = @ \ known,
                       !.inval = @ \ known]
    IN  PurgeOverflowTx(p, exp, final)

\* CPool::Commit of a block with transactions T.  PopTx leaves a stale entry in place, and
\* so does cpool_RemoveTxWithInput.
Commit(s, T, exp, final) ==
    LET known == {t \in T : HaveTx(s, t)}
        p == [s EXCEPT !.active = @ \ known, !.pending = @ \ known, !.overflow = @ \ known,
                       !.inval = @ \ known]
        used == UNION {vin[t] : t \in T}
        r == RemoveAll(p, WithInput(p.active \cup p.overflow \cup p.pending, used))
    IN  PurgeOverflowTx(r, exp, final)

\* A block that holds T passes core_ConnectCoinInputs: every input is made by the chain, by a
\* transaction in the pool or by T, and is unspent or spent by the same transaction (a block
\* may repeat one of the chain).  CheckBlock bounds the weight of the block.
Connectable(T) ==
    /\ T # {} /\ Weight(T) <= MaxWeight
    /\ \A t \in T : vin[t] # {} /\ \A o \in vin[t] :
           (o[1] \in rec \cup T \/ HaveTx(Pool, o[1])) /\ coin[o] \in {None, t}
    /\ \A t, u \in T : t # u => vin[t] \cap vin[u] = {}

\* core_ConnectBlock writes the spends and the transaction records, then the pool is told.
ConnectBlock(T, exp, final) ==
    LET c == [o \in Out |-> IF \E t \in T : o \in vin[t] THEN CHOOSE t \in T : o \in vin[t] ELSE coin[o]]
    IN  Become(Commit([Pool EXCEPT !.rec = @ \cup T, !.coin = c], T, exp, final))

Next ==
    \/ \E t \in Tx, verdict \in {"inval", "overflow", "active"}, kept \in BOOLEAN :
           \E x \in Purgeable(Pool), exp \in SUBSET pending : AddTx(t, verdict, x, kept, exp)
    \/ \E t \in Tx : UnacceptWalletTransaction(t)
    \/ \E T \in {B \in SUBSET Tx : Connectable(B)}, exp \in SUBSET overflow :
           \E final \in SUBSET (overflow \ exp) : ConnectBlock(T, exp, final)

Spec == Init /\ [][Next]_vars

(***************************************************************************)
(* Properties.                                                             *)
(***************************************************************************)
\* A transaction is in one queue at most, through every move between them: AddTx, AddActiveTx,
\* PurgeActiveTx and PurgeOverflowTx each take it out of one queue and put it into another.
OneQueue ==
    /\ active \cap (pending \cup overflow \cup stale \cup inval) = {}
    /\ pending \cap (overflow \cup stale \cup inval) = {}
    /\ overflow \cap (stale \cup inval) = {}
    /\ stale \cap inval = {}

\* The active transactions, which new blocks are made of, spend every output once
\* (ResolveConflicts, also when entries come back from overflow and stale).
ActiveCompatible == \A t, u \in active : t # u => vin[t] \cap vin[u] = {}

\* No active transaction spends what the coin file has as spent: not when it became
\* active (AreInputsSpent), and not after a block spent it (cpool_RemoveTxWithInput).
ActiveUnspent == \A t \in active : \A o \in vin[t] : coin[o] = None

\* The active transactions fit into one block, whichever way they became active.
ActiveFits == Weight(active) <= MaxWeight

\* "remove connected block tx's from pool" (Commit): a transaction of the chain is not in
\* the queues that new blocks are made of or filled from.
ConfirmedNotQueued == rec \cap (active \cup overflow \cup pending) = {}

=============================================================================
