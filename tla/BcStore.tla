------------------------------ MODULE BcStore ------------------------------
(***************************************************************************)
(* The block record database of blockchain/bc_*.c.  One database (bc_t) is *)
(* a set of memory mapped files:                                           *)
(*   idx    the index file: one bc_idx_t per record position,              *)
(*   tab    the hash table file: per bucket a hint for bc_idx_find,        *)
(*   arch   the archive file: index records of cleared or side blocks,     *)
(*   jrnl   the data journals: the serialised records themselves.          *)
(* shcoind keeps three databases per coin (blocks by height, transactions  *)
(* by hash, spent coins by hash).  Every operation runs under bc_lock, so  *)
(* an operation is one step here.  Positions count from 0 as in the code:  *)
(* position p is element p + 1 of idx.                                     *)
(***************************************************************************)
EXTENDS Integers, Sequences, FiniteSets

CONSTANTS
    Hash,               \* the record hashes (bc_hash_t)
    NoHash,             \* the all-zero hash of a blank index record
    Bucket,             \* the slots of the hash table (BC_TABLE_SIZE of them)
    bc_table_hash,      \* Hash -> Bucket, the slot of a hash
    Payload,            \* the serialised records: non-empty sequences of Cell
    Cell,               \* the values of a journal cell, 0 among them
    shcrc32(_),         \* libshare's checksum of a payload
    PerJournal,         \* BC_BLOCKS_PER_JOURNAL
    MaxRecs,            \* bound: index positions in use
    MaxCells,           \* bound: cells in one journal
    MaxArch             \* bound: archive records

ASSUME BcAssumption ==
    /\ NoHash \notin Hash
    /\ bc_table_hash \in [Hash -> Bucket]
    /\ Cell \subseteq Nat /\ 0 \in Cell
    /\ \A d \in Payload : d \in Seq(Cell) /\ Len(d) > 0 /\ shcrc32(d) \in Nat
    /\ PerJournal \in Nat \ {0}
    /\ MaxRecs \in Nat /\ MaxCells \in Nat /\ MaxArch \in Nat

VARIABLES idx, tab, arch, jrnl

vars == <<idx, tab, arch, jrnl>>

BC_TABLE_SEARCH_POS == 0        \* "not known, search": also what position 0 reads as
BC_TABLE_NULL_POS   == -1       \* "no record": a reserved value, no position

bc_journal(pos) == (pos \div PerJournal) + 1

Journals == {bc_journal(pos) : pos \in 0 .. MaxRecs}

\* A filled bc_idx_t, and the zeroed one that marks an unused position.
IdxRec == [jrnl : Journals, of : Nat, size : Nat \ {0}, crc : Nat, hash : Hash]

BlankIdx == [jrnl |-> 0, of |-> 0, size |-> 0, crc |-> 0, hash |-> NoHash]

TypeOK ==
    /\ idx \in Seq(IdxRec \cup {BlankIdx}) /\ Len(idx) <= MaxRecs
    /\ tab \in [Bucket -> Nat \cup {BC_TABLE_NULL_POS}]
    /\ arch \in Seq(IdxRec)
    /\ jrnl \in [Journals -> Seq(Cell)]

(***************************************************************************)
(* File maps: what bc_map_write leaves in a data journal, and what is read *)
(* at an offset (a map is zero filled past its used length).               *)
(***************************************************************************)
MapWrite(s, of, d) ==
    [k \in 1 .. (IF of + Len(d) > Len(s) THEN of + Len(d) ELSE Len(s)) |->
        IF k - of \in 1 .. Len(d) THEN d[k - of]
        ELSE IF k <= Len(s) THEN s[k] ELSE 0]

Content(r) ==
    [k \in 1 .. r.size |->
        IF r.of + k <= Len(jrnl[r.jrnl]) THEN jrnl[r.jrnl][r.of + k] ELSE 0]

\* The checksum test of bc_read, bc_arch and bc_purge.
CrcMatches(r) == shcrc32(Content(r)) = r.crc

(***************************************************************************)
(* The index file.                                                         *)
(***************************************************************************)
bc_idx_next == Len(idx)

\* bc_idx_get returns 0.
Filled(pos) == pos < bc_idx_next /\ idx[pos + 1].size # 0

\* bc_map_write of one index record.  A position past the end extends the file, whose
\* new records up to it are zero: core_CommitBlock writes blocks in the order of their
\* addresses, so that a block may be written before the one below it.
PutIdx(pos, r) ==
    [i \in 1 .. (IF pos < Len(idx) THEN Len(idx) ELSE pos + 1) |->
        IF i = pos + 1 THEN r ELSE IF i <= Len(idx) THEN idx[i] ELSE BlankIdx]

\* Mutant: the journal number counts from 0.
FreshIdx_JournalFromZero(pos, h, d) ==
    [jrnl |-> bc_journal(pos) - 1, of |-> 0, size |-> Len(d), crc |-> shcrc32(d), hash |-> h]

FreshIdx(pos, h, d) ==
    [jrnl |-> bc_journal(pos), of |-> Len(jrnl[bc_journal(pos)]),
     size |-> Len(d), crc |-> shcrc32(d), hash |-> h]

(***************************************************************************)
(* The hash table file.                                                    *)
(***************************************************************************)
bc_table_reset(t, h) == [t EXCEPT ![bc_table_hash[h]] = BC_TABLE_SEARCH_POS]

bc_table_unset(t, h) == [t EXCEPT ![bc_table_hash[h]] = BC_TABLE_NULL_POS]

\* The highest position is retained.
bc_table_set(t, h, pos) ==
    LET b == bc_table_hash[h] IN
    IF t[b] < pos \/ t[b] = BC_TABLE_NULL_POS THEN [t EXCEPT ![b] = pos] ELSE t

(***************************************************************************)
(* bc_idx_find: the table slot says "no record", or where to start the     *)
(* downward scan; the scan stops at the first record with the hash.        *)
(***************************************************************************)
ScanHint(h) ==
    LET p == tab[bc_table_hash[h]] IN
    IF p = BC_TABLE_SEARCH_POS \/ p > bc_idx_next - 1 THEN -1 ELSE p

ScanTop(h) == IF ScanHint(h) = -1 THEN bc_idx_next - 1 ELSE ScanHint(h)

\* The greatest element of a finite set of positions, -1 when it is empty.
Highest(S) == IF S = {} THEN -1 ELSE CHOOSE m \in S : \A k \in S : k <= m

ScanHit(h) == Highest({i \in 0 .. ScanTop(h) : Filled(i) /\ idx[i + 1].hash = h})

\* Positions of the slot's records that the scan passes.
ScanSeen(h) ==
    {i \in 0 .. ScanTop(h) : /\ i >= ScanHit(h)
                             /\ Filled(i)
                             /\ bc_table_hash[idx[i + 1].hash] = bc_table_hash[h]}

PosHigh(h) == Highest(ScanSeen(h) \cup (IF ScanHint(h) = -1 THEN {} ELSE {ScanHint(h)}))

\* The position bc_idx_find returns; -1 is SHERR_NOENT.
bc_idx_find(h) ==
    IF tab[bc_table_hash[h]] = BC_TABLE_NULL_POS THEN -1 ELSE ScanHit(h)

(***************************************************************************)
(* The operations.                                                         *)
(***************************************************************************)
Init ==
    /\ idx = << >>
    /\ tab = [b \in Bucket |-> BC_TABLE_SEARCH_POS]
    /\ arch = << >>
    /\ jrnl = [j \in Journals |-> << >>]

\* Mutant: a lookup that misses marks the slot empty although the scan met another
\* record of the slot.
Find_UnsetOnMiss(h) ==
    /\ tab[bc_table_hash[h]] # BC_TABLE_NULL_POS
    /\ tab' = IF ScanHit(h) = -1 THEN bc_table_unset(tab, h) ELSE tab
    /\ UNCHANGED <<idx, arch, jrnl>>

\* bc_find / bc_idx_find: a lookup may refresh the table slot.
Find(h) ==
    /\ tab[bc_table_hash[h]] # BC_TABLE_NULL_POS
    /\ tab' = IF PosHigh(h) # -1
              THEN IF ScanHint(h) = PosHigh(h) THEN tab ELSE bc_table_set(tab, h, PosHigh(h))
              ELSE IF ScanHit(h) = -1 THEN bc_table_unset(tab, h) ELSE tab
    /\ UNCHANGED <<idx, arch, jrnl>>

\* The journal has room for the payload once more than it is written.
Room(j, d) == Len(jrnl[j]) + Len(d) <= MaxCells

\* Mutant: the slot is not reset when a record is written.
WriteFresh_NoReset(pos, h, d) ==
    /\ pos < MaxRecs /\ ~Filled(pos)
    /\ Room(bc_journal(pos), d)
    /\ idx' = PutIdx(pos, FreshIdx(pos, h, d))
    /\ jrnl' = [jrnl EXCEPT ![bc_journal(pos)] = @ \o d]
    /\ UNCHANGED <<tab, arch>>

\* bc_write of a record that does not exist: index, table, then the data.
WriteFresh(pos, h, d) ==
    /\ pos < MaxRecs /\ ~Filled(pos)
    /\ Room(bc_journal(pos), d)
    /\ idx' = PutIdx(pos, FreshIdx(pos, h, d))
    /\ tab' = bc_table_reset(tab, h)
    /\ jrnl' = [jrnl EXCEPT ![bc_journal(pos)] = @ \o d]
    /\ UNCHANGED arch

\* bc_append writes at bc_idx_next.
bc_append(h, d) == WriteFresh(bc_idx_next, h, d)

\* Mutant: the sizes are not compared before the rewrite in place.
WriteExisting_AnySize(pos, d) ==
    /\ Filled(pos)
    /\ Room(bc_journal(pos), d)
    /\ idx' = [idx EXCEPT ![pos + 1].crc = shcrc32(d)]
    /\ jrnl' = [jrnl EXCEPT ![bc_journal(pos)] = MapWrite(@, idx[pos + 1].of, d) \o d]
    /\ UNCHANGED <<tab, arch>>

\* bc_write of a record that exists: _bc_rewrite replaces checksum and data in
\* place when the size is the same and keeps the hash of the index record; the
\* data is then appended to the journal once more.
WriteExisting(pos, d) ==
    /\ Filled(pos)
    /\ idx[pos + 1].size = Len(d)
    /\ Room(bc_journal(pos), d)
    /\ idx' = [idx EXCEPT ![pos + 1].crc = shcrc32(d)]
    /\ jrnl' = [jrnl EXCEPT ![bc_journal(pos)] = MapWrite(@, idx[pos + 1].of, d) \o d]
    /\ UNCHANGED <<tab, arch>>

\* bc_write whose data cannot be stored (the journal file cannot grow): the index
\* record is cleared, also when it existed before, and the slot of the given hash
\* is reset.  An existing record was rewritten before the append failed.
WriteFailed(pos, h, d) ==
    /\ pos < MaxRecs
    /\ Filled(pos) => idx[pos + 1].size = Len(d)
    /\ idx' = PutIdx(pos, BlankIdx)
    /\ tab' = bc_table_reset(tab, h)
    /\ jrnl' = IF Filled(pos)
               THEN [jrnl EXCEPT ![bc_journal(pos)] = MapWrite(@, idx[pos + 1].of, d)]
               ELSE jrnl
    /\ UNCHANGED arch

\* Mutant: the index record stays after it was archived.
bc_clear_KeepsIndex(pos) ==
    /\ Filled(pos)
    /\ Len(arch) < MaxArch
    /\ arch' = Append(arch, idx[pos + 1])
    /\ UNCHANGED <<idx, tab, jrnl>>

\* bc_clear: the index record moves to the archive; the table is left alone.
bc_clear(pos) ==
    /\ Filled(pos)
    /\ Len(arch) < MaxArch
    /\ arch' = Append(arch, idx[pos + 1])
    /\ idx' = [idx EXCEPT ![pos + 1] = BlankIdx]
    /\ UNCHANGED <<tab, jrnl>>

\* bc_idx_clear: the index record is blanked without an archive copy.
bc_idx_clear(pos) ==
    /\ pos < bc_idx_next
    /\ idx' = [idx EXCEPT ![pos + 1] = BlankIdx]
    /\ UNCHANGED <<tab, arch, jrnl>>

\* The filled positions from pos on, in the order the loop of bc_purge meets them:
\* from the end of the index down.
PurgeOrder(pos) ==
    LET F == {p \in pos .. bc_idx_next - 1 : Filled(p)}
        n == Cardinality(F)
    IN {s \in [1 .. n -> F] : \A a, b \in 1 .. n : a < b => s[a] > s[b]}

\* bc_purge: bc_clear from the end down to pos; each iteration then resets the slot
\* of the record at pos as long as that record is still there.  The loop compares an
\* int with an unsigned pos and so ends only for pos > 0.
bc_purge(pos) ==
    /\ pos > 0
    /\ Filled(pos) /\ CrcMatches(idx[pos + 1])
    /\ \E s \in PurgeOrder(pos) :
          /\ Len(arch) + Len(s) <= MaxArch
          /\ arch' = arch \o [k \in 1 .. Len(s) |-> idx[s[k] + 1]]
    /\ idx' = [i \in 1 .. Len(idx) |-> IF i > pos THEN BlankIdx ELSE idx[i]]
    /\ tab' = IF pos < bc_idx_next - 1 THEN bc_table_reset(tab, idx[pos + 1].hash) ELSE tab
    /\ UNCHANGED jrnl

\* bc_arch_write: data to the last journal, then the archive record; the second
\* disjunct is a failed bc_arch_add.
bc_arch_write(h, d) ==
    LET j == bc_journal(bc_idx_next) IN
    /\ Room(j, d)
    /\ jrnl' = [jrnl EXCEPT ![j] = @ \o d]
    /\ \/ /\ Len(arch) < MaxArch
          /\ arch' = Append(arch, FreshIdx(bc_idx_next, h, d))
       \/ arch' = arch
    /\ UNCHANGED <<idx, tab>>

\* bc_table_reset called by the users of the database after bc_clear.
TableReset(h) ==
    /\ tab' = bc_table_reset(tab, h)
    /\ UNCHANGED <<idx, arch, jrnl>>

\* bc_table_clear: the whole table is marked "search" when an index is restored.
bc_table_clear ==
    /\ tab' = [b \in Bucket |-> BC_TABLE_SEARCH_POS]
    /\ UNCHANGED <<idx, arch, jrnl>>

\* The position of the newest archive record with the hash; 0 is SHERR_NOENT.
bc_arch_find(h) ==
    LET S == {i \in 1 .. Len(arch) : arch[i].size # 0 /\ arch[i].hash = h} IN
    IF S = {} THEN 0 ELSE Highest(S)

Positions == 0 .. MaxRecs - 1

Next ==
    \/ \E h \in Hash : Find(h) \/ TableReset(h)
    \/ \E h \in Hash, d \in Payload : bc_append(h, d) \/ bc_arch_write(h, d)
    \/ \E pos \in Positions, h \in Hash, d \in Payload :
           WriteFresh(pos, h, d) \/ WriteFailed(pos, h, d)
    \/ \E pos \in Positions, d \in Payload : WriteExisting(pos, d)
    \/ \E pos \in Positions : bc_clear(pos) \/ bc_idx_clear(pos) \/ bc_purge(pos)
    \/ bc_table_clear

Spec == Init /\ [][Next]_vars

(***************************************************************************)
(* Properties.                                                             *)
(***************************************************************************)
\* A lookup (bc_find) returns the newest filled record with the hash, and fails
\* only when there is none: the table slots, refreshed lazily by lookups and left
\* stale by bc_clear, never hide a record.
FindExact ==
    \A h \in Hash :
        bc_idx_find(h) = Highest({i \in 0 .. bc_idx_next - 1 : Filled(i) /\ idx[i + 1].hash = h})

\* The reason FindExact holds: a slot marked empty has no record, and a slot with a
\* position is an upper bound of the positions of the slot's records.
TableSound ==
    \A i \in 1 .. Len(idx) :
        idx[i].size # 0 =>
            LET p == tab[bc_table_hash[idx[i].hash]] IN
            \/ p = BC_TABLE_SEARCH_POS
            \/ p # BC_TABLE_NULL_POS /\ p >= i - 1

\* Every record the index or the archive names passes the checksum test of
\* bc_read and bc_arch: rewrites in place, the append that follows them, purges and
\* failed writes never damage the bytes of another record.
Readable ==
    /\ \A i \in 1 .. Len(idx) : idx[i].size # 0 => CrcMatches(idx[i])
    /\ \A i \in 1 .. Len(arch) : CrcMatches(arch[i])

\* The bytes of an archived block never change (the journals are only appended to
\* and rewritten where the index still points), so a chain reorganisation can
\* bring a block back that was cleared any number of steps ago.
ArchiveStable ==
    [][\A i \in 1 .. Len(arch) :
          /\ i <= Len(arch') /\ arch'[i] = arch[i]
          /\ Content(arch[i])' = Content(arch[i])]_vars
=============================================================================
