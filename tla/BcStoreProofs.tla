--------------------------- MODULE BcStoreProofs ---------------------------
(***************************************************************************)
(* Proofs about BcStore for every number of hashes, slots, positions,      *)
(* journals and payloads: type correctness, the soundness of the lookup    *)
(* table, and that a lookup is exact.                                      *)
(***************************************************************************)
EXTENDS BcStore, FiniteSetTheorems, WellFoundedInduction, TLAPS

\* The least-number principle, from the library's well-foundedness of < on Nat.
LEMMA LeastNatural ==
    ASSUME NEW T, T \subseteq Nat, T # {}
    PROVE  \E x \in T : \A y \in T : x <= y
<1>1. \E x \in T : \A y \in T : ~ (<<y, x>> \in OpToRel(<, Nat))
  BY NatLessThanWellFounded, WFMin, Zenon
<1>2. PICK x \in T : \A y \in T : ~ (<<y, x>> \in OpToRel(<, Nat))
  BY <1>1
<1>3. ASSUME NEW y \in T PROVE x <= y
  <2>1. x \in Nat /\ y \in Nat
    OBVIOUS
  <2>2. ~ (<<y, x>> \in OpToRel(<, Nat))
    BY <1>2
  <2>3. ~ (y < x)
    BY <2>1, <2>2 DEF OpToRel
  <2>. QED
    BY <2>1, <2>3
<1>. QED
  BY <1>3

\* Highest, the bookkeeping of the downward scan in _bc_idx_find, is the greatest
\* element of a non-empty set of positions.
LEMMA HighestIsGreatest ==
    ASSUME NEW n \in Nat, NEW S, S \subseteq 0 .. n, S # {}
    PROVE  /\ Highest(S) \in S /\ Highest(S) \in 0 .. n
           /\ \A k \in S : k <= Highest(S)
<1> DEFINE T == {m \in Nat : n - m \in S}
<1>1. T \subseteq Nat
  OBVIOUS
<1>2. T # {}
  <2>1. PICK s \in S : TRUE
    OBVIOUS
  <2>2. n - s \in T
    BY <2>1
  <2>. QED
    BY <2>2
<1>3. PICK x \in T : \A y \in T : x <= y
  <2> HIDE DEF T
  <2>. QED
    BY <1>1, <1>2, LeastNatural
<1>4. n - x \in S /\ \A k \in S : k <= n - x
  <2>1. \A k \in S : n - k \in T
    OBVIOUS
  <2>. QED
    BY <1>3, <2>1
<1>5. \E m \in S : \A k \in S : k <= m
  BY <1>4
<1>6. Highest(S) \in S /\ \A k \in S : k <= Highest(S)
  BY <1>5 DEF Highest
<1>. QED
  BY <1>6

\* Appending an element keeps the type of a sequence.
LEMMA AppendType ==
    ASSUME NEW S, NEW s \in Seq(S), NEW e \in S
    PROVE  Append(s, e) \in Seq(S)
OBVIOUS

\* Appending a sequence to another keeps the type of their elements.
LEMMA ConcatType ==
    ASSUME NEW S, NEW s \in Seq(S), NEW t \in Seq(S)
    PROVE  s \o t \in Seq(S)
OBVIOUS

\* The journal numbers bc_journal computes for positions within the bound.
LEMMA JournalRange ==
    ASSUME NEW pos \in 0 .. MaxRecs
    PROVE  bc_journal(pos) \in Journals
BY DEF Journals

\* What bc_map_write leaves in a journal is a sequence of cells again.
LEMMA MapWriteType ==
    ASSUME NEW s \in Seq(Cell), NEW d \in Seq(Cell), NEW of \in Nat
    PROVE  MapWrite(s, of, d) \in Seq(Cell)
<1> DEFINE n == IF of + Len(d) > Len(s) THEN of + Len(d) ELSE Len(s)
           e(k) == IF k - of \in 1 .. Len(d) THEN d[k - of]
                   ELSE IF k <= Len(s) THEN s[k] ELSE 0
<1>1. n \in Nat
  OBVIOUS
<1>2. ASSUME NEW k \in 1 .. n PROVE e(k) \in Cell
  <2>1. CASE k - of \in 1 .. Len(d)
    BY <2>1
  <2>2. CASE ~(k - of \in 1 .. Len(d)) /\ k <= Len(s)
    BY <2>2, <1>1
  <2>3. CASE ~(k - of \in 1 .. Len(d)) /\ ~(k <= Len(s))
    BY <2>3, BcAssumption
  <2>. QED
    BY <2>1, <2>2, <2>3
<1>3. MapWrite(s, of, d) = [k \in 1 .. n |-> e(k)]
  BY DEF MapWrite
<1> HIDE DEF n, e
<1>. QED
  BY <1>1, <1>2, <1>3

\* An index record made by bc_write or bc_arch_write is a filled record.
LEMMA FreshIdxType ==
    ASSUME TypeOK, NEW pos \in 0 .. MaxRecs, NEW h \in Hash, NEW d \in Payload
    PROVE  FreshIdx(pos, h, d) \in IdxRec
<1>1. bc_journal(pos) \in Journals
  BY JournalRange
<1>2. Len(jrnl[bc_journal(pos)]) \in Nat
  BY <1>1 DEF TypeOK
<1>3. Len(d) \in Nat \ {0} /\ shcrc32(d) \in Nat
  BY BcAssumption
<1>. QED
  BY <1>1, <1>2, <1>3 DEF FreshIdx, IdxRec

\* Writing a filled or a blank record at any position within the bound keeps the type
\* of the index: what a write past the end adds below it is blank.
LEMMA PutIdxType ==
    ASSUME TypeOK, NEW pos \in Positions, NEW r \in IdxRec \cup {BlankIdx}
    PROVE  /\ PutIdx(pos, r) \in Seq(IdxRec \cup {BlankIdx}) /\ Len(PutIdx(pos, r)) <= MaxRecs
           /\ pos + 1 \in 1 .. Len(PutIdx(pos, r)) /\ PutIdx(pos, r)[pos + 1] = r
           /\ \A i \in 1 .. Len(PutIdx(pos, r)) : i # pos + 1 =>
                  PutIdx(pos, r)[i] = IF i <= Len(idx) THEN idx[i] ELSE BlankIdx
<1> DEFINE R == IdxRec \cup {BlankIdx}
           n == IF pos < Len(idx) THEN Len(idx) ELSE pos + 1
           e(i) == IF i = pos + 1 THEN r ELSE IF i <= Len(idx) THEN idx[i] ELSE BlankIdx
<1>0. idx \in Seq(R) /\ Len(idx) \in Nat /\ Len(idx) <= MaxRecs /\ MaxRecs \in Nat
  BY BcAssumption DEF TypeOK
<1>1. n \in Nat /\ n <= MaxRecs /\ pos + 1 \in 1 .. n
  BY <1>0 DEF Positions
<1>2. ASSUME NEW i \in 1 .. n PROVE e(i) \in R
  <2> HIDE DEF R
  <2>1. r \in R /\ BlankIdx \in R
    BY DEF R
  <2>2. CASE i <= Len(idx)
    BY <1>0, <1>1, <2>1, <2>2
  <2>3. CASE ~(i <= Len(idx))
    BY <2>1, <2>3
  <2>. QED
    BY <2>2, <2>3
<1>3. PutIdx(pos, r) = [i \in 1 .. n |-> e(i)]
  BY DEF PutIdx
<1> HIDE DEF n, e, R
<1>4. PutIdx(pos, r) \in Seq(R) /\ Len(PutIdx(pos, r)) = n
  BY <1>1, <1>2, <1>3
<1>5. \A i \in 1 .. n : PutIdx(pos, r)[i] = e(i)
  BY <1>3
<1>. QED
  BY <1>1, <1>4, <1>5 DEF e, R

\* The three updates of a table slot keep the type of the table.
LEMMA TableType ==
    ASSUME TypeOK, NEW h \in Hash
    PROVE  /\ bc_table_reset(tab, h) \in [Bucket -> Nat \cup {BC_TABLE_NULL_POS}]
           /\ bc_table_unset(tab, h) \in [Bucket -> Nat \cup {BC_TABLE_NULL_POS}]
           /\ \A pos \in Nat : bc_table_set(tab, h, pos) \in [Bucket -> Nat \cup {BC_TABLE_NULL_POS}]
BY BcAssumption
   DEF TypeOK, bc_table_reset, bc_table_unset, bc_table_set, BC_TABLE_SEARCH_POS, BC_TABLE_NULL_POS

\* The top of the scan of _bc_idx_find is a position of the index, or -1 when the
\* index is empty.
LEMMA ScanTopRange ==
    ASSUME TypeOK, NEW h \in Hash, tab[bc_table_hash[h]] # BC_TABLE_NULL_POS
    PROVE  /\ bc_idx_next \in Nat
           /\ ScanTop(h) \in -1 .. bc_idx_next - 1
           /\ ScanHint(h) \in -1 .. bc_idx_next - 1
           /\ ScanHint(h) # -1 => ScanTop(h) = ScanHint(h) /\ tab[bc_table_hash[h]] = ScanHint(h)
           /\ ScanHint(h) = -1 => ScanTop(h) = bc_idx_next - 1
<1>1. tab[bc_table_hash[h]] \in Nat
  BY BcAssumption DEF TypeOK
<1>2. Len(idx) \in Nat
  BY DEF TypeOK
<1>. QED
  BY <1>1, <1>2 DEF ScanTop, ScanHint, bc_idx_next

\* What the scan records as the highest position of the slot is a position.
LEMMA PosHighRange ==
    ASSUME TypeOK, NEW h \in Hash, tab[bc_table_hash[h]] # BC_TABLE_NULL_POS
    PROVE  /\ PosHigh(h) = -1 \/ PosHigh(h) \in 0 .. bc_idx_next
           /\ PosHigh(h) = -1 => ScanSeen(h) = {} /\ ScanHint(h) = -1
           /\ \A k \in ScanSeen(h) : k <= PosHigh(h)
           /\ ScanHint(h) <= PosHigh(h)
<1> DEFINE S == ScanSeen(h) \cup (IF ScanHint(h) = -1 THEN {} ELSE {ScanHint(h)})
<1>1. bc_idx_next \in Nat /\ S \subseteq 0 .. bc_idx_next
  BY ScanTopRange DEF ScanSeen
<1>2. PosHigh(h) = Highest(S)
  BY DEF PosHigh
<1>3. CASE S = {}
  <2>1. PosHigh(h) = -1
    BY <1>2, <1>3 DEF Highest
  <2>2. ScanSeen(h) = {}
    BY <1>3
  <2>3. ScanHint(h) = -1
    BY <1>3
  <2>. QED
    BY <2>1, <2>2, <2>3
<1>4. CASE S # {}
  <2> HIDE DEF S
  <2>1. Highest(S) \in 0 .. bc_idx_next /\ \A k \in S : k <= Highest(S)
    BY <1>1, <1>4, HighestIsGreatest
  <2>2. PosHigh(h) \in 0 .. bc_idx_next /\ \A k \in S : k <= PosHigh(h)
    BY <1>2, <2>1
  <2>3. PosHigh(h) # -1
    BY <1>1, <2>2
  <2>4. ScanHint(h) <= PosHigh(h)
    <3>1. CASE ScanHint(h) = -1
      BY <1>1, <2>2, <3>1
    <3>2. CASE ScanHint(h) # -1
      BY <2>2, <3>2 DEF S
    <3>. QED
      BY <3>1, <3>2
  <2>. QED
    BY <2>2, <2>3, <2>4 DEF S
<1>. QED
  BY <1>3, <1>4

\* Each operation keeps the types of the four files: index records are filled or
\* blank, slots hold a position or the null mark, journals hold cells.
LEMMA TypeStep ==
    ASSUME TypeOK, [Next]_vars
    PROVE  TypeOK'
<1> DEFINE R == IdxRec \cup {BlankIdx}
<1> DEFINE TabType == [Bucket -> Nat \cup {BC_TABLE_NULL_POS}]
<1>t. /\ idx \in Seq(R) /\ Len(idx) \in Nat /\ Len(idx) <= MaxRecs /\ tab \in TabType
      /\ arch \in Seq(IdxRec) /\ jrnl \in [Journals -> Seq(Cell)] /\ MaxRecs \in Nat
  BY BcAssumption DEF TypeOK
<1>c. TypeOK' <=> /\ idx' \in Seq(R) /\ Len(idx') <= MaxRecs /\ tab' \in TabType
                  /\ arch' \in Seq(IdxRec) /\ jrnl' \in [Journals -> Seq(Cell)]
  BY DEF TypeOK
<1>p. \A d \in Payload : d \in Seq(Cell)
  BY BcAssumption
<1>j. \A pos \in 0 .. MaxRecs : bc_journal(pos) \in Journals
  BY JournalRange
<1>b. BlankIdx.size = 0 /\ BlankIdx \in R
  BY DEF BlankIdx
<1>f. \A pos \in Nat : Filled(pos) => pos + 1 \in 1 .. Len(idx) /\ idx[pos + 1] \in IdxRec
  BY <1>t, <1>b DEF Filled, bc_idx_next
<1> HIDE DEF R, TabType
<1>1. ASSUME NEW h \in Hash, Find(h) PROVE TypeOK'
  <2>1. tab[bc_table_hash[h]] # BC_TABLE_NULL_POS
    BY <1>1 DEF Find
  <2>2. PosHigh(h) = -1 \/ PosHigh(h) \in Nat
    BY <2>1, PosHighRange, ScanTopRange
  <2>3. tab' \in TabType
    BY <1>1, <1>t, <2>2, TableType DEF Find, TabType
  <2>. QED
    BY <1>1, <1>c, <1>t, <2>3 DEF Find
<1>2. ASSUME NEW h \in Hash, TableReset(h) PROVE TypeOK'
  BY <1>2, <1>c, <1>t, TableType DEF TableReset, TabType
<1>3. ASSUME NEW pos \in 0 .. MaxRecs, NEW h \in Hash, NEW d \in Payload, WriteFresh(pos, h, d)
      PROVE  TypeOK'
  <2>1. pos \in Positions
    BY <1>3, <1>t DEF WriteFresh, Positions
  <2>2. idx' \in Seq(R) /\ Len(idx') <= MaxRecs
    <3>1. FreshIdx(pos, h, d) \in R
      BY FreshIdxType DEF R
    <3>. QED
      BY <1>3, <2>1, <3>1, PutIdxType DEF WriteFresh, R
  <2>3. jrnl' \in [Journals -> Seq(Cell)]
    BY <1>3, <1>t, <1>p, <1>j DEF WriteFresh
  <2>4. tab' \in TabType
    BY <1>3, TableType DEF WriteFresh, TabType
  <2>. QED
    BY <1>3, <1>c, <1>t, <2>2, <2>3, <2>4 DEF WriteFresh
<1>4. ASSUME NEW h \in Hash, NEW d \in Payload, bc_append(h, d) PROVE TypeOK'
  BY <1>3, <1>4, <1>t DEF bc_append, bc_idx_next
<1>5. ASSUME NEW pos \in Positions, NEW d \in Payload, WriteExisting(pos, d) PROVE TypeOK'
  <2>1. pos \in 0 .. MaxRecs /\ pos \in Nat /\ Filled(pos)
    BY <1>5, <1>t DEF WriteExisting, Positions
  <2>2. pos + 1 \in 1 .. Len(idx) /\ idx[pos + 1] \in IdxRec
    BY <1>f, <2>1
  <2>3. [idx[pos + 1] EXCEPT !.crc = shcrc32(d)] \in R
    BY <2>2, BcAssumption DEF IdxRec, R
  <2>4. idx' = [idx EXCEPT ![pos + 1] = [idx[pos + 1] EXCEPT !.crc = shcrc32(d)]]
    BY <1>5 DEF WriteExisting
  <2>5. idx' \in Seq(R) /\ Len(idx') <= MaxRecs
    BY <1>t, <2>2, <2>3, <2>4
  <2>6. idx[pos + 1].of \in Nat
    BY <2>2 DEF IdxRec
  <2>7. bc_journal(pos) \in Journals
    BY <1>j, <2>1
  <2>8. MapWrite(jrnl[bc_journal(pos)], idx[pos + 1].of, d) \o d \in Seq(Cell)
    <3>1. MapWrite(jrnl[bc_journal(pos)], idx[pos + 1].of, d) \in Seq(Cell)
      BY <1>t, <1>p, <2>6, <2>7, MapWriteType
    <3>. QED
      BY <1>p, <3>1, ConcatType
  <2>9. jrnl' \in [Journals -> Seq(Cell)]
    BY <1>5, <1>t, <2>7, <2>8 DEF WriteExisting
  <2>. QED
    BY <1>5, <1>c, <1>t, <2>5, <2>9 DEF WriteExisting
<1>6. ASSUME NEW pos \in Positions, NEW h \in Hash, NEW d \in Payload, WriteFailed(pos, h, d)
      PROVE  TypeOK'
  <2>1. pos \in 0 .. MaxRecs /\ pos \in Nat
    BY <1>6, <1>t DEF WriteFailed, Positions
  <2>2. idx' \in Seq(R) /\ Len(idx') <= MaxRecs
    BY <1>6, <1>b, <2>1, PutIdxType DEF WriteFailed, R
  <2>3. tab' \in TabType
    BY <1>6, TableType DEF WriteFailed, TabType
  <2>4. jrnl' \in [Journals -> Seq(Cell)]
    <3>1. CASE Filled(pos)
      <4>1. idx[pos + 1].of \in Nat
        BY <1>f, <2>1, <3>1 DEF IdxRec
      <4>2. bc_journal(pos) \in Journals
        BY <1>j, <2>1
      <4>3. MapWrite(jrnl[bc_journal(pos)], idx[pos + 1].of, d) \in Seq(Cell)
        BY <1>t, <1>p, <4>1, <4>2, MapWriteType
      <4>. QED
        BY <1>6, <1>t, <3>1, <4>2, <4>3 DEF WriteFailed
    <3>2. CASE ~Filled(pos)
      BY <1>6, <1>t, <3>2 DEF WriteFailed
    <3>. QED
      BY <3>1, <3>2
  <2>. QED
    BY <1>6, <1>c, <1>t, <2>2, <2>3, <2>4 DEF WriteFailed
<1>7. ASSUME NEW pos \in Positions, bc_clear(pos) PROVE TypeOK'
  <2>1. pos + 1 \in 1 .. Len(idx) /\ idx[pos + 1] \in IdxRec
    BY <1>7, <1>f DEF bc_clear, Positions
  <2>2. idx' \in Seq(R) /\ Len(idx') <= MaxRecs
    BY <1>7, <1>t, <1>b, <2>1 DEF bc_clear
  <2>3. arch' \in Seq(IdxRec)
    BY <1>7, <1>t, <2>1 DEF bc_clear
  <2>. QED
    BY <1>7, <1>c, <1>t, <2>2, <2>3 DEF bc_clear
<1>8. ASSUME NEW pos \in Positions, bc_idx_clear(pos) PROVE TypeOK'
  <2>1. idx' \in Seq(R) /\ Len(idx') <= MaxRecs
    BY <1>8, <1>t, <1>b DEF bc_idx_clear, Positions, bc_idx_next
  <2>. QED
    BY <1>8, <1>c, <1>t, <2>1 DEF bc_idx_clear
<1>9. ASSUME NEW pos \in Positions, bc_purge(pos) PROVE TypeOK'
  <2>1. pos \in Nat /\ pos + 1 \in 1 .. Len(idx) /\ idx[pos + 1] \in IdxRec
    BY <1>9, <1>f DEF bc_purge, Positions
  <2>2. idx' \in Seq(R) /\ Len(idx') <= MaxRecs
    <3>1. \A i \in 1 .. Len(idx) : (IF i > pos THEN BlankIdx ELSE idx[i]) \in R
      BY <1>t, <1>b
    <3>2. idx' = [i \in 1 .. Len(idx) |-> IF i > pos THEN BlankIdx ELSE idx[i]]
      BY <1>9 DEF bc_purge
    <3>. QED
      BY <1>t, <3>1, <3>2
  <2>3. tab' \in TabType
    <3>1. idx[pos + 1].hash \in Hash
      BY <2>1 DEF IdxRec
    <3>2. bc_table_reset(tab, idx[pos + 1].hash) \in TabType
      BY <3>1, TableType DEF TabType
    <3>. QED
      BY <1>9, <1>t, <3>2 DEF bc_purge
  <2>4. arch' \in Seq(IdxRec)
    <3> DEFINE F == {p \in pos .. bc_idx_next - 1 : Filled(p)}
               n == Cardinality(F)
    <3>1. n \in Nat
      <4>1. IsFiniteSet(pos .. bc_idx_next - 1)
        BY <1>t, <2>1, FS_Interval DEF bc_idx_next
      <4>2. IsFiniteSet(F)
        BY <4>1, FS_Subset
      <4>. QED
        BY <4>2, FS_CardinalityType
    <3>2. PICK s \in PurgeOrder(pos) : arch' = arch \o [k \in 1 .. Len(s) |-> idx[s[k] + 1]]
      BY <1>9 DEF bc_purge
    <3>3. s \in [1 .. n -> F]
      BY <3>2 DEF PurgeOrder
    <3>4. Len(s) = n
      <4> HIDE DEF n
      <4>. QED
        BY <3>1, <3>3
    <3>5. \A k \in 1 .. n : idx[s[k] + 1] \in IdxRec
      <4> SUFFICES ASSUME NEW k \in 1 .. n PROVE idx[s[k] + 1] \in IdxRec
        OBVIOUS
      <4>1. s[k] \in F
        BY <3>3
      <4>2. s[k] \in Nat /\ Filled(s[k])
        BY <1>t, <2>1, <4>1 DEF bc_idx_next
      <4>. QED
        BY <1>f, <4>2
    <3> HIDE DEF n
    <3>6. [k \in 1 .. n |-> idx[s[k] + 1]] \in Seq(IdxRec)
      BY <3>1, <3>5
    <3>. QED
      BY <1>t, <3>2, <3>4, <3>6, ConcatType
  <2>. QED
    BY <1>9, <1>c, <1>t, <2>2, <2>3, <2>4 DEF bc_purge
<1>10. ASSUME NEW h \in Hash, NEW d \in Payload, bc_arch_write(h, d) PROVE TypeOK'
  <2>1. bc_idx_next \in 0 .. MaxRecs
    BY <1>t DEF bc_idx_next
  <2>2. jrnl' \in [Journals -> Seq(Cell)]
    BY <1>10, <1>t, <1>p, <1>j, <2>1 DEF bc_arch_write
  <2>3. arch' \in Seq(IdxRec)
    <3>1. FreshIdx(bc_idx_next, h, d) \in IdxRec
      BY <2>1, FreshIdxType
    <3>2. arch' = Append(arch, FreshIdx(bc_idx_next, h, d)) \/ arch' = arch
      BY <1>10 DEF bc_arch_write
    <3>3. arch \in Seq(IdxRec)
      BY <1>t
    <3>4. Append(arch, FreshIdx(bc_idx_next, h, d)) \in Seq(IdxRec)
      BY <3>1, <3>3, AppendType
    <3>. QED
      BY <3>2, <3>3, <3>4
  <2>. QED
    BY <1>10, <1>c, <1>t, <2>2, <2>3 DEF bc_arch_write
<1>11. ASSUME bc_table_clear PROVE TypeOK'
  BY <1>11, <1>c, <1>t DEF bc_table_clear, TabType, BC_TABLE_SEARCH_POS
<1>12. ASSUME UNCHANGED vars PROVE TypeOK'
  BY <1>12, <1>c, <1>t DEF vars
<1>13. Positions \subseteq 0 .. MaxRecs
  BY <1>t DEF Positions
<1>. QED
  BY <1>1, <1>2, <1>3, <1>4, <1>5, <1>6, <1>7, <1>8, <1>9, <1>10, <1>11, <1>12, <1>13 DEF Next

\* The files never hold anything but index records, positions or marks, and cells.
THEOREM TypeCorrect == Spec => []TypeOK
<1>1. Init => TypeOK
  BY BcAssumption DEF Init, TypeOK, BC_TABLE_SEARCH_POS
<1>2. TypeOK /\ [Next]_vars => TypeOK'
  BY TypeStep
<1>. QED
  BY <1>1, <1>2, PTL DEF Spec

\* An operation that only blanks records, or changes fields other than the hash, and
\* only resets slots, keeps the table sound.
LEMMA SoundWhenFewer ==
    ASSUME TypeOK, TableSound, Len(idx') \in Nat,
           \A i \in 1 .. Len(idx') : idx'[i].size # 0 =>
              \/ tab'[bc_table_hash[idx'[i].hash]] = BC_TABLE_SEARCH_POS
              \/ /\ i \in 1 .. Len(idx) /\ idx[i].size # 0 /\ idx'[i].hash = idx[i].hash
                 /\ tab'[bc_table_hash[idx[i].hash]] = tab[bc_table_hash[idx[i].hash]]
    PROVE  TableSound'
BY DEF TableSound

\* A filled record's hash is one of the record hashes, so it has a slot.
LEMMA FilledHash ==
    ASSUME TypeOK
    PROVE  \A i \in 1 .. Len(idx) : idx[i].size # 0 => idx[i].hash \in Hash
<1>1. \A i \in 1 .. Len(idx) : idx[i] \in IdxRec \cup {BlankIdx}
  BY DEF TypeOK
<1>2. BlankIdx.size = 0
  BY DEF BlankIdx
<1>. QED
  BY <1>1, <1>2 DEF IdxRec

\* A lookup that refreshes its slot leaves an upper bound there, and marks the slot
\* empty only after a scan of the whole index that met no record of the slot.
LEMMA FindKeepsSound ==
    ASSUME TypeOK, TableSound, NEW h \in Hash, Find(h)
    PROVE  TableSound'
<1> DEFINE b == bc_table_hash[h]
<1>1. tab[b] # BC_TABLE_NULL_POS /\ idx' = idx
  BY DEF Find
<1>2. /\ Len(idx) \in Nat /\ bc_idx_next = Len(idx)
      /\ b \in Bucket /\ tab \in [Bucket -> Nat \cup {-1}] /\ tab[b] \in Nat
  BY <1>1, BcAssumption DEF TypeOK, bc_idx_next, BC_TABLE_NULL_POS
<1>3. /\ ScanTop(h) \in -1 .. Len(idx) - 1 /\ ScanHint(h) \in -1 .. Len(idx) - 1
      /\ ScanHint(h) # -1 => ScanTop(h) = ScanHint(h) /\ tab[b] = ScanHint(h)
      /\ ScanHint(h) = -1 => ScanTop(h) = Len(idx) - 1
  BY <1>1, <1>2, ScanTopRange
<1>4. /\ PosHigh(h) = -1 \/ PosHigh(h) \in 0 .. Len(idx)
      /\ PosHigh(h) = -1 => ScanSeen(h) = {} /\ ScanHint(h) = -1
      /\ \A k \in ScanSeen(h) : k <= PosHigh(h)
      /\ ScanHint(h) <= PosHigh(h)
  BY <1>1, <1>2, PosHighRange
<1>5. ASSUME NEW i \in 1 .. Len(idx), idx[i].size # 0, bc_table_hash[idx[i].hash] = b
      PROVE  i - 1 <= PosHigh(h)
  <2>1. CASE ScanHint(h) # -1
    <3>1. tab[b] = ScanHint(h) /\ tab[b] # BC_TABLE_SEARCH_POS
      BY <1>3, <2>1 DEF ScanHint
    <3>2. tab[b] >= i - 1
      BY <1>5, <3>1 DEF TableSound
    <3>. QED
      BY <1>3, <1>4, <2>1, <3>1, <3>2
  <2>2. CASE ScanHint(h) = -1
    <3> DEFINE S == {k \in 0 .. ScanTop(h) : Filled(k) /\ idx[k + 1].hash = h}
    <3>1. ScanTop(h) = Len(idx) - 1 /\ ScanTop(h) \in Nat /\ i - 1 \in 0 .. ScanTop(h) /\ Filled(i - 1)
      BY <1>2, <1>3, <1>5, <2>2 DEF Filled
    <3>2. ScanHit(h) = Highest(S)
      BY DEF ScanHit
    <3>3. CASE i - 1 >= ScanHit(h)
      <4>1. i - 1 \in ScanSeen(h)
        BY <1>5, <3>1, <3>3 DEF ScanSeen
      <4>. QED
        BY <1>4, <4>1
    <3>4. CASE ~(i - 1 >= ScanHit(h))
      <4>1. S # {}
        <5>1. ASSUME S = {} PROVE FALSE
          <6>1. ScanHit(h) = -1
            BY <3>2, <5>1 DEF Highest
          <6>. QED
            BY <3>4, <6>1
        <5>. QED
          BY <5>1
      <4>2. Highest(S) \in S
        <5>1. S \subseteq 0 .. ScanTop(h)
          OBVIOUS
        <5> HIDE DEF S
        <5>. QED
          BY <3>1, <4>1, <5>1, HighestIsGreatest
      <4>3. ScanHit(h) \in 0 .. ScanTop(h) /\ Filled(ScanHit(h)) /\ idx[ScanHit(h) + 1].hash = h
        BY <3>2, <4>2
      <4>4. ScanHit(h) \in ScanSeen(h)
        BY <3>1, <4>3 DEF ScanSeen
      <4>. QED
        BY <1>4, <3>1, <3>4, <4>3, <4>4
    <3>. QED
      BY <3>3, <3>4
  <2>. QED
    BY <2>1, <2>2
<1>6. ASSUME NEW i \in 1 .. Len(idx), idx[i].size # 0
      PROVE  LET p == tab'[bc_table_hash[idx[i].hash]] IN
             p = BC_TABLE_SEARCH_POS \/ (p # BC_TABLE_NULL_POS /\ p >= i - 1)
  <2> DEFINE c == bc_table_hash[idx[i].hash]
  <2>1. tab[c] = BC_TABLE_SEARCH_POS \/ (tab[c] # BC_TABLE_NULL_POS /\ tab[c] >= i - 1)
    BY <1>6 DEF TableSound
  <2>2. CASE tab' = tab
    BY <2>1, <2>2
  <2>3. CASE c # b
    <3>1. tab'[c] = tab[c]
      BY <1>2, <2>3 DEF Find, bc_table_set, bc_table_unset
    <3>. QED
      BY <2>1, <3>1
  <2>4. CASE tab' # tab /\ c = b
    <3>1. i - 1 <= PosHigh(h)
      BY <1>5, <1>6, <2>4
    <3>2. PosHigh(h) # -1
      BY <3>1
    <3>3. tab' = bc_table_set(tab, h, PosHigh(h))
      BY <2>4, <3>2 DEF Find
    <3>4. tab'[b] = PosHigh(h)
      BY <1>2, <2>4, <3>3 DEF bc_table_set
    <3>. QED
      BY <1>4, <2>4, <3>1, <3>2, <3>4 DEF BC_TABLE_NULL_POS
  <2>. QED
    BY <2>2, <2>3, <2>4
<1>. QED
  BY <1>1, <1>6 DEF TableSound

\* Each operation keeps the table sound.
LEMMA SoundStep ==
    ASSUME TypeOK, TypeOK', TableSound, [Next]_vars
    PROVE  TableSound'
<1>t. /\ Len(idx) \in Nat /\ Len(idx') \in Nat
      /\ tab \in [Bucket -> Nat \cup {BC_TABLE_NULL_POS}] /\ bc_table_hash \in [Hash -> Bucket]
  BY BcAssumption DEF TypeOK
<1>h. \A i \in 1 .. Len(idx) : idx[i].size # 0 => idx[i].hash \in Hash
  BY FilledHash
<1>r. ASSUME NEW g, NEW h \in Hash, g \in Hash
      PROVE  \/ bc_table_reset(tab, h)[bc_table_hash[g]] = BC_TABLE_SEARCH_POS
             \/ /\ bc_table_reset(tab, h)[bc_table_hash[g]] = tab[bc_table_hash[g]]
                /\ g # h
  BY <1>t, <1>r DEF bc_table_reset
<1>b. BlankIdx.size = 0
  BY DEF BlankIdx
<1>1. ASSUME NEW h \in Hash, Find(h) PROVE TableSound'
  BY <1>1, FindKeepsSound
<1>2. ASSUME NEW h \in Hash, TableReset(h) PROVE TableSound'
  BY <1>2, <1>t, <1>h, <1>r, SoundWhenFewer DEF TableReset
<1>3. ASSUME NEW pos \in Nat, NEW h \in Hash, NEW d \in Payload, WriteFresh(pos, h, d)
      PROVE  TableSound'
  <2>0. idx' = PutIdx(pos, FreshIdx(pos, h, d)) /\ pos \in Positions /\ pos \in 0 .. MaxRecs
    BY <1>3, BcAssumption DEF WriteFresh, Positions
  <2>1. FreshIdx(pos, h, d) \in IdxRec /\ FreshIdx(pos, h, d).hash = h
    BY <2>0, FreshIdxType DEF FreshIdx
  <2>2. ASSUME NEW i \in 1 .. Len(idx'), idx'[i].size # 0, i # pos + 1
        PROVE  i \in 1 .. Len(idx) /\ idx'[i] = idx[i]
    BY <1>t, <1>b, <2>0, <2>1, <2>2, PutIdxType
  <2>3. ASSUME pos + 1 \in 1 .. Len(idx') PROVE idx'[pos + 1].hash = h
    BY <2>0, <2>1, PutIdxType
  <2>4. tab' = bc_table_reset(tab, h)
    BY <1>3 DEF WriteFresh
  <2>5. tab'[bc_table_hash[h]] = BC_TABLE_SEARCH_POS
    BY <1>t, <2>4 DEF bc_table_reset
  <2>6. ASSUME NEW i \in 1 .. Len(idx'), idx'[i].size # 0
        PROVE  \/ tab'[bc_table_hash[idx'[i].hash]] = BC_TABLE_SEARCH_POS
               \/ /\ i \in 1 .. Len(idx) /\ idx[i].size # 0 /\ idx'[i].hash = idx[i].hash
                  /\ tab'[bc_table_hash[idx[i].hash]] = tab[bc_table_hash[idx[i].hash]]
    <3>1. CASE i = pos + 1
      BY <2>3, <2>5, <3>1
    <3>2. CASE i # pos + 1
      <4>1. i \in 1 .. Len(idx) /\ idx'[i] = idx[i]
        BY <2>2, <2>6, <3>2
      <4>2. idx[i].size # 0 /\ idx[i].hash \in Hash
        BY <1>h, <2>6, <4>1
      <4>. QED
        BY <1>r, <2>4, <4>1, <4>2
    <3>. QED
      BY <3>1, <3>2
  <2>. QED
    BY <1>t, <2>6, SoundWhenFewer
<1>4. ASSUME NEW h \in Hash, NEW d \in Payload, bc_append(h, d) PROVE TableSound'
  BY <1>3, <1>4, <1>t DEF bc_append, bc_idx_next
<1>5. ASSUME NEW pos \in Positions, NEW d \in Payload, WriteExisting(pos, d) PROVE TableSound'
  <2>1. idx' = [idx EXCEPT ![pos + 1].crc = shcrc32(d)] /\ tab' = tab
    BY <1>5 DEF WriteExisting
  <2>2. idx \in Seq(IdxRec \cup {BlankIdx}) /\ pos + 1 \in 1 .. Len(idx)
    BY <1>5, <1>t DEF WriteExisting, Filled, Positions, bc_idx_next, TypeOK
  <2>3. /\ Len(idx') = Len(idx)
        /\ \A i \in 1 .. Len(idx) : i # pos + 1 => idx'[i] = idx[i]
        /\ idx'[pos + 1] = [idx[pos + 1] EXCEPT !.crc = shcrc32(d)]
    BY <2>1, <2>2
  <2>4. idx[pos + 1] \in IdxRec
    BY <1>5, <1>b, <2>2 DEF WriteExisting, Filled
  <2>5. idx'[pos + 1].size = idx[pos + 1].size /\ idx'[pos + 1].hash = idx[pos + 1].hash
    BY <2>3, <2>4 DEF IdxRec
  <2>. QED
    BY <1>t, <2>1, <2>3, <2>5, SoundWhenFewer
<1>6. ASSUME NEW pos \in Positions, NEW h \in Hash, NEW d \in Payload, WriteFailed(pos, h, d)
      PROVE  TableSound'
  <2>1. \A i \in 1 .. Len(idx') : idx'[i].size # 0 => i \in 1 .. Len(idx) /\ idx'[i] = idx[i]
    <3>1. idx' = PutIdx(pos, BlankIdx)
      BY <1>6 DEF WriteFailed
    <3>. QED
      BY <1>t, <1>b, <3>1, PutIdxType
  <2>2. tab' = bc_table_reset(tab, h)
    BY <1>6 DEF WriteFailed
  <2>. QED
    BY <1>t, <1>h, <1>r, <2>1, <2>2, SoundWhenFewer
<1>7. ASSUME NEW pos \in Positions, bc_clear(pos) \/ bc_idx_clear(pos) PROVE TableSound'
  <2>1. \A i \in 1 .. Len(idx') : idx'[i].size # 0 => i \in 1 .. Len(idx) /\ idx'[i] = idx[i]
    BY <1>7, <1>t, <1>b DEF bc_clear, bc_idx_clear, Positions, TypeOK
  <2>2. tab' = tab
    BY <1>7 DEF bc_clear, bc_idx_clear
  <2>. QED
    BY <1>t, <2>1, <2>2, SoundWhenFewer
<1>8. ASSUME NEW pos \in Positions, bc_purge(pos) PROVE TableSound'
  <2>1. \A i \in 1 .. Len(idx') : idx'[i].size # 0 => i \in 1 .. Len(idx) /\ idx'[i] = idx[i]
    BY <1>8, <1>t, <1>b DEF bc_purge
  <2>2. idx[pos + 1].hash \in Hash
    BY <1>8, <1>t, <1>h DEF bc_purge, Filled, bc_idx_next, Positions
  <2>3. tab' = bc_table_reset(tab, idx[pos + 1].hash) \/ tab' = tab
    BY <1>8 DEF bc_purge
  <2>. QED
    BY <1>t, <1>h, <1>r, <2>1, <2>2, <2>3, SoundWhenFewer
<1>9. ASSUME UNCHANGED <<idx, tab>> PROVE TableSound'
  BY <1>9 DEF TableSound
<1>10. ASSUME NEW h \in Hash, NEW d \in Payload, bc_arch_write(h, d) PROVE TableSound'
  BY <1>9, <1>10 DEF bc_arch_write
<1>11. ASSUME bc_table_clear PROVE TableSound'
  BY <1>11, <1>t, <1>h DEF bc_table_clear, TableSound
<1>12. ASSUME UNCHANGED vars PROVE TableSound'
  BY <1>9, <1>12 DEF vars
<1>13. Positions \subseteq Nat
  BY BcAssumption DEF Positions
<1>. QED
  BY <1>1, <1>2, <1>3, <1>4, <1>5, <1>6, <1>7, <1>8, <1>10, <1>11, <1>12, <1>13 DEF Next

\* A slot marked empty has no record and a slot with a position bounds the positions
\* of its records, whatever lookups, clears, purges and failed writes do to it.
THEOREM TableAlwaysSound == Spec => []TableSound
<1>1. Init => TableSound
  BY DEF Init, TableSound
<1>2. TypeOK /\ TypeOK' /\ TableSound /\ [Next]_vars => TableSound'
  BY SoundStep
<1>. QED
  BY <1>1, <1>2, TypeCorrect, PTL DEF Spec

\* With a sound table, the bounded scan of a lookup sees every record with the hash.
LEMMA SoundMeansExact ==
    ASSUME TypeOK, TableSound
    PROVE  FindExact
<1> SUFFICES ASSUME NEW h \in Hash
             PROVE  bc_idx_find(h) =
                    Highest({i \in 0 .. bc_idx_next - 1 : Filled(i) /\ idx[i + 1].hash = h})
  BY DEF FindExact
<1> DEFINE A == {i \in 0 .. bc_idx_next - 1 : Filled(i) /\ idx[i + 1].hash = h}
           S == {i \in 0 .. ScanTop(h) : Filled(i) /\ idx[i + 1].hash = h}
           p == tab[bc_table_hash[h]]
<1>1. bc_idx_next = Len(idx) /\ Len(idx) \in Nat
  BY DEF TypeOK, bc_idx_next
<1>2. \A i \in A : p = BC_TABLE_SEARCH_POS \/ (p # BC_TABLE_NULL_POS /\ p >= i)
  <2> SUFFICES ASSUME NEW i \in A
               PROVE  p = BC_TABLE_SEARCH_POS \/ (p # BC_TABLE_NULL_POS /\ p >= i)
    OBVIOUS
  <2>1. i \in Int /\ i + 1 \in 1 .. Len(idx) /\ idx[i + 1].size # 0 /\ idx[i + 1].hash = h
    BY <1>1 DEF Filled
  <2>. QED
    BY <2>1 DEF TableSound
<1>3. CASE p = BC_TABLE_NULL_POS
  <2>1. A = {}
    BY <1>2, <1>3 DEF BC_TABLE_SEARCH_POS, BC_TABLE_NULL_POS
  <2>. QED
    BY <1>3, <2>1 DEF bc_idx_find, Highest
<1>4. CASE p # BC_TABLE_NULL_POS
  <2>1. /\ ScanTop(h) \in -1 .. Len(idx) - 1
        /\ ScanHint(h) # -1 => ScanTop(h) = ScanHint(h) /\ p = ScanHint(h)
        /\ ScanHint(h) = -1 => ScanTop(h) = Len(idx) - 1
    BY <1>1, <1>4, ScanTopRange
  <2>2. \A i \in A : i <= ScanTop(h)
    <3>1. CASE ScanHint(h) = -1
      BY <1>1, <2>1, <3>1
    <3>2. CASE ScanHint(h) # -1
      <4>1. p # BC_TABLE_SEARCH_POS
        BY <3>2 DEF ScanHint
      <4>. QED
        BY <1>2, <2>1, <3>2, <4>1
    <3>. QED
      BY <3>1, <3>2
  <2>3. A = S
    BY <1>1, <2>1, <2>2
  <2>4. ScanHit(h) = Highest(S)
    BY DEF ScanHit
  <2> HIDE DEF S, A
  <2>5. bc_idx_find(h) = Highest(A)
    BY <1>4, <2>3, <2>4 DEF bc_idx_find
  <2>. QED
    BY <2>5 DEF A
<1>. QED
  BY <1>3, <1>4

\* bc_find answers exactly what a scan of the whole index would, for every table
\* size, hash function, number of records and history of operations.
THEOREM LookupExact == Spec => []FindExact
<1>1. TypeOK /\ TableSound => FindExact
  BY SoundMeansExact
<1>. QED
  BY <1>1, TypeCorrect, TableAlwaysSound, PTL
=============================================================================
