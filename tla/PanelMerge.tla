------------------------------ MODULE PanelMerge ------------------------------
(***************************************************************************)
(* The streaming merge of panel_append.py: merge_panel_parquet splices a   *)
(* delta into the stored panel one batch at a time and writes row groups   *)
(* of a fixed size.  The panel is sorted by (ticker, date); the pair is    *)
(* one number here, its place in that order.  A row remembers where it     *)
(* comes from: 0 for the stored panel, else its place in the delta.        *)
(***************************************************************************)
EXTENDS Integers, Sequences, SequencesExt, FiniteSetsExt, Enumeration

CONSTANTS
  MaxKey,        \* bound: distinct (ticker, date) pairs
  MaxIncoming,   \* bound: rows in a delta
  BatchSizes,    \* _MERGE_BATCH_ROWS: the values tried
  GroupRows      \* PANEL_ROW_GROUP_ROWS

ASSUME MergeAssumption ==
  /\ MaxKey \in Nat /\ MaxIncoming \in Nat /\ GroupRows \in Nat \ {0}
  /\ BatchSizes \subseteq Nat \ {0}

VARIABLES
  existing,   \* the keys of the stored panel
  incoming,   \* the keys of the delta as the provider gave them
  batchRows,
  read,       \* rows of the stored panel read so far
  cursor,     \* rows of the sorted delta merged so far
  buffered,   \* _Emitter: rows not written yet
  groups,     \* the row groups written
  done

mergeVars == <<existing, incoming, batchRows, read, cursor, buffered, groups, done>>

RowKeys == 1..MaxKey
Row(key, from) == [key |-> key, from |-> from]
StoredRows == LET keys == Ascending(existing) IN [i \in DOMAIN keys |-> Row(keys[i], 0)]

\* _delta_columns: sorted, and of two rows for one key the last wins.
DeltaColumns ==
  LET keys == Ascending(ToSet(incoming))
  IN  [i \in DOMAIN keys |-> Row(keys[i], Max({n \in DOMAIN incoming : incoming[n] = keys[i]}))]

\* _delta_upto: the delta rows up to and including the batch's last key
\* (variant: up to it).
DeltaUpto_Before(last) == Cardinality({i \in DOMAIN DeltaColumns : DeltaColumns[i].key < last})
DeltaUpto(last) == Cardinality({i \in DOMAIN DeltaColumns : DeltaColumns[i].key <= last})

\* _positions: where a key belongs among the rows of a batch, and whether it
\* lands on one of them.
Position(rows, key) == Cardinality({i \in DOMAIN rows : rows[i].key < key})
Collides(rows, key) == \E i \in DOMAIN rows : rows[i].key = key

\* _splice: rows a delta row lands on are dropped, and each delta row goes in
\* at its position less the rows dropped before it.  np.insert counts on by one
\* for each row put in before, and what is kept fills the other places in order.
Splice(rows, delta) ==
  LET dropped == {Position(rows, delta[n].key) :
                    n \in {m \in DOMAIN delta : Collides(rows, delta[m].key)}}
      keep == {i \in DOMAIN rows : i - 1 \notin dropped}
      insertAt(n) == LET p == Position(rows, delta[n].key) IN p - Rank(dropped, p)
      places == {insertAt(n) + n : n \in DOMAIN delta}
  IN  [i \in 1..Cardinality(keep) + Len(delta) |->
         IF i \in places THEN delta[CHOOSE n \in DOMAIN delta : insertAt(n) + n = i]
         ELSE rows[Ascending(keep)[i - Rank(places, i)]]]

\* _Emitter.add: whole groups are written, the rest stays buffered.
Emit(rows) ==
  LET all == buffered \o rows
      whole == Len(all) \div GroupRows
  IN  /\ groups' = groups \o [g \in 1..whole |-> SubSeq(all, (g - 1) * GroupRows + 1, g * GroupRows)]
      /\ buffered' = SubSeq(all, whole * GroupRows + 1, Len(all))

-----------------------------------------------------------------------------
MergeInit ==
  /\ existing \in SUBSET RowKeys
  /\ incoming \in UNION {[1..n -> RowKeys] : n \in 1..MaxIncoming}
  /\ batchRows \in BatchSizes
  /\ read = 0 /\ cursor = 0 /\ buffered = <<>> /\ groups = <<>> /\ done = FALSE

\* One batch of the stored panel with its share of the delta.
MergeBatch ==
  LET stop == Min({read + batchRows, Len(StoredRows)})
      upto == DeltaUpto(StoredRows[stop].key)
  IN  /\ read < Len(StoredRows)
      /\ Emit(Splice(SubSeq(StoredRows, read + 1, stop), SubSeq(DeltaColumns, cursor + 1, upto)))
      /\ read' = stop /\ cursor' = upto
      /\ UNCHANGED <<existing, incoming, batchRows, done>>

\* The delta rows past the last stored one, and the last group (close).
Finish ==
  LET all == buffered \o SubSeq(DeltaColumns, cursor + 1, Len(DeltaColumns))
      total == (Len(all) + GroupRows - 1) \div GroupRows
      group(g) == SubSeq(all, (g - 1) * GroupRows + 1, Min({g * GroupRows, Len(all)}))
  IN  /\ read = Len(StoredRows) /\ ~done
      /\ groups' = groups \o [g \in 1..total |-> group(g)]
      /\ buffered' = <<>> /\ done' = TRUE
      /\ UNCHANGED <<existing, incoming, batchRows, read, cursor>>

MergeNext == MergeBatch \/ Finish

MergeSpec == MergeInit /\ [][MergeNext]_mergeVars

-----------------------------------------------------------------------------
(* Properties *)

Written == Len(buffered) +
  (IF groups = <<>> THEN 0 ELSE (Len(groups) - 1) * GroupRows + Len(Last(groups)))

\* What the merge must give: every key of either side once and in order, the
\* row of the delta where it has one.
Merged == existing \union ToSet(incoming)
Reference ==
  [i \in 1..Cardinality(Merged) |->
     LET key == Ascending(Merged)[i]
     IN  Row(key, Max({n \in DOMAIN incoming : incoming[n] = key} \union {0}))]

\* The rows written at any moment are the beginning of the merged panel, so
\* no ticker-day is written twice, lost or out of order whatever the batch
\* boundaries ("a re-run session that duplicates a ticker-day silently shifts
\* every rolling window"); and row groups are full but for the last, however
\* the panel was batched, so the object is a function of its rows
\* ("byte-identical rather than merely equivalent").
MergedSoFar ==
  /\ Written <= Cardinality(Merged) /\ (done => Written = Cardinality(Merged))
  /\ \A g \in DOMAIN groups :
       /\ groups[g] # <<>> /\ (Len(groups[g]) = GroupRows \/ (done /\ g = Len(groups)))
       /\ \A i \in DOMAIN groups[g] : groups[g][i] = Reference[(g - 1) * GroupRows + i]
  /\ \A i \in DOMAIN buffered : buffered[i] = Reference[Len(groups) * GroupRows + i]
=============================================================================
