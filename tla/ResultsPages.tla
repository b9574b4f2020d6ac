---------------------------- MODULE ResultsPages ----------------------------
(***************************************************************************)
(* Reading a pinned run page by page (get_screener_results): a results     *)
(* panel bound to a run, the sort its table is configured with, and a      *)
(* caller that follows next_cursor from one page to the next while the     *)
(* panel may be re-bound or re-sorted and the run store may let runs go.   *)
(***************************************************************************)
EXTENDS Integers, Sequences, SequencesExt, FiniteSetsExt

CONSTANTS
    StoredRuns,         \* run id -> its matches in rank order, each [column -> number or NoNumber]
    NoNumber,           \* the null of a ranking value
    Sorts,              \* the sorts a panel is configured with, defaults filled in:
                        \* [key, direction, tieBreak, tieBreakDirection]
    Unsorted,
    PageSizes,          \* the page sizes asked for, MAX_PAGE_SIZE exceeded among them
    MAX_PAGE_SIZE,
    NoWalk

\* A run id is never empty, and a page size no call refuses is a count of rows.
\* A column has values of one type: a number stands for its place among them.
ASSUME ResultsPagesAssumption ==
    /\ "" \notin DOMAIN StoredRuns /\ MAX_PAGE_SIZE \in Nat
    /\ Unsorted \notin Sorts /\ PageSizes \subseteq Nat
    /\ \A r \in DOMAIN StoredRuns :
         /\ StoredRuns[r] \in Seq(Range(StoredRuns[r]))
         /\ \A s \in Sorts, i \in DOMAIN StoredRuns[r] :
              \A column \in {s.key, s.tieBreak} \ {"result_id"} :
                LET value == StoredRuns[r][i][column] IN value = NoNumber \/ value \in Int

VARIABLES
    boundRun,           \* the run the panel is bound to
    tableSort,          \* the sort in the panel's configuration
    kept,               \* the runs the store still holds
    walk                \* the caller's pages so far, or NoWalk

pagesVars == <<boundRun, tableSort, kept, walk>>

NoCursor == [runId |-> "", offset |-> 0]

-----------------------------------------------------------------------------
(* results/domain/projection.ts                                            *)

\* Nothing sorts after everything, whichever the direction.
Precedes(a, b, direction) ==
    /\ a # NoNumber
    /\ b = NoNumber \/ (IF direction = "asc" THEN a < b ELSE a > b)

\* By its result id a row compares as its rank.
ValueForCompare(matches, column, p) == IF column = "result_id" THEN p ELSE matches[p][column]

ByColumn(matches, column, direction, p, q) ==
    Precedes(ValueForCompare(matches, column, p), ValueForCompare(matches, column, q), direction)

ByKey(matches, sort, p, q) == ByColumn(matches, sort.key, sort.direction, p, q)
ByTieBreak(matches, sort, p, q) == ByColumn(matches, sort.tieBreak, sort.tieBreakDirection, p, q)

\* Rows that tie on the key are told apart by the tie-break, and then the sort
\* leaves them as they were.
RowBefore(matches, sort, p, q) ==
    \/ ByKey(matches, sort, p, q)
    \/ /\ ~ ByKey(matches, sort, q, p)
       /\ \/ ByTieBreak(matches, sort, p, q)
          \/ ~ ByTieBreak(matches, sort, q, p) /\ p < q

RowsBefore(matches, sort, p) == {q \in DOMAIN matches : RowBefore(matches, sort, q, p)}

\* A row is its result id: the run and the rank within it.
RowAt(matches, sort, k) ==
    IF sort = Unsorted THEN k
    ELSE CHOOSE p \in DOMAIN matches : Cardinality(RowsBefore(matches, sort, p)) = k - 1

ProjectResultRows(runId, sort) ==
    [k \in DOMAIN StoredRuns[runId] |->
        [runId |-> runId, rank |-> RowAt(StoredRuns[runId], sort, k)]]

-----------------------------------------------------------------------------
(* results/application/getScreenerResults.ts and results/domain/page.ts    *)

\* Variant: a cursor resumes at its offset whatever run it was cut from.
DecodeCursor_AnyRun(cursor, runId) == TRUE

DecodeCursor(cursor, runId) == cursor.runId = runId

NextCursor(runId, nextOffset, total) ==
    IF nextOffset < total THEN [runId |-> runId, offset |-> nextOffset] ELSE NoCursor

Slice(rows, offset, pageSize) == SubSeq(rows, offset + 1, Min({offset + pageSize, Len(rows)}))

\* The page at an offset of what the panel shows now.
PageRows(offset, pageSize) == Slice(ProjectResultRows(boundRun, tableSort), offset, pageSize)

Answers(pageSize) == pageSize <= MAX_PAGE_SIZE /\ boundRun \in kept

ReadFirst(pageSize) ==
    /\ Answers(pageSize)
    /\ LET rows == PageRows(0, pageSize)
       IN  walk' = [runId |-> boundRun, sort |-> tableSort, steady |-> TRUE, rows |-> rows,
                    next |-> NextCursor(boundRun, Len(rows), Len(StoredRuns[boundRun]))]
    /\ UNCHANGED <<boundRun, tableSort, kept>>

ReadNext(pageSize) ==
    /\ walk # NoWalk /\ walk.next # NoCursor
    /\ Answers(pageSize) /\ DecodeCursor(walk.next, boundRun)
    /\ LET rows == PageRows(walk.next.offset, pageSize)
       IN  walk' = [walk EXCEPT
                      !.rows = @ \o rows,
                      !.steady = @ /\ tableSort = walk.sort,
                      !.next = NextCursor(boundRun, walk.next.offset + Len(rows),
                                          Len(StoredRuns[boundRun]))]
    /\ UNCHANGED <<boundRun, tableSort, kept>>

\* bind_panel_source, configure_panel_view, and the run store's cap.
BindPanelSource(runId) == boundRun' = runId /\ UNCHANGED <<tableSort, kept, walk>>

ConfigurePanelView(sort) == tableSort' = sort /\ UNCHANGED <<boundRun, kept, walk>>

Evict(runId) == kept' = kept \ {runId} /\ UNCHANGED <<boundRun, tableSort, walk>>

PagesInit == boundRun \in DOMAIN StoredRuns /\ tableSort = Unsorted
             /\ kept = DOMAIN StoredRuns /\ walk = NoWalk

PagesNext ==
    \/ \E n \in PageSizes : ReadFirst(n) \/ ReadNext(n)
    \/ \E r \in DOMAIN StoredRuns : BindPanelSource(r) \/ Evict(r)
    \/ \E s \in Sorts \cup {Unsorted} : ConfigurePanelView(s)

PagesSpec == PagesInit /\ [][PagesNext]_pagesVars

-----------------------------------------------------------------------------
\* Pages tile the run: whatever happens to the panel meanwhile, a chain of cursors
\* shows rows of one run only and ends after exactly as many rows as the run has;
\* and while the table's sort is the one the first page was cut under, the pages
\* so far are the beginning of the sorted run -- every row once, in order, with
\* any mix of page sizes, rows without a value last.  (page.ts: "the cursor that
\* resumes a stable traversal"; a sort changed in between can repeat and skip rows.)
PagesTile ==
    walk # NoWalk =>
        /\ \A k \in DOMAIN walk.rows : walk.rows[k].runId = walk.runId
        /\ walk.next = NoCursor <=> Len(walk.rows) = Len(StoredRuns[walk.runId])
        /\ walk.steady =>
             /\ IsPrefix(walk.rows, ProjectResultRows(walk.runId, walk.sort))
             /\ walk.sort # Unsorted =>
                  \A p, q \in DOMAIN walk.rows :
                      p < q => LET v(k) == ValueForCompare(StoredRuns[walk.runId], walk.sort.key,
                                                          walk.rows[k].rank)
                               IN  v(p) = NoNumber => v(q) = NoNumber
=============================================================================
