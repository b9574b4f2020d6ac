------------------------------ MODULE Watchlists ------------------------------
(***************************************************************************)
(* Watchlists (workbench/watchlist): lists of instruments and lists that   *)
(* follow a screener, in one document with the universes of the screeners, *)
(* which may name watchlists in their turn.  Names, times and the revision *)
(* of the followed screener are left out.  A call that is refused changes  *)
(* nothing and is no step.                                                 *)
(***************************************************************************)
EXTENDS Naturals, Sequences, FiniteSets, SequencesExt, Enumeration

CONSTANTS
  Instruments,
  Screeners,    \* the screeners of the workspace
  RunMatches,   \* the pinned runs of this load, each with its matches
  Selections,   \* bound: the instruments a call may name, repeats allowed
  MaxLists      \* bound: watchlist ids

ASSUME WatchlistsAssumption ==
  /\ MaxLists \in Nat /\ Selections \subseteq Seq(Instruments)
  /\ \A r \in DOMAIN RunMatches : RunMatches[r] \in Seq(Instruments)

VARIABLES
  desk,        \* the document: its watchlists and the universe of each screener
  deskBefore,  \* the document before the newest change, or NoDesk
  lastList,    \* the sequencer of this load
  heldRuns     \* the runs the store still holds

watchlistVars == <<desk, deskBefore, lastList, heldRuns>>

ListIds == 1..MaxLists
NoDesk == [lists |-> <<>>, universe |-> <<>>]
Manual == "manual"
Member(instrument, source) == [instrument |-> instrument, source |-> source]
Static(members) == [kind |-> "static", members |-> members]
Dynamic(screener) == [kind |-> "dynamic", screener |-> screener]
InstrumentsOf(members) == {m.instrument : m \in ToSet(members)}

-----------------------------------------------------------------------------
(* Which watchlists the universe of a screener reaches *)

Followed(doc, ids) ==
  {doc.lists[w].screener : w \in {v \in ids \intersect DOMAIN doc.lists :
                                    doc.lists[v].kind = "dynamic"}}

\* The screeners the walk comes to, each visited once: those in every set that
\* holds the first and whatever the lists of its universes follow.
Visited(doc, screener) ==
  {s \in Screeners : \A closed \in SUBSET Screeners :
     (screener \in closed /\ Followed(doc, UNION {doc.universe[t] : t \in closed}) \subseteq closed)
       => s \in closed}

\* Variant: the chain of other lists is not followed.
ReachesWatchlist_Direct(doc, screener, w) == w \in doc.universe[screener]

\* screenerReachesWatchlist: directly or through a chain of other lists.
ReachesWatchlist(doc, screener, w) ==
  \E s \in Visited(doc, screener) : w \in doc.universe[s]

-----------------------------------------------------------------------------
(* The members of a static list *)

\* The instruments of ids that are not among those known, each at its first place.
FirstOf(ids, known) ==
  Picked(ids, {i \in DOMAIN ids : ids[i] \notin known /\ \A j \in 1..i - 1 : ids[j] # ids[i]})

\* dedupeByInstrumentId, and the loop of buildStaticMembers.
Deduped(ids) == FirstOf(ids, {})

\* buildStaticMembers: who stays keeps the record it had.
BuildStaticMembers(ids, existing) ==
  LET distinct == Deduped(ids)
  IN  [i \in DOMAIN distinct |->
         IF distinct[i] \in InstrumentsOf(existing)
         THEN CHOOSE m \in ToSet(existing) : m.instrument = distinct[i]
         ELSE Member(distinct[i], Manual)]

\* asStaticBase
StaticBase(list) == IF list.kind = "static" THEN list.members ELSE <<>>

\* Variant: what is saved replaces the records of those already there.
AddMembers_Overwrites(members, ids, run) ==
  LET incoming == Deduped(ids)
  IN  SelectSeq(members, LAMBDA m : m.instrument \notin ToSet(incoming))
        \o [i \in DOMAIN incoming |-> Member(incoming[i], run)]

\* addMembers over toRunMembers: who is already there is left alone.
AddMembers(members, ids, run) ==
  LET new == FirstOf(ids, InstrumentsOf(members))
  IN  members \o [i \in DOMAIN new |-> Member(new[i], run)]

-----------------------------------------------------------------------------
(* The operations *)

\* A change: writeWatchlist or writeScreener, with the document before it as
\* the inverse.
Change(next) == desk' = next /\ deskBefore' = desk
WriteWatchlist(w, list) ==
  [desk EXCEPT !.lists = [v \in DOMAIN desk.lists \union {w} |->
                            IF v = w THEN list ELSE desk.lists[v]]]

\* watchlist.upsert without an id.  No cycle is looked for.
CreateWatchlist(list) ==
  /\ lastList < MaxLists
  /\ Change(WriteWatchlist(lastList + 1, list))
  /\ lastList' = lastList + 1
  /\ UNCHANGED heldRuns

\* watchlist.upsert of a static list, with its members or without.
SetMembers(w, ids) ==
  /\ w \in DOMAIN desk.lists
  /\ Change(WriteWatchlist(w, Static(BuildStaticMembers(ids, StaticBase(desk.lists[w])))))
  /\ UNCHANGED <<lastList, heldRuns>>

KeepMembers(w) ==
  /\ w \in DOMAIN desk.lists /\ desk.lists[w].kind = "static"
  /\ Change(WriteWatchlist(w, Static(desk.lists[w].members)))
  /\ UNCHANGED <<lastList, heldRuns>>

\* watchlist.upsert of a dynamic list that exists.
FollowScreener(w, screener) ==
  /\ w \in DOMAIN desk.lists
  /\ ~ReachesWatchlist(desk, screener, w)
  /\ Change(WriteWatchlist(w, Dynamic(screener)))
  /\ UNCHANGED <<lastList, heldRuns>>

\* Variant: the selection is not compared with the matches of the run.
SaveResults_AnyInstrument(w, run, ids, convertDynamic) ==
  /\ w \in DOMAIN desk.lists
  /\ desk.lists[w].kind = "dynamic" => convertDynamic
  /\ run \in heldRuns
  /\ Change(WriteWatchlist(w, Static(AddMembers(StaticBase(desk.lists[w]), ids, run))))
  /\ UNCHANGED <<lastList, heldRuns>>

\* watchlist.save_results: a selection of the matches, or all of them.
SaveResults(w, run, ids, convertDynamic) ==
  /\ w \in DOMAIN desk.lists
  /\ desk.lists[w].kind = "dynamic" => convertDynamic
  /\ run \in heldRuns
  /\ ToSet(ids) \subseteq ToSet(RunMatches[run])
  /\ Change(WriteWatchlist(w, Static(AddMembers(StaticBase(desk.lists[w]), ids, run))))
  /\ UNCHANGED <<lastList, heldRuns>>

\* set_screener_universe: only the index ids are looked up, so the universe
\* may name lists that follow this screener and lists that do not exist.
SetScreenerUniverse(screener, watchlists) ==
  /\ Change([desk EXCEPT !.universe[screener] = watchlists])
  /\ UNCHANGED <<lastList, heldRuns>>

\* undo_change of the newest record; undoing that brings the change back.
UndoWatchlistChange ==
  /\ deskBefore # NoDesk
  /\ desk' = deskBefore /\ deskBefore' = desk
  /\ UNCHANGED <<lastList, heldRuns>>

\* The run store drops a run for one of another screener.
EvictRun(run) ==
  /\ run \in heldRuns
  /\ heldRuns' = heldRuns \ {run}
  /\ UNCHANGED <<desk, deskBefore, lastList>>

\* createDefaultWatchlistDeps: the sequencer is seeded by watchlistIdSeed; the
\* change log and the pinned runs are gone.
ReloadWatchlists ==
  /\ lastList' = IF DOMAIN desk.lists = {} THEN 0
                 ELSE CHOOSE w \in DOMAIN desk.lists : \A v \in DOMAIN desk.lists : v <= w
  /\ deskBefore' = NoDesk /\ heldRuns' = {}
  /\ UNCHANGED desk

WatchlistsInit ==
  /\ desk = [lists |-> <<>>, universe |-> [s \in Screeners |-> {}]]
  /\ deskBefore = NoDesk /\ lastList = 0 /\ heldRuns = DOMAIN RunMatches

WatchlistsNext ==
  \/ \E ids \in Selections : CreateWatchlist(Static(BuildStaticMembers(ids, <<>>)))
  \/ \E screener \in Screeners : CreateWatchlist(Dynamic(screener))
  \/ \E w \in ListIds :
       \/ \E ids \in Selections : SetMembers(w, ids)
       \/ KeepMembers(w)
       \/ \E screener \in Screeners : FollowScreener(w, screener)
       \/ \E run \in DOMAIN RunMatches, ids \in Selections \union {RunMatches[r] : r \in DOMAIN RunMatches},
             convertDynamic \in BOOLEAN : SaveResults(w, run, ids, convertDynamic)
  \/ \E screener \in Screeners, watchlists \in SUBSET ListIds :
       SetScreenerUniverse(screener, watchlists)
  \/ UndoWatchlistChange
  \/ \E run \in DOMAIN RunMatches : EvictRun(run)
  \/ ReloadWatchlists

WatchlistsSpec == WatchlistsInit /\ [][WatchlistsNext]_watchlistVars

-----------------------------------------------------------------------------
(* Properties *)

\* A static list holds no instrument twice, and a member that names a run was
\* matched by that run, however lists were converted, replaced, saved to and
\* undone, and though the run itself may be gone.
MembersAreHonest ==
  \A w \in DOMAIN desk.lists : desk.lists[w].kind = "static" =>
    LET members == desk.lists[w].members
    IN  /\ Cardinality(InstrumentsOf(members)) = Len(members)
        /\ \A m \in ToSet(members) :
             m.source # Manual => m.instrument \in ToSet(RunMatches[m.source])

\* A member that stays keeps where it came from (buildStaticMembers: "a
\* re-supply of the same list must not reset a member's provenance";
\* addMembers: "its earlier source/addedAt is the truer provenance").
SourcesAreKept ==
  \A w \in DOMAIN desk.lists \intersect DOMAIN desk'.lists :
    (desk.lists[w].kind = "static" /\ desk'.lists[w].kind = "static") =>
      \A m \in ToSet(desk.lists[w].members), n \in ToSet(desk'.lists[w].members) :
        m.instrument = n.instrument => m.source = n.source

\* The lists that a dynamic list is made of, and those that are made, in the
\* end, of themselves: a set of lists closed under that holds them as well.
MadeOf(doc, w) ==
  IF w \in DOMAIN doc.lists /\ doc.lists[w].kind = "dynamic"
  THEN doc.universe[doc.lists[w].screener] ELSE {}
Loops(doc) ==
  {w \in DOMAIN doc.lists : \A closed \in SUBSET ListIds :
     (MadeOf(doc, w) \subseteq closed /\ \A v \in closed : MadeOf(doc, v) \subseteq closed)
       => w \in closed}

\* A list comes to depend on itself only by a change of a universe, by a new
\* list whose id a universe already names, or by an undo: never by an update
\* of a list (cycles.ts).  That it can at all is what set_screener_universe,
\* which checks no cycle, lets happen.
UpdatesMakeNoLoop ==
  [][\/ desk'.universe # desk.universe
     \/ DOMAIN desk'.lists # DOMAIN desk.lists
     \/ Loops(desk') \subseteq Loops(desk) \union Loops(deskBefore)]_watchlistVars

\* Members keep their source, and it is the true one.
MembersKeepTheirSource == [][MembersAreHonest' /\ SourcesAreKept]_watchlistVars
=============================================================================
