------------------------------ MODULE ChartRead ------------------------------
(***************************************************************************)
(* Reading a chart's bars (workbench/chart/application/chartData.ts): one  *)
(* call of readChartData resolves its window against the chart's state,    *)
(* awaits the series and assembles an answer, while the chart may be       *)
(* configured anew.  A read that does not fit under the cap is refused,    *)
(* never shortened.                                                        *)
(*                                                                         *)
(* Time is counted in the finest bars.  What open, high, low, close and    *)
(* volume a bar shows is decided by the times it covers.                   *)
(***************************************************************************)
EXTENDS Integers, Sequences, SequencesExt, FiniteSetsExt, Enumeration

CONSTANTS
  MaxTime,   \* bound: the last time of the market
  Markets,   \* the sets of times the market traded at
  Widths,    \* TIMEFRAME_ORDER: the width of each timeframe, finest first
  Ranges,    \* the ranges a chart may be configured with, resolved
  Cap,       \* CHART_DATA_BAR_CAP
  Counts     \* bound: the counts a request may name

Times == 0..MaxTime
Timeframes == DOMAIN Widths
Window(start, end) == [start |-> start, end |-> end]

ASSUME ChartReadAssumption ==
  /\ MaxTime \in Nat /\ Cap \in Nat \ {0} /\ Counts \subseteq Nat
  /\ Markets \subseteq SUBSET Times
  /\ Widths \in Seq(Nat \ {0})
  /\ \A i, j \in DOMAIN Widths : i < j => Widths[i] < Widths[j]
  /\ \A r \in Ranges : r \in [start: Times, end: Times] /\ r.start <= r.end

VARIABLES
  market,   \* when the instrument traded
  config,   \* the chart's timeframe and range
  call,     \* the read in flight: its request and the state it resolved
  answer

readVars == <<market, config, call, answer>>

Configs == [timeframe: Timeframes, range: Ranges]
NoRequest == [form |-> "none"]
NoAnswer == [status |-> "none"]
Idle == [request |-> NoRequest]

\* 0 where a request does not aggregate.
Requests ==
  UNION {[form: {"visible_range"}, aggregateTo: Timeframes \union {0}],
         [form: {"explicit"}, start: Times, end: Times, aggregateTo: Timeframes \union {0}],
         [form: {"last_n_bars"}, lastNBars: Counts, aggregateTo: Timeframes \union {0}],
         [form: {"anchored"}, anchorTime: Times, barsBefore: Counts, barsAfter: Counts,
          aggregateTo: Timeframes \union {0}]}

-----------------------------------------------------------------------------
(* Bars *)

BucketKey(time, timeframe) == time \div Widths[timeframe]
Within(time, window) == window.start <= time /\ time <= window.end

\* ChartSeriesPort.fetchSeries: the source's own bars of a timeframe that
\* open inside the window, in order.  A bar is stamped with its first time.
FetchSeries(timeframe, window) ==
  LET coversOf(k) == {t \in market : BucketKey(t, timeframe) = k}
      keys == {k \in {BucketKey(t, timeframe) : t \in market} : Within(Min(coversOf(k)), window)}
      ordered == Ascending(keys)
  IN  [i \in DOMAIN ordered |->
        [time |-> Min(coversOf(ordered[i])), covers |-> coversOf(ordered[i]), sources |-> 1]]

\* The bars of the source behind some bars.
SourceCount(bars, places) == FoldSet(LAMBDA i, total : total + bars[i].sources, 0, places)

\* rollUp: neighbours with one key become one bar, stamped with the first.
RollUp(bars, timeframe) ==
  LET key(i) == BucketKey(bars[i].time, timeframe)
      opens == Ascending({i \in DOMAIN bars : i = 1 \/ key(i - 1) # key(i)})
      members(n) == {i \in DOMAIN bars :
                       opens[n] <= i /\ (n < Len(opens) => i < opens[n + 1])}
  IN  [n \in DOMAIN opens |->
        [time |-> bars[opens[n]].time,
         covers |-> UNION {bars[i].covers : i \in members(n)},
         sources |-> SourceCount(bars, members(n))]]

\* anchorIndex: the last bar at or before the anchor, or the first bar.
AnchorIndex(bars, anchorTime) ==
  Max({1} \union {i \in DOMAIN bars : bars[i].time <= anchorTime})

\* Variant of sliceForWindow: the count of bars before the anchor is taken
\* from the end of the slice.
SliceForWindow_Shifted(bars, request) ==
  CASE request.form = "last_n_bars" ->
         SubSeq(bars, Max({1, Len(bars) - request.lastNBars + 1}), Len(bars))
    [] request.form = "anchored" ->
         LET from == Max({1, AnchorIndex(bars, request.anchorTime) + 1 - request.barsBefore})
         IN  SubSeq(bars, from, Min({Len(bars), from + request.barsBefore + request.barsAfter}))
    [] OTHER -> bars

SliceForWindow(bars, request) ==
  CASE request.form = "last_n_bars" ->
         SubSeq(bars, Max({1, Len(bars) - request.lastNBars + 1}), Len(bars))
    [] request.form = "anchored" ->
         LET at == AnchorIndex(bars, request.anchorTime)
         IN  SubSeq(bars, Max({1, at - request.barsBefore}),
                    Min({Len(bars), at + request.barsAfter}))
    [] OTHER -> bars

\* Variant: the options are counted in bars of the source, width by width.
CoarserOptions_ByWidth(bars, from) ==
  LET count(to) == (Len(bars) * Widths[from] + Widths[to] - 1) \div Widths[to]
  IN  {o \in [timeframe: {to \in Timeframes : to > from}, barCount: 1..Cap] :
         o.barCount = count(o.timeframe)}

\* coarserOptions: the coarser timeframes under which the bars fit.
CoarserOptions(bars, from) ==
  {o \in [timeframe: {to \in Timeframes : to > from}, barCount: 1..Cap] :
     o.barCount = Len(RollUp(bars, o.timeframe))}

-----------------------------------------------------------------------------
(* The call *)

Refusal(reason) == [status |-> "refused", reason |-> reason]

\* validateWindowRequest
Malformed(request) ==
  \/ request.form = "explicit" /\ request.end < request.start
  \/ request.form = "last_n_bars" /\ request.lastNBars < 1

\* containmentIssue: only these two forms name times of their own.
OutsideRange(request, range) ==
  \/ request.form = "explicit" /\ ~(Within(request.start, range) /\ Within(request.end, range))
  \/ request.form = "anchored" /\ ~Within(request.anchorTime, range)

\* aggregationIssue
CannotAggregate(request, timeframe) ==
  request.aggregateTo # 0 /\ request.aggregateTo <= timeframe

Refused(request, state) ==
  Malformed(request) \/ OutsideRange(request, state.range)
    \/ CannotAggregate(request, state.timeframe)

\* What the source is asked for: the explicit window, or the chart's range.
FetchWindow(request, range) ==
  IF request.form = "explicit" THEN Window(request.start, request.end) ELSE range

\* Variant of assemble: the slice is taken before the roll-up.
Assemble_SliceFirst(request, state, series) ==
  LET timeframe == IF request.aggregateTo = 0 THEN state.timeframe ELSE request.aggregateTo
      sliced == SliceForWindow(series, request)
      kept == IF request.aggregateTo = 0 THEN sliced ELSE RollUp(sliced, request.aggregateTo)
  IN  IF Len(kept) > Cap
      THEN [status |-> "over_cap", count |-> Len(kept), options |-> CoarserOptions(kept, timeframe)]
      ELSE [status |-> "ok", timeframe |-> timeframe, bars |-> kept]

\* assemble: roll up, then slice, then hold the result against the cap.
Assemble(request, state, series) ==
  LET timeframe == IF request.aggregateTo = 0 THEN state.timeframe ELSE request.aggregateTo
      rolled == IF request.aggregateTo = 0 THEN series ELSE RollUp(series, request.aggregateTo)
      kept == SliceForWindow(rolled, request)
  IN  IF Len(kept) > Cap
      THEN [status |-> "over_cap", count |-> Len(kept), options |-> CoarserOptions(kept, timeframe)]
      ELSE [status |-> "ok", timeframe |-> timeframe, bars |-> kept]

\* readChartData up to its await: it resolves the chart's state once.
StartRead(request) ==
  /\ call = Idle /\ answer = NoAnswer
  /\ IF Refused(request, config)
     THEN answer' = Refusal("request") /\ UNCHANGED call
     ELSE call' = [request |-> request, state |-> config] /\ UNCHANGED answer
  /\ UNCHANGED <<market, config>>

\* The series arrives, or the source fails.
FinishRead ==
  /\ call # Idle /\ answer = NoAnswer
  /\ \/ answer' = Assemble(call.request, call.state,
                           FetchSeries(call.state.timeframe,
                                       FetchWindow(call.request, call.state.range)))
     \/ answer' = Refusal("series_unavailable")
  /\ UNCHANGED <<market, config, call>>

\* Another tool configures the chart while the series is on its way.
Configure(next) ==
  /\ call # Idle /\ answer = NoAnswer /\ config = call.state
  /\ config' = next
  /\ UNCHANGED <<market, call, answer>>

ReadInit == market \in Markets /\ config \in Configs /\ call = Idle /\ answer = NoAnswer
ReadNext == (\E r \in Requests : StartRead(r)) \/ FinishRead \/ (\E c \in Configs : Configure(c))
ReadSpec == ReadInit /\ [][ReadNext]_readVars

-----------------------------------------------------------------------------
(* Properties *)

Answered == answer.status = "ok"
Covered == UNION {b.covers : b \in ToSet(answer.bars)}

\* The times whose bar opens inside the window, by the chart's timeframe.
TimesOpeningIn(window) ==
  {t \in market : Within(Min({u \in market : BucketKey(u, call.state.timeframe)
                                               = BucketKey(t, call.state.timeframe)}), window)}

\* An answer is a run of the market without gaps and without repeats, in
\* order and under the cap, and it is all of what was asked for: every bar
\* of a named or visible window, the last n of the chart's range.  It counts
\* the bars it was made of, and describes one configuration of the chart.
\* ("refused rather than truncated, so you are never handed a shortened
\* series without knowing it".)
ReadsAreWhole ==
  Answered =>
    LET bars == answer.bars
        asked == TimesOpeningIn(FetchWindow(call.request, call.state.range))
        keys(times) == {BucketKey(Min({u \in asked : BucketKey(u, call.state.timeframe)
                                                      = BucketKey(t, call.state.timeframe)}),
                                  answer.timeframe) : t \in times}
    IN  /\ Len(bars) <= Cap
        /\ \A i \in DOMAIN bars :
             /\ Cardinality(bars[i].covers) > 0
             /\ i > 1 => Max(bars[i - 1].covers) < Min(bars[i].covers)
             /\ bars[i].sources =
                  Cardinality({BucketKey(t, call.state.timeframe) : t \in bars[i].covers})
        /\ bars # <<>> => Covered = {t \in asked : Min(Covered) <= t /\ t <= Max(Covered)}
        /\ Len(bars) = Cardinality(keys(Covered))
        /\ call.request.form \in {"explicit", "visible_range"} => Covered = asked
        /\ call.request.form = "last_n_bars" =>
             Len(bars) = Min({call.request.lastNBars, Cardinality(keys(asked))})
             /\ (asked # {} => Max(asked) \in Covered)

\* A read around an anchor holds the bar at the anchor, or the nearest one
\* before it ("an anchor that falls on a market holiday still resolves to
\* the nearest real bar instead of an empty slice").
AnchorInAnswer ==
  Answered /\ call.request.form = "anchored" =>
    LET upto == {t \in TimesOpeningIn(call.state.range) : t <= call.request.anchorTime}
    IN  upto # {} => Max(upto) \in Covered

\* A read over the cap names the aggregations that fit: asking for the same
\* window with one of them is answered, with as many bars as it said.  Of
\* windows given by times, read at the chart's own timeframe; a window given
\* by a count is counted anew after the roll-up.
RemedyFits ==
  answer.status = "over_cap" /\ call.request.aggregateTo = 0
    /\ call.request.form \in {"explicit", "visible_range"} =>
    \A o \in answer.options :
      LET retry == Assemble([call.request EXCEPT !.aggregateTo = o.timeframe], call.state,
                            FetchSeries(call.state.timeframe,
                                        FetchWindow(call.request, call.state.range)))
      IN  retry.status = "ok" /\ Len(retry.bars) = o.barCount

\* A read is answered whole, holds its anchor, or is refused with a way out.
ReadsHold == ReadsAreWhole /\ AnchorInAnswer /\ RemedyFits
=============================================================================
