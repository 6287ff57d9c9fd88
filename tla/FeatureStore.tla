---------------------------- MODULE FeatureStore ----------------------------
(***************************************************************************)
(* The feature pipeline over an archive that grows: raw rows are ingested, *)
(* features are computed from raw sources and from the stored features     *)
(* below them and replaced partition by partition (features/engine.py),    *)
(* audited (validate/) and served with a latency (registry/api.py,         *)
(* harness/data.py).  The variable registry is one registry of features,   *)
(* chosen at the start: [id -> [transform, inputs, params, latency]].      *)
(***************************************************************************)
EXTENDS Transforms, Sequences, SequencesExt

CONSTANTS
    Setups,         \* what to check: [registry, path, runs], a path being what
                    \* trades, [moment -> price], or 0 for a gap
    Calendar,       \* the events [at, type, importance] that may be announced
    Days,           \* length of a day, the unit of a partition
    Horizon,        \* bound: moments ingested
    MaxTears        \* bound: computations that are cut short

Sources == {"ticks", "other", "events"}

(* What a registry has: known transforms with their inputs, none below      *)
(* itself; prints of trades are only made into bars, and the events to come *)
(* are those of the calendar.                                               *)
Arity(transform) ==
    CASE transform \in {"resample_ohlcv", "resample_ohlcv_bars", "column_select", "log_return", "true_range",
                        "rolling_change", "rolling_mean", "rolling_realized_vol", "rolling_zscore",
                        "rolling_percentile_rank", "session_position", "session_vwap",
                        "opening_range_levels", "prior_session_close"} -> 1
      [] transform \in {"two_series_ratio", "event_window_flag", "time_since_last_event",
                        "time_to_next_event", "event_reaction_return"} -> 2
      [] OTHER -> 0

FeatureOk(f) ==
    /\ Arity(f.transform) > 0 /\ Len(f.inputs) = Arity(f.transform) /\ f.latency \in Nat
    /\ {"ticks", "other"} \cap ToSet(f.inputs) # {} => f.transform = "resample_ohlcv"
    /\ f.transform \in {"resample_ohlcv", "resample_ohlcv_bars"} => f.params.cadence \in Nat \ {0}
    /\ f.transform \in {"rolling_change", "opening_range_levels", "event_reaction_return"} => f.params.window \in Nat
    /\ f.transform \in {"event_window_flag", "time_to_next_event"} => f.inputs[1] = "events"

ASSUME RegistryAssumption ==
    \A registered \in {s.registry : s \in Setups} :
        LET ids == DOMAIN registered
        IN  /\ IsFiniteSet(ids) /\ ids \cap Sources = {}
            /\ \A f \in ids : FeatureOk(registered[f]) /\ registered[f].inputs \in Seq(Sources \cup ids)
            /\ \E rank \in [ids -> 0..Cardinality(ids)] :
                   \A f \in ids : \A i \in ToSet(registered[f].inputs) \cap ids : rank[i] < rank[f]

ASSUME CalendarAssumption == Horizon \in Nat /\ Days \in Nat \ {0} /\ \A event \in Calendar : event.at \in Nat

VARIABLES
    registry, path,
    now,        \* the ticks before now are ingested
    raw,        \* the sources: [source -> frame]
    store,      \* the features on disk: [feature -> frame]
    known,      \* history: what now was for the sources of a feature's rows
    torn,       \* history: features with a computation cut short in or below them
    runs, tears \* computations that are left, and those cut short

featureVars == <<registry, path, now, raw, store, known, torn, runs, tears>>

EmptyFrame == [t \in {} |-> 0]
WithRow(frame, t, row) == [s \in DOMAIN frame \cup {t} |-> IF s = t THEN row ELSE frame[s]]
FeatureIds == DOMAIN registry
InputsOf(f) == ToSet(registry[f].inputs)
UpTo(frame, t) == [s \in {u \in DOMAIN frame : u <= t} |-> frame[s]]

(* get_transform: the transform of a feature on its inputs. *)
Transformed(f, in) ==
    LET p == f.params
        id == f.transform
    IN  CASE id = "resample_ohlcv"          -> ResampleOhlcv(in[1], p.cadence)
          [] id = "resample_ohlcv_bars"     -> ResampleOhlcvBars(in[1], p.cadence)
          [] id = "column_select"           -> ColumnSelect(in[1], p.column)
          [] id = "log_return"              -> LogReturn(in[1], "close")
          [] id = "true_range"              -> TrueRange(in[1])
          [] id = "rolling_change"          -> RollingChange(in[1], p.column, p.window, "abs")
          [] id = "rolling_mean"            -> RollingMean(in[1], p.column, p.window)
          [] id = "rolling_realized_vol"    -> RollingRealizedVol(in[1], "value", p.window)
          [] id = "rolling_zscore"          -> RollingZscore(in[1], p.column, p.window)
          [] id = "rolling_percentile_rank" -> RollingPercentileRank(in[1], p.column, p.window)
          [] id = "two_series_ratio"        -> TwoSeriesRatio(in[1], in[2], "close")
          [] id = "session_position"        -> SessionPosition(in[1])
          [] id = "session_vwap"            -> SessionVwap(in[1])
          [] id = "opening_range_levels"    -> OpeningRangeLevels(in[1], p.column, p.window)
          [] id = "prior_session_close"     -> PriorSessionClose(in[1])
          [] id = "event_window_flag"       -> EventWindowFlag(in[1], in[2], p.window, p.window, {"high"})
          [] id = "time_since_last_event"   -> TimeSinceLastEvent(in[1], in[2], p.types, p.most)
          [] id = "time_to_next_event"      -> TimeToNextEvent(in[1], in[2], p.types, p.most)
          [] id = "event_reaction_return"   -> EventReactionReturn(in[1], in[2], p.types, p.window, p.most)

(* The transforms that look at events to come. *)
LooksAhead(f) == registry[f].transform \in {"event_window_flag", "time_to_next_event"}

-----------------------------------------------------------------------------
(* read_raw and read_feature fail on a frame without partitions. *)
Read(name) == IF name \in DOMAIN raw THEN raw[name] ELSE store[name]
Readable(name) == DOMAIN Read(name) # {}
Resolved(f) == [i \in DOMAIN registry[f].inputs |-> Read(registry[f].inputs[i])]

(* compute_feature_in_memory: from the stored inputs, all rows or those up to t. *)
InMemory(f) == Transformed(registry[f], Resolved(f))

Truncated(f, t) ==
    LET in == Resolved(f)
    IN  Transformed(registry[f], [i \in DOMAIN in |-> UpTo(in[i], t)])

-----------------------------------------------------------------------------
FeatureInit ==
        /\ \E s \in Setups : registry = s.registry /\ path = s.path /\ runs = s.runs
        /\ now = 0
        /\ raw = [s \in Sources |-> EmptyFrame]
        /\ store = [f \in FeatureIds |-> EmptyFrame]
        /\ known = [f \in FeatureIds |-> 0]
        /\ torn = {} /\ tears = 0

(* Ingestion of the next moment: a trade of each instrument, or a gap. *)
Ingest ==
    /\ now < Horizon
    /\ now' = now + 1
    /\ raw' = IF path[now] = 0 THEN raw
              ELSE [raw EXCEPT !["ticks"] = WithRow(@, now, [price |-> path[now], size |-> path[now]]),
                               !["other"] = WithRow(@, now, [price |-> 10, size |-> 1])]
    /\ UNCHANGED <<registry, path, store, known, torn, runs, tears>>

(* The calendar of events is a source too; an event is there before it happens. *)
Announce(event) ==
    /\ \E f \in FeatureIds : "events" \in InputsOf(f)
    /\ event.at > now /\ event.at \notin DOMAIN raw["events"]
    /\ raw' = [raw EXCEPT !["events"] = WithRow(@, event.at, event)]
    /\ UNCHANGED <<registry, path, now, store, known, torn, runs, tears>>

(* compute_feature: the old partitions are deleted, then the new ones are   *)
(* written day by day.  A computation that is cut short leaves the first.   *)
Materialize(f, days) ==
    LET out == InMemory(f)
        written == {t \in DOMAIN out : t \div Days < days}
        cut == IF written = DOMAIN out THEN 0 ELSE 1
    IN  /\ runs > 0 /\ tears + cut <= MaxTears
        /\ \A i \in InputsOf(f) : Readable(i)
        /\ store' = [store EXCEPT ![f] = [t \in written |-> out[t]]]
        /\ known' = [known EXCEPT ![f] = Min({now} \cup {known[i] : i \in InputsOf(f) \cap FeatureIds})]
        /\ torn' = IF cut = 1 \/ InputsOf(f) \cap torn # {} THEN torn \cup {f} ELSE torn \ {f}
        /\ runs' = runs - 1 /\ tears' = tears + cut
        /\ UNCHANGED <<registry, path, now, raw>>

FeatureNext ==
    \/ Ingest
    \/ \E event \in Calendar : Announce(event)
    \/ \E f \in FeatureIds, days \in 0..(Horizon \div Days + 2) : Materialize(f, days)

FeatureSpec == FeatureInit /\ [][FeatureNext]_featureVars
=============================================================================
