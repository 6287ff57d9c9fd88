-------------------------- MODULE MCFeatureServing --------------------------
(* Small registries, each with the features of one kind over two-moment bars. *)
EXTENDS Pairs

MCSessions == {[open |-> 0, close |-> 3], [open |-> 4, close |-> 7]}

MCCalendar == {[at |-> t, type |-> "fomc", importance |-> "high"] : t \in {2, 4}}

None == [cadence |-> 0]
Feature(transform, inputs, params) ==
    [transform |-> transform, inputs |-> inputs, params |-> params, latency |-> 1]
Live(transform, inputs, params) == [Feature(transform, inputs, params) EXCEPT !.latency = 0]
Of(column, window) == [column |-> column, window |-> window]
Bars(cadence) == Feature("resample_ohlcv", <<"ticks">>, [cadence |-> cadence])
Event(window, most) == [window |-> window, types |-> {"fomc"}, most |-> most]

Kinds == {
    [bars |-> Bars(1), returns |-> Feature("log_return", <<"bars">>, None),
     vol |-> Feature("rolling_realized_vol", <<"returns">>, Of("value", 2))],
    [bars |-> Bars(1), range |-> Feature("true_range", <<"bars">>, None),
     atr |-> Feature("rolling_mean", <<"range">>, Of("value", 2))],
    [bars |-> Bars(1), volume |-> Feature("rolling_zscore", <<"bars">>, Of("volume", 3))],
    [bars |-> Bars(1), coarse |-> Feature("resample_ohlcv_bars", <<"bars">>, [cadence |-> 2]),
     change |-> Feature("rolling_change", <<"coarse">>, Of("close", 1))],
    [bars |-> Bars(1), position |-> Feature("session_position", <<"bars">>, None),
     vwap |-> Feature("session_vwap", <<"bars">>, None)],
    [bars |-> Bars(1), high |-> Feature("opening_range_levels", <<"bars">>, Of("high", 2)),
     prior |-> Feature("prior_session_close", <<"bars">>, None)],
    [bars |-> Bars(1), next |-> Live("time_to_next_event", <<"events", "bars">>, Event(0, 3)),
     quiet |-> Live("event_window_flag", <<"events", "bars">>, Event(1, 0)),
     soon |-> Live("rolling_mean", <<"next">>, Of("value", 2))],
    [bars |-> Bars(1), since |-> Live("time_since_last_event", <<"events", "bars">>, Event(0, 3)),
     reaction |-> Live("event_reaction_return", <<"events", "bars">>, Event(2, 4))],
    [bars |-> Bars(2), close |-> Live("column_select", <<"bars">>, Of("close", 0)),
     rank |-> Live("rolling_percentile_rank", <<"close">>, Of("value", 2))]
}

Path(prices) == [t \in 0..5 |-> prices[t + 1]]
Paths == {Path(<<10, 20, 10, 10, 20, 10>>), Path(<<20, 0, 10, 20, 20, 10>>), Path(<<10, 20, 30, 0, 10, 20>>)}

(* Nothing is stored for the pair: its backtest is checked on every path. *)
PairRegistry == [bars |-> Bars(1), other_bars |-> Feature("resample_ohlcv", <<"other">>, [cadence |-> 1]),
                 ratio |-> Feature("two_series_ratio", <<"bars", "other_bars">>, None),
                 zscore |-> Feature("rolling_zscore", <<"ratio">>, Of("value", 2)),
                 position |-> Feature("session_position", <<"bars">>, None)]

MCSetups == {[registry |-> r, path |-> p, runs |-> 4] : r \in Kinds, p \in Paths}
            \cup {[registry |-> PairRegistry, path |-> p, runs |-> 0] : p \in [0..5 -> {0, 10, 20, 30}]}
=============================================================================
