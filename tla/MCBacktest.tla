----------------------------- MODULE MCBacktest -----------------------------
(* One strategy of each class, with every stop, condition and adjustment;   *)
(* windows of any length over two sessions, prices 0..2.                    *)
EXTENDS Backtest

Fixed == [method |-> "fixed_ticks", ticks |-> 2]
Atr == [method |-> "atr_multiple", multiplier |-> 1, cap |-> 1]
Trail == {[multiplier |-> 1, activation |-> 0]}

Plain(class, params, values) ==
    [class |-> class, params |-> params, values |-> values, lag |-> 0,
     stop |-> Fixed, trail |-> {}, hold |-> 2, gates |-> {}, exits |-> {}]

Both == {1, -1}
Target == [condition |-> "r_multiple_target", multiple |-> 1]
Above(id) == [condition |-> "feature_threshold", id |-> id, op |-> "gt", threshold |-> 0]
Below(id) == [condition |-> "feature_threshold", id |-> id, op |-> "lt", threshold |-> 1]
Within(id) == [condition |-> "feature_range", id |-> id, lo |-> 1, hi |-> 2]
Early == [condition |-> "time_of_session", lo |-> 0, hi |-> 1]

MCStrategies == {
    Plain("stand_down", [most |-> 0], [idle |-> {0}]),
    [Plain("gated_entry", [most |-> 2, sides |-> {1}], [position |-> {0, 2}, atr |-> {1}])
        EXCEPT !.gates = {Early}, !.trail = Trail],
    [Plain("momentum_breakout", [most |-> 2, threshold |-> 0], [return |-> {0, 1}, atr |-> {NoValue, 1, 2}])
        EXCEPT !.stop = Atr, !.exits = {Below("return")}],
    [Plain("vwap_reversion", [most |-> 1, threshold |-> 1], [vwap |-> {NoValue, 2}])
        EXCEPT !.exits = {Target}, !.hold = 3],
    [Plain("gap_fill_fade", [most |-> 1, threshold |-> 50, sides |-> Both], [prior |-> {1}, atr |-> {1}])
        EXCEPT !.trail = {[multiplier |-> 1, activation |-> 1]}],
    [Plain("range_break_continuation", [most |-> 1, threshold |-> 1, buffer |-> 1, sides |-> Both],
           [upper |-> {1}, lower |-> {1}, volume |-> {0, 1}])
        EXCEPT !.gates = {Within("volume")}],
    Plain("range_break_fade", [most |-> 1, lookback |-> 2, buffer |-> 0, sides |-> Both],
          [upper |-> {NoValue, 1, 2}, lower |-> {1}]),
    [Plain("volume_spike_fade", [most |-> 2, threshold |-> 1, close |-> 75, sides |-> Both], [volume |-> {0, 1}])
        EXCEPT !.hold = 1],
    [Plain("volume_spike_fade", [most |-> 1, threshold |-> 1, close |-> 75, sides |-> Both], [volume |-> {0, 1}])
        EXCEPT !.lag = 1],
    [Plain("compression_breakout", [most |-> 1, threshold |-> 50, buffer |-> 1, sides |-> Both],
           [range |-> {0, 1}, atr |-> {1}])
        EXCEPT !.exits = {Above("range")}, !.lag = 1]
}
=============================================================================
