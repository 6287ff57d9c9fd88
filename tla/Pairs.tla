-------------------------------- MODULE Pairs --------------------------------
(***************************************************************************)
(* The pair backtest of harness/pairs.py: two instruments, traded against  *)
(* each other when their spread's zscore is far out.  It reads the frames   *)
(* of FeatureServing: the bars of both, the zscore and the session position.*)
(***************************************************************************)
EXTENDS FeatureServing, SequencesExt

CONSTANTS
    Entry, Exit,        \* entry_threshold, exit_threshold, as RollingZscore gives them
    LongA,              \* whether the side is LONG_A_SHORT_B
    RthLow, RthHigh,    \* rth_lo, rth_hi, in percent
    MaxHolding,         \* max_holding_bars
    MaxAttempts         \* max_attempts_per_session

ASSUME PairAssumption == MaxHolding \in Nat \ {0} /\ MaxAttempts \in Nat

(* The panel: the times at which both have a bar and there is a zscore.  It *)
(* joins on the time of the rows, not on when they are served.              *)
Rows(f) == DOMAIN f.a \cap DOMAIN f.b \cap DOMAIN f.z
RowsBefore(f, t) == {u \in Rows(f) : u < t}

DateOf(t) == t \div Days
PairStart == [pending |-> FALSE, exit |-> FALSE, entry |-> {}, held |-> 0, attempts |-> 0, date |-> -1, trades |-> <<>>]

NewDate(s, t) == IF DateOf(t) = s.date THEN s ELSE [s EXCEPT !.attempts = 0, !.date = DateOf(t)]

(* A version that counts an attempt when it is over. *)
FillEntryUncounted(s, t) == IF ~s.pending THEN s
                            ELSE [s EXCEPT !.entry = {t}, !.held = 0, !.pending = FALSE]

(* A pending entry is filled at the open of the next row. *)
FillEntry(s, t) == IF ~s.pending THEN s
                   ELSE [s EXCEPT !.entry = {t}, !.held = 0, !.pending = FALSE, !.attempts = @ + 1]

(* What both legs make from the open of one row to a price of another. *)
Result(f, from, a, b) == LET gain == (a - f.a[from].open) - (b - f.b[from].open)
                         IN  IF LongA THEN gain ELSE - gain

CloseAt(f, s, t, column, why) ==
    LET from == Max(s.entry)
    IN  [s EXCEPT !.trades = Append(@, [entry |-> from, exit |-> t, held |-> s.held, why |-> why,
                                        pnl |-> Result(f, from, f.a[t][column], f.b[t][column])]),
                  !.entry = {}, !.exit = FALSE, !.held = 0]

FillExit(f, s, t) == IF s.exit /\ s.entry # {} THEN CloseAt(f, s, t, "open", "signal") ELSE s

Reverted(z) == IF LongA THEN z > - Exit ELSE z < Exit
FarOut(z) == IF LongA THEN z < - Entry ELSE z > Entry

MayEnter(f, s, t) == /\ s.attempts < MaxAttempts
                     /\ t \in DOMAIN f.position
                     /\ RthLow <= f.position[t].value /\ f.position[t].value <= RthHigh

DecidePair(f, s, t) ==
    LET z == f.z[t].value
    IN  IF s.entry # {} THEN [s EXCEPT !.held = @ + 1, !.exit = s.held + 1 >= MaxHolding \/ Reverted(z)]
        ELSE [s EXCEPT !.pending = MayEnter(f, s, t) /\ FarOut(z)]

OnRow(f, s, t) == DecidePair(f, FillExit(f, FillEntry(NewDate(s, t), t), t), t)

(* The loop of run_pairs_backtest: the state after each row. *)
AfterRow(f) ==
    LET after[t \in Rows(f)] ==
            OnRow(f, IF RowsBefore(f, t) = {} THEN PairStart ELSE after[Max(RowsBefore(f, t))], t)
    IN  after

(* A position that is left is closed at the last close. *)
RunPairs(f) ==
    LET last == Max(Rows(f))
        end == IF Rows(f) = {} THEN PairStart ELSE AfterRow(f)[last]
    IN  IF end.entry = {} THEN end.trades ELSE CloseAt(f, end, last, "close", "end").trades

-----------------------------------------------------------------------------
HasPair == {"bars", "other_bars", "zscore", "position"} \subseteq FeatureIds
PairFrames(moment) == [a |-> FromScratch("bars", moment), b |-> FromScratch("other_bars", moment),
                       z |-> FromScratch("zscore", moment), position |-> FromScratch("position", moment)]

(* However the zscore moves: no more entries in a day than attempts, no     *)
(* trade over more rows than MaxHolding, none that starts before the one    *)
(* before it has ended, and each decided on an earlier row, inside the      *)
(* hours and with the zscore far out, even if it is filled the day after    *)
(* (harness/pairs.py, the loop over the rows).                              *)
PairRulesHold ==
    HasPair => \A f \in {PairFrames(now)} :
        LET trades == RunPairs(f)
        IN  /\ \A date \in {DateOf(x.entry) : x \in ToSet(trades)} :
                   Cardinality({i \in DOMAIN trades : DateOf(trades[i].entry) = date}) <= MaxAttempts
            /\ \A i \in DOMAIN trades :
                   LET x == trades[i]  decided == Max(RowsBefore(f, x.entry))
                   IN  /\ x.held <= MaxHolding
                       /\ i > 1 => trades[i - 1].exit < x.entry
                       /\ FarOut(f.z[decided].value)
                       /\ RthLow <= f.position[decided].value /\ f.position[decided].value <= RthHigh
=============================================================================
