------------------------------- MODULE Windows -------------------------------
(***************************************************************************)
(* How a coverage is split for validation, and what makes a result pass:   *)
(* harness/walk_forward.py and harness/cpcv.py, which their twins under    *)
(* options/ repeat.  Times are integers; a Sharpe ratio is in tenths,      *)
(* rounded away from zero.                                                 *)
(***************************************************************************)
EXTENDS Integers, Sequences, FiniteSets, FiniteSetsExt, SequencesExt

CONSTANTS
    OosPct,         \* least out-of-sample Sharpe, in percent of the in-sample one
    MedianSharpe,   \* median_sharpe_threshold, in tenths
    NegativePct     \* max_pct_paths_negative, in percent

ASSUME WindowsAssumption == {OosPct, MedianSharpe, NegativePct} \subseteq Nat

(* The windows whose test ends within the coverage, in their order: the     *)
(* training days from train to test, the test days from test to end.        *)
SplitWindows(start, end, train, test, roll) ==
    LET last == end - start - train - test
        at(i) == start + (i - 1) * roll
    IN  [i \in 1..(IF last < 0 THEN 0 ELSE 1 + last \div roll) |->
            [train |-> at(i), test |-> at(i) + train, end |-> at(i) + train + test]]

(* n intervals of the same width, one ending where the next one starts; the *)
(* times are n times as large, so that they are integers.                   *)
SplitFolds(start, end, n) ==
    [i \in 1..n |-> <<n * start + (i - 1) * (end - start), n * start + i * (end - start)>>]

(* A set put in order: the i-th element has i - 1 before it.                *)
InOrder(S, Before(_, _)) ==
    [i \in 1..Cardinality(S) |-> CHOOSE x \in S : Cardinality({y \in S : Before(y, x)}) = i - 1]

(* The choices of k out of n folds, each ascending, in lexicographic order. *)
Paths(n, k) ==
    LET before(S, T) == \E x \in S \ T : \A y \in T \ S : x < y
        combos == InOrder(kSubset(k, 1..n), before)
    IN  [i \in DOMAIN combos |-> InOrder(combos[i], <)]

-----------------------------------------------------------------------------
SumOf(s) == FoldSeq(LAMBDA x, y : x + y, 0, s)

(* A version that only looks at the ratio, and so at the size, of the two.  *)
WalkForwardPassesRatio(inSample, outOfSample) ==
    /\ SumOf(inSample) # 0
    /\ IF SumOf(inSample) > 0 THEN 100 * SumOf(outOfSample) >= OosPct * SumOf(inSample)
                              ELSE 100 * SumOf(outOfSample) <= OosPct * SumOf(inSample)

(* A walk-forward passes if it earned something on the training days and    *)
(* enough of that on the test days, on average over its windows.            *)
WalkForwardPasses(inSample, outOfSample) ==
    /\ SumOf(inSample) > 0
    /\ 100 * SumOf(outOfSample) >= OosPct * SumOf(inSample)

(* The n-th of the values from below. *)
Ranked(f, n) == CHOOSE v \in Range(f) : /\ Cardinality({i \in DOMAIN f : f[i] < v}) < n
                                        /\ n <= Cardinality({i \in DOMAIN f : f[i] <= v})

(* Twice the median. *)
TwiceMedian(f) == LET n == Cardinality(DOMAIN f)
                  IN  Ranked(f, (n + 1) \div 2) + Ranked(f, n \div 2 + 1)

(* The distribution is that of the paths with trades: [path -> Sharpe].     *)
CpcvPasses(sharpes) ==
    /\ DOMAIN sharpes # {}
    /\ TwiceMedian(sharpes) >= 2 * MedianSharpe
    /\ 100 * Cardinality({p \in DOMAIN sharpes : sharpes[p] < 0}) <= NegativePct * Cardinality(DOMAIN sharpes)
=============================================================================
