--------------------------- MODULE Research_proofs ---------------------------
(***************************************************************************)
(* Theorems of the auto-test orchestrator (AutoTest) and of the options     *)
(* backtests (OptionsResearch), for all values of the constants.            *)
(***************************************************************************)
EXTENDS OptionsResearch, AutoTest, Sums_proofs

-----------------------------------------------------------------------------
(* The folds of the community modules are totals. *)
LEMMA SumOfIsTotal ==
    ASSUME NEW s
    PROVE  SumOf(s) = Total(s, DOMAIN s)
BY DEF SumOf, FoldSeq, FoldFunction, FoldFunctionOnSet, MapThenFoldSet, Total, FoldOf, IsFold, FirstOf, Rest

LEMMA SumIsInteger ==
    ASSUME NEW s, IsFiniteSet(DOMAIN s), \A i \in DOMAIN s : s[i] \in Int
    PROVE  SumOf(s) \in Int
BY SumOfIsTotal, TotalRules

(* A list that is not empty has a nearest member. *)
LEMMA NearestIsListed ==
    ASSUME NEW n \in Int, NEW S \in SUBSET Int, S # {}
    PROVE  Nearest(n, S) \in S
<1> DEFINE away == {Distance(n, x) : x \in S}
<1>0. \A x \in S : x \in Int /\ Distance(n, x) \in Nat
  BY DEF Distance
<1>1. away \in SUBSET Nat /\ away # {}
  BY <1>0
<1>2. PICK d \in away : \A e \in away : ~(e < d)
  BY <1>1, LeastNumber
<1>3. PICK m \in S : d = Distance(n, m)
  BY <1>2
<1>4. \A x \in S : Distance(n, m) <= Distance(n, x)
  BY <1>0, <1>2, <1>3
<1> QED BY <1>4 DEF Nearest

-----------------------------------------------------------------------------
(* The auto-test.                                                           *)

Outcomes == {"validation_failed", "error", "passed", "discarded_at_sanity",
             "discarded_at_walk_forward", "discarded_at_holdout"}
Asked == [walk : BOOLEAN, holdout : Nat]
Readings == [{"walk_forward", "holdout"} -> SUBSET Int]
Records == [id : SpecIds, content : Content, outcome : Outcomes, options : Asked,
            years : 1..MaxYears, siblings : 0..Budget, read : Readings]

AutoTestTypes ==
    /\ quality \in [Content -> Qualities] /\ years \in 1..MaxYears
    /\ log \in Seq(Records)
    /\ pc \in {"idle", "failures", "sanity", "walk_forward", "holdout"}
    /\ options \in Asked
    /\ failed \in Seq(Specs) /\ todo \in Seq(Specs)
    /\ nTested \in 0..Budget /\ pool \subseteq SpecIds /\ runs \in Nat
    /\ start \in Nat /\ generated \in Nat
    /\ read \in Readings

(* Where a walk-forward ends, the windows up to there, the years they read, *)
(* and what the backtests of a content say of them to a run that tests n    *)
(* variants on y years.                                                     *)
EndOf(asked, y) == y - asked.holdout
WindowsTo(e) == SplitWindows(0, e, TrainYears, TestYears, RollYears)
YearsTo(e) == UNION {YearsOf(w.train, w.end) : w \in Range(WindowsTo(e))}
ReadTo(e) == [Unread EXCEPT !["walk_forward"] = YearsTo(e)]
SharpeOf(spec, from, to) == (60 * SumOf([y \in 1..(to - from) |-> spec.gains[from + y]])) \div (to - from)
InSampleOf(spec, e) ==
    [i \in DOMAIN WindowsTo(e) |-> SharpeOf(spec, WindowsTo(e)[i].train, WindowsTo(e)[i].test)]
OutOfSampleOf(spec, e) ==
    [i \in DOMAIN WindowsTo(e) |-> SharpeOf(spec, WindowsTo(e)[i].test, WindowsTo(e)[i].end)]
TradesIn(spec, y) == SumOf([k \in 1..y |-> spec.trades[k]])
Earns(spec, e, n, y) ==
    /\ WalkForwardPasses(InSampleOf(spec, e), OutOfSampleOf(spec, e))
    /\ MakesUpFor(n, TradesIn(spec, y), SumOf(InSampleOf(spec, e)) - MinSharpe * Len(InSampleOf(spec, e)),
                  Len(InSampleOf(spec, e)))

(* What there is left to do fits what the process does. *)
AutoTestPhases ==
    /\ pc = "idle" => failed = <<>> /\ todo = <<>>
    /\ pc = "failures" => failed # <<>>
    /\ pc \in {"sanity", "walk_forward", "holdout"} => failed = <<>> /\ todo # <<>>
    /\ pc = "walk_forward" => options.walk
    /\ pc = "holdout" => /\ options.walk
                        /\ WindowsTo(EndOf(options, years)) # <<>>
                        /\ Earns(quality[Head(todo).content], EndOf(options, years), nTested, years)
                        /\ read = ReadTo(EndOf(options, years))
    /\ pc # "holdout" => read = Unread

AutoTestSound == AutoTestTypes /\ AutoTestPhases

(* The budget also covers the variants that are still to come. *)
WithinBudget == start + generated <= Budget /\ start <= Len(log)

Accounted == EveryVariantAccounted /\ WithinBudget

(* What a record says was so: the years it read lie on their side of the    *)
(* holdout's first, and a verdict on the walk-forward is that of the        *)
(* windows whose years it read.                                             *)
SaysWhatWas(spec, r) ==
    /\ \A y \in r.read["walk_forward"] : y <= r.years - r.options.holdout
    /\ \A y \in r.read["holdout"] : y > r.years - r.options.holdout
    /\ r.outcome = "discarded_at_walk_forward"
          => \E e \in Int : /\ WindowsTo(e) # <<>> /\ e <= MaxYears /\ r.read["walk_forward"] = YearsTo(e)
                           /\ ~Earns(spec, e, r.siblings, r.years)
    /\ r.outcome = "passed" /\ r.options.walk
          => \E e \in Int : /\ WindowsTo(e) # <<>> /\ e <= MaxYears /\ r.read["walk_forward"] = YearsTo(e)
                           /\ Earns(spec, e, r.siblings, r.years)

LogSound ==
    /\ \A i \in DOMAIN log : log[i].years <= years /\ SaysWhatWas(quality[log[i].content], log[i])
    /\ \A i, j \in DOMAIN log : i <= j => log[i].years <= log[j].years

-----------------------------------------------------------------------------
LEMMA LeastOf ==
    ASSUME NEW a \in Int, NEW b \in Int
    PROVE  Min({a, b}) \in {a, b} /\ Min({a, b}) <= a /\ Min({a, b}) <= b
<1> DEFINE P(x) == x \in {a, b} /\ \A y \in {a, b} : x <= y
<1>1. Min({a, b}) = CHOOSE x \in {a, b} : \A y \in {a, b} : x <= y
  BY DEF Min
<1>2. CASE a <= b
  <2>1. a \in {a, b} /\ \A y \in {a, b} : a <= y BY <1>2
  <2> QED BY <1>1, <2>1
<1>3. CASE b <= a
  <2>1. b \in {a, b} /\ \A y \in {a, b} : b <= y BY <1>3
  <2> QED BY <1>1, <2>1
<1> QED BY <1>2, <1>3

(* The variants of a run are each failed or run, and no more than remain.   *)
LEMMA VariantsOfARun ==
    ASSUME AutoTestTypes, Len(log) < Budget, NEW given \in SeqOf(Specs, MaxSpecs),
           NEW t \in InTheirOrder(Survivors(Generated(given))),
           NEW f \in InTheirOrder(DOMAIN Generated(given) \ Survivors(Generated(given)))
    PROVE  LET specs == Generated(given)
           IN  /\ At(specs, t) \in Seq(Specs) /\ At(specs, f) \in Seq(Specs)
               /\ Len(At(specs, f)) + Len(At(specs, t)) = Len(specs)
               /\ Len(specs) \in Nat /\ Len(log) + Len(specs) <= Budget
               /\ Len(At(specs, t)) \in 0..Budget
<1> DEFINE specs == Generated(given)
           kept == Survivors(specs)
           n == Min({Remaining, Len(given)})
<1>0. given \in Seq(Specs)
  <2>1. \A m \in Nat : [1..m -> Specs] \subseteq Seq(Specs)
    OBVIOUS
  <2>2. PICK m \in 0..MaxSpecs : given \in [1..m -> Specs]
    BY DEF SeqOf
  <2> QED BY <2>1, <2>2
<1>1. Remaining \in Nat /\ Len(given) \in Nat /\ Len(log) \in Nat /\ Remaining = Budget - Len(log) /\ Budget \in Nat
  <2>1. Len(log) \in Nat /\ Len(given) \in Nat
    BY <1>0 DEF AutoTestTypes
  <2> QED BY <2>1, AutoTestAssumption DEF Remaining
<1>2. n \in {Remaining, Len(given)} /\ n <= Remaining /\ n <= Len(given)
  <2> DEFINE a == Remaining
             b == Len(given)
  <2>1. a \in Int /\ b \in Int BY <1>1
  <2> HIDE DEF a, b
  <2>2. Min({a, b}) \in {a, b} /\ Min({a, b}) <= a /\ Min({a, b}) <= b
    BY <2>1, LeastOf
  <2> QED BY <2>2 DEF a, b
<1>3. n \in Nat
  BY <1>1, <1>2
<1>4. specs \in Seq(Specs) /\ Len(specs) = n /\ DOMAIN specs = 1..n
  <2>1. specs = SubSeq(given, 1, n)
    BY DEF Generated
  <2> HIDE DEF n, specs
  <2>2. specs = [i \in 1..n |-> given[i]]
    BY <1>0, <1>2, <1>3, <2>1
  <2>3. \A i \in 1..n : given[i] \in Specs
    BY <1>0, <1>2, <1>3
  <2> QED BY <1>3, <2>2, <2>3
<1> HIDE DEF n, specs
<1>5. IsFiniteSet(DOMAIN specs) /\ Cardinality(DOMAIN specs) = n
  BY <1>3, <1>4, FS_Interval
<1>6. kept \subseteq DOMAIN specs
  BY DEF Survivors
<1> HIDE DEF kept
<1>7. /\ Cardinality(kept) \in Nat /\ Cardinality(DOMAIN specs \ kept) \in Nat
      /\ Cardinality(DOMAIN specs \ kept) = Cardinality(DOMAIN specs) - Cardinality(kept)
  <2>1. IsFiniteSet(kept) /\ IsFiniteSet(DOMAIN specs \ kept)
    BY <1>5, <1>6, FS_Subset
  <2>2. DOMAIN specs \cap kept = kept
    BY <1>6
  <2> QED BY <1>5, <2>1, <2>2, FS_Difference, FS_CardinalityType
<1>8. ASSUME NEW T \in SUBSET DOMAIN specs, Cardinality(T) \in Nat, NEW s \in InTheirOrder(T)
      PROVE  At(specs, s) \in Seq(Specs) /\ Len(At(specs, s)) = Cardinality(T)
  <2> DEFINE k == Cardinality(T)
  <2>1. s \in [1..k -> T]
    BY DEF InTheirOrder
  <2>2. \A i \in 1..k : specs[s[i]] \in Specs
    BY <1>4, <2>1
  <2>3. At(specs, s) = [i \in 1..k |-> specs[s[i]]]
    BY <2>1 DEF At
  <2>4. k \in Nat
    BY <1>8
  <2> HIDE DEF k
  <2> QED BY <2>2, <2>3, <2>4 DEF k
<1>9. /\ At(specs, t) \in Seq(Specs) /\ Len(At(specs, t)) = Cardinality(kept)
      /\ At(specs, f) \in Seq(Specs) /\ Len(At(specs, f)) = Cardinality(DOMAIN specs \ kept)
  <2>1. t \in InTheirOrder(kept) /\ f \in InTheirOrder(DOMAIN specs \ kept)
    BY DEF kept, specs
  <2> QED BY <1>6, <1>7, <1>8, <2>1
<1>10. Len(log) + n <= Budget
  BY <1>1, <1>2, <1>3
<1>11. Len(At(specs, t)) \in 0..Budget
  BY <1>1, <1>3, <1>5, <1>7, <1>9, <1>10
<1> QED BY <1>3, <1>4, <1>5, <1>7, <1>9, <1>10, <1>11 DEF specs

(* The windows follow each other and end within the data. *)
LEMMA WindowsFit ==
    ASSUME NEW e \in Int
    PROVE  \E n \in Nat :
               /\ WindowsTo(e) = [i \in 1..n |-> [train |-> (i - 1) * RollYears,
                                                 test |-> (i - 1) * RollYears + TrainYears,
                                                 end |-> (i - 1) * RollYears + TrainYears + TestYears]]
               /\ \A i \in 1..n : /\ (i - 1) * RollYears \in Nat
                                  /\ (i - 1) * RollYears + TrainYears + TestYears <= e
<1> DEFINE last == e - TrainYears - TestYears
           n == IF last < 0 THEN 0 ELSE 1 + last \div RollYears
<1>1. RollYears \in Nat \ {0} /\ TrainYears \in Nat /\ TestYears \in Nat
  BY AutoTestAssumption
<1>2. last \in Int /\ e - 0 - TrainYears - TestYears = last
  BY <1>1
<1>3. WindowsTo(e) = [i \in 1..n |-> [train |-> 0 + (i - 1) * RollYears,
                                     test |-> 0 + (i - 1) * RollYears + TrainYears,
                                     end |-> 0 + (i - 1) * RollYears + TrainYears + TestYears]]
  BY <1>2 DEF WindowsTo, SplitWindows
<1>4. ASSUME NEW a \in Nat, NEW b \in Nat \ {0} PROVE a \div b \in Nat /\ b * (a \div b) <= a
  OBVIOUS
<1>5. ASSUME NEW a \in Nat, NEW b \in Nat, NEW c \in Nat, a <= c PROVE a * b \in Nat /\ a * b <= b * c
  <2>1. c - a \in Nat /\ b * (c - a) \in Nat /\ a * b \in Nat
    BY <1>5
  <2>2. b * c = b * a + b * (c - a)
    OBVIOUS
  <2>3. b * a = a * b
    OBVIOUS
  <2> QED BY <2>1, <2>2, <2>3
<1> DEFINE q == last \div RollYears
<1>6. CASE last < 0
  <2>1. n = 0 BY <1>6
  <2>2. 1..0 = {} OBVIOUS
  <2> QED BY <1>3, <2>1, <2>2
<1>7. CASE ~(last < 0)
  <2>1. last \in Nat BY <1>2, <1>7
  <2>2. q \in Nat /\ RollYears * q <= last BY <1>1, <1>4, <2>1
  <2>3. n = 1 + q BY <1>7
  <2> HIDE DEF q, n
  <2>4. ASSUME NEW i \in 1..n
        PROVE  (i - 1) * RollYears \in Nat /\ (i - 1) * RollYears + TrainYears + TestYears <= e
    <3>1. i - 1 \in Nat /\ i - 1 <= q BY <2>2, <2>3
    <3> DEFINE x == (i - 1) * RollYears
               y == RollYears * q
    <3>2. x \in Nat /\ x <= y BY <1>1, <1>5, <2>2, <3>1
    <3>3. y \in Int BY <1>1, <2>2
    <3>4. y <= last BY <2>2
    <3> HIDE DEF x, y
    <3>5. x + TrainYears + TestYears <= e BY <1>1, <3>2, <3>3, <3>4
    <3> QED BY <3>2, <3>5 DEF x
  <2>5. n \in Nat BY <2>2, <2>3
  <2>6. WindowsTo(e) = [i \in 1..n |-> [train |-> (i - 1) * RollYears,
                                       test |-> (i - 1) * RollYears + TrainYears,
                                       end |-> (i - 1) * RollYears + TrainYears + TestYears]]
    <3>1. \A i \in 1..n : 0 + (i - 1) * RollYears = (i - 1) * RollYears
      BY <2>4
    <3> QED BY <1>3, <3>1
  <2> QED BY <2>4, <2>5, <2>6
<1> QED BY <1>6, <1>7

LEMMA YearsFit ==
    ASSUME NEW e \in Int
    PROVE  /\ YearsTo(e) \in SUBSET Int
           /\ \A y \in YearsTo(e) : 0 < y /\ y <= e
           /\ ReadTo(e) \in Readings
           /\ ReadTo(e)["walk_forward"] = YearsTo(e) /\ ReadTo(e)["holdout"] = {}
<1>1. PICK n \in Nat :
           /\ WindowsTo(e) = [i \in 1..n |-> [train |-> (i - 1) * RollYears,
                                             test |-> (i - 1) * RollYears + TrainYears,
                                             end |-> (i - 1) * RollYears + TrainYears + TestYears]]
           /\ \A i \in 1..n : /\ (i - 1) * RollYears \in Nat
                              /\ (i - 1) * RollYears + TrainYears + TestYears <= e
  BY WindowsFit
<1>2. TrainYears \in Nat /\ TestYears \in Nat BY AutoTestAssumption
<1>3. ASSUME NEW y \in YearsTo(e) PROVE y \in Int /\ 0 < y /\ y <= e
  <2>1. PICK i \in 1..n : y \in YearsOf(WindowsTo(e)[i].train, WindowsTo(e)[i].end)
    BY <1>1 DEF YearsTo, Range
  <2> DEFINE x == (i - 1) * RollYears
  <2>2. y \in (x + 1)..(x + TrainYears + TestYears)
    BY <1>1, <2>1 DEF YearsOf
  <2>3. x \in Nat /\ x + TrainYears + TestYears <= e
    BY <1>1
  <2> HIDE DEF x
  <2> QED BY <1>2, <2>2, <2>3
<1> QED BY <1>3 DEF ReadTo, Readings, Unread

(* What the model computes of the current variant. *)
LEMMA WhatTheWalkSees ==
    ASSUME AutoTestTypes, todo # <<>>, read = Unread
    PROVE  /\ WalkWindows = WindowsTo(EndOf(options, years))
           /\ WalkForwardOk <=> Earns(quality[Head(todo).content], EndOf(options, years), nTested, years)
           /\ ReadWalking = ReadTo(EndOf(options, years))
           /\ EndOf(options, years) \in Int /\ EndOf(options, years) <= MaxYears
<1> DEFINE e == EndOf(options, years)
           spec == quality[Head(todo).content]
<1>0. e = WalkForwardEnd /\ e \in Int /\ e <= MaxYears
  <2>1. years \in 1..MaxYears /\ MaxYears \in Nat /\ options.holdout \in Nat
    BY AutoTestAssumption DEF AutoTestTypes, Asked
  <2> QED BY <2>1 DEF EndOf, WalkForwardEnd
<1>1. WalkWindows = WindowsTo(e)
  BY <1>0 DEF WalkWindows, WindowsTo
<1> HIDE DEF e
<1>2. InSample = InSampleOf(spec, e)
  BY <1>1 DEF InSample, InSampleOf, SharpeOn, SharpeOf, Quality
<1>3. OutOfSample = OutOfSampleOf(spec, e)
  BY <1>1 DEF OutOfSample, OutOfSampleOf, SharpeOn, SharpeOf, Quality
<1>4. TradesOf(Head(todo).content, years) = TradesIn(spec, years)
  BY DEF TradesOf, TradesIn
<1>5. WalkForwardOk <=> Earns(spec, e, nTested, years)
  BY <1>2, <1>3, <1>4 DEF WalkForwardOk, Earns, ClearsThreshold, Corrected
<1>6. ReadWalking = ReadTo(e)
  BY <1>1 DEF ReadWalking, ReadTo, YearsTo
<1> QED BY <1>0, <1>1, <1>5, <1>6 DEF e

(* A verdict, or an error, leaves a record and the next variant. *)
LEMMA ConcludeSound ==
    ASSUME AutoTestSound, failed = <<>>, todo # <<>>,
           NEW outcome \in Outcomes, NEW reads \in Readings, Conclude(outcome, reads),
           UNCHANGED <<quality, years, runs, start, generated>>
    PROVE  AutoTestSound'
<1> USE DEF AutoTestSound, AutoTestTypes
<1>1. Head(todo) \in Specs /\ Tail(todo) \in Seq(Specs)
  BY HeadTailProperties
<1>2. Head(todo).id \in SpecIds /\ Head(todo).content \in Content
  BY <1>1 DEF Specs
<1>3. log' \in Seq(Records)
  <2> DEFINE r == [id |-> Head(todo).id, content |-> Head(todo).content, outcome |-> outcome,
                   options |-> options, years |-> years, siblings |-> nTested, read |-> reads]
  <2>1. r \in Records BY <1>1, <1>2 DEF Records
  <2>2. log' = Append(log, r) BY DEF Conclude, Persist
  <2> HIDE DEF r
  <2> QED BY <2>1, <2>2
<1>4. Unread \in Readings
  BY DEF Unread, Readings
<1>5. AutoTestTypes'
  BY <1>1, <1>2, <1>3, <1>4 DEF Conclude, NextStep
<1>6. AutoTestPhases'
  BY DEF AutoTestPhases, Conclude, NextStep
<1> QED BY <1>5, <1>6

LEMMA AutoTestSoundStep ==
    ASSUME AutoTestSound, [AutoTestNext]_autoTestVars
    PROVE  AutoTestSound'
<1> USE DEF AutoTestSound
<1> DEFINE e == EndOf(options, years)
<1>0. /\ AutoTestTypes /\ AutoTestPhases /\ Unread \in Readings
      /\ 0 \in 0..Budget /\ Options \subseteq Asked /\ NoOptions \in Asked
  <2>1. Budget \in Nat /\ HoldoutLengths \subseteq Nat
    BY AutoTestAssumption
  <2>2. Options \subseteq Asked /\ NoOptions \in Asked
    BY <2>1 DEF Options, NoOptions, Asked
  <2>3. Unread \in Readings /\ 0 \in 0..Budget
    BY <2>1 DEF Unread, Readings
  <2> QED BY <2>2, <2>3
<1>1. CASE \E given \in SeqOf(Specs, MaxSpecs) : Start(given)
  <2>1. /\ todo' \in Seq(Specs) /\ failed' \in Seq(Specs)
        /\ nTested' \in 0..Budget /\ generated' \in Nat
    BY <1>0, <1>1, VariantsOfARun DEF Start
  <2>2. AutoTestTypes'
    BY <1>0, <1>1, <2>1 DEF Start, AutoTestTypes, NextStep
  <2>3. AutoTestPhases'
    BY <1>0, <1>1 DEF Start, AutoTestPhases, NextStep
  <2> QED BY <2>2, <2>3
<1>2. CASE LogFailure
  <2> USE DEF AutoTestTypes
  <2>1. failed # <<>> BY <1>2 DEF LogFailure, AutoTestPhases
  <2>2. Head(failed) \in Specs /\ Tail(failed) \in Seq(Specs)
    BY <2>1, HeadTailProperties
  <2>3. Head(failed).id \in SpecIds /\ Head(failed).content \in Content
    BY <2>2 DEF Specs
  <2>4. log' \in Seq(Records)
    <3> DEFINE r == [id |-> Head(failed).id, content |-> Head(failed).content, outcome |-> "validation_failed",
                   options |-> options, years |-> years, siblings |-> 0, read |-> Unread]
    <3>1. r \in Records BY <1>0, <2>2, <2>3 DEF Records, Outcomes
    <3>2. log' = Append(log, r) BY <1>2 DEF LogFailure, Persist
    <3> HIDE DEF r
    <3> QED BY <3>1, <3>2
  <2>5. AutoTestTypes'
    BY <1>2, <2>2, <2>4 DEF LogFailure, NextStep, history
  <2>6. AutoTestPhases'
    BY <1>2 DEF LogFailure, AutoTestPhases, NextStep, history
  <2> QED BY <2>5, <2>6
<1>3. CASE Sanity
  <2>1. failed = <<>> /\ todo # <<>> /\ read = Unread
    BY <1>3 DEF Sanity, AutoTestPhases
  <2>2. CASE \E outcome \in Outcomes : Conclude(outcome, read)
    BY <1>0, <1>3, <2>1, <2>2, ConcludeSound DEF Sanity
  <2>3. CASE options.walk /\ GoOn("walk_forward", read)
    <3>1. AutoTestTypes'
      BY <1>0, <1>3, <2>3 DEF Sanity, GoOn, AutoTestTypes, process
    <3>2. AutoTestPhases'
      BY <1>0, <1>3, <2>1, <2>3 DEF Sanity, GoOn, AutoTestPhases, process
    <3> QED BY <3>1, <3>2
  <2> QED BY <1>3, <2>2, <2>3 DEF Sanity, Outcomes
<1>4. CASE WalkForward
  <2>1. failed = <<>> /\ todo # <<>> /\ read = Unread /\ options.walk
    BY <1>4 DEF WalkForward, AutoTestPhases
  <2>2. /\ WalkWindows = WindowsTo(e) /\ ReadWalking = ReadTo(e) /\ e \in Int
        /\ WalkForwardOk <=> Earns(quality[Head(todo).content], e, nTested, years)
    BY <2>1, WhatTheWalkSees
  <2>3. ReadWalking \in Readings
    BY <2>2, YearsFit
  <2>4. CASE \E outcome \in Outcomes, reads \in Readings : Conclude(outcome, reads)
    BY <1>4, <2>1, <2>4, ConcludeSound DEF WalkForward
  <2>5. CASE WalkWindows # <<>> /\ WalkForwardOk /\ options.holdout > 0 /\ GoOn("holdout", ReadWalking)
    <3> HIDE DEF e
    <3>1. AutoTestTypes'
      BY <1>0, <1>4, <2>3, <2>5 DEF WalkForward, GoOn, AutoTestTypes, process
    <3>2. quality' = quality /\ years' = years /\ todo' = todo /\ failed' = failed
          /\ options' = options /\ nTested' = nTested /\ pc' = "holdout" /\ read' = ReadTo(e)
      BY <1>4, <2>2, <2>5 DEF WalkForward, GoOn, process
    <3>3. EndOf(options, years)' = e
      BY <3>2 DEF e, EndOf
    <3>4. AutoTestPhases'
      BY <2>1, <2>2, <2>5, <3>2, <3>3 DEF AutoTestPhases
    <3> QED BY <3>1, <3>4
  <2> QED BY <1>0, <1>4, <2>1, <2>3, <2>4, <2>5 DEF WalkForward, Outcomes
<1>5. CASE Holdout
  <2>1. failed = <<>> /\ todo # <<>>
    BY <1>5 DEF Holdout, AutoTestPhases
  <2>2. [read EXCEPT !["holdout"] = YearsOf(HoldoutStart, years)] \in Readings
    BY <1>0, AutoTestAssumption DEF AutoTestTypes, Asked, Readings, YearsOf, HoldoutStart
  <2>3. \E outcome \in Outcomes, reads \in Readings : Conclude(outcome, reads)
    BY <1>5, <2>2 DEF Holdout, Outcomes
  <2> QED BY <1>5, <2>1, <2>3, ConcludeSound DEF Holdout
<1>6. CASE Crash
  <2>1. AutoTestTypes'
    BY <1>0, <1>6 DEF Crash, AutoTestTypes
  <2>2. AutoTestPhases'
    BY <1>6 DEF Crash, AutoTestPhases
  <2> QED BY <2>1, <2>2
<1>7. CASE Ingest
  <2>1. AutoTestTypes'
    BY <1>0, <1>7, AutoTestAssumption, SMTT(30) DEF Ingest, AutoTestTypes, process, history
  <2>2. AutoTestPhases'
    BY <1>0, <1>7 DEF Ingest, AutoTestPhases, process, history
  <2> QED BY <2>1, <2>2
<1>8. CASE UNCHANGED autoTestVars
  <2> USE DEF autoTestVars, process, history
  <2>1. AutoTestTypes' BY <1>0, <1>8 DEF AutoTestTypes
  <2>2. AutoTestPhases' BY <1>0, <1>8 DEF AutoTestPhases
  <2> QED BY <2>1, <2>2
<1> QED BY <1>1, <1>2, <1>3, <1>4, <1>5, <1>6, <1>7, <1>8 DEF AutoTestNext

PassedSince(first, records) ==
    {records[i].id : i \in {j \in (first + 1)..Len(records) : records[j].outcome = "passed"}}

(* One more record, of a variant that passed or not. *)
LEMMA PassedSinceAppend ==
    ASSUME NEW first \in Nat, NEW records \in Seq(Records), first <= Len(records), NEW r \in Records
    PROVE  PassedSince(first, Append(records, r)) =
               PassedSince(first, records) \cup (IF r.outcome = "passed" THEN {r.id} ELSE {})
<1> DEFINE n == Len(records)
           longer == Append(records, r)
<1>1. n \in Nat /\ Len(longer) = n + 1 /\ longer[n + 1] = r /\ \A i \in 1..n : longer[i] = records[i]
  BY AppendProperties
<1>2. (first + 1)..(n + 1) = ((first + 1)..n) \cup {n + 1}
  BY <1>1
<1>3. \A i \in (first + 1)..n : longer[i] = records[i]
  BY <1>1
<1> HIDE DEF n, longer
<1> QED BY <1>1, <1>2, <1>3 DEF PassedSince, n, longer

LEMMA AccountedStep ==
    ASSUME AutoTestSound, Accounted, [AutoTestNext]_autoTestVars
    PROVE  Accounted'
<1> USE DEF AutoTestSound
<1>0. /\ log \in Seq(Records) /\ start \in Nat /\ generated \in Nat /\ Budget \in Nat
      /\ Len(failed) \in Nat /\ Len(todo) \in Nat /\ Len(log) \in Nat
      /\ start + generated <= Budget /\ start <= Len(log)
      /\ start + generated = Len(log) + Len(failed) + Len(todo)
      /\ pool = PassedSince(start, log)
  <2>1. /\ log \in Seq(Records) /\ start \in Nat /\ generated \in Nat /\ Budget \in Nat
        /\ Len(failed) \in Nat /\ Len(todo) \in Nat /\ Len(log) \in Nat
    BY AutoTestAssumption, SMTT(30) DEF AutoTestTypes
  <2>2. start + generated <= Budget /\ start <= Len(log)
    BY DEF Accounted, WithinBudget
  <2>3. start + generated = Len(log) + Len(failed) + Len(todo) /\ pool = PassedSince(start, log)
    BY DEF Accounted, EveryVariantAccounted, PassedSince
  <2> QED BY <2>1, <2>2, <2>3
<1>a. ASSUME /\ start' + generated' <= Budget /\ start' <= Len(log')
             /\ start' + generated' = Len(log') + Len(failed') + Len(todo')
             /\ Len(log') <= Budget
             /\ pool' = PassedSince(start', log')
      PROVE  Accounted'
  BY <1>a DEF Accounted, WithinBudget, EveryVariantAccounted, PassedSince
<1>1. CASE \E given \in SeqOf(Specs, MaxSpecs) : Start(given)
  <2>1. /\ Len(failed') + Len(todo') = generated' /\ generated' \in Nat
        /\ Len(log) + generated' <= Budget
    BY <1>1, VariantsOfARun DEF Start
  <2>2. PassedSince(Len(log), log) = {}
    BY <1>0 DEF PassedSince
  <2>3. log' = log /\ start' = Len(log) /\ pool' = {}
    BY <1>1 DEF Start
  <2> QED BY <1>0, <1>a, <2>1, <2>2, <2>3
<1>2. CASE LogFailure
  <2>1. failed # <<>> /\ failed \in Seq(Specs) BY <1>2 DEF LogFailure, AutoTestPhases, AutoTestTypes
  <2>2. Len(failed) > 0 /\ Len(Tail(failed)) = Len(failed) - 1 /\ Head(failed) \in Specs
    BY <2>1, HeadTailProperties
  <2> DEFINE r == [id |-> Head(failed).id, content |-> Head(failed).content, outcome |-> "validation_failed",
                   options |-> options, years |-> years, siblings |-> 0, read |-> Unread]
  <2>3. r \in Records /\ r.outcome # "passed"
    BY <1>0, <2>2 DEF AutoTestTypes, Records, Outcomes, Readings, Unread, Specs
  <2>4. log' = Append(log, r) /\ pool' = pool /\ start' = start /\ generated' = generated
        /\ failed' = Tail(failed) /\ todo' = todo
    BY <1>2 DEF LogFailure, Persist, history
  <2> HIDE DEF r
  <2>5. Len(log') = Len(log) + 1
    BY <1>0, <2>3, <2>4, AppendProperties
  <2>6. PassedSince(start, log') = PassedSince(start, log)
    <3>1. PassedSince(start, Append(log, r)) = PassedSince(start, log) \cup {}
      BY <1>0, <2>3, PassedSinceAppend
    <3> QED BY <2>4, <3>1
  <2>7. start' + generated' = Len(log') + Len(failed') + Len(todo') /\ start' <= Len(log')
    <3>1. Len(failed') = Len(failed) - 1 /\ Len(todo') = Len(todo)
      BY <2>2, <2>4
    <3>2. start' = start /\ generated' = generated
      BY <2>4
    <3> QED BY <1>0, <2>5, <3>1, <3>2
  <2>8. Len(log') <= Budget
    BY <1>0, <2>1, <2>2, <2>5
  <2>9. pool' = PassedSince(start', log') /\ start' + generated' <= Budget
    BY <1>0, <2>4, <2>6
  <2> QED BY <1>a, <2>7, <2>8, <2>9
<1>3. ASSUME failed = <<>>, todo # <<>>, NEW outcome \in Outcomes, NEW reads \in Readings,
             Conclude(outcome, reads), UNCHANGED <<start, generated>>
      PROVE  Accounted'
  <2>1. Len(Tail(todo)) = Len(todo) - 1 /\ Head(todo) \in Specs
    BY <1>3, HeadTailProperties DEF AutoTestTypes
  <2> DEFINE r == [id |-> Head(todo).id, content |-> Head(todo).content, outcome |-> outcome,
                   options |-> options, years |-> years, siblings |-> nTested, read |-> reads]
  <2>2. r \in Records /\ r.outcome = outcome /\ r.id = Head(todo).id
    BY <1>3, <2>1 DEF AutoTestTypes, Records, Specs
  <2>3. log' = Append(log, r) /\ start' = start /\ generated' = generated
        /\ failed' = failed /\ todo' = Tail(todo)
        /\ pool' = pool \cup (IF outcome = "passed" THEN {Head(todo).id} ELSE {})
    BY <1>3 DEF Conclude, Persist
  <2> HIDE DEF r
  <2>4. Len(log') = Len(log) + 1
    BY <1>0, <2>2, <2>3, AppendProperties
  <2>5. PassedSince(start, log') = PassedSince(start, log) \cup (IF outcome = "passed" THEN {Head(todo).id} ELSE {})
    BY <1>0, <2>2, <2>3, PassedSinceAppend
  <2>6. start' + generated' = Len(log') + Len(failed') + Len(todo') /\ start' <= Len(log')
    <3>1. Len(failed') = Len(failed) /\ Len(todo') = Len(todo) - 1
      BY <2>1, <2>3
    <3>2. start' = start /\ generated' = generated
      BY <2>3
    <3> QED BY <1>0, <2>4, <3>1, <3>2
  <2>7. Len(todo) > 0
    BY <1>3 DEF AutoTestTypes
  <2>8. Len(log') <= Budget
    BY <1>0, <2>4, <2>7
  <2>9. pool' = PassedSince(start', log') /\ start' + generated' <= Budget
    BY <1>0, <2>3, <2>5
  <2> QED BY <1>a, <2>6, <2>8, <2>9
<1>4. ASSUME NEW next, NEW reads, GoOn(next, reads), UNCHANGED <<start, generated>> PROVE Accounted'
  BY <1>0, <1>a, <1>4 DEF GoOn, process
<1>5. CASE Sanity
  <2>1. failed = <<>> /\ todo # <<>> /\ read \in Readings
    BY <1>5 DEF Sanity, AutoTestPhases, AutoTestTypes
  <2>2. \/ \E outcome \in Outcomes : Conclude(outcome, read)
        \/ GoOn("walk_forward", read)
    BY <1>5 DEF Sanity, Outcomes
  <2> QED BY <1>3, <1>4, <1>5, <2>1, <2>2 DEF Sanity
<1>6. CASE WalkForward
  <2>1. failed = <<>> /\ todo # <<>> /\ read \in Readings /\ read = Unread
    BY <1>6 DEF WalkForward, AutoTestPhases, AutoTestTypes
  <2>2. ReadWalking \in Readings
    BY <2>1, WhatTheWalkSees, YearsFit
  <2>3. \/ \E outcome \in Outcomes, reads \in Readings : Conclude(outcome, reads)
        \/ GoOn("holdout", ReadWalking)
    BY <1>6, <2>1, <2>2 DEF WalkForward, Outcomes
  <2> QED BY <1>3, <1>4, <1>6, <2>1, <2>3 DEF WalkForward
<1>7. CASE Holdout
  <2>1. failed = <<>> /\ todo # <<>>
    BY <1>7 DEF Holdout, AutoTestPhases
  <2>2. [read EXCEPT !["holdout"] = YearsOf(HoldoutStart, years)] \in Readings
    BY AutoTestAssumption DEF AutoTestTypes, Asked, Readings, YearsOf, HoldoutStart
  <2>3. \E outcome \in Outcomes, reads \in Readings : Conclude(outcome, reads)
    BY <1>7, <2>2 DEF Holdout, Outcomes
  <2> QED BY <1>3, <1>7, <2>1, <2>3 DEF Holdout
<1>8. CASE Crash
  <2>1. PassedSince(Len(log), log) = {}
    BY <1>0 DEF PassedSince
  <2>2. Len(<<>>) = 0 OBVIOUS
  <2> QED BY <1>0, <1>a, <1>8, <2>1, <2>2 DEF Crash
<1>9. CASE Ingest \/ UNCHANGED autoTestVars
  BY <1>0, <1>a, <1>9 DEF Ingest, autoTestVars, process, history
<1> QED BY <1>1, <1>2, <1>5, <1>6, <1>7, <1>8, <1>9 DEF AutoTestNext

LEMMA LogGrows ==
    ASSUME AutoTestTypes, LogSound, NEW r \in Records, log' = Append(log, r), r.years = years,
           years' = years, quality' = quality, SaysWhatWas(quality[r.content], r)
    PROVE  LogSound'
<1>1. /\ Len(log) \in Nat /\ DOMAIN log = 1..Len(log) /\ DOMAIN log' = 1..(Len(log) + 1)
      /\ log'[Len(log) + 1] = r
      /\ \A i \in 1..Len(log) : log'[i] = log[i]
  BY AppendProperties DEF AutoTestTypes
<1>2. \A i \in 1..(Len(log) + 1) : i \in 1..Len(log) \/ i = Len(log) + 1
  BY <1>1
<1>3. ASSUME NEW i \in DOMAIN log' PROVE log'[i].years <= years' /\ SaysWhatWas(quality'[log'[i].content], log'[i])
  <2>1. CASE i = Len(log) + 1
    BY <1>1, <2>1 DEF AutoTestTypes
  <2>2. CASE i \in 1..Len(log)
    BY <1>1, <2>2 DEF LogSound
  <2> QED BY <1>1, <1>2, <2>1, <2>2
<1>4. ASSUME NEW i \in DOMAIN log', NEW j \in DOMAIN log', i <= j PROVE log'[i].years <= log'[j].years
  <2>1. CASE j = Len(log) + 1
    BY <1>1, <1>3, <2>1
  <2>2. CASE j \in 1..Len(log)
    <3>1. i \in 1..Len(log) BY <1>1, <1>4, <2>2
    <3> QED BY <1>1, <1>4, <2>2, <3>1 DEF LogSound
  <2> QED BY <1>1, <1>2, <2>1, <2>2
<1> QED BY <1>3, <1>4 DEF LogSound

(* A verdict on the current variant is logged as it was. *)
LEMMA ConcludeSays ==
    ASSUME AutoTestSound, LogSound, todo # <<>>,
           NEW outcome \in Outcomes, NEW reads \in Readings, Conclude(outcome, reads),
           UNCHANGED <<quality, years>>,
           \A y \in reads["walk_forward"] : y <= years - options.holdout,
           \A y \in reads["holdout"] : y > years - options.holdout,
           outcome = "discarded_at_walk_forward"
              => \E e \in Int : /\ WindowsTo(e) # <<>> /\ e <= MaxYears /\ reads["walk_forward"] = YearsTo(e)
                               /\ ~Earns(quality[Head(todo).content], e, nTested, years),
           outcome = "passed" /\ options.walk
              => \E e \in Int : /\ WindowsTo(e) # <<>> /\ e <= MaxYears /\ reads["walk_forward"] = YearsTo(e)
                               /\ Earns(quality[Head(todo).content], e, nTested, years)
    PROVE  LogSound'
<1> DEFINE r == [id |-> Head(todo).id, content |-> Head(todo).content, outcome |-> outcome,
                   options |-> options, years |-> years, siblings |-> nTested, read |-> reads]
<1>1. Head(todo) \in Specs
  BY HeadTailProperties DEF AutoTestSound, AutoTestTypes
<1>2. r \in Records
  BY <1>1 DEF AutoTestSound, AutoTestTypes, Records, Specs
<1>3. log' = Append(log, r)
  BY DEF Conclude, Persist
<1>4. /\ r.content = Head(todo).content /\ r.outcome = outcome /\ r.options = options /\ r.years = years
      /\ r.siblings = nTested /\ r.read = reads
  OBVIOUS
<1> HIDE DEF r
<1>5. SaysWhatWas(quality[r.content], r)
  BY <1>4 DEF SaysWhatWas
<1> QED BY <1>2, <1>3, <1>4, <1>5, LogGrows DEF AutoTestSound

LEMMA LogSoundStep ==
    ASSUME AutoTestSound, LogSound, [AutoTestNext]_autoTestVars
    PROVE  LogSound'
<1> DEFINE e == EndOf(options, years)
<1>0. /\ Unread \in Readings /\ Unread["walk_forward"] = {} /\ Unread["holdout"] = {}
      /\ years \in 1..MaxYears /\ MaxYears \in Nat /\ options.holdout \in Nat /\ 0 \in 0..Budget
  BY AutoTestAssumption DEF Unread, Readings, AutoTestSound, AutoTestTypes, Asked
<1>1. CASE LogFailure
  <2>1. failed # <<>> /\ failed \in Seq(Specs)
    BY <1>1 DEF LogFailure, AutoTestSound, AutoTestPhases, AutoTestTypes
  <2>2. Head(failed) \in Specs
    BY <2>1, HeadTailProperties
  <2> DEFINE r == [id |-> Head(failed).id, content |-> Head(failed).content, outcome |-> "validation_failed",
                   options |-> options, years |-> years, siblings |-> 0, read |-> Unread]
  <2>3. r \in Records
    BY <1>0, <2>2 DEF AutoTestSound, AutoTestTypes, Records, Outcomes, Specs
  <2>4. SaysWhatWas(quality[r.content], r)
    BY <1>0 DEF SaysWhatWas
  <2>5. log' = Append(log, r) /\ years' = years /\ quality' = quality /\ r.years = years
    BY <1>1 DEF LogFailure, Persist
  <2> HIDE DEF r
  <2> QED BY <2>3, <2>4, <2>5, LogGrows DEF AutoTestSound
<1>2. CASE Sanity
  <2>1. todo # <<>> /\ read = Unread
    BY <1>2 DEF Sanity, AutoTestSound, AutoTestPhases
  <2>2. ASSUME NEW outcome \in {"error", "discarded_at_sanity", "passed"}, Conclude(outcome, read),
               outcome = "passed" => ~options.walk
        PROVE  LogSound'
    BY <1>0, <1>2, <2>1, <2>2, ConcludeSays DEF Sanity, Outcomes
  <2>3. CASE GoOn("walk_forward", read)
    BY <1>2, <2>3 DEF GoOn, Sanity, LogSound
  <2> QED BY <1>2, <2>2, <2>3 DEF Sanity
<1>3. CASE WalkForward
  <2>1. todo # <<>> /\ read = Unread /\ options.walk
    BY <1>3 DEF WalkForward, AutoTestSound, AutoTestPhases
  <2>2. /\ WalkWindows = WindowsTo(e) /\ ReadWalking = ReadTo(e) /\ e \in Int /\ e <= MaxYears
        /\ WalkForwardOk <=> Earns(quality[Head(todo).content], e, nTested, years)
    BY <2>1, WhatTheWalkSees DEF AutoTestSound
  <2>3. /\ ReadTo(e) \in Readings /\ ReadTo(e)["walk_forward"] = YearsTo(e) /\ ReadTo(e)["holdout"] = {}
        /\ \A y \in YearsTo(e) : y <= e
    BY <2>2, YearsFit
  <2>4. e = years - options.holdout
    BY DEF EndOf
  <2>5. UNCHANGED <<quality, years>>
    BY <1>3 DEF WalkForward
  <2> HIDE DEF e
  <2>6. CASE Conclude("error", read)
    BY <1>0, <2>1, <2>5, <2>6, ConcludeSays DEF Outcomes
  <2>7. CASE WalkWindows # <<>> /\ ~WalkForwardOk /\ Conclude("discarded_at_walk_forward", ReadWalking)
    <3>1. "discarded_at_walk_forward" \in Outcomes BY DEF Outcomes
    <3> QED BY <2>1, <2>2, <2>3, <2>4, <2>5, <2>7, <3>1, ConcludeSays
  <2>8. CASE WalkWindows # <<>> /\ WalkForwardOk /\ Conclude("passed", ReadWalking)
    <3>1. "passed" \in Outcomes BY DEF Outcomes
    <3> QED BY <2>1, <2>2, <2>3, <2>4, <2>5, <2>8, <3>1, ConcludeSays
  <2>9. CASE GoOn("holdout", ReadWalking)
    BY <2>5, <2>9 DEF GoOn, LogSound
  <2> QED BY <1>3, <2>6, <2>7, <2>8, <2>9 DEF WalkForward
<1>4. CASE Holdout
  <2> DEFINE reads == [read EXCEPT !["holdout"] = YearsOf(HoldoutStart, years)]
  <2>1. /\ todo # <<>> /\ options.walk /\ WindowsTo(e) # <<>>
        /\ Earns(quality[Head(todo).content], e, nTested, years) /\ read = ReadTo(e)
    BY <1>4 DEF Holdout, AutoTestSound, AutoTestPhases
  <2>2. e = years - options.holdout /\ e \in Int /\ e <= MaxYears
    BY <1>0 DEF EndOf
  <2>3. UNCHANGED <<quality, years>>
    BY <1>4 DEF Holdout
  <2> HIDE DEF e
  <2>4. /\ ReadTo(e) \in Readings /\ ReadTo(e)["walk_forward"] = YearsTo(e) /\ \A y \in YearsTo(e) : y <= e
    BY <2>2, YearsFit
  <2>5. reads["walk_forward"] = YearsTo(e) /\ reads["holdout"] = (e + 1)..years /\ reads \in Readings
    BY <1>0, <2>1, <2>2, <2>4 DEF Readings, YearsOf, HoldoutStart
  <2>6. PICK outcome \in {"error", "discarded_at_holdout", "passed"} : Conclude(outcome, reads)
    BY <1>4 DEF Holdout
  <2> HIDE DEF reads
  <2>7. \A y \in reads["holdout"] : y > years - options.holdout
    BY <1>0, <2>2, <2>5
  <2>8. outcome \in Outcomes /\ outcome # "discarded_at_walk_forward"
    BY <2>6 DEF Outcomes
  <2> QED BY <2>1, <2>2, <2>3, <2>4, <2>5, <2>6, <2>7, <2>8, ConcludeSays
<1>5. CASE Ingest
  <2>1. years' = years + 1 /\ log' = log /\ quality' = quality
    BY <1>5 DEF Ingest
  <2>2. \A i \in DOMAIN log : log[i].years \in Int
    <3>1. \A i \in DOMAIN log : log[i] \in Records
      BY DEF AutoTestSound, AutoTestTypes
    <3> QED BY <3>1 DEF Records
  <2>3. \A i \in DOMAIN log : log[i].years <= years'
    BY <1>0, <2>1, <2>2 DEF LogSound
  <2> QED BY <2>1, <2>3 DEF LogSound
<1>6. CASE (\E given \in SeqOf(Specs, MaxSpecs) : Start(given)) \/ Crash \/ UNCHANGED autoTestVars
  BY <1>6 DEF Start, Crash, autoTestVars, LogSound
<1> QED BY <1>1, <1>2, <1>3, <1>4, <1>5, <1>6 DEF AutoTestNext

(* The years that walk-forwards read tell their windows. *)
LEMMA YearsTellWindows ==
    ASSUME NEW d \in Int, NEW e \in Int, WindowsTo(d) # <<>>, WindowsTo(e) # <<>>, YearsTo(d) = YearsTo(e)
    PROVE  WindowsTo(d) = WindowsTo(e)
<1> DEFINE begin(i) == (i - 1) * RollYears
           windows(n) == [i \in 1..n |-> [train |-> begin(i), test |-> begin(i) + TrainYears,
                                         end |-> begin(i) + TrainYears + TestYears]]
<1>1. PICK n \in Nat : WindowsTo(d) = windows(n) /\ \A i \in 1..n : begin(i) \in Nat
  BY WindowsFit
<1>2. PICK m \in Nat : WindowsTo(e) = windows(m) /\ \A i \in 1..m : begin(i) \in Nat
  BY WindowsFit
<1>3. {TrainYears, TestYears, RollYears} \subseteq Nat \ {0}
  BY AutoTestAssumption
<1>4. n # 0 /\ m # 0
  <2>1. windows(0) = <<>> OBVIOUS
  <2> QED BY <1>1, <1>2, <2>1
<1>5. ASSUME NEW k \in Nat \ {0}, NEW c \in Int, WindowsTo(c) = windows(k)
      PROVE  begin(k) + TrainYears + TestYears \in YearsTo(c)
  <2>0. \A a \in Nat, b \in Nat : a * b \in Nat
    OBVIOUS
  <2>1. k \in DOMAIN WindowsTo(c) /\ begin(k) \in Nat
    <3>1. k - 1 \in Nat /\ RollYears \in Nat /\ k \in 1..k BY <1>3
    <3>2. begin(k) \in Nat BY <2>0, <3>1
    <3> HIDE DEF begin
    <3> QED BY <1>5, <3>1, <3>2
  <2>2. begin(k) + TrainYears + TestYears \in YearsOf(WindowsTo(c)[k].train, WindowsTo(c)[k].end)
    BY <1>3, <1>5, <2>1, SMTT(30) DEF YearsOf
  <2> QED BY <2>1, <2>2 DEF YearsTo, Range
<1>6. ASSUME NEW k \in Nat \ {0}, NEW c \in Int, WindowsTo(c) = windows(k)
      PROVE  \A y \in YearsTo(c) : y <= begin(k) + TrainYears + TestYears
  <2> SUFFICES ASSUME NEW y \in YearsTo(c) PROVE y <= begin(k) + TrainYears + TestYears
    OBVIOUS
  <2>1. PICK i \in 1..k : y \in YearsOf(WindowsTo(c)[i].train, WindowsTo(c)[i].end)
    BY <1>6 DEF YearsTo, Range
  <2>2. y \in (begin(i) + 1)..(begin(i) + TrainYears + TestYears)
    BY <1>6, <2>1 DEF YearsOf
  <2>3. k - i \in Nat /\ begin(i) \in Nat /\ (k - i) * RollYears \in Nat
    BY <1>3
  <2>4. begin(k) = begin(i) + (k - i) * RollYears
    BY <1>3
  <2> DEFINE x == begin(i)
             z == (k - i) * RollYears
  <2>5. y \in (x + 1)..(x + TrainYears + TestYears) /\ x \in Nat /\ z \in Nat /\ begin(k) = x + z
    BY <2>2, <2>3, <2>4
  <2> HIDE DEF x, z, begin
  <2> QED BY <1>3, <2>5
<1>7. begin(n) + TrainYears + TestYears = begin(m) + TrainYears + TestYears
  <2> DEFINE x == begin(n) + TrainYears + TestYears
             y == begin(m) + TrainYears + TestYears
  <2>1. begin(n) \in Nat /\ begin(m) \in Nat BY <1>3, <1>4
  <2>2. x \in Int /\ y \in Int BY <1>3, <2>1, SMTT(30)
  <2>3. x \in YearsTo(d) /\ y \in YearsTo(e) BY <1>1, <1>2, <1>4, <1>5
  <2>4. \A u \in YearsTo(d) : u <= x BY <1>1, <1>4, <1>6
  <2>5. \A u \in YearsTo(e) : u <= y BY <1>2, <1>4, <1>6
  <2> HIDE DEF x, y
  <2>6. x = y BY <2>2, <2>3, <2>4, <2>5
  <2> QED BY <2>6 DEF x, y
<1>8. n = m
  <2>1. begin(n) \in Nat /\ begin(m) \in Nat BY <1>3, <1>4
  <2>2. begin(n) = begin(m) BY <1>3, <1>7, <2>1, SMTT(30)
  <2> QED BY <1>3, <1>4, <2>2
<1> QED BY <1>1, <1>2, <1>8

LEMMA SharpeIsInteger ==
    ASSUME NEW spec, spec.gains \in [1..MaxYears -> Int],
           NEW from \in Nat, NEW to \in Int, from < to, to <= MaxYears
    PROVE  SharpeOf(spec, from, to) \in Int
<1> DEFINE gains == [y \in 1..(to - from) |-> spec.gains[from + y]]
<1>1. to - from \in Nat \ {0} /\ MaxYears \in Nat
  BY AutoTestAssumption
<1>2. DOMAIN gains = 1..(to - from) /\ IsFiniteSet(DOMAIN gains)
  BY <1>1, FS_Interval
<1>3. \A y \in DOMAIN gains : gains[y] \in Int
  <2> SUFFICES ASSUME NEW y \in 1..(to - from) PROVE spec.gains[from + y] \in Int
    OBVIOUS
  <2>1. from + y \in 1..MaxYears BY <1>1
  <2> QED BY <2>1
<1>4. SharpeOf(spec, from, to) = (60 * SumOf(gains)) \div (to - from)
  BY Zenon DEF SharpeOf
<1> HIDE DEF gains
<1>5. SumOf(gains) \in Int
  BY <1>2, <1>3, SumIsInteger
<1>6. \A a \in Int, b \in Nat \ {0} : (60 * a) \div b \in Int
  OBVIOUS
<1> QED BY <1>1, <1>4, <1>5, <1>6

(* The more variants, the higher the threshold. *)
LEMMA EarnsLess ==
    ASSUME NEW spec, NEW e \in Int, WindowsTo(e) # <<>>, spec.gains \in [1..MaxYears -> Int], e <= MaxYears,
           NEW n \in 0..Budget, NEW m \in 0..Budget, n <= m, NEW y, Earns(spec, e, m, y), TradesIn(spec, y) \in Nat
    PROVE  Earns(spec, e, n, y)
<1> DEFINE sum == SumOf(InSampleOf(spec, e))
           l == Len(InSampleOf(spec, e))
           surplus == sum - MinSharpe * l
           number == TradesIn(spec, y)
<1>1. PICK k \in Nat :
           /\ WindowsTo(e) = [i \in 1..k |-> [train |-> (i - 1) * RollYears,
                                             test |-> (i - 1) * RollYears + TrainYears,
                                             end |-> (i - 1) * RollYears + TrainYears + TestYears]]
           /\ \A i \in 1..k : /\ (i - 1) * RollYears \in Nat
                              /\ (i - 1) * RollYears + TrainYears + TestYears <= e
  BY WindowsFit
<1>2. {TrainYears, TestYears, Budget} \subseteq Nat \ {0} /\ {MinSharpe, MaxYears} \subseteq Nat
  BY AutoTestAssumption
<1>3. ASSUME NEW i \in 1..k PROVE SharpeOf(spec, WindowsTo(e)[i].train, WindowsTo(e)[i].test) \in Int
  <2> DEFINE x == (i - 1) * RollYears
  <2>1. x \in Nat /\ x + TrainYears + TestYears <= e /\ WindowsTo(e)[i].train = x
        /\ WindowsTo(e)[i].test = x + TrainYears
    BY <1>1
  <2> HIDE DEF x
  <2>2. x + TrainYears \in Int /\ x < x + TrainYears /\ x + TrainYears <= MaxYears
    BY <1>2, <2>1
  <2> QED BY <2>1, <2>2, SharpeIsInteger
<1>4. DOMAIN InSampleOf(spec, e) = 1..k /\ \A i \in 1..k : InSampleOf(spec, e)[i] \in Int
  BY <1>1, <1>3 DEF InSampleOf
<1>5. sum \in Int
  BY <1>4, FS_Interval, SumIsInteger
<1>6. l = k /\ l \in Nat
  BY <1>4
<1>7. \A a \in Int, b \in Int : a * b \in Int
  OBVIOUS
<1>8. surplus \in Int /\ number \in Nat
  <2>1. MinSharpe * l \in Int
    BY <1>2, <1>6, <1>7
  <2> QED BY <1>5, <2>1
<1>9. /\ WalkForwardPasses(InSampleOf(spec, e), OutOfSampleOf(spec, e))
      /\ MakesUpFor(m, number, surplus, l)
  BY DEF Earns
<1> HIDE DEF sum, l, surplus, number
<1>10. MakesUpFor(n, number, surplus, l)
  <2>1. CASE n <= 1 \/ number <= 0
    BY <1>9, <2>1 DEF MakesUpFor
  <2>2. CASE ~(n <= 1) /\ ~(number <= 0)
    <3>1. /\ n \in 1..Budget /\ m \in 1..Budget /\ ~(m <= 1) /\ TwoLog[n] <= TwoLog[m]
          /\ TwoLog[n] \in Nat /\ TwoLog[m] \in Nat
      <4>1. n \in 1..Budget /\ m \in 1..Budget /\ ~(m <= 1)
        BY <1>2, <2>2
      <4> QED BY <4>1, AutoTestAssumption
    <3>2. surplus >= 0 /\ surplus * surplus * number >= TwoLog[m] * l * l
      BY <1>9, <2>2, <3>1 DEF MakesUpFor
    <3>3. \A a \in Nat, b \in Nat, c \in Nat : a <= b => a * c * c \in Nat /\ b * c * c \in Nat /\ a * c * c <= b * c * c
      <4> SUFFICES ASSUME NEW a \in Nat, NEW b \in Nat, NEW c \in Nat, a <= b
                   PROVE  a * c * c \in Nat /\ b * c * c \in Nat /\ a * c * c <= b * c * c
        OBVIOUS
      <4>1. \A x \in Nat, z \in Nat : x * z \in Nat
        OBVIOUS
      <4>2. c * c \in Nat /\ b - a \in Nat
        OBVIOUS
      <4>3. a * (c * c) \in Nat /\ (b - a) * (c * c) \in Nat
        BY <4>1, <4>2
      <4>4. a * c * c = a * (c * c) /\ b * c * c = a * (c * c) + (b - a) * (c * c)
        OBVIOUS
      <4> QED BY <4>3, <4>4
    <3> DEFINE x == TwoLog[n] * l * l
               z == TwoLog[m] * l * l
               w == surplus * surplus * number
    <3>4. x \in Int /\ z \in Int /\ x <= z
      BY <1>6, <3>1, <3>3
    <3>5. w \in Int
      BY <1>7, <1>8
    <3>6. w >= x
      <4>1. w >= z BY <3>2
      <4> HIDE DEF x, z, w
      <4> QED BY <3>4, <3>5, <4>1
    <3> QED BY <3>2, <3>6 DEF MakesUpFor
  <2> QED BY <2>1, <2>2
<1> QED BY <1>9, <1>10 DEF Earns, sum, l, surplus, number

(* More years have no fewer trades. *)
LEMMA TradesGrow ==
    ASSUME NEW spec, spec.trades \in [1..MaxYears -> Nat],
           NEW a \in 1..MaxYears, NEW b \in 1..MaxYears, a <= b
    PROVE  TradesIn(spec, a) \in Nat /\ TradesIn(spec, b) \in Nat /\ TradesIn(spec, a) <= TradesIn(spec, b)
<1> DEFINE f == [k \in 1..a |-> spec.trades[k]]
           h == [k \in 1..b |-> spec.trades[k]]
           g == [k \in 1..a |-> k]
<1>1. MaxYears \in Nat
  BY AutoTestAssumption
<1>2. IsFiniteSet(1..a) /\ IsFiniteSet(1..b)
  BY FS_Interval
<1>3. /\ \A k \in 1..b : h[k] \in Nat
      /\ \A k \in 1..a : f[k] \in Nat /\ f[k] = h[g[k]]
      /\ g \in [1..a -> 1..b] /\ \A k, n \in 1..a : g[k] = g[n] => k = n
  BY <1>1
<1>4. TradesIn(spec, a) = Total(f, 1..a) /\ TradesIn(spec, b) = Total(h, 1..b)
  BY SumOfIsTotal DEF TradesIn
<1> HIDE DEF f, h, g
<1>5. Total(f, 1..a) \in Nat /\ Total(h, 1..b) \in Nat
  BY <1>2, <1>3, TotalIsNatural
<1>6. Total(f, 1..a) <= Total(h, 1..b)
  BY <1>2, <1>3, TotalOfFewer
<1> QED BY <1>4, <1>5, <1>6

AutoTestInv == AutoTestSound /\ Accounted /\ LogSound

LEMMA AutoTestInvariance == AutoTestSpec => []AutoTestInv
<1>1. AutoTestInit => AutoTestInv
  <2> SUFFICES ASSUME AutoTestInit PROVE AutoTestInv
    OBVIOUS
  <2> USE DEF AutoTestInit
  <2>1. FirstYears \in 1..MaxYears /\ Budget \in Nat
    BY AutoTestAssumption
  <2>2. AutoTestSound
    BY <2>1 DEF AutoTestSound, AutoTestTypes, AutoTestPhases, Asked, NoOptions, Unread, Readings
  <2>3. PassedSince(0, <<>>) = {}
    BY DEF PassedSince
  <2>4. Accounted
    BY <2>1, <2>3 DEF Accounted, WithinBudget, EveryVariantAccounted, PassedSince
  <2>5. LogSound
    BY DEF LogSound
  <2> QED BY <2>2, <2>4, <2>5 DEF AutoTestInv
<1>2. AutoTestInv /\ [AutoTestNext]_autoTestVars => AutoTestInv'
  BY AutoTestSoundStep, AccountedStep, LogSoundStep DEF AutoTestInv
<1> QED BY <1>1, <1>2, PTL DEF AutoTestSpec

(* Every variant a run was given ends in one record or is still to come, the *)
(* pool holds those whose record says that they passed, and the records of  *)
(* all runs together, of those that died too, stay within the budget.       *)
THEOREM EveryVariantIsAccounted == AutoTestSpec => []EveryVariantAccounted
<1>1. AutoTestInv => EveryVariantAccounted
  BY DEF AutoTestInv, Accounted
<1> QED BY <1>1, AutoTestInvariance, PTL

(* The years a holdout judges a spec on were in no window of a walk-forward *)
(* of a run that reserved all of them that there were, whatever each run    *)
(* reserves and however the data grow between them.                         *)
THEOREM HoldoutIsFresh == AutoTestSpec => []HoldoutFresh
<1>1. AutoTestInv => HoldoutFresh
  <2> SUFFICES ASSUME AutoTestInv, NEW i \in DOMAIN log, NEW j \in DOMAIN log,
                      log[j].options.holdout <= log[i].options.holdout + (log[j].years - log[i].years),
                      NEW y \in log[i].read["walk_forward"], y \in log[j].read["holdout"]
               PROVE  FALSE
    BY DEF HoldoutFresh
  <2>1. log[i] \in Records /\ log[j] \in Records
    BY DEF AutoTestInv, AutoTestSound, AutoTestTypes
  <2>2. /\ log[i].years \in Int /\ log[j].years \in Int /\ y \in Int
        /\ log[i].options.holdout \in Int /\ log[j].options.holdout \in Int
    BY <2>1 DEF Records, Readings, Asked
  <2>3. y <= log[i].years - log[i].options.holdout /\ y > log[j].years - log[j].options.holdout
    BY DEF AutoTestInv, LogSound, SaysWhatWas
  <2> QED BY <2>2, <2>3
<1> QED BY <1>1, AutoTestInvariance, PTL

(* A variant turned down at walk-forward gets in by being tested again on   *)
(* the same years only if that run tests fewer variants or its first        *)
(* backtest has more trades, for any windows, gains and trades: the years   *)
(* tell the windows and so the sums, and the threshold rises with the       *)
(* number of variants.                                                      *)
THEOREM OverturnsTestFewer == AutoTestSpec => []OverturnedOnlyByFewer
<1>1. AutoTestInv => OverturnedOnlyByFewer
  <2> SUFFICES ASSUME AutoTestInv, NEW i \in DOMAIN log, NEW j \in DOMAIN log, i < j,
                      log[i].content = log[j].content,
                      log[i].read["walk_forward"] = log[j].read["walk_forward"],
                      log[i].outcome = "discarded_at_walk_forward",
                      log[j].outcome = "passed", log[j].options.walk,
                      ~(TradesOf(log[j].content, log[j].years) > TradesOf(log[i].content, log[i].years))
               PROVE  log[j].siblings < log[i].siblings
    BY DEF OverturnedOnlyByFewer
  <2> DEFINE spec == quality[log[i].content]
             n == log[i].siblings
             m == log[j].siblings
             a == log[i].years
             b == log[j].years
  <2>1. log[i] \in Records /\ log[j] \in Records /\ i \in Nat /\ j \in Nat
    BY DEF AutoTestInv, AutoTestSound, AutoTestTypes
  <2>2. n \in 0..Budget /\ m \in 0..Budget /\ log[i].content \in Content /\ a \in 1..MaxYears /\ b \in 1..MaxYears
    BY <2>1 DEF Records
  <2>3. spec.gains \in [1..MaxYears -> Int] /\ spec.trades \in [1..MaxYears -> Nat]
    BY <2>2, AutoTestAssumption DEF AutoTestInv, AutoTestSound, AutoTestTypes
  <2>4. PICK d \in Int : /\ WindowsTo(d) # <<>> /\ log[i].read["walk_forward"] = YearsTo(d)
                         /\ ~Earns(spec, d, n, a)
    BY DEF AutoTestInv, LogSound, SaysWhatWas
  <2>5. PICK e \in Int : /\ WindowsTo(e) # <<>> /\ e <= MaxYears /\ log[j].read["walk_forward"] = YearsTo(e)
                         /\ Earns(spec, e, m, b)
    BY DEF AutoTestInv, LogSound, SaysWhatWas
  <2>6. a <= b
    BY <2>1 DEF AutoTestInv, LogSound
  <2>7. ~(TradesIn(spec, b) > TradesIn(spec, a))
    BY DEF TradesOf, TradesIn
  <2> HIDE DEF spec, n, m, a, b
  <2>8. WindowsTo(d) = WindowsTo(e)
    BY <2>4, <2>5, YearsTellWindows
  <2>9. TradesIn(spec, a) = TradesIn(spec, b) /\ TradesIn(spec, a) \in Nat
    BY <2>2, <2>3, <2>6, <2>7, TradesGrow
  <2>10. Earns(spec, e, m, a) /\ (Earns(spec, d, n, a) <=> Earns(spec, e, n, a))
    BY <2>5, <2>8, <2>9 DEF Earns, InSampleOf, OutOfSampleOf
  <2>11. ~(n <= m)
    BY <2>2, <2>3, <2>4, <2>5, <2>9, <2>10, EarnsLess
  <2>12. m < n
    BY <2>2, <2>11, AutoTestAssumption
  <2> QED BY <2>12 DEF n, m
<1> QED BY <1>1, AutoTestInvariance, PTL

SetsOf(S) == {L \in SUBSET S : IsFiniteSet(L) /\ L # {}}
-----------------------------------------------------------------------------
(* The legs a chain lists, those of an order and those of a position; a     *)
(* snapshot of a chain, and what its quotes are.                            *)
ListedLegs == [expiry : Expiries, strike : Strikes, side : Sides]
OrderLegs == [expiry : Nat, strike : Nat, side : Sides, quantity : Int]
PricedLegs == [expiry : Nat, strike : Nat, side : Sides, quantity : Int, price : Int]

IsSnapshot(snap) ==
    /\ snap.price \in Int
    /\ Legs(snap) \subseteq ListedLegs
    /\ \A c \in Legs(snap) : snap.quotes[c].bid \in Int /\ snap.quotes[c].ask \in Int

(* The call and the put of a strike have the same time value. *)
LEMMA TimeValueOfAStrike ==
    ASSUME NEW e \in Nat, NEW k \in Nat, NEW now \in Int, NEW price \in Int
    PROVE  \E v \in Nat : \A l : l.expiry = e /\ l.strike = k => Theo(l, now, price) = IntrinsicAt(l, price) + v
<1> USE ChainAssumption
<1> DEFINE steps == Distance(0, (k - price) \div Step)
           m == Nearest(steps, DOMAIN TimeValue)
           row == TimeValue[m]
           d == Nearest(e - now, DOMAIN row)
<1>1. steps \in Int
  BY DEF Distance
<1>2. m \in DOMAIN TimeValue
  BY <1>1, NearestIsListed
<1>3. DOMAIN row # {} /\ DOMAIN row \subseteq Nat /\ Range(row) \subseteq Nat
  BY <1>2
<1>4. d \in DOMAIN row
  <2>1. e - now \in Int OBVIOUS
  <2> HIDE DEF row
  <2> QED BY <1>3, <2>1, NearestIsListed
<1>5. row[d] \in Nat
  BY <1>3, <1>4 DEF Range
<1>6. ASSUME NEW l, l.expiry = e, l.strike = k
      PROVE  Theo(l, now, price) = IntrinsicAt(l, price) + row[d]
  BY <1>6 DEF Theo, Moneyness
<1> HIDE DEF row, d
<1> QED BY <1>5, <1>6

(* The pricing tables give an integer for every leg of a chain. *)
LEMMA TheoIsInteger ==
    ASSUME NEW c \in ListedLegs, NEW now \in Int, NEW price \in Int
    PROVE  Theo(c, now, price) \in Int
<1>1. c.strike \in Nat /\ c.expiry \in Nat
  BY ChainAssumption DEF ListedLegs
<1>2. PICK v \in Nat : Theo(c, now, price) = IntrinsicAt(c, price) + v
  BY <1>1, TimeValueOfAStrike
<1>3. IntrinsicAt(c, price) \in Int
  BY <1>1 DEF IntrinsicAt, AtLeast
<1> QED BY <1>2, <1>3

(* What a day lists is a snapshot, whatever is wrong with the day. *)
LEMMA SnapshotSound ==
    ASSUME NEW u, NEW now \in Int, NEW price \in Int, NEW gone, NEW dead
    PROVE  IsSnapshot(Snapshot(u, now, price, gone, dead))
<1> DEFINE snap == Snapshot(u, now, price, gone, dead)
           L == {Leg(e, k, s) : e \in {x \in Expiries : x >= now}, k \in Strikes \ gone, s \in Sides}
<1>1. snap.price = price /\ snap.quotes = [l \in L |-> Quote(l, now, price, l.strike \in dead)]
  BY DEF Snapshot
<1>2. L \subseteq ListedLegs
  BY DEF Leg, ListedLegs
<1>3. ASSUME NEW c \in L
      PROVE  snap.quotes[c].bid \in Int /\ snap.quotes[c].ask \in Int
  <2>1. Theo(c, now, price) \in Int /\ HalfSpread \in Int
    BY <1>2, TheoIsInteger, ChainAssumption
  <2>2. snap.quotes[c] = Quote(c, now, price, c.strike \in dead)
    BY <1>1
  <2> QED BY <2>1, <2>2 DEF Quote, AtLeast
<1> HIDE DEF snap, L
<1> QED BY <1>1, <1>2, <1>3 DEF IsSnapshot, Legs, snap

(* What a leg is filled at is an integer. *)
LEMMA FillPriceIsInteger ==
    ASSUME NEW snap, IsSnapshot(snap), NEW l, Contract(l) \in Legs(snap), NEW q
    PROVE  FillPrice(snap, l, q) \in Int /\ Mid(snap, l) \in Int
<1>1. Bid(snap, l) \in Int /\ Ask(snap, l) \in Int /\ OffsetPct \in Int
  BY ChainAssumption DEF IsSnapshot, Bid, Ask
<1>2. Mid(snap, l) \in Int
  BY <1>1 DEF Mid
<1>3. ((Ask(snap, l) - Bid(snap, l)) * OffsetPct) \div 200 \in Int
  BY <1>1
<1> QED BY <1>1, <1>2, <1>3 DEF FillPrice

(* Each strategy asks for finitely many legs of the chain. *)
LEMMA OrdersAreSound ==
    ASSUME NEW snap, IsSnapshot(snap), NEW id \in BaseIds
    PROVE  OrdersOf(id, snap) \subseteq SetsOf(OrderLegs)
<1> USE ChainAssumption
<1> DEFINE L == Legs(snap)
<1>0. ASSUME NEW a \in SetsOf(OrderLegs), NEW b \in SetsOf(OrderLegs)
      PROVE  a \cup b \in SetsOf(OrderLegs)
  BY FS_Union DEF SetsOf
<1>1. L \subseteq ListedLegs
  BY DEF IsSnapshot
<1>2. \A e, s : ForExpiry(snap, e, s) \subseteq L
  BY DEF ForExpiry
<1>3. \A e : Puts(snap, e) \subseteq L /\ Calls(snap, e) \subseteq L
  BY <1>2 DEF Puts, Calls
<1>4. \A S, l : Below(S, l) \subseteq S /\ Above(S, l) \subseteq S
  BY DEF Below, Above
<1>5. \A S, t : ClosestDelta(snap, S, t) \subseteq S
  BY DEF ClosestDelta, FirstNearest
<1>6. \A S, k : ClosestStrike(S, k) \subseteq S
  BY DEF ClosestStrike, FirstNearest
<1>7. \A S, b, k : Higher(S, b, k) \subseteq S /\ Lower(S, b, k) \subseteq S
  BY <1>4, <1>6 DEF Higher, Lower
<1>8. \A l \in ListedLegs : Buy(l) \in OrderLegs /\ Sell(l) \in OrderLegs /\ SellTwo(l) \in OrderLegs
  <2> SUFFICES ASSUME NEW l \in ListedLegs
               PROVE  Buy(l) \in OrderLegs /\ Sell(l) \in OrderLegs /\ SellTwo(l) \in OrderLegs
    OBVIOUS
  <2>1. l.expiry \in Nat /\ l.strike \in Nat /\ l.side \in Sides
    BY DEF ListedLegs
  <2>2. \A q \in Int : OrderLeg(l.expiry, l.strike, l.side, q) \in OrderLegs
    BY <2>1 DEF OrderLeg, OrderLegs
  <2> QED BY <2>2 DEF Buy, Sell, SellTwo
<1>9. \A a, b : /\ IsFiniteSet({a, b}) /\ {a, b} # {}
                /\ a \in OrderLegs /\ b \in OrderLegs => {a, b} \in SetsOf(OrderLegs)
  <2> SUFFICES ASSUME NEW a, NEW b
               PROVE  IsFiniteSet({a, b}) /\ {a, b} # {} /\ (a \in OrderLegs /\ b \in OrderLegs => {a, b} \in SetsOf(OrderLegs))
    OBVIOUS
  <2>1. IsFiniteSet({a} \cup {b})
    BY FS_Singleton, FS_AddElement
  <2>2. {a} \cup {b} = {a, b}
    OBVIOUS
  <2> QED BY <2>1, <2>2 DEF SetsOf
<1>10. \A A, B \in SUBSET SetsOf(OrderLegs) : Together(A, B) \subseteq SetsOf(OrderLegs)
  <2> SUFFICES ASSUME NEW A \in SUBSET SetsOf(OrderLegs), NEW B \in SUBSET SetsOf(OrderLegs),
                      NEW a \in A, NEW b \in B
               PROVE  a \cup b \in SetsOf(OrderLegs)
    BY DEF Together
  <2> QED BY <1>0
<1>11. \A A \in SUBSET SetsOf(OrderLegs) : Reversed(A) \subseteq SetsOf(OrderLegs)
  <2> SUFFICES ASSUME NEW A \in SUBSET SetsOf(OrderLegs), NEW a \in A
               PROVE  {[l EXCEPT !.quantity = - @] : l \in a} \in SetsOf(OrderLegs)
    BY DEF Reversed
  <2>1. a \in SUBSET OrderLegs /\ IsFiniteSet(a) /\ a # {}
    BY DEF SetsOf
  <2> DEFINE f == [l \in a |-> [l EXCEPT !.quantity = - @]]
  <2>2. IsFiniteSet(Range(f)) /\ Range(f) = {[l EXCEPT !.quantity = - @] : l \in a}
    <3>1. Range(f) = {[l EXCEPT !.quantity = - @] : l \in a} BY DEF Range
    <3>2. IsFiniteSet(Range(f)) BY <2>1, ValuesAreFinite
    <3> QED BY <3>1, <3>2
  <2>3. \A l \in OrderLegs : [l EXCEPT !.quantity = - @] \in OrderLegs
    BY DEF OrderLegs
  <2>4. {[l EXCEPT !.quantity = - @] : l \in a} # {} /\ {[l EXCEPT !.quantity = - @] : l \in a} \subseteq OrderLegs
    BY <2>1, <2>3
  <2> QED BY <2>2, <2>4 DEF SetsOf
<1>12. \A e, x, y : PutSpread(snap, e, x, y) \subseteq SetsOf(OrderLegs)
  <2> SUFFICES ASSUME NEW e, NEW x, NEW y,
                      NEW s \in ClosestDelta(snap, Puts(snap, e), - x),
                      NEW w \in ClosestDelta(snap, Below(Puts(snap, e), s), - y)
               PROVE  {Sell(s), Buy(w)} \in SetsOf(OrderLegs)
    BY DEF PutSpread
  <2>1. s \in ListedLegs /\ w \in ListedLegs
    BY <1>1, <1>3, <1>4, <1>5
  <2> QED BY <2>1, <1>8, <1>9
<1>13. \A e, x, y : CallSpread(snap, e, x, y) \subseteq SetsOf(OrderLegs)
  <2> SUFFICES ASSUME NEW e, NEW x, NEW y,
                      NEW s \in ClosestDelta(snap, Calls(snap, e), x),
                      NEW w \in ClosestDelta(snap, Above(Calls(snap, e), s), y)
               PROVE  {Sell(s), Buy(w)} \in SetsOf(OrderLegs)
    BY DEF CallSpread
  <2>1. s \in ListedLegs /\ w \in ListedLegs
    BY <1>1, <1>3, <1>4, <1>5
  <2> QED BY <2>1, <1>8, <1>9
<1>14. PutCreditSpread(snap) \subseteq SetsOf(OrderLegs) /\ CallCreditSpread(snap) \subseteq SetsOf(OrderLegs)
  BY <1>12, <1>13 DEF PutCreditSpread, CallCreditSpread
<1>15. /\ IronCondor(snap) \subseteq SetsOf(OrderLegs)
       /\ ShortStrangleDefined(snap) \subseteq SetsOf(OrderLegs)
       /\ JadeLizard(snap) \subseteq SetsOf(OrderLegs)
  BY <1>10, <1>12, <1>13 DEF IronCondor, ShortStrangleDefined, JadeLizard
<1>16. ReverseIronCondor(snap) \subseteq SetsOf(OrderLegs)
  BY <1>10, <1>11, <1>12, <1>13 DEF ReverseIronCondor
<1>17. IronButterfly(snap) \subseteq SetsOf(OrderLegs)
  <2> DEFINE common(e) == {c \in Calls(snap, e) : \E p \in Puts(snap, e) : p.strike = c.strike}
         wings(e, body) ==
            {{Sell(body), Sell([body EXCEPT !.side = "put"]), Buy(c), Buy(p)} :
             c \in ClosestDelta(snap, Above(Calls(snap, e), body), 5),
             p \in ClosestDelta(snap, Below(Puts(snap, e), body), -5)}
  <2>0. IronButterfly(snap) = UNION {UNION {wings(e, body) : body \in ClosestStrike(common(e), snap.price)} :
                                     e \in ExpiryFor(snap, TargetDte)}
    BY DEF IronButterfly
  <2>1. ASSUME NEW e, NEW body \in ClosestStrike(common(e), snap.price)
        PROVE  wings(e, body) \subseteq SetsOf(OrderLegs)
    <3> SUFFICES ASSUME NEW c \in ClosestDelta(snap, Above(Calls(snap, e), body), 5),
                        NEW p \in ClosestDelta(snap, Below(Puts(snap, e), body), -5)
                 PROVE  {Sell(body), Sell([body EXCEPT !.side = "put"]), Buy(c), Buy(p)} \in SetsOf(OrderLegs)
      OBVIOUS
    <3>1. body \in ListedLegs /\ c \in ListedLegs /\ p \in ListedLegs
      <4>1. common(e) \subseteq L BY <1>3
      <4>2. body \in common(e) BY <1>6
      <4> QED BY <1>1, <1>3, <1>4, <1>5, <4>1, <4>2
    <3>2. [body EXCEPT !.side = "put"] \in ListedLegs
      BY <3>1 DEF ListedLegs, Sides
    <3>3. {Sell(body), Sell([body EXCEPT !.side = "put"])} \in SetsOf(OrderLegs) /\ {Buy(c), Buy(p)} \in SetsOf(OrderLegs)
      BY <3>1, <3>2, <1>8, <1>9
    <3>4. {Sell(body), Sell([body EXCEPT !.side = "put"]), Buy(c), Buy(p)} =
          {Sell(body), Sell([body EXCEPT !.side = "put"])} \cup {Buy(c), Buy(p)}
      OBVIOUS
    <3> QED BY <3>3, <3>4, <1>0
  <2> HIDE DEF wings, common
  <2> QED BY <2>0, <2>1
<1>18. PutBrokenWingButterfly(snap) \subseteq SetsOf(OrderLegs)
  <2> SUFFICES ASSUME NEW e, NEW body \in ClosestDelta(snap, Puts(snap, e), -20),
                      NEW outer \in Lower(Puts(snap, e), body, OuterWing),
                      NEW inner \in Higher(Puts(snap, e), body, InnerWing)
               PROVE  {Buy(outer), SellTwo(body), Buy(inner)} \in SetsOf(OrderLegs)
    BY DEF PutBrokenWingButterfly
  <2>1. body \in ListedLegs /\ outer \in ListedLegs /\ inner \in ListedLegs
    BY <1>1, <1>3, <1>5, <1>7
  <2>2. {Buy(outer), SellTwo(body)} \in SetsOf(OrderLegs) /\ {Buy(inner), Buy(inner)} \in SetsOf(OrderLegs)
    BY <2>1, <1>8, <1>9
  <2>3. {Buy(outer), SellTwo(body), Buy(inner)} = {Buy(outer), SellTwo(body)} \cup {Buy(inner), Buy(inner)}
    OBVIOUS
  <2> QED BY <2>2, <2>3, <1>0
<1>19. PutCalendar(snap) \subseteq SetsOf(OrderLegs)
  <2>1. \A x \in TwoExpiries(snap) : x[1] \in Expiries
    BY DEF TwoExpiries, ExpiryFor, PickExpiry
  <2> DEFINE middle(f) == ClosestStrike(Puts(snap, f), snap.price)
             back(f, b) == {l \in UNION {ClosestStrike(Puts(snap, b), m.strike) : m \in middle(f)} :
                               \A m \in middle(f) : Distance(l.strike, m.strike) <= CalendarSlack}
             orders(f, b) == {{Sell([l EXCEPT !.expiry = f]), Buy(l)} : l \in back(f, b)}
  <2>0. PutCalendar(snap) = UNION {orders(x[1], x[2]) : x \in TwoExpiries(snap)}
    BY DEF PutCalendar
  <2>2. ASSUME NEW x \in TwoExpiries(snap) PROVE orders(x[1], x[2]) \subseteq SetsOf(OrderLegs)
    <3> SUFFICES ASSUME NEW l \in back(x[1], x[2])
                 PROVE  {Sell([l EXCEPT !.expiry = x[1]]), Buy(l)} \in SetsOf(OrderLegs)
      OBVIOUS
    <3>1. \A m : ClosestStrike(Puts(snap, x[2]), m.strike) \subseteq L
      BY <1>3, <1>6
    <3>2. l \in ListedLegs
      BY <1>1, <3>1
    <3>3. [l EXCEPT !.expiry = x[1]] \in ListedLegs
      BY <2>1, <3>2 DEF ListedLegs
    <3> QED BY <3>2, <3>3, <1>8, <1>9
  <2> HIDE DEF orders
  <2> QED BY <2>0, <2>2
<1>20. PutDiagonal(snap) \subseteq SetsOf(OrderLegs)
  <2> SUFFICES ASSUME NEW x \in TwoExpiries(snap),
                      NEW s \in ClosestDelta(snap, Puts(snap, x[1]), -30),
                      NEW l \in ClosestDelta(snap, Below(Puts(snap, x[2]), s), -10)
               PROVE  {Sell(s), Buy(l)} \in SetsOf(OrderLegs)
    BY DEF PutDiagonal
  <2>1. s \in ListedLegs /\ l \in ListedLegs
    BY <1>1, <1>3, <1>4, <1>5
  <2> QED BY <2>1, <1>8, <1>9
<1>21. CallDiagonal(snap) \subseteq SetsOf(OrderLegs)
  <2> SUFFICES ASSUME NEW x \in TwoExpiries(snap),
                      NEW s \in ClosestDelta(snap, Calls(snap, x[1]), 30),
                      NEW l \in ClosestDelta(snap, Above(Calls(snap, x[2]), s), 10)
               PROVE  {Sell(s), Buy(l)} \in SetsOf(OrderLegs)
    BY DEF CallDiagonal
  <2>1. s \in ListedLegs /\ l \in ListedLegs
    BY <1>1, <1>3, <1>4, <1>5
  <2> QED BY <2>1, <1>8, <1>9
<1> QED BY <1>14, <1>15, <1>16, <1>17, <1>18, <1>19, <1>20, <1>21 DEF OrdersOf, BaseIds

(* The legs of a filled order are those of the order, with prices. *)
LEMMA FilledIsSound ==
    ASSUME NEW snap, IsSnapshot(snap), NEW legs \in SetsOf(OrderLegs),
           \A l \in legs : Contract(l) \in Legs(snap)
    PROVE  Filled(snap, legs) \in SetsOf(PricedLegs)
<1> DEFINE f == [l \in legs |-> [expiry |-> l.expiry, strike |-> l.strike, side |-> l.side,
                                 quantity |-> l.quantity,
                                 price |-> FillPrice(snap, Contract(l), l.quantity)]]
<1>1. Filled(snap, legs) = Range(f)
  BY DEF Filled, Range
<1>2. legs \in SUBSET OrderLegs /\ IsFiniteSet(legs) /\ legs # {}
  BY DEF SetsOf
<1>3. IsFiniteSet(Range(f)) /\ Range(f) # {}
  BY <1>2, ValuesAreFinite DEF Range
<1>4. ASSUME NEW l \in legs PROVE f[l] \in PricedLegs
  <2>1. Contract(Contract(l)) = Contract(l)
    BY DEF Contract, Leg
  <2>2. FillPrice(snap, Contract(l), l.quantity) \in Int
    BY <2>1, FillPriceIsInteger
  <2>3. l.expiry \in Nat /\ l.strike \in Nat /\ l.side \in Sides /\ l.quantity \in Int
    BY <1>2 DEF OrderLegs
  <2> QED BY <2>2, <2>3 DEF PricedLegs
<1> HIDE DEF f
<1>5. DOMAIN f = legs
  BY DEF f
<1> QED BY <1>1, <1>3, <1>4, <1>5 DEF SetsOf, Range

(* What legs pay at the sampled prices. *)
LEMMA SampledPayoffs ==
    ASSUME NEW legs, IsFiniteSet(legs), legs # {}, \A l \in legs : l.strike \in Nat /\ l.quantity \in Int
    PROVE  /\ \A p \in Int : PayoffAt(legs, p) \in Int
           /\ LET payoffs == {PayoffAt(legs, p) : p \in SamplePrices(legs)}
              IN  IsFiniteSet(payoffs) /\ payoffs # {} /\ payoffs \in SUBSET Int
           /\ \E top \in Nat : {0, 2 * top} \subseteq SamplePrices(legs) /\ \A l \in legs : l.strike <= top
<1>1. ASSUME NEW p \in Int PROVE PayoffAt(legs, p) \in Int
  <2> DEFINE f == [l \in legs |-> l.quantity * IntrinsicAt(l, p)]
  <2>1. \A l \in legs : IntrinsicAt(l, p) \in Int
    BY DEF IntrinsicAt, AtLeast
  <2>2. IsFiniteSet(DOMAIN f) /\ \A l \in DOMAIN f : f[l] \in Int
    BY <2>1
  <2> HIDE DEF f
  <2>3. SumFunction(f) \in Int
    BY <2>2, TotalIsInteger
  <2> QED BY <2>3 DEF PayoffAt, f
<1> DEFINE K == {l.strike : l \in legs}
<1>2. IsFiniteSet(K) /\ K # {} /\ K \subseteq Nat
  <2> DEFINE f == [l \in legs |-> l.strike]
  <2>1. IsFiniteSet(Range(f)) BY ValuesAreFinite
  <2>2. Range(f) = K BY DEF Range
  <2>3. K # {} /\ K \subseteq Nat OBVIOUS
  <2> QED BY <2>1, <2>2, <2>3
<1>3. Max(K) \in Nat /\ \A k \in K : k <= Max(K)
  <2>1. K \in SUBSET Int
    BY <1>2
  <2> HIDE DEF K
  <2> QED BY <1>2, <2>1, Extremes
<1>4. IsFiniteSet(SamplePrices(legs)) /\ SamplePrices(legs) \subseteq Int
  <2> HIDE DEF K
  <2>2. IsFiniteSet({k - 1 : k \in K}) /\ IsFiniteSet({k + 1 : k \in K})
    <3>1. IsFiniteSet(Range([k \in K |-> k - 1])) /\ IsFiniteSet(Range([k \in K |-> k + 1]))
      BY <1>2, ValuesAreFinite
    <3>2. Range([k \in K |-> k - 1]) = {k - 1 : k \in K} /\ Range([k \in K |-> k + 1]) = {k + 1 : k \in K}
      BY DEF Range
    <3> QED BY <3>1, <3>2
  <2>3. IsFiniteSet({0, 2 * Max(K)})
    <3>1. IsFiniteSet({0} \cup {2 * Max(K)}) BY FS_Singleton, FS_Union
    <3>2. {0} \cup {2 * Max(K)} = {0, 2 * Max(K)} OBVIOUS
    <3> QED BY <3>1, <3>2
  <2> DEFINE A == {0, 2 * Max(K)}
             B == {k - 1 : k \in K}
             C == {k + 1 : k \in K}
  <2>4. SamplePrices(legs) = A \cup K \cup B \cup C
    BY DEF SamplePrices, K
  <2>5. A \subseteq Int /\ K \subseteq Int /\ B \subseteq Int /\ C \subseteq Int
    BY <1>2, <1>3
  <2>6. IsFiniteSet(A) /\ IsFiniteSet(B) /\ IsFiniteSet(C)
    BY <2>2, <2>3
  <2> HIDE DEF A, B, C
  <2>7. IsFiniteSet(A \cup K)
    BY <1>2, <2>6, FS_Union
  <2>8. IsFiniteSet(A \cup K \cup B)
    BY <2>6, <2>7, FS_Union
  <2>9. IsFiniteSet(A \cup K \cup B \cup C)
    BY <2>6, <2>8, FS_Union
  <2> QED BY <2>4, <2>5, <2>9
<1>5. {0, 2 * Max(K)} \subseteq SamplePrices(legs) /\ \A l \in legs : l.strike <= Max(K)
  <2>1. \A l \in legs : l.strike \in K
    OBVIOUS
  <2> HIDE DEF K
  <2>2. {0, 2 * Max(K)} \subseteq SamplePrices(legs)
    BY DEF SamplePrices, K
  <2> QED BY <1>3, <2>1, <2>2
<1> DEFINE payoffs == {PayoffAt(legs, p) : p \in SamplePrices(legs)}
<1>6. IsFiniteSet(payoffs) /\ payoffs # {} /\ payoffs \in SUBSET Int
  <2> DEFINE f == [p \in SamplePrices(legs) |-> PayoffAt(legs, p)]
  <2>1. IsFiniteSet(Range(f)) BY <1>4, ValuesAreFinite
  <2>2. Range(f) = payoffs BY DEF Range
  <2>3. payoffs \subseteq Int /\ payoffs # {}
    BY <1>1, <1>4, <1>5
  <2> QED BY <2>1, <2>2, <2>3
<1> HIDE DEF K, payoffs
<1> QED BY <1>1, <1>3, <1>5, <1>6 DEF payoffs

(* The credit and the greatest loss of legs are integers, and no position   *)
(* is charged with less than nothing.                                       *)
LEMMA PositionArithmetic ==
    ASSUME NEW legs \in SetsOf(PricedLegs)
    PROVE  /\ Credit(legs) \in Int
           /\ \A p \in Int : PayoffAt(legs, p) \in Int
           /\ \A c \in Int : MaxLoss(legs, c) \in Nat
           /\ IsFiniteSet(ExpiriesOf(legs)) /\ ExpiriesOf(legs) # {}
<1>1. IsFiniteSet(legs) /\ legs # {}
  BY DEF SetsOf
<1>2. \A l \in legs : /\ l.expiry \in Nat /\ l.strike \in Nat /\ l.quantity \in Int /\ l.price \in Int
  BY DEF SetsOf, PricedLegs
<1>3. Credit(legs) \in Int
  <2> DEFINE f == [l \in legs |-> l.quantity * l.price]
  <2>1. IsFiniteSet(DOMAIN f) /\ \A l \in DOMAIN f : f[l] \in Int
    BY <1>1, <1>2
  <2> HIDE DEF f
  <2>2. SumFunction(f) \in Int
    BY <2>1, TotalIsInteger
  <2> QED BY <2>2 DEF Credit, f
<1>4. IsFiniteSet(ExpiriesOf(legs)) /\ ExpiriesOf(legs) # {}
  <2> DEFINE f == [l \in legs |-> l.expiry]
  <2>1. IsFiniteSet(Range(f)) BY <1>1, ValuesAreFinite
  <2>2. Range(f) = ExpiriesOf(legs) BY DEF Range, ExpiriesOf
  <2>3. ExpiriesOf(legs) # {} BY <1>1 DEF ExpiriesOf
  <2> QED BY <2>1, <2>2, <2>3
<1> DEFINE payoffs == {PayoffAt(legs, p) : p \in SamplePrices(legs)}
<1>5. (\A p \in Int : PayoffAt(legs, p) \in Int) /\ IsFiniteSet(payoffs) /\ payoffs \in SUBSET Int
  BY <1>1, <1>2, SampledPayoffs
<1>6. ASSUME NEW c \in Int PROVE MaxLoss(legs, c) \in Nat
  <2> HIDE DEF payoffs
  <2>1. IsFiniteSet({0} \cup payoffs)
    BY <1>5, FS_Singleton, FS_Union
  <2>2. Min({0} \cup payoffs) \in Int
    <3>1. {0} \cup payoffs \in SUBSET Int /\ {0} \cup payoffs # {} BY <1>5
    <3> QED BY <2>1, <3>1, Extremes
  <2> QED BY <2>2 DEF MaxLoss, AtLeast, payoffs
<1> QED BY <1>3, <1>4, <1>5, <1>6

-----------------------------------------------------------------------------
(* The prover does not know that the ids of the registry are strings. *)
Names == STRING \cup BaseIds
Reasons == {"none", "dte_close", "profit_take", "loss_stop"}
Orders == [strat : Names, tag : Names, source : ToSet(Sources), legs : SetsOf(OrderLegs)]
Positions == [tag : Names, source : ToSet(Sources), legs : SetsOf(PricedLegs), credit : Int, maxLoss : Nat]
Trades == [tag : Names, source : ToSet(Sources), legs : SetsOf(PricedLegs), credit : Int, reserve : Nat,
           pnl : Int, reason : Reasons, quoted : BOOLEAN, present : BOOLEAN]

(* What a fill opens is a position. *)
LEMMA PositionIsSound ==
    ASSUME NEW ord \in Orders, NEW snap, IsSnapshot(snap), Fillable(snap, ord.legs)
    PROVE  Position(ord, snap) \in Positions
<1>1. ord.legs \in SetsOf(OrderLegs) /\ ord.tag \in Names /\ ord.source \in ToSet(Sources)
  BY DEF Orders
<1> DEFINE legs == Filled(snap, ord.legs)
<1>2. legs \in SetsOf(PricedLegs)
  BY <1>1, FilledIsSound DEF Fillable
<1> HIDE DEF legs
<1>3. Credit(legs) \in Int /\ MaxLoss(legs, Credit(legs)) \in Nat
  BY <1>2, PositionArithmetic
<1>4. Position(ord, snap) = [tag |-> ord.tag, source |-> ord.source, legs |-> legs, credit |-> Credit(legs),
                             maxLoss |-> MaxLoss(legs, Credit(legs))]
  BY DEF Position, legs
<1> QED BY <1>1, <1>2, <1>3, <1>4 DEF Positions

(* What closing a position records is a trade. *)
LEMMA TradeIsSound ==
    ASSUME NEW pos \in Positions, NEW snap, IsSnapshot(snap), NEW reason \in Reasons
    PROVE  Trade(pos, snap, reason) \in Trades
<1>1. /\ pos.legs \in SetsOf(PricedLegs) /\ pos.tag \in Names /\ pos.source \in ToSet(Sources)
      /\ pos.credit \in Int /\ pos.maxLoss \in Nat
  BY DEF Positions
<1>2. ASSUME NEW l \in pos.legs PROVE l.quantity * ClosePrice(snap, l) \in Int
  <2>1. l.quantity \in Int /\ l.strike \in Nat
    BY <1>1 DEF SetsOf, PricedLegs
  <2>2. CASE Contract(l) \in Legs(snap)
    <3>1. Contract(Contract(l)) = Contract(l)
      BY DEF Contract, Leg
    <3>2. ClosePrice(snap, l) \in Int
      BY <2>2, <3>1, FillPriceIsInteger DEF ClosePrice
    <3> QED BY <2>1, <3>2
  <2>3. CASE Contract(l) \notin Legs(snap)
    <3>1. IntrinsicAt(l, snap.price) \in Int
      BY <2>1 DEF IntrinsicAt, AtLeast, IsSnapshot
    <3> QED BY <2>1, <2>3, <3>1 DEF ClosePrice
  <2> QED BY <2>2, <2>3
<1> DEFINE f == [l \in pos.legs |-> l.quantity * ClosePrice(snap, l)]
<1>3. IsFiniteSet(DOMAIN f) /\ \A l \in DOMAIN f : f[l] \in Int
  BY <1>1, <1>2 DEF SetsOf
<1> HIDE DEF f
<1>4. SumFunction(f) \in Int
  BY <1>3, TotalIsInteger
<1>5. ClosedPnl(snap, pos) \in Int
  BY <1>1, <1>4 DEF ClosedPnl, f
<1> QED BY <1>1, <1>5 DEF Trade, Trades

-----------------------------------------------------------------------------
(* The types of a run of the daily backtests. *)
TapeDays == [price : Prices, quirk : Quirks \cup {Sound}]

BookTypes ==
    /\ setup \in Setups /\ study \in Studies /\ plan = Plan(study)
    /\ tape \in Seq(TapeDays)
    /\ day \in Int /\ at \in Nat \ {0} /\ crashed \in BOOLEAN
    /\ phase \in {"manage", "fill", "decide", "done"}
    /\ DOMAIN today \subseteq ToSet(Sources) /\ \A s \in DOMAIN today : IsSnapshot(today[s])
    /\ phase = "manage" => DOMAIN today # {}
    /\ crashed => phase = "manage"
    /\ open \in Seq(Positions) /\ pending \in Seq(Orders) /\ trades \in Seq(Trades)
    /\ perStrategy \in [Ids -> [closed : Nat, rejected : Nat]]
    /\ perSource \in [ToSet(Sources) -> Nat]

(* A plan runs on days from the first one on. *)
LEMMA PlannedDays ==
    ASSUME NEW s \in Studies, NEW i \in DOMAIN Plan(s)
    PROVE  Plan(s)[i].on \subseteq Nat \ {0}
<1>0. s.days \in Nat
  BY StudyAssumption, BacktestAssumption
<1>1. \A part, interval, n : ARun(part, interval, n, s.days).on \subseteq Nat \ {0}
  BY <1>0 DEF ARun, DaysIn
<1>2. s.kind \in {"once", "walk_forward", "cpcv"}
  BY StudyAssumption
<1>3. CASE s.kind = "once"
  <2>1. Plan(s) = <<[part |-> "once", on |-> 1..s.days]>>
    BY <1>3 DEF Plan
  <2>2. i = 1 /\ Plan(s)[1] = [part |-> "once", on |-> 1..s.days]
    BY <2>1
  <2>3. 1..s.days \subseteq Nat \ {0}
    BY <1>0
  <2> QED BY <2>2, <2>3
<1>4. CASE s.kind = "walk_forward"
  <2> DEFINE windows == SplitWindows(1, 2 * s.days + 1, 2 * s.train, 2 * s.test, 2 * s.roll)
             train(w) == ARun("train", <<w.train, w.test>>, 1, s.days)
             test(w) == ARun("test", <<w.test, w.end>>, 1, s.days)
  <2>1. Plan(s) = [j \in 1..(2 * Len(windows)) |->
                      IF j % 2 = 1 THEN train(windows[(j + 1) \div 2]) ELSE test(windows[j \div 2])]
    BY <1>4 DEF Plan, WalkForwardRuns
  <2>2. \A w : train(w).on \subseteq Nat \ {0} /\ test(w).on \subseteq Nat \ {0}
    BY <1>1
  <2> HIDE DEF windows, train, test
  <2> QED BY <2>1, <2>2
<1>5. CASE s.kind = "cpcv"
  <2>1. Plan(s) = CpcvRuns(s)
    BY <1>5 DEF Plan
  <2> DEFINE folds == SplitFolds(1, 2 * s.days + 1, s.folds)
             paths == Paths(s.folds, s.k)
             needed(f) == Min({p \in DOMAIN paths : f \in ToSet(paths[p])})
             sooner(f, g) == needed(f) < needed(g) \/ (needed(f) = needed(g) /\ f < g)
             first == InOrder(1..s.folds, sooner)
             run(j) == ARun("fold", folds[first[j]], s.folds, s.days)
  <2>2. Plan(s) = [j \in DOMAIN first |-> run(j)]
    BY <2>1, Zenon DEF CpcvRuns
  <2>3. \A j : run(j).on \subseteq Nat \ {0}
    BY <1>1
  <2> HIDE DEF run, first
  <2> QED BY <2>2, <2>3
<1> QED BY <1>2, <1>3, <1>4, <1>5

(* What a run says of each of its strategies. *)
LEMMA BookMembers ==
    ASSUME setup \in Setups, NEW j \in DOMAIN setup.book
    PROVE  /\ setup.book[j].id \in Names /\ setup.book[j].base \in BaseIds
           /\ setup.book[j].source \in ToSet(Sources) /\ TagOf(setup.book[j]) \in Names
           /\ setup.book[j].gate \in {"none", "iv", "skew", "slope", "vix", "vix_open"}
           /\ setup.book[j].gate = "none" => setup.book[j].id = setup.book[j].base
<1>1. setup.book \in Seq(Strategies)
  BY BacktestAssumption
<1>2. setup.book[j] \in Strategies
  BY <1>1, LenProperties, ElementOfSeq
<1>4. setup.book[j].gate = "none" => setup.book[j].id = setup.book[j].base
  BY BacktestAssumption
<1> QED BY <1>2, <1>4 DEF Strategies, TagOf, Names

LEMMA BookOfSequence ==
    ASSUME setup \in Setups
    PROVE  Len(setup.book) \in Nat /\ DOMAIN setup.book = 1..Len(setup.book)
<1>1. setup.book \in Seq(Strategies)
  BY BacktestAssumption
<1> QED BY <1>1, LenProperties

-----------------------------------------------------------------------------
(* Each step keeps the types. *)
Counters == [closed : Nat, rejected : Nat]

LEMMA CountersKept ==
    ASSUME NEW I, NEW f \in [I -> Counters], NEW k
    PROVE  /\ [f EXCEPT ![k].closed = @ + 1] \in [I -> Counters]
           /\ [f EXCEPT ![k].rejected = @ + 1] \in [I -> Counters]
<1>1. CASE k \notin I
  BY <1>1
<1>2. CASE k \in I
  <2>1. f[k] \in Counters
    BY <1>2
  <2>2. [f[k] EXCEPT !.closed = @ + 1] \in Counters /\ [f[k] EXCEPT !.rejected = @ + 1] \in Counters
    BY <2>1 DEF Counters
  <2> QED BY <1>2, <2>2
<1> QED BY <1>1, <1>2

LEMMA BookTypesInit == StudyInit => BookTypes
<1> SUFFICES ASSUME StudyInit PROVE BookTypes
  OBVIOUS
<1> USE DEF StudyInit, Init
<1>1. /\ setup \in Setups /\ study \in Studies /\ plan = Plan(study)
      /\ day \in Int /\ at \in Nat \ {0} /\ phase = "done"
  OBVIOUS
<1>5. crashed \in BOOLEAN /\ ~crashed
  BY Zenon
<1>2. \A S : <<>> \in Seq(S)
  BY EmptySeq
<1>3. perStrategy \in [Ids -> [closed : Nat, rejected : Nat]] /\ perSource \in [ToSet(Sources) -> Nat]
  OBVIOUS
<1>4. DOMAIN today = {}
  OBVIOUS
<1> QED BY <1>1, <1>2, <1>3, <1>4, <1>5 DEF BookTypes

LEMMA NextSnapshotSound ==
    ASSUME BookTypes, NEW price \in Prices, NEW quirk, NextSnapshot(price, quirk)
    PROVE  /\ day' \in Int /\ at' = 1 /\ phase' = "manage" /\ phase = "done"
           /\ DOMAIN today' \subseteq ToSet(Sources) /\ DOMAIN today' # {}
           /\ \A s \in DOMAIN today' : IsSnapshot(today'[s])
           /\ UNCHANGED <<setup, open, pending, trades, refused, perStrategy, perSource, crashed, seen>>
           /\ ~crashed
<1> DEFINE priceOf(s) == IF s = "A" THEN price ELSE Other[price]
           snaps == [s \in SourcesOf(quirk) |-> Snapshot(s, day + 1, priceOf(s), quirk.gone, quirk.dead)]
<1>1. day + 1 \in Int
  BY DEF BookTypes
<1>2. \A s : priceOf(s) \in Int
  BY BacktestAssumption
<1>3. today' = snaps
  BY DEF NextSnapshot
<1>4. \A s \in SourcesOf(quirk) : IsSnapshot(snaps[s])
  <2> SUFFICES ASSUME NEW s \in SourcesOf(quirk) PROVE IsSnapshot(snaps[s])
    OBVIOUS
  <2>1. snaps[s] = Snapshot(s, day + 1, priceOf(s), quirk.gone, quirk.dead)
    OBVIOUS
  <2>2. priceOf(s) \in Int BY <1>2
  <2> HIDE DEF priceOf, snaps
  <2>3. IsSnapshot(Snapshot(s, day + 1, priceOf(s), quirk.gone, quirk.dead))
    BY <1>1, <2>2, SnapshotSound
  <2> QED BY <2>1, <2>3
<1>5. SourcesOf(quirk) \subseteq ToSet(Sources) /\ SourcesOf(quirk) # {}
  <2>1. ToSet(Sources) = {"A", "B"}
    BY DEF ToSet, Sources
  <2>2. CASE setup.runner = "multi" /\ quirk.absent = {}
    BY <2>1, <2>2 DEF SourcesOf
  <2>3. CASE setup.runner = "multi" /\ quirk.absent # {}
    BY <2>1, <2>3 DEF SourcesOf, NextSnapshot
  <2>4. CASE setup.runner # "multi"
    BY <2>1, <2>4 DEF SourcesOf
  <2> QED BY <2>2, <2>3, <2>4
<1>6. DOMAIN today' = SourcesOf(quirk)
  BY <1>3
<1>7. \A s \in DOMAIN today' : IsSnapshot(today'[s])
  <2> HIDE DEF snaps
  <2> QED BY <1>3, <1>4, <1>6
<1>8. day' \in Int /\ at' = 1 /\ phase' = "manage" /\ phase = "done" /\ ~crashed
  BY <1>1 DEF NextSnapshot
<1>9. UNCHANGED <<setup, open, pending, trades, refused, perStrategy, perSource, crashed, seen>>
  BY DEF NextSnapshot, account
<1> QED BY <1>5, <1>6, <1>7, <1>8, <1>9

LEMMA BookTypesReadDay ==
    ASSUME BookTypes, ReadDay
    PROVE  BookTypes'
<1>1. PICK price, quirk :
          /\ NextSnapshot(price, quirk) /\ price \in Prices
          /\ quirk \in Quirks \cup {Sound}
          /\ tape' = tape \/ tape' = Append(tape, [price |-> price, quirk |-> quirk])
  <2>1. CASE day < Len(tape) /\ NextSnapshot(tape[day + 1].price, tape[day + 1].quirk) /\ UNCHANGED tape
    <3>1. OnPlan /\ day + 1 \in plan[runNo].on
      BY DEF ReadDay
    <3>2. day + 1 \in Nat \ {0} /\ day \in Int
      BY <3>1, PlannedDays DEF OnPlan, BookTypes
    <3>3. Len(tape) \in Nat /\ tape \in Seq(TapeDays)
      BY LenProperties DEF BookTypes
    <3>4. day + 1 \in 1..Len(tape)
      BY <2>1, <3>2, <3>3
    <3>5. tape[day + 1] \in TapeDays
      BY <3>3, <3>4, ElementOfSeq
    <3> QED BY <2>1, <3>5 DEF TapeDays
  <2>2. CASE \E price \in Prices, quirk \in Quirks \cup {Sound} :
                NextSnapshot(price, quirk) /\ tape' = Append(tape, [price |-> price, quirk |-> quirk])
    BY <2>2
  <2> QED BY <2>1, <2>2 DEF ReadDay
<1>2. tape' \in Seq(TapeDays)
  <2>1. tape \in Seq(TapeDays) /\ [price |-> price, quirk |-> quirk] \in TapeDays
    BY <1>1 DEF BookTypes, TapeDays
  <2>2. Append(tape, [price |-> price, quirk |-> quirk]) \in Seq(TapeDays)
    BY <2>1, AppendProperties
  <2> QED BY <1>1, <2>1, <2>2
<1>3. /\ day' \in Int /\ at' = 1 /\ phase' = "manage"
      /\ DOMAIN today' \subseteq ToSet(Sources) /\ DOMAIN today' # {}
      /\ \A s \in DOMAIN today' : IsSnapshot(today'[s])
      /\ UNCHANGED <<setup, open, pending, trades, refused, perStrategy, perSource, crashed, seen>>
  BY <1>1, NextSnapshotSound
<1>4. UNCHANGED <<study, plan, runNo, results, verdict>>
  BY DEF ReadDay
<1>5. Ids' = Ids
  BY <1>3 DEF Ids
<1> QED BY <1>2, <1>3, <1>4, <1>5 DEF BookTypes

(* A position is marked on a snapshot of the day, if not its own. *)
LEMMA MarkedOnASnapshot ==
    ASSUME BookTypes, phase = "manage", NEW pos
    PROVE  IsSnapshot(MarkSnapshot(pos))
<1>1. ToSet(Sources) = {"A", "B"}
  BY DEF ToSet, Sources
<1> QED BY <1>1 DEF BookTypes, MarkSnapshot, AnchorOf

LEMMA BookTypesClose ==
    ASSUME BookTypes, Close, UNCHANGED studyVars
    PROVE  BookTypes'
<1> DEFINE pos == open[at]
           reason == ShouldClose(pos, MarkSnapshot(pos))
           sale == Trade(pos, MarkSnapshot(pos), reason)
<1>1. /\ phase = "manage" /\ at <= Len(open) /\ UNCHANGED <<data, phase, at, pending, refused, seen>>
      /\ open' = RemoveAt(open, at) /\ trades' = Append(trades, sale)
      /\ crashed' = (setup.runner # "single" /\ pos.tag \notin Ids)
  BY DEF Close
<1>2. Len(open) \in Nat /\ at \in Nat
  BY LenProperties DEF BookTypes
<1>3. at \in 1..Len(open) /\ pos \in Positions
  BY <1>1, <1>2, ElementOfSeq DEF BookTypes
<1>4. open' \in Seq(Positions)
  BY <1>1, <1>3, RemoveAtSound DEF BookTypes
<1>5. reason \in Reasons
  BY DEF ShouldClose, Reasons
<1>6. sale \in Trades
  BY <1>1, <1>3, <1>5, MarkedOnASnapshot, TradeIsSound
<1>7. trades' \in Seq(Trades)
  BY <1>1, <1>6, AppendProperties DEF BookTypes
<1>8. perStrategy' \in [Ids -> [closed : Nat, rejected : Nat]]
  <2>1. \/ perStrategy' = perStrategy
        \/ perStrategy' = [perStrategy EXCEPT ![pos.tag].closed = @ + 1]
    BY DEF Close
  <2>2. perStrategy \in [Ids -> Counters]
    BY DEF BookTypes, Counters
  <2> QED BY <2>1, <2>2, CountersKept DEF Counters
<1>9. perSource' \in [ToSet(Sources) -> Nat]
  BY SMTT(30) DEF Close, BookTypes, BookOnSource
<1> QED BY <1>1, <1>4, <1>7, <1>8, <1>9 DEF BookTypes, studyVars, data, Ids

LEMMA BookTypesFill ==
    ASSUME BookTypes, Fill \/ Reject, UNCHANGED studyVars
    PROVE  BookTypes'
<1> DEFINE ord == Head(pending)
<1>1. ord \in Orders /\ Tail(pending) \in Seq(Orders)
  BY HeadTailProperties DEF BookTypes, Fill, Reject
<1>2. CASE Fill
  <2>1. /\ ord.source \in DOMAIN today /\ Fillable(today[ord.source], ord.legs)
    BY <1>2 DEF Fill, Verdict
  <2>2. Position(ord, today[ord.source]) \in Positions
    BY <1>1, <2>1, PositionIsSound DEF BookTypes
  <2>3. open' \in Seq(Positions)
    BY <1>2, <2>2, AppendProperties DEF BookTypes, Fill
  <2> QED BY <1>1, <1>2, <2>3 DEF BookTypes, studyVars, data, Ids, Fill
<1>3. CASE Reject
  <2>1. perStrategy' \in [Ids -> [closed : Nat, rejected : Nat]]
    BY <1>3, CountersKept DEF Reject, BookTypes, Counters
  <2> QED BY <1>1, <1>3, <2>1 DEF BookTypes, studyVars, data, Ids, Reject
<1> QED BY <1>2, <1>3

(* A strategy's turn: nothing is asked for while its own id has something   *)
(* open, and the order carries the tag the wrapper leaves on it.             *)
LEMMA DecidedOne ==
    ASSUME BookTypes, Decide
    PROVE  /\ at \in DOMAIN setup.book /\ at \in Nat /\ pending \in Seq(Orders) /\ pending' \in Seq(Orders)
           /\ UNCHANGED <<setup, open, phase>> /\ at' = at + 1 /\ phase = "decide"
           /\ \/ UNCHANGED pending
              \/ /\ ~HasOpen(setup.book[at].base, open)
                 /\ \E ord \in Orders : /\ pending' = Append(pending, ord)
                                        /\ ord.tag = TagOf(setup.book[at]) /\ ord.strat = setup.book[at].id
<1> DEFINE strat == setup.book[at]
<1>1. /\ at \in Nat \ {0} /\ at <= Len(setup.book) /\ strat.source \in DOMAIN today /\ pending \in Seq(Orders)
      /\ UNCHANGED <<setup, open, phase>> /\ at' = at + 1 /\ phase = "decide"
  BY DEF BookTypes, Decide, data
<1>2. at \in DOMAIN setup.book
  BY <1>1, BookOfSequence DEF BookTypes
<1>3. /\ strat.id \in Names /\ strat.base \in BaseIds /\ strat.source \in ToSet(Sources) /\ TagOf(strat) \in Names
  BY <1>2, BookMembers DEF BookTypes
<1>4. IsSnapshot(today[strat.source])
  BY <1>1 DEF BookTypes
<1>5. OnChain(strat, today[strat.source], open, seen[at], market) \subseteq SetsOf(OrderLegs)
  BY <1>3, <1>4, OrdersAreSound DEF OnChain
<1>6. CASE UNCHANGED pending
  BY <1>1, <1>2, <1>6
<1>7. CASE \E legs \in OnChain(strat, today[strat.source], open, seen[at], market) :
              pending' = Append(pending, [strat |-> strat.id, tag |-> TagOf(strat),
                                          source |-> strat.source, legs |-> legs])
  <2>1. PICK legs \in OnChain(strat, today[strat.source], open, seen[at], market) :
              pending' = Append(pending, [strat |-> strat.id, tag |-> TagOf(strat),
                                          source |-> strat.source, legs |-> legs])
    BY <1>7
  <2> DEFINE ord == [strat |-> strat.id, tag |-> TagOf(strat), source |-> strat.source, legs |-> legs]
  <2>2. ord \in Orders /\ ord.tag = TagOf(strat) /\ ord.strat = strat.id
    BY <1>3, <1>5, <2>1 DEF Orders
  <2>3. ~HasOpen(strat.base, open)
    BY <2>1 DEF OnChain
  <2>4. pending' \in Seq(Orders) /\ pending' = Append(pending, ord)
    BY <1>1, <2>1, <2>2, AppendProperties
  <2> QED BY <1>1, <1>2, <2>2, <2>3, <2>4
<1> QED BY <1>6, <1>7 DEF Decide

LEMMA BookTypesDecide ==
    ASSUME BookTypes, Decide, UNCHANGED studyVars
    PROVE  BookTypes'
<1>1. at' \in Nat \ {0} /\ pending' \in Seq(Orders)
  BY DecidedOne
<1> QED BY <1>1 DEF BookTypes, studyVars, data, Ids, Decide

LEMMA BookTypesEndRun ==
    ASSUME BookTypes, EndRun
    PROVE  BookTypes'
<1>1. /\ phase = "done" /\ ~crashed /\ UNCHANGED <<setup, phase, at, crashed, seen, study, plan, tape>>
  BY DEF EndRun
<1>2. Ids' = Ids
  BY <1>1 DEF Ids
<1>3. CASE UNCHANGED <<day, market, anchors, today, open, pending, trades, refused, perStrategy, perSource, quirks>>
  BY <1>1, <1>2, <1>3 DEF BookTypes
<1>4. CASE runNo + 1 \in DOMAIN plan /\ StartRun(plan[runNo + 1])
  <2> DEFINE on == plan[runNo + 1].on
  <2>1. /\ today' = <<>> /\ open' = <<>> /\ pending' = <<>> /\ trades' = <<>>
        /\ perStrategy' = [i \in Ids |-> [closed |-> 0, rejected |-> 0]]
        /\ perSource' = [s \in ToSet(Sources) |-> 0]
        /\ day' = IF on = {} THEN day ELSE Min(on) - 1
    BY <1>4 DEF StartRun
  <2>2. day' \in Int
    <3>1. on \subseteq Nat
      BY <1>4, PlannedDays DEF BookTypes
    <3>2. on # {} => Min(on) \in Nat
      BY <3>1, LeastNumber DEF Min
    <3> QED BY <2>1, <3>2 DEF BookTypes
  <2>3. \A S : <<>> \in Seq(S)
    BY EmptySeq
  <2>4. DOMAIN today' = {} /\ phase' = "done"
    BY <1>1, <2>1
  <2>5. perStrategy' \in [Ids -> [closed : Nat, rejected : Nat]] /\ perSource' \in [ToSet(Sources) -> Nat]
    BY <2>1
  <2> QED BY <1>1, <1>2, <2>1, <2>2, <2>3, <2>4, <2>5 DEF BookTypes
<1> QED BY <1>3, <1>4 DEF EndRun

LEMMA BookTypesStep == BookTypes /\ [StudyNext]_allVars => BookTypes'
<1> SUFFICES ASSUME BookTypes, [StudyNext]_allVars PROVE BookTypes'
  OBVIOUS
<1>1. CASE ReadDay
  BY <1>1, BookTypesReadDay
<1>2. CASE Close /\ UNCHANGED studyVars
  BY <1>2, BookTypesClose
<1>3. CASE (Fill \/ Reject) /\ UNCHANGED studyVars
  BY <1>3, BookTypesFill
<1>4. CASE Decide /\ UNCHANGED studyVars
  BY <1>4, BookTypesDecide
<1>5. CASE (Keep \/ ManageDone \/ FillDone \/ Skip \/ DayDone) /\ UNCHANGED studyVars
  <2>1. UNCHANGED <<data, account, seen>> /\ UNCHANGED studyVars
    BY <1>5 DEF Keep, ManageDone, FillDone, Skip, DayDone
  <2>2. /\ at' \in Nat \ {0} /\ phase' \in {"manage", "fill", "decide", "done"}
        /\ phase' = "manage" => phase = "manage"
        /\ ~crashed \/ phase' = phase
    BY <1>5 DEF BookTypes, Keep, ManageDone, FillDone, Skip, DayDone
  <2> QED BY <2>1, <2>2 DEF BookTypes, studyVars, data, account, Ids
<1>6. CASE EndRun
  BY <1>6, BookTypesEndRun
<1>7. CASE UNCHANGED allVars
  BY <1>7 DEF BookTypes, allVars, vars, studyVars, data, account, Ids
<1> QED BY <1>1, <1>2, <1>3, <1>4, <1>5, <1>6, <1>7 DEF StudyNext, WithinTheRun

-----------------------------------------------------------------------------
(* The positions charged to an expiry, and what is reserved for them. *)
OnExpiry(list, e) == {i \in DOMAIN list : e \in ExpiriesOf(list[i].legs)}

LEMMA ReservesAreTotals ==
    ASSUME NEW list \in Seq(Positions)
    PROVE  /\ Reserve(list) = Total(Losses(list), DOMAIN list) /\ Reserve(list) \in Nat
           /\ \A e : ReserveOf(list, e) = Total(Losses(list), OnExpiry(list, e)) /\ ReserveOf(list, e) \in Nat
           /\ IsFiniteSet(DOMAIN list) /\ \A e : IsFiniteSet(OnExpiry(list, e))
           /\ \A i \in DOMAIN list : Losses(list)[i] = list[i].maxLoss /\ list[i].maxLoss \in Nat
<1>1. Len(list) \in Nat /\ DOMAIN list = 1..Len(list) /\ \A i \in DOMAIN list : list[i] \in Positions
  BY LenProperties, ElementOfSeq
<1>2. IsFiniteSet(DOMAIN list)
  BY <1>1, FS_Interval
<1>3. \A e : OnExpiry(list, e) \subseteq DOMAIN list /\ IsFiniteSet(OnExpiry(list, e))
  BY <1>2, FS_Subset DEF OnExpiry
<1>4. \A i \in DOMAIN list : Losses(list)[i] = list[i].maxLoss /\ list[i].maxLoss \in Nat
  BY <1>1 DEF Losses, Positions
<1>5. Reserve(list) = Total(Losses(list), DOMAIN list)
  BY SumFunctionIsTotal DEF Reserve, Losses
<1>6. \A e : ReserveOf(list, e) = Total(Losses(list), OnExpiry(list, e))
  BY SumFunctionIsTotal DEF ReserveOf, OnExpiry
<1>7. Total(Losses(list), DOMAIN list) \in Nat
  BY <1>2, <1>4, TotalIsNatural
<1>8. \A e : Total(Losses(list), OnExpiry(list, e)) \in Nat
  <2> TAKE e
  <2>1. OnExpiry(list, e) \subseteq DOMAIN list /\ IsFiniteSet(OnExpiry(list, e))
    BY <1>3
  <2> QED BY <1>4, <2>1, TotalIsNatural
<1> QED BY <1>2, <1>3, <1>4, <1>5, <1>6, <1>7, <1>8

LEMMA NothingReserved == Reserve(<<>>) = 0 /\ \A e : ReserveOf(<<>>, e) = 0
<1>1. /\ Reserve(<<>>) = Total(Losses(<<>>), DOMAIN <<>>)
      /\ \A e : ReserveOf(<<>>, e) = Total(Losses(<<>>), OnExpiry(<<>>, e))
  BY EmptySeq, ReservesAreTotals
<1>2. DOMAIN <<>> = {}
  OBVIOUS
<1>3. \A e : OnExpiry(<<>>, e) = {}
  BY <1>2 DEF OnExpiry
<1>4. Total(Losses(<<>>), {}) = 0
  BY FS_EmptySet, TotalRules
<1> QED BY <1>1, <1>2, <1>3, <1>4, Zenon

(* What is reserved for an order comes on top, on its expiries. *)
LEMMA ReserveOfOneMore ==
    ASSUME NEW list \in Seq(Positions), NEW pos \in Positions
    PROVE  /\ Reserve(Append(list, pos)) = Reserve(list) + pos.maxLoss
           /\ \A e : ReserveOf(Append(list, pos), e) =
                        ReserveOf(list, e) + IF e \in ExpiriesOf(pos.legs) THEN pos.maxLoss ELSE 0
<1> DEFINE more == Append(list, pos)
           n == Len(list)
<1>1. /\ more \in Seq(Positions) /\ n \in Nat /\ DOMAIN list = 1..n /\ Len(more) = n + 1
      /\ \A i \in 1..n : more[i] = list[i]
      /\ more[n + 1] = pos
  BY LenProperties, AppendProperties
<1>2. DOMAIN more = DOMAIN list \cup {n + 1} /\ n + 1 \notin DOMAIN list
  <2>1. DOMAIN more = 1..(n + 1) BY <1>1, LenProperties
  <2> QED BY <1>1, <2>1
<1> HIDE DEF more, n
<1>3. /\ Losses(more)[n + 1] = pos.maxLoss /\ pos.maxLoss \in Nat
      /\ \A i \in DOMAIN list : Losses(more)[i] = Losses(list)[i] /\ Losses(list)[i] \in Nat
  BY <1>1, <1>2, ReservesAreTotals
<1>4. ASSUME NEW I \in SUBSET DOMAIN list, IsFiniteSet(I)
      PROVE  /\ Total(Losses(more), I) = Total(Losses(list), I)
             /\ Total(Losses(more), I \cup {n + 1}) = Total(Losses(list), I) + pos.maxLoss
  <2>1. Total(Losses(more), I) = Total(Losses(list), I)
    BY <1>3, <1>4, TotalOfEqual
  <2>2. IsFiniteSet(I \cup {n + 1}) /\ (I \cup {n + 1}) \ {n + 1} = I
    BY <1>2, <1>4, FS_AddElement
  <2>3. \A i \in I \cup {n + 1} : Losses(more)[i] \in Int
    BY <1>3
  <2>4. Total(Losses(more), I \cup {n + 1}) = Losses(more)[n + 1] + Total(Losses(more), I)
    BY <2>2, <2>3, TotalRules
  <2>5. Total(Losses(list), I) \in Int
    BY <1>3, <1>4, TotalRules
  <2> QED BY <1>3, <2>1, <2>4, <2>5
<1>5. Reserve(more) = Reserve(list) + pos.maxLoss
  BY <1>1, <1>2, <1>4, ReservesAreTotals
<1>6. ASSUME NEW e
      PROVE  ReserveOf(more, e) = ReserveOf(list, e) + IF e \in ExpiriesOf(pos.legs) THEN pos.maxLoss ELSE 0
  <2>1. OnExpiry(list, e) \in SUBSET DOMAIN list /\ IsFiniteSet(OnExpiry(list, e)) /\ ReserveOf(list, e) \in Nat
    BY ReservesAreTotals DEF OnExpiry
  <2>2. \A i \in DOMAIN list : more[i] = list[i]
    BY <1>1
  <2>3. CASE e \in ExpiriesOf(pos.legs)
    <3>1. OnExpiry(more, e) = OnExpiry(list, e) \cup {n + 1}
      BY <1>1, <1>2, <2>2, <2>3 DEF OnExpiry
    <3>2. ReserveOf(more, e) = Total(Losses(more), OnExpiry(list, e) \cup {n + 1})
      BY <1>1, <3>1, ReservesAreTotals
    <3>3. ReserveOf(more, e) = Total(Losses(list), OnExpiry(list, e)) + pos.maxLoss
      BY <1>4, <2>1, <3>2
    <3> QED BY <2>1, <2>3, <3>3, ReservesAreTotals
  <2>4. CASE e \notin ExpiriesOf(pos.legs)
    <3>1. OnExpiry(more, e) = OnExpiry(list, e)
      BY <1>1, <1>2, <2>2, <2>4 DEF OnExpiry
    <3>2. ReserveOf(more, e) = Total(Losses(more), OnExpiry(list, e))
      BY <1>1, <3>1, ReservesAreTotals
    <3>3. ReserveOf(more, e) = Total(Losses(list), OnExpiry(list, e))
      BY <1>4, <2>1, <3>2
    <3>4. ReserveOf(more, e) = ReserveOf(list, e) /\ ReserveOf(list, e) \in Nat
      BY <2>1, <3>3, ReservesAreTotals
    <3> QED BY <2>4, <3>4
  <2> QED BY <2>3, <2>4
<1> QED BY <1>5, <1>6 DEF more

(* Closing a position gives its reserve back. *)
LEMMA ReserveOfOneLess ==
    ASSUME NEW list \in Seq(Positions), NEW k \in 1..Len(list)
    PROVE  /\ Reserve(RemoveAt(list, k)) <= Reserve(list)
           /\ \A e : ReserveOf(RemoveAt(list, k), e) <= ReserveOf(list, e)
<1> DEFINE less == RemoveAt(list, k)
           was(i) == IF i < k THEN i ELSE i + 1
<1>1. /\ less \in Seq(Positions) /\ Len(list) \in Nat /\ Len(less) = Len(list) - 1
      /\ DOMAIN list = 1..Len(list) /\ DOMAIN less = 1..(Len(list) - 1)
      /\ \A i \in 1..(Len(list) - 1) : less[i] = list[was(i)]
  BY RemoveAtSound, LenProperties
<1>2. \A i \in DOMAIN less : was(i) \in DOMAIN list
  BY <1>1
<1>3. \A i, j \in DOMAIN less : was(i) = was(j) => i = j
  BY <1>1
<1> HIDE DEF less
<1>4. \A i \in DOMAIN less : less[i] = list[was(i)]
  BY <1>1
<1> HIDE DEF was
<1>5. \A i \in DOMAIN less : Losses(less)[i] = Losses(list)[was(i)]
  BY <1>1, <1>2, <1>4, ReservesAreTotals
<1>6. ASSUME NEW I \in SUBSET DOMAIN less, IsFiniteSet(I),
             NEW R \in SUBSET DOMAIN list, IsFiniteSet(R), \A i \in I : was(i) \in R
      PROVE  Total(Losses(less), I) <= Total(Losses(list), R)
  <2> DEFINE g == [i \in I |-> was(i)]
  <2>1. g \in [I -> R] /\ \A i, j \in I : g[i] = g[j] => i = j
    BY <1>3, <1>6
  <2>2. \A y \in R : Losses(list)[y] \in Nat
    BY ReservesAreTotals
  <2>3. \A i \in I : Losses(less)[i] = Losses(list)[g[i]]
    BY <1>5
  <2> HIDE DEF g
  <2> QED BY <1>6, <2>1, <2>2, <2>3, TotalOfFewer
<1>7. Reserve(less) <= Reserve(list)
  BY <1>1, <1>2, <1>6, ReservesAreTotals
<1>8. ASSUME NEW e PROVE ReserveOf(less, e) <= ReserveOf(list, e)
  <2>1. \A i \in OnExpiry(less, e) : was(i) \in OnExpiry(list, e)
    BY <1>2, <1>4 DEF OnExpiry
  <2>2. /\ OnExpiry(less, e) \in SUBSET DOMAIN less /\ IsFiniteSet(OnExpiry(less, e))
        /\ OnExpiry(list, e) \in SUBSET DOMAIN list /\ IsFiniteSet(OnExpiry(list, e))
    BY <1>1, ReservesAreTotals DEF OnExpiry
  <2> QED BY <1>1, <1>6, <2>1, <2>2, ReservesAreTotals
<1> QED BY <1>7, <1>8 DEF less

(* An order that EvaluateOrder lets through fits under both caps. *)
LEMMA ApprovedFits ==
    ASSUME NEW list \in Seq(Positions), NEW pos \in Positions, NEW prices,
           EvaluateOrder(pos, list, prices) = "approved"
    PROVE  /\ Reserve(Append(list, pos)) <= CapitalCap
           /\ \A e \in ExpiriesOf(pos.legs) : ReserveOf(Append(list, pos), e) <= ExpiryCap
<1>1. /\ Reserve(list) \in Nat /\ \A e : ReserveOf(list, e) \in Nat
      /\ pos.maxLoss \in Nat /\ CapitalCap \in Nat /\ ExpiryCap \in Nat
  BY ReservesAreTotals, RiskAssumption DEF Positions
<1> DEFINE charges == {ReserveOf(list, e) + pos.maxLoss : e \in ExpiriesOf(pos.legs)}
<1>2. charges \in SUBSET Int /\ charges # {} /\ IsFiniteSet(charges)
  <2>1. IsFiniteSet(ExpiriesOf(pos.legs)) /\ ExpiriesOf(pos.legs) # {}
    BY PositionArithmetic DEF Positions
  <2> DEFINE f == [e \in ExpiriesOf(pos.legs) |-> ReserveOf(list, e) + pos.maxLoss]
  <2>2. Range(f) = charges BY DEF Range
  <2>3. IsFiniteSet(Range(f)) BY <2>1, ValuesAreFinite
  <2>4. charges \in SUBSET Int /\ charges # {}
    BY <1>1, <2>1
  <2> QED BY <2>2, <2>3, <2>4
<1> HIDE DEF charges
<1>3. Max(charges) \in Int /\ \A x \in charges : x <= Max(charges)
  BY <1>2, Extremes
<1>4. ~(Reserve(list) + pos.maxLoss > CapitalCap) /\ ~(Max(charges) > ExpiryCap)
  BY DEF EvaluateOrder, MostOnOneExpiry, charges
<1>5. Reserve(list) + pos.maxLoss <= CapitalCap
  BY <1>1, <1>4
<1>6. ASSUME NEW e \in ExpiriesOf(pos.legs) PROVE ReserveOf(list, e) + pos.maxLoss <= ExpiryCap
  <2>1. ReserveOf(list, e) + pos.maxLoss \in charges BY DEF charges
  <2>2. ReserveOf(list, e) + pos.maxLoss <= Max(charges) BY <1>3, <2>1
  <2> QED BY <1>1, <1>3, <1>4, <2>2
<1> QED BY <1>5, <1>6, ReserveOfOneMore

(* Only a fill adds to what is reserved, and only what fits; the rest keeps *)
(* it, frees some of it or starts with an empty book.                       *)
LEMMA CapsHoldStep == BookTypes /\ CapsHold /\ [StudyNext]_allVars => CapsHold'
<1> SUFFICES ASSUME BookTypes, CapsHold, [StudyNext]_allVars PROVE CapsHold'
  OBVIOUS
<1>1. CASE UNCHANGED <<setup, open>>
  BY <1>1 DEF CapsHold
<1>2. CASE Fill /\ UNCHANGED studyVars
  <2> DEFINE ord == Head(pending)
             pos == Position(ord, today[ord.source])
  <2>1. /\ open' = Append(open, pos) /\ setup' = setup
        /\ ord.source \in DOMAIN today /\ Fillable(today[ord.source], ord.legs)
        /\ setup.risk => EvaluateOrder(pos, open, anchors) = "approved"
    BY <1>2 DEF Fill, Verdict, data
  <2>2. ord \in Orders
    BY <1>2, HeadTailProperties DEF BookTypes, Fill
  <2>3. pos \in Positions /\ open \in Seq(Positions)
    BY <2>1, <2>2, PositionIsSound DEF BookTypes
  <2> HIDE DEF pos
  <2>4. ASSUME setup.risk
        PROVE  Reserve(open') <= CapitalCap /\ \A e \in Expiries : ReserveOf(open', e) <= ExpiryCap
    <3>1. /\ Reserve(open') <= CapitalCap
          /\ \A e \in ExpiriesOf(pos.legs) : ReserveOf(open', e) <= ExpiryCap
      BY <2>1, <2>3, <2>4, ApprovedFits
    <3>2. \A e \in Expiries : e \notin ExpiriesOf(pos.legs) => ReserveOf(open', e) <= ExpiryCap
      <4>1. \A e \in Expiries : ReserveOf(open, e) <= ExpiryCap
        BY <2>4 DEF CapsHold
      <4>2. \A e : ReserveOf(open, e) \in Nat
        BY <2>3, ReservesAreTotals
      <4>3. \A e : e \notin ExpiriesOf(pos.legs) => ReserveOf(open', e) = ReserveOf(open, e) + 0
        BY <2>1, <2>3, ReserveOfOneMore
      <4> QED BY <4>1, <4>2, <4>3
    <3> QED BY <3>1, <3>2
  <2> QED BY <2>1, <2>4 DEF CapsHold
<1>3. CASE Close /\ UNCHANGED studyVars
  <2>1. at \in 1..Len(open) /\ open \in Seq(Positions) /\ open' = RemoveAt(open, at) /\ setup' = setup
    BY <1>3, LenProperties DEF Close, BookTypes, data
  <2>2. open' \in Seq(Positions)
    BY <2>1, RemoveAtSound
  <2>3. /\ Reserve(open') <= Reserve(open) /\ Reserve(open') \in Nat /\ Reserve(open) \in Nat
        /\ \A e : ReserveOf(open', e) <= ReserveOf(open, e) /\ ReserveOf(open', e) \in Nat /\ ReserveOf(open, e) \in Nat
    BY <2>1, <2>2, ReserveOfOneLess, ReservesAreTotals
  <2>4. CapitalCap \in Nat /\ ExpiryCap \in Nat
    BY RiskAssumption
  <2> QED BY <2>1, <2>3, <2>4 DEF CapsHold
<1>4. CASE EndRun
  <2>1. setup' = setup /\ (open' = open \/ open' = <<>>)
    BY <1>4 DEF EndRun, StartRun
  <2>2. CASE open' = <<>>
    <3>1. CapitalCap \in Nat /\ ExpiryCap \in Nat
      BY RiskAssumption
    <3> QED BY <2>2, <3>1, NothingReserved, SMTT(30) DEF CapsHold
  <2> QED BY <1>1, <2>1, <2>2
<1>5. \/ UNCHANGED <<setup, open>>
      \/ (Fill \/ Close) /\ UNCHANGED studyVars
      \/ EndRun
  BY DEF StudyNext, WithinTheRun, ReadDay, NextSnapshot, Keep, ManageDone, Reject, FillDone, Decide, Skip, DayDone,
         allVars, vars, data, account
<1> QED BY <1>1, <1>2, <1>3, <1>4, <1>5

LEMMA CapsHoldInit == StudyInit => CapsHold
<1> SUFFICES ASSUME StudyInit PROVE CapsHold
  OBVIOUS
<1>1. open = <<>>
  BY DEF StudyInit, Init
<1>2. CapitalCap \in Nat /\ ExpiryCap \in Nat
  BY RiskAssumption
<1> QED BY <1>1, <1>2, NothingReserved DEF CapsHold

-----------------------------------------------------------------------------
(* The strategies that use a tag, and what is open or ordered under it. *)
Tags == {TagOf(setup.book[j]) : j \in DOMAIN setup.book}
Users(t) == {j \in DOMAIN setup.book : TagOf(setup.book[j]) = t}
Under(list, t) == {k \in DOMAIN list : list[k].tag = t}
Retagged(t) == \E j \in Users(t) : Retags(setup.book[j])

(* Nothing is open or ordered under a tag, or by an id, of no strategy. *)
TagsKnown ==
    /\ \A i \in DOMAIN open : open[i].tag \in Tags
    /\ \A i \in DOMAIN pending : pending[i].tag \in Tags /\ pending[i].strat \in Ids

(* An order is only asked for under a tag with nothing open, once by each   *)
(* of its strategies.                                                       *)
OnePositionEach ==
    \A t \in Tags : ~Retagged(t) =>
        /\ Cardinality(Under(open, t)) + Cardinality(Under(pending, t)) <= Cardinality(Users(t))
        /\ phase = "decide" =>
              \/ Under(pending, t) = {}
              \/ /\ Under(open, t) = {}
                 /\ Cardinality(Under(pending, t)) <= Cardinality({j \in Users(t) : j < at})

LEMMA UnderIsFinite ==
    ASSUME NEW S, NEW s \in Seq(S), NEW t
    PROVE  IsFiniteSet(Under(s, t)) /\ Cardinality(Under(s, t)) \in Nat
<1>1. DOMAIN s = 1..Len(s) /\ Len(s) \in Nat
  BY LenProperties
<1>2. IsFiniteSet(DOMAIN s)
  BY <1>1, FS_Interval
<1> QED BY <1>2, FS_Subset, FS_CardinalityType DEF Under

LEMMA UsersAreFinite ==
    ASSUME setup \in Setups, NEW t
    PROVE  /\ IsFiniteSet(Users(t)) /\ Cardinality(Users(t)) \in Nat
           /\ IsFiniteSet(Ids)
<1>1. DOMAIN setup.book = 1..Len(setup.book) /\ Len(setup.book) \in Nat
  BY BookOfSequence
<1>2. IsFiniteSet(DOMAIN setup.book)
  BY <1>1, FS_Interval
<1>3. IsFiniteSet(Users(t)) /\ Cardinality(Users(t)) \in Nat
  BY <1>2, FS_Subset, FS_CardinalityType DEF Users
<1> DEFINE f == [i \in DOMAIN setup.book |-> setup.book[i].id]
<1>4. IsFiniteSet(Range(f)) /\ Range(f) = Ids
  <2>1. Range(f) = Ids BY DEF Range, Ids
  <2> QED BY <1>2, <2>1, ValuesAreFinite
<1> QED BY <1>3, <1>4

(* One more under its tag, no more under the others. *)
LEMMA UnderOfOneMore ==
    ASSUME NEW S, NEW s \in Seq(S), NEW x \in S, NEW t
    PROVE  /\ x.tag # t => Under(Append(s, x), t) = Under(s, t)
           /\ x.tag = t => Cardinality(Under(Append(s, x), t)) = Cardinality(Under(s, t)) + 1
<1> DEFINE more == Append(s, x)
           n == Len(s)
<1>1. /\ more \in Seq(S) /\ n \in Nat /\ DOMAIN s = 1..n /\ Len(more) = n + 1
      /\ \A i \in 1..n : more[i] = s[i]
      /\ more[n + 1] = x
  BY LenProperties, AppendProperties
<1>2. DOMAIN more = DOMAIN s \cup {n + 1} /\ n + 1 \notin DOMAIN s
  <2>1. DOMAIN more = 1..(n + 1) BY <1>1, LenProperties
  <2> QED BY <1>1, <2>1
<1> HIDE DEF more, n
<1>3. CASE x.tag # t
  BY <1>1, <1>2, <1>3 DEF Under, more
<1>4. CASE x.tag = t
  <2>1. Under(more, t) = Under(s, t) \cup {n + 1} /\ n + 1 \notin Under(s, t)
    BY <1>1, <1>2, <1>4 DEF Under
  <2>2. IsFiniteSet(Under(s, t))
    BY UnderIsFinite
  <2> QED BY <1>4, <2>1, <2>2, FS_AddElement DEF more
<1> QED BY <1>3, <1>4

(* One taken out leaves no more under any tag. *)
LEMMA UnderOfOneLess ==
    ASSUME NEW S, NEW s \in Seq(S), NEW k \in 1..Len(s), NEW less \in Seq(S), Len(less) = Len(s) - 1,
           \A i \in 1..(Len(s) - 1) : less[i] = s[IF i < k THEN i ELSE i + 1], NEW t
    PROVE  /\ Cardinality(Under(less, t)) <= Cardinality(Under(s, t))
           /\ s[k].tag = t => Cardinality(Under(less, t)) + 1 <= Cardinality(Under(s, t))
<1> DEFINE was(i) == IF i < k THEN i ELSE i + 1
           g == [i \in Under(less, t) |-> was(i)]
           rest == Under(s, t) \ {k}
<1>1. Len(s) \in Nat /\ DOMAIN s = 1..Len(s) /\ DOMAIN less = 1..(Len(s) - 1)
  BY LenProperties
<1>2. \A i \in Under(less, t) : was(i) \in rest
  BY <1>1 DEF Under
<1>3. \A i, j \in Under(less, t) : was(i) = was(j) => i = j
  BY <1>1 DEF Under
<1>4. g \in Injection(Under(less, t), rest)
  <2> HIDE DEF was, rest
  <2> QED BY <1>2, <1>3 DEF Injection, IsInjective
<1>5. IsFiniteSet(Under(s, t)) /\ Cardinality(Under(s, t)) \in Nat /\ Cardinality(Under(less, t)) \in Nat
  BY UnderIsFinite
<1>6. /\ IsFiniteSet(rest)
      /\ Cardinality(rest) = IF k \in Under(s, t) THEN Cardinality(Under(s, t)) - 1 ELSE Cardinality(Under(s, t))
  BY <1>5, FS_RemoveElement
<1>7. Cardinality(Under(less, t)) <= Cardinality(rest)
  <2> HIDE DEF g, rest
  <2> QED BY <1>4, <1>6, FS_Injection
<1>8. s[k].tag = t => k \in Under(s, t)
  BY <1>1 DEF Under
<1> HIDE DEF rest
<1> QED BY <1>5, <1>6, <1>7, <1>8

(* What closing a position and what taking an order up do to the lists. *)
LEMMA ClosedOne ==
    ASSUME BookTypes, Close
    PROVE  /\ at \in 1..Len(open) /\ Len(open) \in Nat /\ DOMAIN open = 1..Len(open) /\ open \in Seq(Positions)
           /\ open' \in Seq(Positions) /\ Len(open') = Len(open) - 1 /\ DOMAIN open' = 1..(Len(open) - 1)
           /\ \A i \in 1..(Len(open) - 1) : open'[i] = open[IF i < at THEN i ELSE i + 1]
<1>1. open' = RemoveAt(open, at) /\ at <= Len(open)
  BY DEF Close
<1>2. at \in 1..Len(open) /\ open \in Seq(Positions) /\ Len(open) \in Nat /\ DOMAIN open = 1..Len(open)
  BY <1>1, LenProperties, SMTT(30) DEF BookTypes
<1>3. /\ RemoveAt(open, at) \in Seq(Positions) /\ Len(RemoveAt(open, at)) = Len(open) - 1
      /\ \A i \in 1..(Len(open) - 1) : RemoveAt(open, at)[i] = open[IF i < at THEN i ELSE i + 1]
  BY <1>2, RemoveAtSound
<1>4. DOMAIN open' = 1..(Len(open) - 1)
  BY <1>1, <1>3, LenProperties
<1> QED BY <1>1, <1>2, <1>3, <1>4

LEMMA TookOne ==
    ASSUME BookTypes, Fill \/ Reject
    PROVE  /\ pending' \in Seq(Orders) /\ pending \in Seq(Orders) /\ Head(pending) \in Orders
           /\ 1 \in 1..Len(pending) /\ Head(pending) = pending[1]
           /\ DOMAIN pending = 1..Len(pending) /\ DOMAIN pending' = 1..(Len(pending) - 1)
           /\ Len(pending) \in Nat /\ Len(pending') = Len(pending) - 1
           /\ \A i \in 1..(Len(pending) - 1) : pending'[i] = pending[i + 1]
<1>1. pending' = Tail(pending) /\ pending # <<>> /\ pending \in Seq(Orders)
  BY DEF Fill, Reject, BookTypes
<1>2. /\ Head(pending) \in Orders /\ Tail(pending) \in Seq(Orders) /\ Len(Tail(pending)) = Len(pending) - 1
      /\ \A i \in 1..Len(Tail(pending)) : Tail(pending)[i] = pending[i + 1]
  BY <1>1, HeadTailProperties
<1>3. Len(pending) \in Nat \ {0} /\ DOMAIN pending = 1..Len(pending) /\ DOMAIN pending' = 1..(Len(pending) - 1)
  BY <1>1, <1>2, EmptySeq, LenProperties
<1> QED BY <1>1, <1>2, <1>3

(* What a step of a study leaves as it is. *)
LEMMA StudySteps ==
    ASSUME [StudyNext]_allVars, BookTypes
    PROVE  /\ setup' = setup
           /\ \/ Close \/ Fill \/ Reject \/ Decide
              \/ /\ UNCHANGED <<open, pending, trades, perStrategy, perSource, crashed>>
                 /\ phase' = "decide" => (phase = "decide" /\ at' \in {at, at + 1}) \/ pending = <<>>
              \/ /\ open' = <<>> /\ pending' = <<>> /\ trades' = <<>> /\ crashed' = FALSE /\ phase' = "done"
                 /\ perStrategy' = [i \in Ids |-> [closed |-> 0, rejected |-> 0]]
                 /\ perSource' = [s \in ToSet(Sources) |-> 0]
<1>1. CASE ReadDay
  BY <1>1 DEF ReadDay, NextSnapshot, account
<1>2. CASE Close \/ Fill \/ Reject \/ Decide
  BY <1>2 DEF Close, Fill, Reject, Decide, data
<1>3. CASE (Keep \/ ManageDone \/ FillDone \/ Skip \/ DayDone) /\ UNCHANGED studyVars
  BY <1>3 DEF Keep, ManageDone, FillDone, Skip, DayDone, data, account
<1>4. CASE EndRun
  <2>1. CASE runNo + 1 \in DOMAIN plan /\ StartRun(plan[runNo + 1])
    BY <1>4, <2>1 DEF EndRun, StartRun
  <2>2. CASE UNCHANGED <<day, market, anchors, today, open, pending, trades, refused, perStrategy, perSource, quirks>>
    BY <1>4, <2>2 DEF EndRun
  <2> QED BY <1>4, <2>1, <2>2 DEF EndRun
<1>5. CASE UNCHANGED allVars
  BY <1>5 DEF allVars, vars, data, account
<1> QED BY <1>1, <1>2, <1>3, <1>4, <1>5 DEF StudyNext, WithinTheRun

LEMMA TagsKnownStep == BookTypes /\ TagsKnown /\ [StudyNext]_allVars => TagsKnown'
<1> SUFFICES ASSUME BookTypes, TagsKnown, [StudyNext]_allVars PROVE TagsKnown'
  OBVIOUS
<1>1. setup' = setup /\ Tags' = Tags /\ Ids' = Ids
  BY StudySteps DEF Tags, Ids
<1>2. CASE UNCHANGED <<open, pending>>
  BY <1>1, <1>2 DEF TagsKnown
<1>3. CASE open' = <<>> /\ pending' = <<>>
  BY <1>1, <1>3 DEF TagsKnown
<1>4. CASE Close
  <2>1. pending' = pending
    BY <1>4 DEF Close
  <2>2. \A i \in DOMAIN open' : open'[i].tag \in Tags
    BY <1>4, ClosedOne DEF TagsKnown
  <2> QED BY <1>1, <2>1, <2>2 DEF TagsKnown
<1>5. CASE Fill \/ Reject
  <2>1. \A i \in DOMAIN pending' : pending'[i].tag \in Tags /\ pending'[i].strat \in Ids
    BY <1>5, TookOne DEF TagsKnown
  <2>2. Head(pending).tag \in Tags
    BY <1>5, TookOne DEF TagsKnown
  <2>3. \A i \in DOMAIN open' : open'[i].tag \in Tags
    <3>1. CASE Reject
      BY <3>1 DEF Reject, TagsKnown
    <3>2. CASE Fill
      <4> DEFINE pos == Position(Head(pending), today[Head(pending).source])
      <4>1. pos.tag = Head(pending).tag
        BY DEF Position
      <4>2. open' = Append(open, pos) /\ open \in Seq(Positions) /\ pos \in Positions
        BY <3>2, TookOne, PositionIsSound DEF Fill, Verdict, BookTypes
      <4> HIDE DEF pos
      <4>3. /\ DOMAIN open = 1..Len(open) /\ DOMAIN open' = 1..(Len(open) + 1) /\ Len(open) \in Nat
            /\ \A i \in 1..Len(open) : open'[i] = open[i]
            /\ open'[Len(open) + 1] = pos
        BY <4>2, AppendProperties, LenProperties
      <4> QED BY <2>2, <4>1, <4>3 DEF TagsKnown
    <3> QED BY <1>5, <3>1, <3>2
  <2> QED BY <1>1, <2>1, <2>3 DEF TagsKnown
<1>6. CASE Decide
  <2>1. CASE UNCHANGED pending
    BY <1>1, <1>2, <1>6, <2>1, DecidedOne
  <2>2. CASE ~UNCHANGED pending
    <3>1. PICK ord \in Orders : /\ pending' = Append(pending, ord)
                                /\ ord.tag = TagOf(setup.book[at]) /\ ord.strat = setup.book[at].id
      BY <1>6, <2>2, DecidedOne
    <3>2. at \in DOMAIN setup.book /\ pending \in Seq(Orders) /\ open' = open
      BY <1>6, DecidedOne
    <3>3. ord.tag \in Tags /\ ord.strat \in Ids
      BY <3>1, <3>2 DEF Tags, Ids
    <3>4. /\ DOMAIN pending = 1..Len(pending) /\ DOMAIN pending' = 1..(Len(pending) + 1) /\ Len(pending) \in Nat
          /\ \A i \in 1..Len(pending) : pending'[i] = pending[i]
          /\ pending'[Len(pending) + 1] = ord
      BY <3>1, <3>2, AppendProperties, LenProperties
    <3>5. \A i \in DOMAIN pending' : pending'[i].tag \in Tags /\ pending'[i].strat \in Ids
      BY <3>3, <3>4 DEF TagsKnown
    <3> QED BY <1>1, <3>2, <3>5 DEF TagsKnown
  <2> QED BY <2>1, <2>2
<1> QED BY <1>2, <1>3, <1>4, <1>5, <1>6, StudySteps

(* A strategy asks for a position only with none open under its tag, in its *)
(* one turn of the day, so what its tag has ordered is no more than those   *)
(* of its strategies that had their turn.                                   *)
LEMMA OnePositionEachStep == BookTypes /\ OnePositionEach /\ [StudyNext]_allVars => OnePositionEach'
<1> SUFFICES ASSUME BookTypes, OnePositionEach, [StudyNext]_allVars PROVE OnePositionEach'
  OBVIOUS
<1>1. setup' = setup /\ Tags' = Tags /\ setup \in Setups
  <2>1. setup' = setup BY StudySteps
  <2>2. Tags' = Tags BY <2>1 DEF Tags
  <2> QED BY <2>1, <2>2 DEF BookTypes
<1>2. \A t : Users(t)' = Users(t) /\ (Retagged(t)' <=> Retagged(t))
  BY <1>1 DEF Users, Retagged
<1> SUFFICES ASSUME NEW t \in Tags, ~Retagged(t)
             PROVE  /\ Cardinality(Under(open', t)) + Cardinality(Under(pending', t)) <= Cardinality(Users(t))
                    /\ phase' = "decide" =>
                          \/ Under(pending', t) = {}
                          \/ /\ Under(open', t) = {}
                             /\ Cardinality(Under(pending', t)) <= Cardinality({j \in Users(t) : j < at'})
  <2> DEFINE Fine(o, p, ph, a) ==
                \A t \in Tags : ~Retagged(t) =>
                    /\ Cardinality(Under(o, t)) + Cardinality(Under(p, t)) <= Cardinality(Users(t))
                    /\ ph = "decide" =>
                          \/ Under(p, t) = {}
                          \/ /\ Under(o, t) = {}
                             /\ Cardinality(Under(p, t)) <= Cardinality({j \in Users(t) : j < a})
  <2>1. Fine(open', pending', phase', at')
    OBVIOUS
  <2>2. OnePositionEach' <=> Fine(open', pending', phase', at')
    BY <1>1, <1>2 DEF OnePositionEach, Under, Retagged, Users
  <2> QED BY <2>1, <2>2
<1> DEFINE o == Cardinality(Under(open, t))
           p == Cardinality(Under(pending, t))
           u == Cardinality(Users(t))
           before == Cardinality({j \in Users(t) : j < at})
           beforeNext == Cardinality({j \in Users(t) : j < at + 1})
<1>3. /\ o + p <= u
      /\ phase = "decide" => Under(pending, t) = {} \/ (Under(open, t) = {} /\ p <= before)
  BY DEF OnePositionEach
<1>4. /\ o \in Nat /\ p \in Nat /\ u \in Nat /\ IsFiniteSet(Users(t))
      /\ (o = 0 <=> Under(open, t) = {}) /\ (p = 0 <=> Under(pending, t) = {})
  BY <1>1, UnderIsFinite, UsersAreFinite, FS_EmptySet DEF BookTypes
<1>5. at \in Nat /\ before \in Nat /\ beforeNext \in Nat /\ before <= beforeNext /\ beforeNext <= u
  <2> DEFINE J == {j \in Users(t) : j < at}
             K == {j \in Users(t) : j < at + 1}
  <2>1. at \in Nat BY DEF BookTypes
  <2>2. Users(t) \subseteq Nat
    BY <1>1, BookOfSequence DEF Users
  <2>3. J \subseteq K /\ K \subseteq Users(t)
    BY <2>1, <2>2
  <2> HIDE DEF J, K
  <2>4. IsFiniteSet(K) /\ IsFiniteSet(J)
    BY <1>4, <2>3, FS_Subset
  <2>5. Cardinality(J) \in Nat /\ Cardinality(K) \in Nat /\ Cardinality(J) <= Cardinality(K) /\ Cardinality(K) <= u
    BY <1>4, <2>3, <2>4, FS_Subset, FS_CardinalityType
  <2> QED BY <2>1, <2>5 DEF J, K
<1>6. CASE UNCHANGED <<open, pending>> /\ (phase' = "decide" => (phase = "decide" /\ at' \in {at, at + 1}) \/ pending = <<>>)
  <2>1. CASE phase' # "decide" \/ pending = <<>>
    <3>1. pending = <<>> => Under(pending, t) = {} BY DEF Under
    <3> QED BY <1>3, <1>6, <2>1, <3>1
  <2>2. CASE phase = "decide" /\ at' \in {at, at + 1}
    <3> DEFINE now == Cardinality({j \in Users(t) : j < at'})
    <3>1. now \in {before, beforeNext}
      BY <2>2
    <3> HIDE DEF before, beforeNext, now, p
    <3>2. Under(pending, t) = {} \/ (Under(open, t) = {} /\ p <= now)
      BY <1>3, <1>4, <1>5, <2>2, <3>1
    <3> QED BY <1>3, <1>6, <3>2 DEF now, p
  <2> QED BY <1>6, <2>1, <2>2
<1>7. CASE open' = <<>> /\ pending' = <<>> /\ phase' = "done"
  <2>1. Under(open', t) = {} /\ Under(pending', t) = {} BY <1>7 DEF Under
  <2>2. Cardinality(Under(open', t)) = 0 /\ Cardinality(Under(pending', t)) = 0
    BY <2>1, FS_EmptySet
  <2>3. Cardinality(Under(open', t)) + Cardinality(Under(pending', t)) <= u
    <3> HIDE DEF u
    <3> QED BY <1>4, <2>2
  <2> QED BY <1>7, <2>1, <2>3
<1>8. CASE Close
  <2>1. pending' = pending /\ phase' # "decide"
    BY <1>8 DEF Close, data
  <2>2. Cardinality(Under(open', t)) <= o /\ Cardinality(Under(open', t)) \in Nat
    BY <1>8, ClosedOne, UnderOfOneLess, UnderIsFinite
  <2> QED BY <1>3, <1>4, <2>1, <2>2
<1>9. CASE Fill \/ Reject
  <2> DEFINE ord == Head(pending)
  <2>1. /\ Cardinality(Under(pending', t)) <= p /\ Cardinality(Under(pending', t)) \in Nat
        /\ ord.tag = t => Cardinality(Under(pending', t)) + 1 <= p
    <3>1. \A i \in 1..(Len(pending) - 1) : pending'[i] = pending[IF i < 1 THEN i ELSE i + 1]
      BY <1>9, TookOne
    <3> QED BY <1>9, <3>1, TookOne, UnderOfOneLess, UnderIsFinite
  <2>2. phase' # "decide"
    BY <1>9 DEF Fill, Reject, data
  <2>3. CASE Reject
    <3>1. open' = open BY <2>3 DEF Reject
    <3> QED BY <1>3, <1>4, <2>1, <2>2, <3>1
  <2>4. CASE Fill
    <3> DEFINE pos == Position(ord, today[ord.source])
    <3>1. pos.tag = ord.tag
      BY DEF Position
    <3>2. open' = Append(open, pos) /\ open \in Seq(Positions) /\ pos \in Positions
      BY <2>4, TookOne, PositionIsSound DEF Fill, Verdict, BookTypes
    <3> HIDE DEF pos
    <3>3. /\ ord.tag # t => Under(open', t) = Under(open, t)
          /\ ord.tag = t => Cardinality(Under(open', t)) = o + 1
      BY <3>1, <3>2, UnderOfOneMore
    <3> QED BY <1>3, <1>4, <2>1, <2>2, <3>3
  <2> QED BY <1>9, <2>3, <2>4
<1>10. CASE Decide
  <2>1. /\ at \in DOMAIN setup.book /\ open' = open /\ at' = at + 1 /\ phase = "decide" /\ phase' = "decide"
    BY <1>10, DecidedOne
  <2>2. CASE UNCHANGED pending
    BY <1>6, <2>1, <2>2
  <2>3. CASE ~UNCHANGED pending
    <3>1. PICK ord \in Orders : pending' = Append(pending, ord) /\ ord.tag = TagOf(setup.book[at])
      BY <1>10, <2>3, DecidedOne
    <3>2. pending \in Seq(Orders) /\ ~HasOpen(setup.book[at].base, open)
      BY <1>10, <2>3, DecidedOne
    <3>3. CASE ord.tag # t
      <4>1. Under(pending', t) = Under(pending, t)
        BY <3>1, <3>2, <3>3, UnderOfOneMore
      <4>2. Cardinality({j \in Users(t) : j < at'}) = beforeNext
        BY <2>1
      <4> HIDE DEF before, beforeNext, p
      <4>3. Under(pending, t) = {} \/ (Under(open, t) = {} /\ p <= beforeNext)
        BY <1>3, <1>4, <1>5, <2>1
      <4> QED BY <1>3, <2>1, <4>1, <4>2, <4>3 DEF p
    <3>4. CASE ord.tag = t
      <4>1. at \in Users(t)
        BY <2>1, <3>1, <3>4 DEF Users
      <4>2. setup.book[at].base = t
        BY <1>1, <2>1, <3>1, <3>4, <4>1, BookMembers DEF TagOf, Retagged
      <4>3. Under(open, t) = {}
        BY <3>2, <4>2 DEF HasOpen, Under
      <4>4. p <= before
        <5> HIDE DEF before, p
        <5> QED BY <1>3, <1>4, <1>5, <2>1
      <4>5. Cardinality(Under(pending', t)) = p + 1
        BY <3>1, <3>2, <3>4, UnderOfOneMore
      <4>6. beforeNext = before + 1
        <5> DEFINE J == {j \in Users(t) : j < at}
        <5>1. Users(t) \subseteq Nat
          BY <1>1, BookOfSequence DEF Users
        <5>2. {j \in Users(t) : j < at + 1} = J \cup {at} /\ at \notin J
          BY <1>5, <4>1, <5>1
        <5>3. IsFiniteSet(J) BY <1>4, FS_Subset
        <5> HIDE DEF J
        <5>4. Cardinality(J \cup {at}) = Cardinality(J) + 1 BY <5>2, <5>3, FS_AddElement
        <5> QED BY <5>2, <5>4 DEF J
      <4>7. o = 0 BY <1>4, <4>3
      <4>8. Cardinality({j \in Users(t) : j < at'}) = beforeNext
        BY <2>1
      <4> HIDE DEF before, beforeNext, o, p, u
      <4>9. Cardinality(Under(pending', t)) <= beforeNext
        BY <1>4, <1>5, <4>4, <4>5, <4>6
      <4>10. o + Cardinality(Under(pending', t)) <= u
        BY <1>4, <1>5, <4>5, <4>7, <4>9
      <4> QED BY <2>1, <4>3, <4>8, <4>9, <4>10 DEF o, u
    <3> QED BY <3>3, <3>4
  <2> QED BY <2>2, <2>3
<1> QED BY <1>6, <1>7, <1>8, <1>9, <1>10, StudySteps

-----------------------------------------------------------------------------
(* The counts of the strategies, and the trades of a source with a          *)
(* snapshot.                                                                *)
ClosedCounts(counters) == [i \in Ids |-> counters[i].closed]
TradesOn(list, s) == {i \in DOMAIN list : list[i].source = s /\ list[i].present}

(* A trade goes to its strategy, and to its source if that has a snapshot. *)
LEMMA TradeIsBooked ==
    ASSUME BookTypes, Close, open[at].tag \in Ids, setup.runner # "single"
    PROVE  /\ SumFunction(ClosedCounts(perStrategy')) = SumFunction(ClosedCounts(perStrategy)) + 1
           /\ Len(trades') = Len(trades) + 1 /\ Len(trades) \in Nat
           /\ SumFunction(ClosedCounts(perStrategy)) \in Int
<1> DEFINE k == open[at].tag
           f == ClosedCounts(perStrategy)
           h == ClosedCounts(perStrategy')
<1>1. perStrategy' = [perStrategy EXCEPT ![k].closed = @ + 1] /\ perStrategy \in [Ids -> Counters]
  BY DEF Close, BookTypes, Counters
<1>2. IsFiniteSet(Ids)
  BY UsersAreFinite DEF BookTypes
<1> HIDE DEF k
<1>3. k \in Ids
  BY DEF k
<1>4. \A i \in Ids : f[i] = perStrategy[i].closed /\ f[i] \in Int /\ h[i] = perStrategy'[i].closed
  BY <1>1 DEF ClosedCounts, Counters
<1>5. h[k] = f[k] + 1 /\ \A i \in Ids \ {k} : h[i] = f[i]
  <2>1. perStrategy[k] \in Counters /\ perStrategy'[k] = [perStrategy[k] EXCEPT !.closed = @ + 1]
    BY <1>1, <1>3
  <2>2. \A i \in Ids \ {k} : perStrategy'[i] = perStrategy[i]
    BY <1>1
  <2> QED BY <1>3, <1>4, <2>1, <2>2 DEF Counters
<1>6. DOMAIN f = Ids /\ DOMAIN h = Ids
  BY DEF ClosedCounts
<1> HIDE DEF f, h
<1>7. SumFunction(h) = SumFunction(f) + 1 /\ SumFunction(f) \in Int
  BY <1>2, <1>3, <1>4, <1>5, <1>6, TotalOfOneMore, TotalRules, SumFunctionIsTotal
<1>8. Len(trades') = Len(trades) + 1 /\ Len(trades) \in Nat
  <2>1. trades \in Seq(Trades) /\ \E t : trades' = Append(trades, t)
    BY DEF Close, BookTypes
  <2> QED BY <2>1, LenProperties
<1> QED BY <1>7, <1>8 DEF f, h

LEMMA TradeIsOnItsSource ==
    ASSUME BookTypes, Close, open[at].tag \in Ids, setup.runner = "multi", NEW s \in ToSet(Sources),
           perSource[s] = Cardinality(TradesOn(trades, s))
    PROVE  perSource'[s] = Cardinality(TradesOn(trades', s))
<1> DEFINE pos == open[at]
           t == Trade(pos, MarkSnapshot(pos), ShouldClose(pos, MarkSnapshot(pos)))
           n == Len(trades)
<1>1. /\ trades' = Append(trades, t) /\ trades \in Seq(Trades)
      /\ perSource' = BookOnSource(pos) /\ perSource \in [ToSet(Sources) -> Nat]
  BY DEF Close, BookTypes
<1>2. t.source = pos.source /\ (t.present <=> pos.source \in DOMAIN today)
  BY DEF Trade
<1> HIDE DEF t
<1>3. n \in Nat /\ DOMAIN trades = 1..n
  BY <1>1, LenProperties
<1>4. /\ DOMAIN trades' = 1..(n + 1) /\ trades'[n + 1] = t
      /\ \A i \in 1..n : trades'[i] = trades[i]
  BY <1>1, <1>3
<1> HIDE DEF n
<1>5. DOMAIN trades' = DOMAIN trades \cup {n + 1} /\ n + 1 \notin DOMAIN trades
  BY <1>3, <1>4
<1>6. IsFiniteSet(TradesOn(trades, s))
  <2>1. IsFiniteSet(DOMAIN trades) BY <1>3, FS_Interval
  <2> QED BY <2>1, FS_Subset DEF TradesOn
<1>7. CASE t.source = s /\ t.present
  <2>1. TradesOn(trades', s) = TradesOn(trades, s) \cup {n + 1} /\ n + 1 \notin TradesOn(trades, s)
    BY <1>3, <1>4, <1>5, <1>7 DEF TradesOn
  <2>2. Cardinality(TradesOn(trades', s)) = Cardinality(TradesOn(trades, s)) + 1
    BY <1>6, <2>1, FS_AddElement
  <2>3. perSource'[s] = perSource[s] + 1
    BY <1>1, <1>2, <1>7 DEF BookOnSource
  <2> QED BY <2>2, <2>3
<1>8. CASE ~(t.source = s /\ t.present)
  <2>1. TradesOn(trades', s) = TradesOn(trades, s)
    BY <1>3, <1>4, <1>5, <1>8 DEF TradesOn
  <2>2. perSource'[s] = perSource[s]
    BY <1>1, <1>2, <1>8 DEF BookOnSource
  <2> QED BY <2>1, <2>2
<1> QED BY <1>7, <1>8

(* A tag that is no strategy's id was left there by a wrapper. *)
LEMMA LostTag ==
    ASSUME setup \in Setups, NEW t \in Tags, t \notin Ids
    PROVE  \E j \in DOMAIN setup.book : setup.book[j].gate \in {"skew", "slope"}
<1>1. PICK j \in DOMAIN setup.book : t = TagOf(setup.book[j])
  BY DEF Tags
<1>2. setup.book[j].id # t
  BY DEF Ids
<1> QED BY <1>1, <1>2, BookMembers DEF TagOf, Retags

LEMMA BooksAgreeStep == BookTypes /\ TagsKnown /\ BooksAgree /\ [StudyNext]_allVars => BooksAgree'
<1> SUFFICES ASSUME BookTypes, TagsKnown, BooksAgree, [StudyNext]_allVars PROVE BooksAgree'
  OBVIOUS
<1> DEFINE Wrapped == \E j \in DOMAIN setup.book : setup.book[j].gate \in {"skew", "slope"}
           Booked(counters, list, sources) ==
               /\ setup.runner # "single" => SumFunction(ClosedCounts(counters)) = Len(list)
               /\ setup.runner = "multi" => \A s \in ToSet(Sources) : sources[s] = Cardinality(TradesOn(list, s))
<1>1. setup' = setup
  BY StudySteps
<1>2. Ids' = Ids /\ setup \in Setups /\ IsFiniteSet(Ids)
  BY <1>1, UsersAreFinite DEF Ids, BookTypes
<1>3. BooksAgree' <=> IF crashed' THEN Wrapped ELSE Booked(perStrategy', trades', perSource')
  BY <1>1, <1>2 DEF BooksAgree, ClosedCounts, TradesOn
<1>4. IF crashed THEN Wrapped ELSE Booked(perStrategy, trades, perSource)
  BY DEF BooksAgree, ClosedCounts, TradesOn
<1>5. ASSUME UNCHANGED <<trades, perSource, crashed>>, ClosedCounts(perStrategy') = ClosedCounts(perStrategy)
      PROVE  BooksAgree'
  BY <1>3, <1>4, <1>5
<1>6. CASE UNCHANGED <<perStrategy, trades, perSource, crashed>>
  BY <1>5, <1>6
<1>7. CASE Fill \/ Decide
  BY <1>6, <1>7 DEF Fill, Decide
<1>8. CASE Reject
  <2>1. UNCHANGED <<trades, perSource, crashed>>
    BY <1>8 DEF Reject
  <2>2. \/ perStrategy' = perStrategy
        \/ perStrategy' = [perStrategy EXCEPT ![Head(pending).strat].rejected = @ + 1]
    BY <1>8 DEF Reject
  <2>3. perStrategy \in [Ids -> Counters]
    BY DEF BookTypes, Counters
  <2>4. \A i \in Ids : perStrategy'[i].closed = perStrategy[i].closed
    BY <2>2, <2>3 DEF Counters
  <2>5. ClosedCounts(perStrategy') = ClosedCounts(perStrategy)
    BY <2>4 DEF ClosedCounts
  <2> QED BY <1>5, <2>1, <2>5
<1>9. CASE /\ crashed' = FALSE /\ trades' = <<>>
           /\ perStrategy' = [i \in Ids |-> [closed |-> 0, rejected |-> 0]]
           /\ perSource' = [s \in ToSet(Sources) |-> 0]
  <2>1. \A i \in Ids : ClosedCounts(perStrategy')[i] = 0
    BY <1>9 DEF ClosedCounts
  <2>2. DOMAIN ClosedCounts(perStrategy') = Ids
    BY DEF ClosedCounts
  <2>3. SumFunction(ClosedCounts(perStrategy')) = 0
    BY <1>2, <2>1, <2>2, TotalOfZeros, SumFunctionIsTotal
  <2>4. Len(trades') = 0
    BY <1>9
  <2>5. \A s : TradesOn(trades', s) = {}
    BY <1>9 DEF TradesOn
  <2>6. \A s \in ToSet(Sources) : perSource'[s] = Cardinality(TradesOn(trades', s))
    BY <1>9, <2>5, FS_EmptySet
  <2> QED BY <1>3, <1>9, <2>3, <2>4, <2>6
<1>10. CASE Close
  <2>1. ~crashed /\ (crashed' <=> setup.runner # "single" /\ open[at].tag \notin Ids)
    BY <1>10 DEF Close
  <2>2. open[at].tag \in Tags
    BY <1>10, ClosedOne DEF TagsKnown
  <2>3. CASE crashed'
    BY <1>2, <1>3, <2>1, <2>2, <2>3, LostTag
  <2>4. CASE ~crashed' /\ setup.runner # "single"
    <3>1. SumFunction(ClosedCounts(perStrategy')) = Len(trades')
      BY <1>4, <1>10, <2>1, <2>4, TradeIsBooked
    <3>2. setup.runner = "multi" =>
             \A s \in ToSet(Sources) : perSource'[s] = Cardinality(TradesOn(trades', s))
      BY <1>4, <1>10, <2>1, <2>4, TradeIsOnItsSource
    <3> QED BY <1>3, <2>4, <3>1, <3>2
  <2>5. CASE ~crashed' /\ setup.runner = "single"
    BY <1>3, <2>5
  <2> QED BY <2>3, <2>4, <2>5
<1> QED BY <1>6, <1>7, <1>8, <1>9, <1>10, StudySteps

-----------------------------------------------------------------------------
(* The invariant of the daily backtests. *)
StudyInv == BookTypes /\ TagsKnown /\ OnePositionEach /\ CapsHold /\ BooksAgree

LEMMA StudyInvInit == StudyInit => StudyInv
<1> SUFFICES ASSUME StudyInit PROVE StudyInv
  OBVIOUS
<1>1. BookTypes /\ CapsHold
  BY BookTypesInit, CapsHoldInit
<1>2. /\ open = <<>> /\ pending = <<>> /\ trades = <<>> /\ ~crashed /\ setup \in Setups /\ phase = "done"
      /\ perStrategy = [i \in Ids |-> [closed |-> 0, rejected |-> 0]]
      /\ perSource = [s \in ToSet(Sources) |-> 0]
  BY <1>1, Zenon DEF StudyInit, Init, BookTypes
<1>3. TagsKnown
  BY <1>2 DEF TagsKnown
<1>4. \A t : Under(open, t) = {} /\ Under(pending, t) = {}
  BY <1>2 DEF Under
<1>5. OnePositionEach
  <2>1. \A t \in Tags : Cardinality(Under(open, t)) = 0 /\ Cardinality(Under(pending, t)) = 0
                        /\ Cardinality(Users(t)) \in Nat
    BY <1>2, <1>4, FS_EmptySet, UsersAreFinite
  <2> QED BY <1>2, <2>1 DEF OnePositionEach
<1>6. BooksAgree
  <2> DEFINE f == [i \in Ids |-> perStrategy[i].closed]
  <2>1. SumFunction(f) = 0
    <3>1. DOMAIN f = Ids /\ (\A i \in Ids : f[i] = 0) /\ IsFiniteSet(Ids)
      BY <1>2, UsersAreFinite
    <3> HIDE DEF f
    <3> QED BY <3>1, TotalOfZeros, SumFunctionIsTotal
  <2>2. \A s \in ToSet(Sources) : perSource[s] = Cardinality({i \in DOMAIN trades : trades[i].source = s /\ trades[i].present})
    <3>1. \A s : {i \in DOMAIN trades : trades[i].source = s /\ trades[i].present} = {}
      BY <1>2
    <3> QED BY <1>2, <3>1, FS_EmptySet
  <2> QED BY <1>2, <2>1, <2>2 DEF BooksAgree
<1> QED BY <1>1, <1>3, <1>5, <1>6 DEF StudyInv

LEMMA StudyInvStep == StudyInv /\ [StudyNext]_allVars => StudyInv'
BY BookTypesStep, TagsKnownStep, OnePositionEachStep, CapsHoldStep, BooksAgreeStep DEF StudyInv

(* A session of the 0DTE backtest changes nothing of it. *)
LEMMA StudyInvariance == ResearchSpec => []StudyInv
<1>1. ResearchInit => StudyInv
  BY StudyInvInit DEF ResearchInit
<1>2. StudyInv /\ [ResearchNext]_researchVars => StudyInv'
  <2>1. [ResearchNext]_researchVars => [StudyNext]_allVars
    BY DEF ResearchNext, researchVars
  <2> QED BY <2>1, StudyInvStep
<1> QED BY <1>1, <1>2, PTL DEF ResearchSpec

(* The caps hold at every step of every study, for any prices, strategies,  *)
(* caps and days on which something is wrong: an order is filled only if    *)
(* the caps leave room for it among all that is open at that moment, and    *)
(* what is closed frees no less than it was charged with.                   *)
THEOREM CapsAlwaysHold == ResearchSpec => []CapsHold
<1>1. StudyInv => CapsHold
  BY DEF StudyInv
<1> QED BY <1>1, StudyInvariance, PTL

(* Strategies whose orders carry the id they look for never stack: what is  *)
(* open and ordered under a tag is never more than its strategies.          *)
THEOREM OnlyReTaggedPositionsStack == ResearchSpec => []OnlyReTaggedStack
<1>1. StudyInv => OnlyReTaggedStack
  <2> SUFFICES ASSUME StudyInv, NEW i \in DOMAIN open, ~Retagged(open[i].tag)
               PROVE  Cardinality(Under(open, open[i].tag)) <= Cardinality(Users(open[i].tag))
    BY DEF OnlyReTaggedStack, Retagged, Users, Under
  <2> DEFINE t == open[i].tag
  <2>1. t \in Tags
    BY DEF StudyInv, TagsKnown
  <2>2. Cardinality(Under(open, t)) + Cardinality(Under(pending, t)) <= Cardinality(Users(t))
    BY <2>1 DEF StudyInv, OnePositionEach
  <2>3. Cardinality(Under(open, t)) \in Nat /\ Cardinality(Under(pending, t)) \in Nat /\ Cardinality(Users(t)) \in Nat
    BY UnderIsFinite, UsersAreFinite DEF StudyInv, BookTypes
  <2> QED BY <2>2, <2>3
<1> QED BY <1>1, StudyInvariance, PTL

(* The trades of a run are those of its strategies, and of its sources but  *)
(* for the days without a snapshot; only a wrapper that leaves the tag of   *)
(* the strategy it wraps can end a run early.                               *)
THEOREM BooksAlwaysAgree == ResearchSpec => []BooksAgree
<1>1. StudyInv => BooksAgree
  BY DEF StudyInv
<1> QED BY <1>1, StudyInvariance, PTL

-----------------------------------------------------------------------------
(* The order of the windows and the folds of a study, and with it what the  *)
(* gates of its strategies rank a day among.                                *)

(* A finite set in a strict total order, which is given by what comes       *)
(* before each element: each has a place of its own, and all are taken.     *)
StrictOrder(S, before) ==
    /\ \A x \in S : before[x] \subseteq S /\ x \notin before[x]
    /\ \A x, y \in S : x # y => x \in before[y] \/ y \in before[x]
    /\ \A x, y, z \in S : x \in before[y] /\ y \in before[z] => x \in before[z]

Place(before, x) == Cardinality(before[x]) + 1

LEMMA PlacesAreTaken ==
    ASSUME NEW S, IsFiniteSet(S), NEW before, StrictOrder(S, before)
    PROVE  /\ \A x \in S : Place(before, x) \in 1..Cardinality(S)
           /\ \A x, y \in S : x \in before[y] => Place(before, x) < Place(before, y)
           /\ \A x, y \in S : Place(before, x) = Place(before, y) => x = y
           /\ \A i \in 1..Cardinality(S) : \E x \in S : Place(before, x) = i
<1> DEFINE N == Cardinality(S)
           place == [x \in S |-> Place(before, x)]
<1>1. \A x \in S : IsFiniteSet(before[x]) /\ Cardinality(before[x]) \in Nat
  BY FS_Subset, FS_CardinalityType DEF StrictOrder
<1>2. N \in Nat
  BY FS_CardinalityType
<1>3. ASSUME NEW x \in S PROVE Place(before, x) \in 1..N
  <2>1. before[x] \in SUBSET S /\ before[x] # S
    BY DEF StrictOrder
  <2>2. Cardinality(before[x]) <= N /\ Cardinality(before[x]) # N
    BY <2>1, FS_Subset
  <2> QED BY <1>1, <1>2, <2>2 DEF Place
<1>4. ASSUME NEW x \in S, NEW y \in S, x \in before[y]
      PROVE  Place(before, x) < Place(before, y)
  <2>1. before[x] \subseteq before[y] /\ before[x] # before[y]
    BY <1>4 DEF StrictOrder
  <2>2. Cardinality(before[x]) <= Cardinality(before[y]) /\ Cardinality(before[x]) # Cardinality(before[y])
    BY <1>1, <2>1, FS_Subset
  <2> QED BY <1>1, <2>2 DEF Place
<1>5. ASSUME NEW x \in S, NEW y \in S, Place(before, x) = Place(before, y)
      PROVE  x = y
  <2>1. Place(before, x) \in Int /\ Place(before, y) \in Int
    BY <1>3
  <2> QED BY <1>4, <1>5, <2>1 DEF StrictOrder
<1>6. place \in Injection(S, 1..N)
  BY <1>3, <1>5 DEF Injection, IsInjective
<1>7. IsFiniteSet(1..N) /\ Cardinality(1..N) = N
  <2> HIDE DEF N
  <2> QED BY <1>2, FS_Interval
<1>8. place \in Surjection(S, 1..N)
  BY <1>6, <1>7, FS_Injection
<1>9. \A i \in 1..N : \E x \in S : Place(before, x) = i
  BY <1>8 DEF Surjection
<1> QED BY <1>3, <1>4, <1>5, <1>9

(* A sequence that has each element of a set at its place. *)
Enumerates(o, S, before) ==
    /\ DOMAIN o = 1..Cardinality(S)
    /\ \A i \in DOMAIN o : o[i] \in S /\ Cardinality(before[o[i]]) = i - 1

LEMMA EnumerationIsComplete ==
    ASSUME NEW S, IsFiniteSet(S), NEW before, StrictOrder(S, before), NEW o, Enumerates(o, S, before)
    PROVE  /\ DOMAIN o = 1..Cardinality(S) /\ ToSet(o) = S
           /\ \A i \in DOMAIN o : o[i] \in S /\ Place(before, o[i]) = i
           /\ \A x \in S : Place(before, x) \in DOMAIN o /\ o[Place(before, x)] = x
<1>1. DOMAIN o = 1..Cardinality(S) /\ Cardinality(S) \in Nat
  BY FS_CardinalityType DEF Enumerates
<1>2. ASSUME NEW i \in DOMAIN o PROVE o[i] \in S /\ Place(before, o[i]) = i
  BY <1>1 DEF Enumerates, Place
<1>3. ASSUME NEW x \in S PROVE Place(before, x) \in DOMAIN o /\ o[Place(before, x)] = x
  <2>1. Place(before, x) \in DOMAIN o
    BY <1>1, PlacesAreTaken
  <2>2. o[Place(before, x)] \in S /\ Place(before, o[Place(before, x)]) = Place(before, x)
    BY <1>2, <2>1
  <2> QED BY <2>1, <2>2, PlacesAreTaken
<1>4. ToSet(o) = S
  BY <1>2, <1>3 DEF ToSet
<1> QED BY <1>1, <1>2, <1>3, <1>4

(* In any such order some element has a given number before it. *)
LEMMA SomeElementIsNext ==
    ASSUME NEW S, IsFiniteSet(S), NEW before, StrictOrder(S, before), NEW i \in 1..Cardinality(S)
    PROVE  \E x \in S : Cardinality(before[x]) = i - 1
<1>1. PICK x \in S : Place(before, x) = i
  BY PlacesAreTaken
<1>2. Cardinality(before[x]) \in Nat /\ i \in Int
  BY FS_Subset, FS_CardinalityType DEF StrictOrder
<1> QED BY <1>1, <1>2 DEF Place

(* The choices of folds of Windows.Paths in their lexicographic order. *)
Sooner(S, T) == \E x \in S \ T : \A y \in T \ S : x < y
FoldChoices(n, k) == kSubset(k, 1..n)
BeforeIn(n, k) == [T \in FoldChoices(n, k) |-> {S \in FoldChoices(n, k) : Sooner(S, T)}]

LEMMA ChoicesAreOrdered ==
    ASSUME NEW n \in Nat, NEW k
    PROVE  /\ IsFiniteSet(FoldChoices(n, k))
           /\ \A S \in FoldChoices(n, k) : S \subseteq 1..n /\ S \subseteq Nat /\ IsFiniteSet(S) /\ Cardinality(S) = k
           /\ StrictOrder(FoldChoices(n, k), BeforeIn(n, k))
<1> DEFINE C == FoldChoices(n, k)
           b == BeforeIn(n, k)
<1>1. IsFiniteSet(1..n) /\ 1..n \subseteq Nat
  BY FS_Interval
<1>2. \A S \in C : S \subseteq 1..n /\ S \subseteq Nat /\ IsFiniteSet(S) /\ Cardinality(S) = k
  BY <1>1, FS_Subset DEF FoldChoices, kSubset
<1>3. IsFiniteSet(C)
  <2>1. IsFiniteSet(SUBSET (1..n)) /\ C \subseteq SUBSET (1..n)
    BY <1>1, FS_SUBSET DEF FoldChoices, kSubset
  <2> QED BY <2>1, FS_Subset
<1>4. \A S, T \in C : S \in b[T] <=> Sooner(S, T)
  BY DEF BeforeIn
<1>5. \A S \in C : b[S] \subseteq C /\ S \notin b[S]
  BY DEF BeforeIn, Sooner
<1>6. ASSUME NEW S \in C, NEW T \in C, S # T PROVE Sooner(S, T) \/ Sooner(T, S)
  <2>1. S \ T # {} /\ T \ S # {}
    <3>1. ~(S \subseteq T) /\ ~(T \subseteq S)
      BY <1>2, <1>6, FS_Subset
    <3> QED BY <3>1
  <2>2. S \ T \in SUBSET Nat /\ T \ S \in SUBSET Nat
    BY <1>2
  <2>3. PICK x \in S \ T : \A y \in S \ T : ~(y < x)
    BY <2>1, <2>2, LeastNumber
  <2>4. PICK z \in T \ S : \A y \in T \ S : ~(y < z)
    BY <2>1, <2>2, LeastNumber
  <2>5. x \in Nat /\ z \in Nat /\ x # z
    BY <2>2
  <2>6. CASE x < z
    <3>1. \A y \in T \ S : x < y
      BY <2>2, <2>4, <2>5, <2>6
    <3> QED BY <3>1 DEF Sooner
  <2>7. CASE z < x
    <3>1. \A y \in S \ T : z < y
      BY <2>2, <2>3, <2>5, <2>7
    <3> QED BY <3>1 DEF Sooner
  <2> QED BY <2>5, <2>6, <2>7
<1>7. ASSUME NEW S \in C, NEW T \in C, NEW U \in C, Sooner(S, T), Sooner(T, U)
      PROVE  Sooner(S, U)
  <2>1. PICK x \in S \ T : \A y \in T \ S : x < y
    BY <1>7 DEF Sooner
  <2>2. PICK z \in T \ U : \A y \in U \ T : z < y
    BY <1>7 DEF Sooner
  <2>3. S \subseteq Nat /\ T \subseteq Nat /\ U \subseteq Nat /\ x \in Nat /\ z \in Nat /\ x # z
    BY <1>2, <2>1, <2>2
  <2>4. CASE x < z
    <3>1. x \in S \ U
      BY <2>1, <2>2, <2>3, <2>4
    <3>2. \A y \in U \ S : x < y
      BY <2>1, <2>2, <2>3, <2>4
    <3> QED BY <3>1, <3>2 DEF Sooner
  <2>5. CASE z < x
    <3>1. z \in S \ U
      BY <2>1, <2>2, <2>3, <2>5
    <3>2. \A y \in U \ S : z < y
      BY <2>1, <2>2, <2>3, <2>5
    <3> QED BY <3>1, <3>2 DEF Sooner
  <2> QED BY <2>3, <2>4, <2>5
<1>8. StrictOrder(C, b)
  <2> HIDE DEF C, b
  <2>1. \A S, T \in C : S # T => S \in b[T] \/ T \in b[S]
    BY <1>4, <1>6
  <2>2. \A S, T, U \in C : S \in b[T] /\ T \in b[U] => S \in b[U]
    <3> SUFFICES ASSUME NEW S \in C, NEW T \in C, NEW U \in C, S \in b[T], T \in b[U] PROVE S \in b[U]
      OBVIOUS
    <3>1. Sooner(S, T) /\ Sooner(T, U)
      BY <1>4
    <3>2. Sooner(S, U)
      BY <1>7, <3>1
    <3> QED BY <1>4, <3>2
  <2> QED BY <1>5, <2>1, <2>2 DEF StrictOrder
<1> QED BY <1>2, <1>3, <1>8

(* A set of numbers in their order. *)
Less(S) == [x \in S |-> {y \in S : y < x}]

LEMMA NumbersAreOrdered ==
    ASSUME NEW S \in SUBSET Int
    PROVE  StrictOrder(S, Less(S))
<1> DEFINE b == Less(S)
<1>1. \A x, y \in S : x \in b[y] <=> x < y
  BY DEF Less
<1>2. \A x \in S : b[x] \subseteq S
  BY DEF Less
<1> HIDE DEF b
<1> QED BY <1>1, <1>2 DEF StrictOrder, b

(* The paths are the choices in their order, each with its folds. *)
LEMMA PathsAreChoices ==
    ASSUME NEW n \in Nat, NEW k
    PROVE  \E o : /\ Enumerates(o, FoldChoices(n, k), BeforeIn(n, k)) /\ DOMAIN Paths(n, k) = DOMAIN o
                  /\ \A p \in DOMAIN o : ToSet(Paths(n, k)[p]) = o[p]
<1> DEFINE C == FoldChoices(n, k)
           b == BeforeIn(n, k)
           next(i) == CHOOSE T \in C : Cardinality({S \in C : \E x \in S \ T : \A y \in T \ S : x < y}) = i - 1
           o == [i \in 1..Cardinality(C) |-> next(i)]
           row(S) == [i \in 1..Cardinality(S) |-> CHOOSE x \in S : Cardinality({y \in S : y < x}) = i - 1]
<1>1. Paths(n, k) = [i \in DOMAIN o |-> row(o[i])]
  BY Zenon DEF Paths, FoldChoices, InOrder
<1>2. IsFiniteSet(C) /\ StrictOrder(C, b) /\ \A S \in C : S \in SUBSET Int /\ IsFiniteSet(S)
  BY ChoicesAreOrdered
<1>3. \A T \in C : b[T] = {S \in C : \E x \in S \ T : \A y \in T \ S : x < y}
  BY DEF BeforeIn, Sooner
<1> HIDE DEF C, b
<1>4. ASSUME NEW i \in 1..Cardinality(C) PROVE next(i) \in C /\ Cardinality(b[next(i)]) = i - 1
  <2>1. \E T \in C : Cardinality(b[T]) = i - 1
    BY <1>2, SomeElementIsNext
  <2>2. \E T \in C : Cardinality({S \in C : \E x \in S \ T : \A y \in T \ S : x < y}) = i - 1
    BY <1>3, <2>1
  <2> HIDE DEF next
  <2>3. next(i) \in C /\ Cardinality({S \in C : \E x \in S \ next(i) : \A y \in next(i) \ S : x < y}) = i - 1
    BY <2>2, Zenon DEF next
  <2> QED BY <1>3, <2>3
<1> HIDE DEF next
<1>5. Enumerates(o, C, b)
  BY <1>4 DEF Enumerates
<1>6. ASSUME NEW S \in C PROVE ToSet(row(S)) = S
  <2> DEFINE least(i) == CHOOSE x \in S : Cardinality({y \in S : y < x}) = i - 1
             q == [i \in 1..Cardinality(S) |-> least(i)]
  <2>1. S \in SUBSET Int /\ IsFiniteSet(S) /\ StrictOrder(S, Less(S))
    BY <1>2, NumbersAreOrdered
  <2>2. \A x \in S : Less(S)[x] = {y \in S : y < x}
    BY DEF Less
  <2>3. ASSUME NEW i \in 1..Cardinality(S) PROVE least(i) \in S /\ Cardinality(Less(S)[least(i)]) = i - 1
    <3>1. \E x \in S : Cardinality(Less(S)[x]) = i - 1
      BY <2>1, SomeElementIsNext
    <3>2. \E x \in S : Cardinality({y \in S : y < x}) = i - 1
      BY <2>2, <3>1
    <3> HIDE DEF least
    <3>3. least(i) \in S /\ Cardinality({y \in S : y < least(i)}) = i - 1
      BY <3>2, Zenon DEF least
    <3> QED BY <2>2, <3>3
  <2>4. row(S) = q
    OBVIOUS
  <2> HIDE DEF row, least
  <2>5. Enumerates(q, S, Less(S))
    BY <2>3 DEF Enumerates
  <2> HIDE DEF q
  <2> QED BY <2>1, <2>4, <2>5, EnumerationIsComplete
<1> HIDE DEF row
<1>7. DOMAIN Paths(n, k) = DOMAIN o /\ \A p \in DOMAIN o : ToSet(Paths(n, k)[p]) = o[p]
  BY <1>1, <1>4, <1>6
<1> HIDE DEF o
<1> QED BY <1>5, <1>7 DEF C, b

(* The first path with a fold comes no later than the first with a greater. *)
FirstWith(n, k, x) == Min({p \in DOMAIN Paths(n, k) : x \in ToSet(Paths(n, k)[p])})

LEMMA SomeChoiceHas ==
    ASSUME NEW n \in Nat, NEW k \in 1..(n - 1), NEW x \in 1..n
    PROVE  \E S \in FoldChoices(n, k) : x \in S
<1>1. CASE x >= k
  <2>1. (x - k + 1)..x \subseteq 1..n /\ x \in (x - k + 1)..x
    BY <1>1
  <2>2. Cardinality((x - k + 1)..x) = k
    <3>1. x - k + 1 \in Int /\ x \in Int /\ ~(x - k + 1 > x) /\ x - (x - k + 1) + 1 = k
      OBVIOUS
    <3> QED BY <3>1, FS_Interval
  <2> QED BY <2>1, <2>2 DEF FoldChoices, kSubset
<1>2. CASE x < k
  <2>1. 1..k \subseteq 1..n /\ x \in 1..k
    BY <1>2
  <2>2. Cardinality(1..k) = k
    <3>1. k \in Int /\ ~(1 > k) /\ k - 1 + 1 = k
      OBVIOUS
    <3> QED BY <3>1, FS_Interval
  <2> QED BY <2>1, <2>2 DEF FoldChoices, kSubset
<1> QED BY <1>1, <1>2

LEMMA FirstPathsAscend ==
    ASSUME NEW n \in Nat, NEW k \in 1..(n - 1)
    PROVE  /\ \A x \in 1..n : FirstWith(n, k, x) \in Nat
           /\ \A x, z \in 1..n : x < z => FirstWith(n, k, x) <= FirstWith(n, k, z)
<1> DEFINE C == FoldChoices(n, k)
           b == BeforeIn(n, k)
<1>1. PICK o : /\ Enumerates(o, C, b) /\ DOMAIN Paths(n, k) = DOMAIN o
               /\ \A p \in DOMAIN o : ToSet(Paths(n, k)[p]) = o[p]
  BY PathsAreChoices
<1>2. /\ IsFiniteSet(C) /\ StrictOrder(C, b)
      /\ \A S \in C : S \subseteq 1..n /\ IsFiniteSet(S) /\ Cardinality(S) = k
  BY ChoicesAreOrdered
<1>3. /\ DOMAIN o = 1..Cardinality(C) /\ ToSet(o) = C /\ Cardinality(C) \in Nat
      /\ \A i \in DOMAIN o : o[i] \in C /\ Place(b, o[i]) = i
      /\ \A S \in C : Place(b, S) \in DOMAIN o /\ o[Place(b, S)] = S
  BY <1>1, <1>2, EnumerationIsComplete, FS_CardinalityType
<1> DEFINE with(x) == {p \in DOMAIN o : x \in o[p]}
<1>4. \A x : FirstWith(n, k, x) = Min(with(x))
  <2> SUFFICES ASSUME NEW x PROVE FirstWith(n, k, x) = Min(with(x))
    OBVIOUS
  <2>1. {p \in DOMAIN Paths(n, k) : x \in ToSet(Paths(n, k)[p])} = with(x)
    BY <1>1
  <2> QED BY <2>1 DEF FirstWith
<1>5. ASSUME NEW x \in 1..n PROVE Min(with(x)) \in with(x) /\ \A p \in with(x) : Min(with(x)) <= p
  <2>1. PICK S \in C : x \in S
    BY SomeChoiceHas
  <2>2. Place(b, S) \in with(x)
    BY <1>3, <2>1
  <2>3. with(x) \in SUBSET Nat /\ with(x) # {} /\ with(x) \in SUBSET Int
    BY <1>3, <2>2
  <2> HIDE DEF with
  <2>4. PICK m \in with(x) : \A p \in with(x) : ~(p < m)
    BY <2>3, LeastNumber
  <2>5. \A p \in with(x) : m <= p
    BY <2>3, <2>4
  <2> QED BY <2>4, <2>5 DEF Min
<1>6. \A x : with(x) \subseteq Nat
  BY <1>3
<1>7. ASSUME NEW x \in 1..n, NEW z \in 1..n, x < z PROVE Min(with(x)) <= Min(with(z))
  <2> DEFINE p == Min(with(z))
             S == o[p]
             T == (S \ {z}) \cup {x}
  <2>1. p \in DOMAIN o /\ p \in Nat /\ z \in S /\ S \in C
    BY <1>3, <1>5, <1>6
  <2>2. CASE x \in S
    <3>1. p \in with(x)
      BY <2>1, <2>2
    <3> QED BY <1>5, <3>1
  <2>3. CASE x \notin S
    <3>1. S \subseteq 1..n /\ IsFiniteSet(S) /\ Cardinality(S) = k
      BY <1>2, <2>1
    <3>2. IsFiniteSet(S \ {z}) /\ Cardinality(S \ {z}) = k - 1 /\ x \notin S \ {z}
      BY <2>1, <2>3, <3>1, FS_RemoveElement
    <3>3. Cardinality(T) = k
      <4>1. Cardinality(T) = Cardinality(S \ {z}) + 1
        BY <3>2, FS_AddElement
      <4> HIDE DEF T, S
      <4> QED BY <3>2, <4>1
    <3>4. T \in C
      <4>1. T \subseteq 1..n
        BY <3>1
      <4> HIDE DEF T
      <4> QED BY <3>3, <4>1 DEF FoldChoices, kSubset
    <3>5. Sooner(T, S)
      <4>1. x \in T \ S /\ S \ T \subseteq {z}
        BY <2>3
      <4> HIDE DEF T, S
      <4> QED BY <1>7, <4>1 DEF Sooner
    <3>6. T \in b[S]
      <4> HIDE DEF T, S
      <4> QED BY <2>1, <3>4, <3>5 DEF BeforeIn
    <3>7. Place(b, T) < Place(b, S) /\ Place(b, S) = p
      <4> HIDE DEF T, b, C
      <4>1. Place(b, T) < Place(b, S)
        BY <1>2, <2>1, <3>4, <3>6, PlacesAreTaken
      <4> QED BY <1>3, <2>1, <4>1
    <3>8. Place(b, T) \in with(x)
      <4>1. x \in T /\ o[Place(b, T)] = T /\ Place(b, T) \in DOMAIN o
        BY <1>3, <3>4
      <4> HIDE DEF T, b, C
      <4> QED BY <4>1
    <3>9. Min(with(x)) <= Place(b, T) /\ Min(with(x)) \in Nat /\ Place(b, T) \in Nat
      BY <1>5, <1>6, <3>8
    <3> HIDE DEF with, T, S, p
    <3> QED BY <2>1, <3>7, <3>9 DEF p
  <2> QED BY <2>2, <2>3
<1> HIDE DEF with
<1> QED BY <1>4, <1>5, <1>6, <1>7

(* So a cross-validation runs its folds from the first to the last. *)
LEMMA CpcvRunsAreTheFolds ==
    ASSUME NEW s \in Studies, s.kind = "cpcv"
    PROVE  Plan(s) = [i \in 1..s.folds |->
                         ARun("fold", SplitFolds(1, 2 * s.days + 1, s.folds)[i], s.folds, s.days)]
<1> DEFINE n == s.folds
           run(i) == ARun("fold", SplitFolds(1, 2 * s.days + 1, n)[i], n, s.days)
           needed(x) == FirstWith(n, s.k, x)
           sooner(x, z) == needed(x) < needed(z) \/ (needed(x) = needed(z) /\ x < z)
           next(i) == CHOOSE x \in 1..n : Cardinality({y \in 1..n : sooner(y, x)}) = i - 1
           order1 == [i \in 1..Cardinality(1..n) |-> next(i)]
<1>1. n \in Nat /\ s.k \in 1..(n - 1)
  BY StudyAssumption
<1>2. Plan(s) = [i \in DOMAIN order1 |-> run(order1[i])]
  <2>1. Plan(s) = CpcvRuns(s)
    BY DEF Plan
  <2>2. CpcvRuns(s) = [i \in DOMAIN order1 |-> run(order1[i])]
    BY Zenon DEF CpcvRuns, InOrder, FirstWith
  <2> QED BY <2>1, <2>2
<1>3. /\ \A x \in 1..n : needed(x) \in Nat
      /\ \A x, z \in 1..n : x < z => needed(x) <= needed(z)
  BY <1>1, FirstPathsAscend
<1> HIDE DEF needed
<1>4. \A x, z \in 1..n : sooner(x, z) <=> x < z
  BY <1>1, <1>3
<1> HIDE DEF sooner, run
<1>5. ASSUME NEW x \in 1..n PROVE Cardinality({y \in 1..n : sooner(y, x)}) = x - 1
  <2>1. {y \in 1..n : sooner(y, x)} = 1..(x - 1)
    BY <1>1, <1>4
  <2>2. 1 \in Int /\ x - 1 \in Int /\ (IF 1 > x - 1 THEN 0 ELSE (x - 1) - 1 + 1) = x - 1
    OBVIOUS
  <2>3. Cardinality(1..(x - 1)) = x - 1
    BY <2>2, FS_Interval
  <2> QED BY <2>1, <2>3
<1>6. ASSUME NEW i \in 1..n PROVE next(i) = i
  <2>1. \E x \in 1..n : Cardinality({y \in 1..n : sooner(y, x)}) = i - 1
    BY <1>5
  <2> HIDE DEF next
  <2>2. next(i) \in 1..n /\ Cardinality({y \in 1..n : sooner(y, next(i))}) = i - 1
    BY <2>1, Zenon DEF next
  <2>3. next(i) - 1 = i - 1
    BY <1>5, <2>2
  <2> QED BY <2>2, <2>3
<1>7. Cardinality(1..n) = n
  <2>1. (IF 1 > n THEN 0 ELSE n - 1 + 1) = n
    BY <1>1
  <2> HIDE DEF n
  <2> QED BY <1>1, <2>1, FS_Interval
<1>8. DOMAIN order1 = 1..n /\ \A i \in 1..n : order1[i] = i
  <2> HIDE DEF next
  <2> QED BY <1>6, <1>7
<1> HIDE DEF order1
<1> QED BY <1>2, <1>8 DEF run

LEMMA FoldsComeInOrder ==
    ASSUME NEW s \in Studies, s.kind = "cpcv", NEW i \in DOMAIN Plan(s), NEW j \in DOMAIN Plan(s), i < j,
           NEW c \in Plan(s)[i].on, NEW d \in Plan(s)[j].on
    PROVE  c <= d
<1> DEFINE n == s.folds
           folds == SplitFolds(1, 2 * s.days + 1, n)
<1>1. n \in Nat /\ s.days \in Nat /\ n > 0
  BY StudyAssumption, BacktestAssumption
<1>2. i \in 1..n /\ j \in 1..n /\ Plan(s)[i] = ARun("fold", folds[i], n, s.days)
      /\ Plan(s)[j] = ARun("fold", folds[j], n, s.days)
  BY CpcvRunsAreTheFolds
<1>3. folds[i][2] = n + i * (2 * s.days) /\ folds[j][1] = n + (j - 1) * (2 * s.days)
  <2>1. \A m \in 1..n : folds[m] = <<n * 1 + (m - 1) * ((2 * s.days + 1) - 1), n * 1 + m * ((2 * s.days + 1) - 1)>>
    <3> DEFINE fold(m) == <<n * 1 + (m - 1) * ((2 * s.days + 1) - 1), n * 1 + m * ((2 * s.days + 1) - 1)>>
    <3>1. folds = [m \in 1..n |-> fold(m)]
      BY Zenon DEF SplitFolds
    <3> HIDE DEF fold, folds
    <3>2. \A m \in 1..n : folds[m] = fold(m)
      BY <3>1
    <3> QED BY <3>2 DEF fold
  <2>2. (2 * s.days + 1) - 1 = 2 * s.days /\ n * 1 = n
    BY <1>1
  <2> HIDE DEF folds
  <2> QED BY <1>2, <2>1, <2>2
<1>4. /\ c \in Nat /\ d \in Nat
      /\ 2 * c * n <= folds[i][2] /\ folds[j][1] <= 2 * d * n
  <2> HIDE DEF folds
  <2> QED BY <1>1, <1>2 DEF ARun, DaysIn
<1>5. i * (2 * s.days) <= (j - 1) * (2 * s.days)
  <2>1. i \in Nat /\ j - 1 \in Nat /\ i <= j - 1 /\ 2 * s.days \in Nat
    BY <1>1, <1>2
  <2>2. \A x, y, w \in Nat : x <= y => x * w <= y * w
    OBVIOUS
  <2> QED BY <2>1, <2>2
<1>6. 2 * c * n <= 2 * d * n
  <2>1. 2 * c * n \in Int /\ 2 * d * n \in Int /\ i * (2 * s.days) \in Int /\ (j - 1) * (2 * s.days) \in Int
    BY <1>1, <1>2, <1>4
  <2> QED BY <1>1, <1>3, <1>4, <1>5, <2>1
<1>7. \A x, y \in Nat : x > y => 2 * x * n > 2 * y * n
  <2>1. \A x, y, w \in Nat : x > y /\ w > 0 => 2 * x * w > 2 * y * w
    OBVIOUS
  <2> QED BY <1>1, <2>1
<1> QED BY <1>1, <1>4, <1>6, <1>7

(* The windows of a walk-forward study in days: the first days come after   *)
(* day (w - 1) * roll, and the last ones are days of the study.             *)
StudyWindows(s) == SplitWindows(1, 2 * s.days + 1, 2 * s.train, 2 * s.test, 2 * s.roll)

LEMMA StudyWindowsFit ==
    ASSUME NEW s \in Studies, s.kind = "walk_forward"
    PROVE  /\ Len(StudyWindows(s)) \in Nat
           /\ \A w \in 1..Len(StudyWindows(s)) :
                  LET a == (w - 1) * s.roll
                  IN  /\ a \in Nat /\ a + s.train + s.test <= s.days
                      /\ StudyWindows(s)[w].train = 2 * a + 1
                      /\ StudyWindows(s)[w].test = 2 * (a + s.train) + 1
                      /\ StudyWindows(s)[w].end = 2 * (a + s.train + s.test) + 1
<1> DEFINE roll == 2 * s.roll
           last == (2 * s.days + 1) - 1 - 2 * s.train - 2 * s.test
           n == IF last < 0 THEN 0 ELSE 1 + last \div roll
           window(w) == [train |-> 1 + (w - 1) * roll, test |-> 1 + (w - 1) * roll + 2 * s.train,
                         end |-> 1 + (w - 1) * roll + 2 * s.train + 2 * s.test]
<1>1. s.days \in Nat /\ s.train \in Nat \ {0} /\ s.test \in Nat \ {0} /\ s.roll \in Nat \ {0}
  BY StudyAssumption, BacktestAssumption
<1>2. last \in Int /\ roll \in Nat \ {0} /\ last = 2 * s.days - 2 * s.train - 2 * s.test /\ roll = 2 * s.roll
  BY <1>1
<1>3. StudyWindows(s) = [w \in 1..n |-> window(w)]
  BY Zenon DEF StudyWindows, SplitWindows
<1>4. ASSUME NEW w \in Int PROVE (w - 1) * roll = 2 * ((w - 1) * s.roll) /\ (w - 1) * s.roll \in Int
  BY <1>1
<1>5. ASSUME NEW a \in Nat, NEW b \in Nat \ {0} PROVE a \div b \in Nat /\ b * (a \div b) <= a
  OBVIOUS
<1> HIDE DEF last, roll
<1>6. n \in Nat /\ \A w \in 1..n : (w - 1) * roll <= last
  <2>1. CASE last < 0
    <3>1. n = 0 /\ 1..0 = {}
      BY <2>1
    <3> QED BY <3>1
  <2>2. CASE ~(last < 0)
    <3> DEFINE q == last \div roll
    <3>1. last \in Nat
      BY <1>2, <2>2
    <3>2. q \in Nat /\ roll * q <= last /\ n = 1 + q
      BY <1>2, <1>5, <2>2, <3>1
    <3> HIDE DEF q, n
    <3>3. ASSUME NEW w \in 1..n PROVE (w - 1) * roll <= last
      <4>1. w - 1 \in Nat /\ w - 1 <= q
        BY <3>2
      <4>2. \A x, y, z \in Nat : x <= y => x * z <= z * y
        OBVIOUS
      <4>3. (w - 1) * roll <= roll * q
        BY <1>2, <3>2, <4>1, <4>2
      <4>4. (w - 1) * roll \in Int /\ roll * q \in Int
        BY <1>2, <3>2, <4>1
      <4> QED BY <1>2, <3>2, <4>3, <4>4
    <3> QED BY <3>2, <3>3
  <2> QED BY <2>1, <2>2
<1> HIDE DEF n, window
<1>7. Len(StudyWindows(s)) = n /\ \A w \in 1..n : StudyWindows(s)[w] = window(w)
  BY <1>3, <1>6
<1>8. ASSUME NEW w \in 1..n
      PROVE  LET a == (w - 1) * s.roll
             IN  /\ a \in Nat /\ a + s.train + s.test <= s.days
                 /\ window(w).train = 2 * a + 1 /\ window(w).test = 2 * (a + s.train) + 1
                 /\ window(w).end = 2 * (a + s.train + s.test) + 1
  <2> DEFINE a == (w - 1) * s.roll
             b == (w - 1) * roll
  <2>1. a \in Nat
    <3>1. w - 1 \in Nat
      BY <1>6
    <3>2. \A x, y \in Nat : x * y \in Nat
      OBVIOUS
    <3> QED BY <1>1, <3>1, <3>2
  <2>2. b = 2 * a /\ b <= last
    BY <1>4, <1>6
  <2>3. window(w).train = 1 + b /\ window(w).test = 1 + b + 2 * s.train
        /\ window(w).end = 1 + b + 2 * s.train + 2 * s.test
    BY DEF window
  <2> HIDE DEF a, b
  <2>4. /\ a \in Nat /\ a + s.train + s.test <= s.days
        /\ window(w).train = 2 * a + 1 /\ window(w).test = 2 * (a + s.train) + 1
        /\ window(w).end = 2 * (a + s.train + s.test) + 1
    BY <1>1, <1>2, <2>1, <2>2, <2>3
  <2> QED BY <2>4 DEF a
<1> QED BY <1>6, <1>7, <1>8

(* The days of the runs of such a study: each run is on days that follow    *)
(* one another, a test on those after its training days, and the next run   *)
(* starts no later than the day after the one before has ended.             *)
RunsFollow(p) ==
    \A i \in DOMAIN p :
        /\ i \in Nat \ {0} /\ p[i].part \in {"train", "test"}
        /\ p[i].part = "test" => i > 1
        /\ \E a, b \in Nat \ {0} :
               /\ a <= b /\ p[i].on = a..b
               /\ i = 1 => a = 1
               /\ i + 1 \in DOMAIN p => \E c, d \in Nat \ {0} :
                      /\ c <= d /\ p[i + 1].on = c..d /\ c <= b + 1
                      /\ p[i + 1].part = "test" => c = b + 1

LEMMA OddDays ==
    ASSUME NEW a \in Nat, NEW b \in Nat, NEW n \in Nat, b <= n
    PROVE  DaysIn(<<2 * a + 1, 2 * b + 1>>, 1, n) = (a + 1)..b
<1>1. \A d \in Int : (2 * a + 1 <= 2 * d * 1 <=> a + 1 <= d) /\ (2 * d * 1 <= 2 * b + 1 <=> d <= b)
  OBVIOUS
<1>2. \A d : d \in 1..n /\ a + 1 <= d /\ d <= b <=> d \in (a + 1)..b
  OBVIOUS
<1> QED BY <1>1, <1>2 DEF DaysIn

LEMMA WalkForwardRunsFollow ==
    ASSUME NEW s \in Studies, s.kind = "walk_forward"
    PROVE  RunsFollow(Plan(s))
<1> DEFINE windows == StudyWindows(s)
           n == Len(windows)
           T == s.train
           E == s.test
           from(w) == (w - 1) * s.roll
           train(w) == ARun("train", <<w.train, w.test>>, 1, s.days)
           test(w) == ARun("test", <<w.test, w.end>>, 1, s.days)
           p == Plan(s)
<1>1. p = [i \in 1..(2 * n) |-> IF i % 2 = 1 THEN train(windows[(i + 1) \div 2]) ELSE test(windows[i \div 2])]
  BY Zenon DEF Plan, WalkForwardRuns, StudyWindows
<1>2. s.days \in Nat /\ T \in Nat \ {0} /\ E \in Nat \ {0} /\ s.roll \in Nat \ {0} /\ s.roll <= T + E
  BY StudyAssumption, BacktestAssumption
<1>3. /\ n \in Nat
      /\ \A w \in 1..n : /\ from(w) \in Nat /\ from(w) + T + E <= s.days
                         /\ windows[w].train = 2 * from(w) + 1 /\ windows[w].test = 2 * (from(w) + T) + 1
                         /\ windows[w].end = 2 * (from(w) + T + E) + 1
  BY StudyWindowsFit
<1>4. \A w \in Int : from(w + 1) = from(w) + s.roll /\ from(1) = 0
  BY <1>2
<1> HIDE DEF windows, from, T, E
<1>5. ASSUME NEW w \in 1..n
      PROVE  /\ train(windows[w]) = [part |-> "train", on |-> (from(w) + 1)..(from(w) + T)]
             /\ test(windows[w]) = [part |-> "test", on |-> (from(w) + T + 1)..(from(w) + T + E)]
  <2>1. from(w) \in Nat /\ from(w) + T \in Nat /\ from(w) + T + E \in Nat
        /\ from(w) + T <= s.days /\ from(w) + T + E <= s.days
    <3>1. from(w) \in Nat /\ from(w) + T + E <= s.days
      BY <1>3
    <3>2. \A x \in Nat : x + T + E <= s.days => x + T \in Nat /\ x + T + E \in Nat /\ x + T <= s.days
      BY <1>2
    <3> QED BY <3>1, <3>2
  <2>2. DaysIn(<<2 * from(w) + 1, 2 * (from(w) + T) + 1>>, 1, s.days) = (from(w) + 1)..(from(w) + T)
    BY <1>2, <2>1, OddDays
  <2>3. DaysIn(<<2 * (from(w) + T) + 1, 2 * (from(w) + T + E) + 1>>, 1, s.days) = (from(w) + T + 1)..(from(w) + T + E)
    BY <1>2, <2>1, OddDays
  <2> QED BY <1>3, <2>2, <2>3 DEF ARun
<1> HIDE DEF train, test, n
<1>6. DOMAIN p = 1..(2 * n)
  BY <1>1
<1>7. \A w \in 1..n : /\ 2 * w - 1 \in 1..(2 * n) /\ 2 * w \in 1..(2 * n)
                      /\ p[2 * w - 1] = train(windows[w]) /\ p[2 * w] = test(windows[w])
  <2> SUFFICES ASSUME NEW w \in 1..n
               PROVE  /\ 2 * w - 1 \in 1..(2 * n) /\ 2 * w \in 1..(2 * n)
                      /\ p[2 * w - 1] = train(windows[w]) /\ p[2 * w] = test(windows[w])
    OBVIOUS
  <2>1. /\ 2 * w - 1 \in 1..(2 * n) /\ 2 * w \in 1..(2 * n)
        /\ (2 * w - 1) % 2 = 1 /\ (2 * w) % 2 # 1 /\ ((2 * w - 1) + 1) \div 2 = w /\ (2 * w) \div 2 = w
    <3>1. w \in Int /\ n \in Int /\ 1 <= w /\ w <= n
      BY <1>3
    <3>2. \A x \in Int : (2 * x - 1) % 2 = 1 /\ (2 * x) % 2 # 1 /\ ((2 * x - 1) + 1) \div 2 = x /\ (2 * x) \div 2 = x
      OBVIOUS
    <3>3. 2 * w - 1 \in 1..(2 * n) /\ 2 * w \in 1..(2 * n)
      BY <3>1
    <3> QED BY <3>1, <3>2, <3>3
  <2> QED BY <1>1, <2>1
<1> HIDE DEF p
<1>13. ASSUME NEW w \in 1..n, NEW i, i = 2 * w - 1
       PROVE  p[i] = [part |-> "train", on |-> (from(w) + 1)..(from(w) + T)]
  BY <1>5, <1>7, <1>13, Zenon
<1>14. ASSUME NEW w \in 1..n, NEW i, i = 2 * w
       PROVE  p[i] = [part |-> "test", on |-> (from(w) + T + 1)..(from(w) + T + E)]
  BY <1>5, <1>7, <1>14, Zenon
<1>8. ASSUME NEW i \in DOMAIN p PROVE \E w \in 1..n : i = 2 * w - 1 \/ i = 2 * w
  <2>1. i \in Nat /\ 1 <= i /\ i <= 2 * n
    BY <1>3, <1>6
  <2>2. CASE i % 2 = 1
    <3>1. (i + 1) \div 2 \in 1..n /\ i = 2 * ((i + 1) \div 2) - 1
      BY <1>3, <2>1, <2>2
    <3> QED BY <3>1
  <2>3. CASE i % 2 # 1
    <3>1. i \div 2 \in 1..n /\ i = 2 * (i \div 2)
      BY <1>3, <2>1, <2>3
    <3> QED BY <3>1
  <2> QED BY <2>2, <2>3
<1>9. ASSUME NEW i \in DOMAIN p, NEW w \in 1..n, i = 2 * w - 1
      PROVE  \E a, b \in Nat \ {0} :
               /\ a <= b /\ p[i].on = a..b
               /\ i = 1 => a = 1
               /\ i + 1 \in DOMAIN p => \E c, d \in Nat \ {0} :
                      /\ c <= d /\ p[i + 1].on = c..d /\ c <= b + 1
                      /\ p[i + 1].part = "test" => c = b + 1
  <2> DEFINE a == from(w) + 1
             b == from(w) + T
             c == from(w) + T + 1
             d == from(w) + T + E
  <2>1. a \in Nat \ {0} /\ b \in Nat \ {0} /\ c \in Nat \ {0} /\ d \in Nat \ {0} /\ a <= b /\ c <= d /\ c = b + 1
    BY <1>2, <1>3
  <2>2. p[i].on = a..b /\ p[i + 1].on = c..d
    <3>1. i + 1 = 2 * w
      BY <1>3, <1>9
    <3>2. p[i] = [part |-> "train", on |-> (from(w) + 1)..(from(w) + T)]
      BY <1>9, <1>13
    <3>3. p[i + 1] = [part |-> "test", on |-> (from(w) + T + 1)..(from(w) + T + E)]
      BY <1>14, <3>1
    <3> QED BY <3>2, <3>3
  <2>3. i = 1 => a = 1
    <3>1. i = 1 => w = 1
      BY <1>3, <1>9
    <3>2. from(1) = 0
      BY <1>4
    <3> QED BY <3>1, <3>2
  <2> HIDE DEF a, b, c, d
  <2> QED BY <2>1, <2>2, <2>3
<1>10. ASSUME NEW i \in DOMAIN p, NEW w \in 1..n, i = 2 * w
       PROVE  \E a, b \in Nat \ {0} :
               /\ a <= b /\ p[i].on = a..b
               /\ i = 1 => a = 1
               /\ i + 1 \in DOMAIN p => \E c, d \in Nat \ {0} :
                      /\ c <= d /\ p[i + 1].on = c..d /\ c <= b + 1
                      /\ p[i + 1].part = "test" => c = b + 1
  <2> DEFINE a == from(w) + T + 1
             b == from(w) + T + E
             c == from(w) + s.roll + 1
             d == from(w) + s.roll + T
  <2>1. a \in Nat \ {0} /\ b \in Nat \ {0} /\ c \in Nat \ {0} /\ d \in Nat \ {0} /\ a <= b /\ c <= d /\ c <= b + 1
    BY <1>2, <1>3
  <2>2. p[i].on = a..b /\ i # 1
    <3>1. p[i] = [part |-> "test", on |-> (from(w) + T + 1)..(from(w) + T + E)]
      BY <1>10, <1>14
    <3>2. i # 1
      BY <1>3, <1>10
    <3> QED BY <3>1, <3>2
  <2>3. ASSUME i + 1 \in DOMAIN p PROVE p[i + 1].on = c..d /\ p[i + 1].part # "test"
    <3>1. w + 1 \in 1..n /\ i + 1 = 2 * (w + 1) - 1 /\ w \in Int
      BY <1>3, <1>6, <1>10, <2>3
    <3>2. from(w + 1) = from(w) + s.roll
      BY <1>4, <3>1
    <3>3. p[i + 1] = [part |-> "train", on |-> (from(w + 1) + 1)..(from(w + 1) + T)]
      BY <1>13, <3>1
    <3> QED BY <3>2, <3>3
  <2> HIDE DEF a, b, c, d
  <2> QED BY <2>1, <2>2, <2>3
<1>11. ASSUME NEW i \in DOMAIN p
       PROVE  i \in Nat \ {0} /\ p[i].part \in {"train", "test"} /\ (p[i].part = "test" => i > 1)
  <2>1. PICK w \in 1..n : i = 2 * w - 1 \/ i = 2 * w
    BY <1>8
  <2>2. CASE i = 2 * w - 1
    <3>1. p[i].part = "train" /\ i \in Nat \ {0}
      <4>1. p[i] = [part |-> "train", on |-> (from(w) + 1)..(from(w) + T)]
        BY <1>13, <2>2
      <4>2. i \in Nat \ {0}
        BY <1>3, <2>2
      <4> QED BY <4>1, <4>2
    <3> QED BY <3>1
  <2>3. CASE i = 2 * w
    <3>1. p[i].part = "test" /\ i \in Nat \ {0} /\ i > 1
      <4>1. p[i] = [part |-> "test", on |-> (from(w) + T + 1)..(from(w) + T + E)]
        BY <1>14, <2>3
      <4>2. i \in Nat \ {0} /\ i > 1
        BY <1>3, <2>3
      <4> QED BY <4>1, <4>2
    <3> QED BY <3>1
  <2> QED BY <2>1, <2>2, <2>3
<1>12. RunsFollow(p)
  BY <1>8, <1>9, <1>10, <1>11 DEF RunsFollow
<1> QED BY <1>12 DEF p

-----------------------------------------------------------------------------
(* A set of at most one, as a sequence. *)
LEMMA SequenceOfOne ==
    ASSUME NEW R, \A x, y \in R : x = y
    PROVE  /\ R = {} => SetToSeq(R) = <<>>
           /\ R # {} => \E x \in R : SetToSeq(R) = <<x>>
<1>1. ASSUME R = {} PROVE SetToSeq(R) = <<>>
  <2>1. Cardinality(R) = 0 /\ 1..0 = {}
    BY <1>1, FS_EmptySet
  <2>2. <<>> \in [1..0 -> R] /\ IsInjective(<<>>)
    BY <1>1 DEF IsInjective
  <2>3. \A f \in [1..0 -> R] : f = <<>>
    BY <1>1, <2>1
  <2> QED BY <2>1, <2>2, <2>3 DEF SetToSeq
<1>2. ASSUME NEW x \in R PROVE SetToSeq(R) = <<x>>
  <2>0. R = {x}
    BY <1>2
  <2>1. R = {x} /\ Cardinality(R) = 1 /\ 1..1 = {1}
    <3>1. Cardinality({x}) = 1
      BY FS_Singleton
    <3> QED BY <2>0, <3>1
  <2>2. <<x>> \in [1..1 -> R] /\ IsInjective(<<x>>)
    BY <2>1 DEF IsInjective
  <2>3. \A f \in [1..1 -> R] : f = <<x>>
    BY <2>1
  <2> QED BY <2>1, <2>2, <2>3 DEF SetToSeq
<1> QED BY <1>1, <1>2

(* A snapshot has a delta of what it lists. *)
LEMMA DeltaIsInteger ==
    ASSUME NEW u, NEW now \in Int, NEW price \in Int, NEW gone, NEW dead,
           NEW l \in Legs(Snapshot(u, now, price, gone, dead))
    PROVE  Delta(Snapshot(u, now, price, gone, dead), l) \in Int
<1> DEFINE snap == Snapshot(u, now, price, gone, dead)
           L == {Leg(e, k, s) : e \in {x \in Expiries : x >= now}, k \in Strikes \ gone, s \in Sides}
           m == Moneyness(l, price)
<1>1. snap.quotes = [c \in L |-> Quote(c, now, price, c.strike \in dead)]
  BY DEF Snapshot
<1>2. l \in L
  BY <1>1 DEF Legs
<1>3. l \in ListedLegs
  BY <1>2 DEF Leg, ListedLegs
<1>4. Contract(l) = l
  BY <1>3 DEF Contract, Leg, ListedLegs
<1>5. m \in Int
  <2>1. l.strike \in Int
    <3>1. l.strike \in Strikes
      BY <1>3 DEF ListedLegs
    <3>2. Strikes \subseteq Int
      BY ChainAssumption
    <3> QED BY <3>1, <3>2
  <2>2. Step \in Int /\ Step > 0
    BY ChainAssumption
  <2> QED BY <2>1, <2>2 DEF Moneyness
<1>6. Nearest(m, DOMAIN CallDelta) \in DOMAIN CallDelta
  BY <1>5, DeltaAssumption, NearestIsListed
<1>7. CallDelta[Nearest(m, DOMAIN CallDelta)] \in Int
  BY <1>6, DeltaAssumption DEF Range
<1>8. DeltaOf(l, now, price) \in Int
  BY <1>7 DEF DeltaOf
<1>9. snap.quotes[l].delta = DeltaOf(l, now, price)
  BY <1>1, <1>2 DEF Quote
<1> QED BY <1>4, <1>8, <1>9 DEF Delta

(* A chain has one leg at a strike for an expiry and a side. *)
LEMMA LegsByStrike ==
    ASSUME NEW snap, IsSnapshot(snap), NEW e, NEW side
    PROVE  /\ LegsAt(snap, e, side) \subseteq Legs(snap)
           /\ \A l \in LegsAt(snap, e, side) : l.strike \in Int
           /\ \A l, x \in LegsAt(snap, e, side) : l.strike = x.strike => l = x
<1>1. \A l \in LegsAt(snap, e, side) : l \in Legs(snap) /\ l \in ListedLegs /\ l.expiry = e /\ l.side = side
  BY DEF LegsAt, ForExpiry, IsSnapshot
<1>2. ASSUME NEW l \in LegsAt(snap, e, side)
      PROVE  l = [expiry |-> e, strike |-> l.strike, side |-> side] /\ l.strike \in Strikes
  BY <1>1 DEF ListedLegs
<1>3. Strikes \subseteq Int
  BY ChainAssumption
<1> QED BY <1>1, <1>2, <1>3

LEMMA ExpiryIsOne ==
    ASSUME NEW snap, snap.day \in Int, NEW target \in Int
    PROVE  \A d, e \in PickExpiry(snap, target) : d = e
<1> DEFINE E == {e \in Expiries : \E l \in Legs(snap) : l.expiry = e}
           off(e) == Distance(e - snap.day, target)
<1>1. PickExpiry(snap, target) = {e \in E : \A x \in E : off(e) < off(x) \/ (off(e) = off(x) /\ e >= x)}
  BY DEF PickExpiry
<1>2. \A e \in E : e \in Int /\ off(e) \in Int
  <2>1. Expiries \subseteq Int /\ E \subseteq Expiries
    BY ChainAssumption
  <2> HIDE DEF E
  <2> QED BY <2>1 DEF Distance
<1> HIDE DEF E, off
<1> QED BY <1>1, <1>2

(* A gate measures a snapshot once, or not at all. *)
LEMMA MeasuredOnce ==
    ASSUME NEW strat, NEW u, NEW now \in Int, NEW price \in Int, NEW gone, NEW dead
    PROVE  \A x, y \in Measure(strat, Snapshot(u, now, price, gone, dead)) : x = y
<1> DEFINE snap == Snapshot(u, now, price, gone, dead)
<1>1. IsSnapshot(snap)
  BY SnapshotSound
<1>2. snap.day = now /\ snap.price \in Int /\ NearDte \in Int
  BY GateAssumption DEF Snapshot
<1>3. \A l \in Legs(snap) : Delta(snap, l) \in Int
  BY DeltaIsInteger
<1> HIDE DEF snap
<1>4. \A d, e \in PickExpiry(snap, NearDte) : d = e
  BY <1>2, ExpiryIsOne
<1>5. ASSUME NEW e, NEW side
      PROVE  \A l, x \in ClosestStrike(LegsAt(snap, e, side), snap.price) : l = x
  <2> DEFINE L == LegsAt(snap, e, side)
             off(l) == Distance(l.strike, snap.price)
  <2>1. ClosestStrike(L, snap.price) = {l \in L : \A x \in L : off(l) < off(x) \/ (off(l) = off(x) /\ l.strike <= x.strike)}
    BY Zenon DEF ClosestStrike, FirstNearest
  <2>2. \A l \in L : l.strike \in Int /\ off(l) \in Int
    BY <1>1, <1>2, LegsByStrike DEF Distance
  <2>3. \A l, x \in L : l.strike = x.strike => l = x
    BY <1>1, LegsByStrike
  <2> HIDE DEF L, off
  <2>4. \A l, x \in ClosestStrike(L, snap.price) : l = x
    BY <2>1, <2>2, <2>3
  <2> QED BY <2>4 DEF L
<1>6. ASSUME NEW e, NEW side, NEW target \in Int
      PROVE  \A l, x \in {l \in LegsAt(snap, e, side) : \A x \in LegsAt(snap, e, side) :
                             Distance(Delta(snap, l), target) < Distance(Delta(snap, x), target)
                             \/ (Distance(Delta(snap, l), target) = Distance(Delta(snap, x), target) /\ l.strike <= x.strike)} :
                 l = x
  <2> DEFINE L == LegsAt(snap, e, side)
             off(l) == Distance(Delta(snap, l), target)
  <2>2. \A l \in L : l.strike \in Int /\ off(l) \in Int
    BY <1>1, <1>3, LegsByStrike DEF Distance
  <2>3. \A l, x \in L : l.strike = x.strike => l = x
    BY <1>1, LegsByStrike
  <2> HIDE DEF L, off
  <2>4. \A l, x \in {l \in L : \A x \in L : off(l) < off(x) \/ (off(l) = off(x) /\ l.strike <= x.strike)} : l = x
    BY <2>2, <2>3
  <2> QED BY <2>4 DEF L, off
<1>7. \A x, y \in AtmIv(snap, NearDte) : x = y
  <2> DEFINE near(e, side) == ClosestStrike(LegsAt(snap, e, side), snap.price)
             mean(c, p) == (LegIv(snap, c) + LegIv(snap, p)) \div 2
  <2>1. \A x \in AtmIv(snap, NearDte) :
            \E e \in PickExpiry(snap, NearDte) : \E c \in near(e, "call"), p \in near(e, "put") : x = mean(c, p)
    BY DEF AtmIv
  <2>2. \A e, side : \A l, x \in near(e, side) : l = x
    BY <1>5
  <2> HIDE DEF near, mean
  <2> QED BY <1>4, <2>1, <2>2
<1>8. \A x, y \in PutCallSkew(snap) : x = y
  <2> DEFINE nearest(legs, target) ==
                 {l \in legs : \A x \in legs :
                     Distance(Delta(snap, l), target) < Distance(Delta(snap, x), target)
                     \/ (Distance(Delta(snap, l), target) = Distance(Delta(snap, x), target) /\ l.strike <= x.strike)}
             skew(c, p) == LegIv(snap, p) - LegIv(snap, c)
  <2>1. \A x \in PutCallSkew(snap) :
            \E e \in ExpiryFor(snap, NearDte) :
                \E c \in nearest(LegsAt(snap, e, "call"), 25), p \in nearest(LegsAt(snap, e, "put"), -25) : x = skew(c, p)
    BY DEF PutCallSkew, FirstNearest
  <2>2. \A d, e \in ExpiryFor(snap, NearDte) : d = e
    BY <1>4 DEF ExpiryFor
  <2>3. \A e : /\ \A l, x \in nearest(LegsAt(snap, e, "call"), 25) : l = x
               /\ \A l, x \in nearest(LegsAt(snap, e, "put"), -25) : l = x
    <3>1. 25 \in Int /\ -25 \in Int
      OBVIOUS
    <3> QED BY <1>6, <3>1
  <2> HIDE DEF nearest, skew
  <2> QED BY <2>1, <2>2, <2>3
<1> QED BY <1>7, <1>8 DEF Measure, snap

-----------------------------------------------------------------------------
IsSeq(q) == \E S : q \in Seq(S)

(* What a gate remembers of a snapshot comes last. *)
LEMMA RemembersOne ==
    ASSUME NEW strat, NEW u, NEW now \in Int, NEW price \in Int, NEW gone, NEW dead,
           NEW snap, snap = Snapshot(u, now, price, gone, dead),
           NEW q, IsSeq(q), NEW new, new = Remember(strat, snap, q)
    PROVE  /\ IsSeq(new)
           /\ Measure(strat, snap) = {} => new = q
           /\ Measure(strat, snap) # {} =>
                  /\ Len(new) = Len(q) + 1 /\ DOMAIN new = 1..Len(new)
                  /\ new[Len(q) + 1].day = now
                  /\ \A j \in 1..Len(q) : new[j] = q[j]
<1> DEFINE R == {[day |-> snap.day, value |-> x] : x \in Measure(strat, snap)}
<1>1. \A x, y \in Measure(strat, snap) : x = y
  BY MeasuredOnce
<1>2. snap.day = now
  BY DEF Snapshot
<1>3. PICK S : q \in Seq(S)
  BY DEF IsSeq
<1>4. q \in Seq(S \cup R)
  BY <1>3, <1>3, SeqMonotonic
<1>5. new = q \o SetToSeq(R)
  BY Zenon DEF Remember
<1>6. \A x, y \in R : x = y
  <2> QED BY <1>1
<1>7. \A x \in R : x.day = now
  <2> QED BY <1>2
<1>8. R = {} <=> Measure(strat, snap) = {}
  OBVIOUS
<1> HIDE DEF R
<1>9. ASSUME R = {} PROVE IsSeq(new) /\ new = q
  <2>1. SetToSeq(R) = <<>>
    BY <1>6, <1>9, SequenceOfOne
  <2>2. new = q
    BY <1>4, <1>5, <2>1, ConcatEmptySeq
  <2> QED BY <1>4, <2>2 DEF IsSeq
<1>10. ASSUME R # {}
       PROVE  /\ IsSeq(new) /\ Len(new) = Len(q) + 1 /\ DOMAIN new = 1..Len(new)
              /\ new[Len(q) + 1].day = now /\ \A j \in 1..Len(q) : new[j] = q[j]
  <2>1. PICK x \in R : SetToSeq(R) = <<x>>
    BY <1>6, <1>10, SequenceOfOne
  <2>2. <<x>> \in Seq(S \cup R) /\ Len(<<x>>) = 1 /\ <<x>>[1] = x
    OBVIOUS
  <2>3. new \in Seq(S \cup R) /\ Len(new) = Len(q) + 1
    BY <1>4, <1>5, <2>1, <2>2, ConcatProperties
  <2>4. Len(q) \in Nat
    BY <1>4, LenProperties
  <2>5. \A j \in 1..(Len(q) + 1) : new[j] = IF j <= Len(q) THEN q[j] ELSE <<x>>[j - Len(q)]
    BY <1>4, <1>5, <2>1, <2>2, ConcatProperties
  <2>6. new[Len(q) + 1] = x /\ \A j \in 1..Len(q) : new[j] = q[j]
    BY <2>2, <2>4, <2>5
  <2>7. DOMAIN new = 1..Len(new)
    BY <2>3, LenProperties
  <2> QED BY <1>7, <2>1, <2>3, <2>6, <2>7 DEF IsSeq
<1> QED BY <1>8, <1>9, <1>10

-----------------------------------------------------------------------------
(* The snapshot of a day that was read, whether a gate measures anything on *)
(* it, and the days of a run on which a strategy has had its turn.          *)
SnapshotOf(s, d) == Snapshot(s, d, IF s = "A" THEN tape[d].price ELSE Other[tape[d].price],
                             tape[d].quirk.gone, tape[d].quirk.dead)
Gauged(i, d) == /\ setup.book[i].source \in SourcesOf(tape[d].quirk)
                /\ Measure(setup.book[i], SnapshotOf(setup.book[i].source, d)) # {}

(* The day of the run is the one that is read, and today what the tape says. *)
ReadsTheTape ==
    /\ DOMAIN seen = DOMAIN setup.book /\ \A i \in DOMAIN seen : IsSeq(seen[i])
    /\ phase # "done" =>
           /\ OnPlan /\ day \in plan[runNo].on /\ day \in 1..Len(tape)
           /\ DOMAIN today = SourcesOf(tape[day].quirk)
           /\ \A s \in DOMAIN today : today[s] = SnapshotOf(s, day)

LEMMA ReadsTheTapeInit == StudyInit => ReadsTheTape
<1> SUFFICES ASSUME StudyInit PROVE ReadsTheTape
  OBVIOUS
<1>1. phase = "done" /\ seen = [i \in DOMAIN setup.book |-> <<>>]
  BY DEF StudyInit, Init
<1>2. <<>> \in Seq({})
  BY EmptySeq
<1> QED BY <1>1, <1>2 DEF ReadsTheTape, IsSeq

LEMMA TapeIsRead ==
    ASSUME BookTypes, NEW d \in 1..Len(tape)
    PROVE  \A s : (IF s = "A" THEN tape[d].price ELSE Other[tape[d].price]) \in Int
<1>1. tape[d] \in TapeDays
  BY ElementOfSeq DEF BookTypes
<1>2. tape[d].price \in Prices
  BY <1>1 DEF TapeDays
<1>3. Prices \subseteq Int /\ Other \in [Prices -> Int]
  BY BacktestAssumption
<1> QED BY <1>2, <1>3

(* What was read stays as it was. *)
LEMMA ReadDayReads ==
    ASSUME BookTypes, ReadDay
    PROVE  /\ phase = "done" /\ phase' = "manage" /\ OnPlan /\ day' = day + 1 /\ day + 1 \in plan[runNo].on
           /\ UNCHANGED <<setup, study, plan, runNo, seen>>
           /\ day \in Nat /\ day <= Len(tape) /\ day' \in 1..Len(tape') /\ Len(tape) \in Nat
           /\ Len(tape) <= Len(tape')
           /\ \A d \in 1..Len(tape) : tape'[d] = tape[d]
           /\ DOMAIN today' = SourcesOf(tape'[day'].quirk)
           /\ \A s \in DOMAIN today' : today'[s] = SnapshotOf(s, day)'
<1>1. /\ OnPlan /\ day + 1 \in plan[runNo].on /\ UNCHANGED <<study, plan, runNo>>
  BY DEF ReadDay
<1>2. day + 1 \in Nat \ {0} /\ day \in Int
  BY <1>1, PlannedDays DEF OnPlan, BookTypes
<1>3. Len(tape) \in Nat /\ tape \in Seq(TapeDays)
  BY LenProperties DEF BookTypes
<1>4. PICK price, quirk :
          /\ NextSnapshot(price, quirk)
          /\ \/ day < Len(tape) /\ price = tape[day + 1].price /\ quirk = tape[day + 1].quirk /\ tape' = tape
             \/ /\ day = Len(tape) /\ price \in Prices /\ quirk \in Quirks \cup {Sound}
                /\ tape' = Append(tape, [price |-> price, quirk |-> quirk])
  BY DEF ReadDay
<1>5. /\ day <= Len(tape) /\ day' \in 1..Len(tape') /\ Len(tape) <= Len(tape') /\ day' = day + 1
      /\ (\A d \in 1..Len(tape) : tape'[d] = tape[d])
      /\ tape'[day'].price = price /\ tape'[day'].quirk = quirk
  <2>0. day' = day + 1
    BY <1>4 DEF NextSnapshot
  <2>1. CASE day < Len(tape) /\ price = tape[day + 1].price /\ quirk = tape[day + 1].quirk /\ tape' = tape
    BY <1>2, <1>3, <2>0, <2>1
  <2>2. CASE /\ day = Len(tape) /\ price \in Prices /\ quirk \in Quirks \cup {Sound}
             /\ tape' = Append(tape, [price |-> price, quirk |-> quirk])
    <3> DEFINE new == [price |-> price, quirk |-> quirk]
    <3>1. new \in TapeDays /\ new.price = price /\ new.quirk = quirk
      BY <2>2 DEF TapeDays
    <3> HIDE DEF new
    <3>2. /\ Len(tape') = Len(tape) + 1 /\ (\A d \in 1..Len(tape) : tape'[d] = tape[d])
          /\ tape'[Len(tape) + 1] = new
      BY <1>3, <2>2, <3>1, AppendProperties DEF new
    <3> QED BY <1>2, <1>3, <2>0, <2>2, <3>1, <3>2
  <2> QED BY <1>4, <2>1, <2>2
<1>6. /\ today' = [s \in SourcesOf(quirk) |-> Snapshot(s, day + 1, IF s = "A" THEN price ELSE Other[price],
                                                       quirk.gone, quirk.dead)]
      /\ phase = "done" /\ phase' = "manage" /\ UNCHANGED <<setup, seen>>
  BY <1>4 DEF NextSnapshot
<1>7. SourcesOf(quirk)' = SourcesOf(quirk)
  BY <1>6 DEF SourcesOf
<1>8. DOMAIN today' = SourcesOf(tape'[day'].quirk)
  BY <1>5, <1>6
<1>9. ASSUME NEW s \in DOMAIN today' PROVE today'[s] = SnapshotOf(s, day)'
  <2>1. today'[s] = Snapshot(s, day + 1, IF s = "A" THEN price ELSE Other[price], quirk.gone, quirk.dead)
    BY <1>6, Zenon
  <2> QED BY <1>5, <2>1 DEF SnapshotOf
<1> QED BY <1>1, <1>2, <1>3, <1>5, <1>6, <1>8, <1>9

(* A strategy's turn: its gate remembers the day if it measures anything.   *)
LEMMA DecideRemembers ==
    ASSUME BookTypes, ReadsTheTape, Decide, UNCHANGED studyVars
    PROVE  /\ at \in DOMAIN setup.book /\ phase = "decide" /\ phase' = "decide" /\ at' = at + 1
           /\ UNCHANGED <<setup, study, plan, runNo, tape, day, today>>
           /\ DOMAIN seen' = DOMAIN seen /\ \A i \in DOMAIN seen \ {at} : seen'[i] = seen[i]
           /\ IsSeq(seen'[at])
           /\ ~Gauged(at, day) => seen'[at] = seen[at]
           /\ Gauged(at, day) => /\ Len(seen'[at]) = Len(seen[at]) + 1 /\ DOMAIN seen'[at] = 1..Len(seen'[at])
                                 /\ seen'[at][Len(seen[at]) + 1].day = day
                                 /\ \A j \in 1..Len(seen[at]) : seen'[at][j] = seen[at][j]
<1> DEFINE strat == setup.book[at]
           price == IF strat.source = "A" THEN tape[day].price ELSE Other[tape[day].price]
           snap == Snapshot(strat.source, day, price, tape[day].quirk.gone, tape[day].quirk.dead)
           new == Remember(strat, snap, seen[at])
<1>1. /\ at \in DOMAIN setup.book /\ phase = "decide" /\ phase' = "decide" /\ at' = at + 1
      /\ UNCHANGED <<setup, study, plan, runNo, tape, day, today>>
  BY DecidedOne DEF Decide, data, studyVars
<1>2. /\ strat.source \in DOMAIN today /\ seen' = [seen EXCEPT ![at] = Remember(strat, today[strat.source], @)]
  BY DEF Decide
<1>3. /\ DOMAIN seen = DOMAIN setup.book /\ IsSeq(seen[at]) /\ day \in 1..Len(tape) /\ day \in Int
      /\ DOMAIN today = SourcesOf(tape[day].quirk) /\ today[strat.source] = SnapshotOf(strat.source, day)
  BY <1>1, <1>2 DEF ReadsTheTape, BookTypes
<1>4. price \in Int
  BY <1>3, TapeIsRead
<1>5. today[strat.source] = snap /\ (Gauged(at, day) <=> Measure(strat, snap) # {})
  BY <1>2, <1>3 DEF SnapshotOf, Gauged
<1>6. /\ IsSeq(new)
      /\ Measure(strat, snap) = {} => new = seen[at]
      /\ Measure(strat, snap) # {} =>
             /\ Len(new) = Len(seen[at]) + 1 /\ DOMAIN new = 1..Len(new)
             /\ new[Len(seen[at]) + 1].day = day /\ \A j \in 1..Len(seen[at]) : new[j] = seen[at][j]
  <2> HIDE DEF strat, price, new
  <2>1. new = Remember(strat, snap, seen[at])
    BY DEF new
  <2> HIDE DEF snap
  <2>2. snap = Snapshot(strat.source, day, price, tape[day].quirk.gone, tape[day].quirk.dead)
    BY DEF snap
  <2>3. IsSeq(seen[at]) /\ day \in Int
    BY <1>3
  <2> QED BY <1>4, <2>1, <2>2, <2>3, RemembersOne
<1>7. seen' = [seen EXCEPT ![at] = new]
  BY <1>2, <1>5
<1> HIDE DEF new, snap, strat
<1>8. DOMAIN seen' = DOMAIN seen /\ seen'[at] = new /\ \A i \in DOMAIN seen \ {at} : seen'[i] = seen[i]
  BY <1>1, <1>3, <1>7
<1> QED BY <1>1, <1>5, <1>6, <1>8

(* The day is over for a strategy when it has had its turn.                 *)
Over(i, d) == d < day \/ (d = day /\ (phase = "done" \/ (phase = "decide" /\ i < at)))
Turns(i) == {d \in plan[runNo].on : Over(i, d) /\ Gauged(i, d)}

LEMMA OtherSteps ==
    ASSUME BookTypes, ReadsTheTape, [StudyNext]_allVars
    PROVE  \/ ReadDay \/ (Decide /\ UNCHANGED studyVars) \/ EndRun
           \/ /\ UNCHANGED <<setup, study, plan, runNo, tape, day, seen>>
              /\ phase' # "done" => phase # "done" /\ today' = today
              /\ \A i \in DOMAIN setup.book : Turns(i)' = Turns(i)
<1> DEFINE Still == UNCHANGED <<setup, study, plan, runNo, tape, day, today, seen>>
<1>1. day \in Int /\ at \in Nat \ {0} /\ \A i \in DOMAIN setup.book : i \in Nat \ {0} /\ i <= Len(setup.book)
  BY BookOfSequence DEF BookTypes
<1>2. ASSUME Still, \A i \in DOMAIN setup.book : \A d : Gauged(i, d) => (Over(i, d)' <=> Over(i, d))
      PROVE  \A i \in DOMAIN setup.book : Turns(i)' = Turns(i)
  <2>1. \A i, d : Gauged(i, d)' <=> Gauged(i, d)
    BY <1>2, Zenon DEF Gauged, SnapshotOf, SourcesOf
  <2> QED BY <1>2, <2>1 DEF Turns
<1>3. CASE (Keep \/ Close) /\ UNCHANGED studyVars
  <2>1. Still /\ phase = "manage" /\ phase' = "manage"
    BY <1>3 DEF Keep, Close, studyVars, data
  <2>2. \A i \in DOMAIN setup.book : \A d : Over(i, d)' <=> Over(i, d)
    BY <2>1 DEF Over
  <2> QED BY <1>2, <2>1, <2>2
<1>4. CASE (ManageDone \/ Fill \/ Reject) /\ UNCHANGED studyVars
  <2>1. Still /\ phase \in {"manage", "fill"} /\ phase' = "fill"
    BY <1>4 DEF ManageDone, Fill, Reject, studyVars, data
  <2>2. \A i \in DOMAIN setup.book : \A d : Over(i, d)' <=> Over(i, d)
    BY <2>1 DEF Over
  <2> QED BY <1>2, <2>1, <2>2
<1>5. CASE FillDone /\ UNCHANGED studyVars
  <2>1. Still /\ phase = "fill" /\ phase' = "decide" /\ at' = 1
    BY <1>5 DEF FillDone, studyVars, data
  <2>2. \A i \in DOMAIN setup.book : \A d : Over(i, d)' <=> Over(i, d)
    BY <1>1, <2>1 DEF Over
  <2> QED BY <1>2, <2>1, <2>2
<1>6. CASE Skip /\ UNCHANGED studyVars
  <2>1. /\ Still /\ phase = "decide" /\ phase' = "decide" /\ at' = at + 1
        /\ setup.book[at].source \notin DOMAIN today
    BY <1>6 DEF Skip, studyVars, data
  <2>2. ~Gauged(at, day)
    BY <2>1 DEF ReadsTheTape, Gauged
  <2>3. \A i \in DOMAIN setup.book : \A d : Gauged(i, d) => (Over(i, d)' <=> Over(i, d))
    <3> SUFFICES ASSUME NEW i \in DOMAIN setup.book, NEW d, Gauged(i, d)
                 PROVE  Over(i, d)' <=> Over(i, d)
      OBVIOUS
    <3>1. i # at \/ d # day
      BY <2>2
    <3>2. i # at => (i < at' <=> i < at)
      BY <1>1, <2>1
    <3> QED BY <2>1, <3>1, <3>2 DEF Over
  <2> QED BY <1>2, <2>1, <2>3
<1>7. CASE DayDone /\ UNCHANGED studyVars
  <2>1. Still /\ phase = "decide" /\ phase' = "done" /\ at > Len(setup.book)
    BY <1>7 DEF DayDone, studyVars, data
  <2>2. \A i \in DOMAIN setup.book : i < at
    BY <1>1, <2>1, BookOfSequence DEF BookTypes
  <2>3. \A i \in DOMAIN setup.book : \A d : Over(i, d)' <=> Over(i, d)
    BY <2>1, <2>2 DEF Over
  <2> QED BY <1>2, <2>1, <2>3
<1>8. CASE UNCHANGED allVars
  <2>1. Still /\ UNCHANGED <<phase, at>>
    BY <1>8 DEF allVars, vars, data, studyVars
  <2>2. \A i \in DOMAIN setup.book : \A d : Over(i, d)' <=> Over(i, d)
    BY <2>1 DEF Over
  <2> QED BY <1>2, <2>1, <2>2
<1> QED BY <1>3, <1>4, <1>5, <1>6, <1>7, <1>8 DEF StudyNext, WithinTheRun

LEMMA ReadsTheTapeStep == BookTypes /\ ReadsTheTape /\ [StudyNext]_allVars => ReadsTheTape'
<1> SUFFICES ASSUME BookTypes, ReadsTheTape, [StudyNext]_allVars PROVE ReadsTheTape'
  OBVIOUS
<1>1. CASE ReadDay
  <2>1. OnPlan' /\ day' \in plan'[runNo'].on
    BY <1>1, ReadDayReads DEF OnPlan
  <2>2. /\ DOMAIN seen' = DOMAIN setup'.book /\ \A i \in DOMAIN seen' : IsSeq(seen'[i])
        /\ day' \in 1..Len(tape')
    BY <1>1, ReadDayReads DEF ReadsTheTape
  <2>3. SourcesOf(tape[day].quirk)' = SourcesOf(tape'[day'].quirk)
    BY <1>1, ReadDayReads DEF SourcesOf
  <2>4. DOMAIN today' = SourcesOf(tape[day].quirk)' /\ \A s \in DOMAIN today' : today'[s] = SnapshotOf(s, day)'
    BY <1>1, <2>3, ReadDayReads
  <2> QED BY <2>1, <2>2, <2>4 DEF ReadsTheTape
<1>2. CASE Decide /\ UNCHANGED studyVars
  <2>1. /\ UNCHANGED <<setup, plan, runNo, tape, day, today>> /\ phase = "decide"
        /\ DOMAIN seen' = DOMAIN seen /\ \A i \in DOMAIN seen' : IsSeq(seen'[i])
    BY <1>2, DecideRemembers DEF ReadsTheTape
  <2>2. \A s : SnapshotOf(s, day)' = SnapshotOf(s, day)
    BY <2>1 DEF SnapshotOf
  <2>3. SourcesOf(tape[day].quirk)' = SourcesOf(tape[day].quirk) /\ (OnPlan' <=> OnPlan)
    BY <2>1 DEF SourcesOf, OnPlan
  <2> QED BY <2>1, <2>2, <2>3 DEF ReadsTheTape
<1>3. CASE EndRun
  BY <1>3 DEF EndRun, ReadsTheTape
<1>4. CASE /\ UNCHANGED <<setup, study, plan, runNo, tape, day, seen>>
           /\ phase' # "done" => phase # "done" /\ today' = today
  <2>2. \A s : SnapshotOf(s, day)' = SnapshotOf(s, day)
    BY <1>4 DEF SnapshotOf
  <2>3. SourcesOf(tape[day].quirk)' = SourcesOf(tape[day].quirk) /\ (OnPlan' <=> OnPlan)
    BY <1>4 DEF SourcesOf, OnPlan
  <2> QED BY <1>4, <2>2, <2>3 DEF ReadsTheTape
<1> QED BY <1>1, <1>2, <1>3, <1>4, OtherSteps

(* What a gate remembers in a cross-validation it measured in a fold before *)
(* this one, or on a day of this one before now.                            *)
FoldsInOrder ==
    study.kind = "cpcv" =>
        \A i \in DOMAIN setup.book : \A j \in DOMAIN seen[i] : \E r \in DOMAIN plan :
            r <= runNo /\ seen[i][j].day \in plan[r].on /\ (r = runNo => seen[i][j].day <= day)

LEMMA FoldsInOrderStep == BookTypes /\ ReadsTheTape /\ FoldsInOrder /\ [StudyNext]_allVars => FoldsInOrder'
<1> SUFFICES ASSUME BookTypes, ReadsTheTape, FoldsInOrder, [StudyNext]_allVars, study'.kind = "cpcv",
                    NEW i \in DOMAIN setup'.book, NEW j \in DOMAIN seen'[i]
             PROVE  \E r \in DOMAIN plan' : /\ r <= runNo' /\ seen'[i][j].day \in plan'[r].on
                                            /\ r = runNo' => seen'[i][j].day <= day'
  BY Zenon DEF FoldsInOrder
<1>1. UNCHANGED <<setup, study, plan>>
  BY ReadDayReads, DecideRemembers, OtherSteps DEF EndRun
<1>2. DOMAIN plan \subseteq Nat /\ \A r \in DOMAIN plan : plan[r].on \subseteq Nat
  <2>1. plan = Plan(study) /\ study \in Studies
    BY DEF BookTypes
  <2>2. DOMAIN Plan(study) = 1..study.folds
    BY <1>1, <2>1, CpcvRunsAreTheFolds
  <2>3. \A r \in DOMAIN Plan(study) : Plan(study)[r].on \subseteq Nat
    BY <2>1, PlannedDays
  <2> QED BY <2>1, <2>2, <2>3
<1>3. ASSUME j \in DOMAIN seen[i], seen'[i][j] = seen[i][j]
      PROVE  \E r \in DOMAIN plan : r <= runNo /\ seen'[i][j].day \in plan[r].on /\ seen'[i][j].day \in Nat
                                    /\ (r = runNo => seen'[i][j].day <= day)
  BY <1>1, <1>2, <1>3 DEF FoldsInOrder
<1>4. CASE ReadDay
  <2>1. seen' = seen /\ day' = day + 1 /\ runNo' = runNo /\ day \in Int
    BY <1>4, ReadDayReads DEF BookTypes
  <2> QED BY <1>1, <1>2, <1>3, <2>1
<1>5. CASE Decide /\ UNCHANGED studyVars
  <2>1. UNCHANGED <<runNo, day>> /\ OnPlan /\ day \in plan[runNo].on /\ day \in Int
    BY <1>5, DecideRemembers DEF ReadsTheTape, BookTypes
  <2>2. CASE j \in DOMAIN seen[i] /\ seen'[i][j] = seen[i][j]
    BY <1>1, <1>3, <2>1, <2>2
  <2>3. CASE seen'[i][j].day = day
    BY <1>1, <1>2, <2>1, <2>3 DEF OnPlan
  <2>4. seen'[i][j].day = day \/ (j \in DOMAIN seen[i] /\ seen'[i][j] = seen[i][j])
    <3>1. CASE i # at \/ ~Gauged(at, day)
      <4>1. seen'[i] = seen[i]
        BY <1>1, <1>5, <3>1, DecideRemembers DEF ReadsTheTape
      <4> QED BY <4>1
    <3>2. CASE i = at /\ Gauged(at, day)
      <4>1. IsSeq(seen[at])
        BY <1>1, <3>2 DEF ReadsTheTape
      <4>2. DOMAIN seen[at] = 1..Len(seen[at]) /\ Len(seen[at]) \in Nat
        BY <4>1, LenProperties DEF IsSeq
      <4>3. /\ Len(seen'[at]) = Len(seen[at]) + 1 /\ DOMAIN seen'[at] = 1..Len(seen'[at])
            /\ seen'[at][Len(seen[at]) + 1].day = day
            /\ \A k \in 1..Len(seen[at]) : seen'[at][k] = seen[at][k]
        BY <1>5, <3>2, DecideRemembers
      <4> QED BY <3>2, <4>2, <4>3
    <3> QED BY <3>1, <3>2
  <2> QED BY <2>2, <2>3, <2>4
<1>6. CASE EndRun
  <2>1. runNo' = runNo + 1 /\ runNo \in Nat /\ seen' = seen
    BY <1>2, <1>6 DEF EndRun, OnPlan
  <2>2. PICK r \in DOMAIN plan : r <= runNo /\ seen'[i][j].day \in plan[r].on
    BY <1>3, <2>1
  <2> QED BY <1>1, <1>2, <2>1, <2>2
<1>7. CASE UNCHANGED <<setup, study, plan, runNo, tape, day, seen>>
  BY <1>1, <1>3, <1>7
<1> QED BY <1>4, <1>5, <1>6, <1>7, OtherSteps

-----------------------------------------------------------------------------
(* The days of the run before a test, and how many days a gate measured on  *)
(* them and since.                                                          *)
Trained(i) == IF plan[runNo].part = "test" THEN {d \in plan[runNo - 1].on : Gauged(i, d)} ELSE {}
Fresh(i) == Cardinality(Trained(i)) + Cardinality(Turns(i))

(* The last of what a gate remembers in a window it measured in the window. *)
WindowsInOrder ==
    study.kind = "walk_forward" /\ OnPlan =>
        /\ day \in Nat /\ day <= Len(tape)
        /\ day \in plan[runNo].on \/ (phase = "done" /\ day + 1 \in plan[runNo].on)
        /\ plan[runNo].part = "test" => \A d \in plan[runNo - 1].on : d <= day
        /\ \A i \in DOMAIN setup.book :
               /\ Fresh(i) <= Len(seen[i])
               /\ \A j \in DOMAIN seen[i] : j > Len(seen[i]) - Fresh(i) => seen[i][j].day \in 1..day

LEMMA RunsOfAWalk ==
    ASSUME BookTypes, study.kind = "walk_forward"
    PROVE  /\ RunsFollow(plan) /\ \E n \in Nat : DOMAIN plan = 1..n
           /\ \A r \in DOMAIN plan : plan[r].on \subseteq Nat \ {0} /\ IsFiniteSet(plan[r].on)
<1>1. plan = Plan(study) /\ study \in Studies
  BY DEF BookTypes
<1>2. RunsFollow(plan)
  BY <1>1, WalkForwardRunsFollow
<1>3. \E n \in Nat : DOMAIN plan = 1..n
  <2>1. DOMAIN plan = 1..(2 * Len(StudyWindows(study)))
    BY <1>1 DEF Plan, WalkForwardRuns, StudyWindows
  <2>2. Len(StudyWindows(study)) \in Nat
    BY <1>1, StudyWindowsFit
  <2> QED BY <2>1, <2>2
<1>4. ASSUME NEW r \in DOMAIN plan PROVE plan[r].on \subseteq Nat \ {0} /\ IsFiniteSet(plan[r].on)
  <2>1. PICK a, b \in Nat \ {0} : plan[r].on = a..b
    BY <1>2 DEF RunsFollow
  <2>2. IsFiniteSet(a..b)
    BY FS_Interval
  <2> QED BY <2>1, <2>2
<1> QED BY <1>2, <1>3, <1>4

LEMMA FreshIsNatural ==
    ASSUME BookTypes, study.kind = "walk_forward", OnPlan, NEW i
    PROVE  /\ IsFiniteSet(Trained(i)) /\ IsFiniteSet(Turns(i))
           /\ Cardinality(Trained(i)) \in Nat /\ Cardinality(Turns(i)) \in Nat /\ Fresh(i) \in Nat
<1>1. PICK n \in Nat : DOMAIN plan = 1..n
  BY RunsOfAWalk
<1>2. runNo \in 1..n /\ (plan[runNo].part = "test" => runNo - 1 \in 1..n)
  BY <1>1, RunsOfAWalk DEF OnPlan, RunsFollow
<1>3. IsFiniteSet(Turns(i))
  <2>1. Turns(i) \in SUBSET plan[runNo].on
    BY DEF Turns
  <2> QED BY <1>1, <1>2, <2>1, RunsOfAWalk, FS_Subset
<1>4. IsFiniteSet(Trained(i))
  <2>1. CASE plan[runNo].part = "test"
    <3>1. Trained(i) \in SUBSET plan[runNo - 1].on
      BY <2>1 DEF Trained
    <3> QED BY <1>1, <1>2, <2>1, <3>1, RunsOfAWalk, FS_Subset
  <2>2. CASE plan[runNo].part # "test"
    BY <2>2, FS_EmptySet DEF Trained
  <2> QED BY <2>1, <2>2
<1> QED BY <1>3, <1>4, FS_CardinalityType DEF Fresh

LEMMA GaugedKept ==
    ASSUME setup' = setup, NEW i, NEW d, tape'[d] = tape[d]
    PROVE  Gauged(i, d)' <=> Gauged(i, d)
<1>1. /\ SourcesOf(tape[d].quirk)' = SourcesOf(tape[d].quirk)
      /\ \A s : SnapshotOf(s, d)' = SnapshotOf(s, d)
  BY DEF SourcesOf, SnapshotOf
<1> QED BY <1>1, Zenon DEF Gauged

LEMMA TrainedKept ==
    ASSUME UNCHANGED <<setup, plan, runNo>>, NEW i,
           plan[runNo].part = "test" => \A d \in plan[runNo - 1].on : tape'[d] = tape[d]
    PROVE  Trained(i)' = Trained(i)
<1>1. CASE plan[runNo].part = "test"
  <2>1. \A d \in plan[runNo - 1].on : Gauged(i, d)' <=> Gauged(i, d)
    BY <1>1, GaugedKept
  <2> QED BY <1>1, <2>1 DEF Trained
<1>2. CASE plan[runNo].part # "test"
  BY <1>2 DEF Trained
<1> QED BY <1>1, <1>2

(* A day that is read is not yet over for anyone. *)
LEMMA TurnsOfADayRead ==
    ASSUME BookTypes, ReadDay, study.kind = "walk_forward", NEW i
    PROVE  Turns(i)' = Turns(i)
<1>1. /\ phase = "done" /\ phase' = "manage" /\ OnPlan /\ day' = day + 1 /\ UNCHANGED <<setup, plan, runNo>>
      /\ day \in Nat /\ day <= Len(tape) /\ Len(tape) \in Nat /\ \A d \in 1..Len(tape) : tape'[d] = tape[d]
  BY ReadDayReads
<1>2. plan[runNo].on \subseteq Nat \ {0}
  BY <1>1, RunsOfAWalk DEF OnPlan
<1>3. \A d \in plan[runNo].on : (Over(i, d)' <=> Over(i, d)) /\ (Over(i, d) => d \in 1..Len(tape))
  BY <1>1, <1>2 DEF Over
<1>4. \A d \in plan[runNo].on : Over(i, d) => (Gauged(i, d)' <=> Gauged(i, d))
  BY <1>1, <1>3, GaugedKept
<1> QED BY <1>1, <1>3, <1>4 DEF Turns

(* A strategy that measures a day has one more. *)
LEMMA TurnsOfADecision ==
    ASSUME BookTypes, ReadsTheTape, Decide, UNCHANGED studyVars, NEW i \in DOMAIN setup.book
    PROVE  Turns(i)' = IF i = at /\ Gauged(i, day) THEN Turns(i) \cup {day} ELSE Turns(i)
<1>1. /\ phase = "decide" /\ phase' = "decide" /\ at' = at + 1
      /\ UNCHANGED <<setup, plan, runNo, tape, day>> /\ day \in plan[runNo].on
  BY DecideRemembers DEF ReadsTheTape
<1>2. at \in Nat /\ i \in Nat /\ day \in Int
  BY BookOfSequence DEF BookTypes
<1>3. \A d : Gauged(i, d)' <=> Gauged(i, d)
  BY <1>1, GaugedKept
<1>4. \A d : Over(i, d)' <=> Over(i, d) \/ (i = at /\ d = day)
  BY <1>1, <1>2 DEF Over
<1> QED BY <1>1, <1>3, <1>4 DEF Turns

LEMMA WindowsInOrderInit == StudyInit => BookTypes /\ WindowsInOrder
<1> SUFFICES ASSUME StudyInit PROVE BookTypes /\ WindowsInOrder
  OBVIOUS
<1>1. BookTypes
  BY BookTypesInit
<1> SUFFICES ASSUME study.kind = "walk_forward", OnPlan PROVE WindowsInOrder
  BY <1>1 DEF WindowsInOrder
<1>2. /\ day = 0 /\ runNo = 1 /\ phase = "done" /\ tape = <<>> /\ seen = [i \in DOMAIN setup.book |-> <<>>]
  BY DEF StudyInit, Init
<1>3. 1 \in DOMAIN plan /\ plan[1].part # "test"
  BY <1>1, <1>2, RunsOfAWalk DEF OnPlan, RunsFollow
<1>4. PICK b \in Nat \ {0} : plan[1].on = 1..b
  BY <1>1, <1>3, RunsOfAWalk DEF RunsFollow
<1>5. ASSUME NEW i PROVE Fresh(i) = 0
  <2>1. Trained(i) = {}
    BY <1>2, <1>3 DEF Trained
  <2>2. \A d \in 1..b : ~Over(i, d)
    BY <1>2, <1>4 DEF Over
  <2>3. Turns(i) = {}
    BY <1>2, <1>4, <2>2 DEF Turns
  <2> QED BY <2>1, <2>3, FS_EmptySet DEF Fresh
<1>6. \A i \in DOMAIN setup.book : Len(seen[i]) = 0 /\ DOMAIN seen[i] = {}
  BY <1>2, EmptySeq
<1>7. day \in Nat /\ day <= Len(tape) /\ day + 1 \in plan[runNo].on
  BY <1>2, <1>4
<1>8. \A i \in DOMAIN setup.book : Fresh(i) <= Len(seen[i])
  BY <1>5, <1>6
<1> QED BY <1>1, <1>2, <1>3, <1>6, <1>7, <1>8 DEF WindowsInOrder

(* The next run starts where this one ends, or before. *)
LEMMA NextRunStarts ==
    ASSUME BookTypes, study.kind = "walk_forward", WindowsInOrder, EndRun, runNo + 1 \in DOMAIN plan
    PROVE  /\ day \in Nat /\ day' \in Nat /\ day' <= day /\ day' + 1 \in plan[runNo + 1].on
           /\ \A d \in plan[runNo].on : d <= day
           /\ \A d \in plan[runNo + 1].on : d > day'
           /\ plan[runNo + 1].part = "test" => day' = day
<1>1. OnPlan /\ phase = "done" /\ day + 1 \notin plan[runNo].on /\ StartRun(plan[runNo + 1])
  BY DEF EndRun
<1>2. day \in Nat /\ day \in plan[runNo].on
  BY <1>1 DEF WindowsInOrder
<1>3. PICK a, b, c, d \in Nat \ {0} :
          /\ a <= b /\ plan[runNo].on = a..b /\ c <= d /\ plan[runNo + 1].on = c..d /\ c <= b + 1
          /\ plan[runNo + 1].part = "test" => c = b + 1
  BY <1>1, RunsOfAWalk DEF RunsFollow, OnPlan
<1>4. day = b
  BY <1>1, <1>2, <1>3
<1>5. Min(c..d) = c
  <2>1. \A x \in c..d : (\A y \in c..d : x <= y) <=> x = c
    BY <1>3
  <2> QED BY <1>3, <2>1 DEF Min
<1>6. day' = c - 1
  <2>1. c..d # {}
    BY <1>3
  <2> QED BY <1>1, <1>3, <1>5, <2>1 DEF StartRun
<1> QED BY <1>2, <1>3, <1>4, <1>6

LEMMA SeenIsASequence ==
    ASSUME ReadsTheTape, NEW i \in DOMAIN setup.book
    PROVE  Len(seen[i]) \in Nat /\ DOMAIN seen[i] = 1..Len(seen[i])
<1>1. IsSeq(seen[i])
  BY DEF ReadsTheTape
<1> QED BY <1>1, LenProperties DEF IsSeq

LEMMA WindowsInOrderStep == BookTypes /\ ReadsTheTape /\ WindowsInOrder /\ [StudyNext]_allVars => WindowsInOrder'
<1> SUFFICES ASSUME BookTypes, ReadsTheTape, WindowsInOrder, [StudyNext]_allVars,
                    study'.kind = "walk_forward", OnPlan'
             PROVE  WindowsInOrder'
  BY DEF WindowsInOrder
<1>1. UNCHANGED <<setup, study, plan>> /\ study.kind = "walk_forward"
  BY ReadDayReads, DecideRemembers, OtherSteps DEF EndRun
<1> DEFINE Remembered(i) == /\ Fresh(i) <= Len(seen[i])
                            /\ \A j \in DOMAIN seen[i] : j > Len(seen[i]) - Fresh(i) => seen[i][j].day \in 1..day
           Placed == /\ day \in Nat /\ day <= Len(tape)
                     /\ day \in plan[runNo].on \/ (phase = "done" /\ day + 1 \in plan[runNo].on)
                     /\ plan[runNo].part = "test" => \A d \in plan[runNo - 1].on : d <= day
<1>4. SUFFICES Placed' /\ \A i \in DOMAIN setup.book : Remembered(i)'
  BY <1>1 DEF WindowsInOrder
<1>5. OnPlan => /\ Placed /\ \A i \in DOMAIN setup.book : /\ Remembered(i) /\ Fresh(i) \in Nat
                                                         /\ Len(seen[i]) \in Nat /\ DOMAIN seen[i] = 1..Len(seen[i])
  BY <1>1, FreshIsNatural, SeenIsASequence DEF WindowsInOrder
<1>6. ASSUME OnPlan, seen' = seen, day <= day', day' \in Int, NEW i \in DOMAIN setup.book, Fresh(i)' = Fresh(i)
      PROVE  Remembered(i)'
  BY <1>5, <1>6
<1>7. CASE ReadDay
  <2>1. /\ OnPlan /\ day' = day + 1 /\ day + 1 \in plan[runNo].on /\ UNCHANGED <<runNo, seen>>
        /\ day \in Nat /\ day <= Len(tape) /\ day' \in 1..Len(tape') /\ Len(tape) \in Nat
        /\ \A d \in 1..Len(tape) : tape'[d] = tape[d]
    BY <1>7, ReadDayReads
  <2>2. plan[runNo].part = "test" => \A d \in plan[runNo - 1].on : d \in 1..Len(tape) /\ d <= day
    <3> SUFFICES ASSUME plan[runNo].part = "test"
                 PROVE  \A d \in plan[runNo - 1].on : d \in 1..Len(tape) /\ d <= day
      OBVIOUS
    <3>1. PICK n \in Nat : DOMAIN plan = 1..n
      BY <1>1, RunsOfAWalk
    <3>2. runNo \in 1..n /\ runNo - 1 \in 1..n
      BY <1>1, <2>1, <3>1, RunsOfAWalk DEF OnPlan, RunsFollow
    <3>3. plan[runNo - 1].on \subseteq Nat \ {0}
      BY <1>1, <3>1, <3>2, RunsOfAWalk
    <3> QED BY <1>5, <2>1, <3>3
  <2>3. \A i : Fresh(i)' = Fresh(i)
    <3>1. \A i : Turns(i)' = Turns(i)
      BY <1>1, <1>7, TurnsOfADayRead
    <3>2. \A i : Trained(i)' = Trained(i)
      BY <1>1, <2>1, <2>2, TrainedKept
    <3> QED BY <3>1, <3>2 DEF Fresh
  <2>4. \A i \in DOMAIN setup.book : Remembered(i)'
    <3> HIDE DEF Remembered
    <3> QED BY <1>6, <2>1, <2>3
  <2>5. Placed'
    BY <1>1, <2>1, <2>2
  <2> QED BY <2>4, <2>5
<1>8. CASE Decide /\ UNCHANGED studyVars
  <2>1. /\ at \in DOMAIN setup.book /\ phase = "decide" /\ UNCHANGED <<runNo, tape, day>>
        /\ DOMAIN seen' = DOMAIN seen /\ (\A i \in DOMAIN seen \ {at} : seen'[i] = seen[i])
        /\ ~Gauged(at, day) => seen'[at] = seen[at]
        /\ Gauged(at, day) => /\ Len(seen'[at]) = Len(seen[at]) + 1 /\ DOMAIN seen'[at] = 1..Len(seen'[at])
                              /\ seen'[at][Len(seen[at]) + 1].day = day
                              /\ \A j \in 1..Len(seen[at]) : seen'[at][j] = seen[at][j]
    BY <1>8, DecideRemembers
  <2>2. OnPlan /\ day \in plan[runNo].on /\ day \in 1..Len(tape) /\ DOMAIN seen = DOMAIN setup.book
    BY <2>1 DEF ReadsTheTape
  <2>3. \A i : Trained(i)' = Trained(i)
    BY <1>1, <2>1, TrainedKept
  <2>4. \A i \in DOMAIN setup.book : Turns(i)' = IF i = at /\ Gauged(i, day) THEN Turns(i) \cup {day} ELSE Turns(i)
    BY <1>8, TurnsOfADecision
  <2>5. ASSUME NEW i \in DOMAIN setup.book, i # at \/ ~Gauged(at, day) PROVE Remembered(i)'
    <3>1. Fresh(i)' = Fresh(i)
      BY <2>3, <2>4, <2>5 DEF Fresh
    <3>2. seen'[i] = seen[i]
      BY <2>1, <2>2, <2>5
    <3> QED BY <1>5, <2>1, <2>2, <3>1, <3>2
  <2>6. ASSUME NEW i \in DOMAIN setup.book, i = at, Gauged(i, day) PROVE Remembered(i)'
    <3>1. Turns(i)' = Turns(i) \cup {day}
      BY <2>4, <2>6
    <3>2. IsFiniteSet(Turns(i)) /\ Cardinality(Turns(i)) \in Nat /\ Cardinality(Trained(i)) \in Nat
      BY <1>1, <2>2, FreshIsNatural
    <3>3. Cardinality(Turns(i)') \in {Cardinality(Turns(i)), Cardinality(Turns(i)) + 1}
      BY <3>1, <3>2, FS_AddElement
    <3>4. Fresh(i)' \in {Fresh(i), Fresh(i) + 1}
      <4>1. Fresh(i)' = Cardinality(Trained(i)') + Cardinality(Turns(i)')
        BY DEF Fresh
      <4> QED BY <2>3, <3>2, <3>3, <4>1 DEF Fresh
    <3>5. /\ Remembered(i) /\ Fresh(i) \in Nat /\ Len(seen[i]) \in Nat /\ DOMAIN seen[i] = 1..Len(seen[i])
      BY <1>5, <2>2
    <3>6. /\ Len(seen'[i]) = Len(seen[i]) + 1 /\ DOMAIN seen'[i] = 1..Len(seen'[i])
          /\ seen'[i][Len(seen[i]) + 1].day = day /\ \A j \in 1..Len(seen[i]) : seen'[i][j] = seen[i][j]
      BY <2>1, <2>6
    <3>7. Fresh(i)' <= Len(seen'[i])
      BY <3>4, <3>5, <3>6
    <3>8. ASSUME NEW j \in DOMAIN seen'[i], j > Len(seen'[i]) - Fresh(i)'
          PROVE  seen'[i][j].day \in 1..day'
      <4>1. j \in 1..(Len(seen[i]) + 1) /\ (j \in 1..Len(seen[i]) => j > Len(seen[i]) - Fresh(i))
        BY <3>4, <3>5, <3>6, <3>8
      <4>2. CASE j = Len(seen[i]) + 1
        BY <2>1, <2>2, <3>6, <4>2, LenProperties DEF BookTypes
      <4>3. CASE j \in 1..Len(seen[i])
        BY <2>1, <3>5, <3>6, <4>1, <4>3
      <4> QED BY <3>5, <4>1, <4>2, <4>3
    <3> QED BY <3>7, <3>8
  <2>7. \A i \in DOMAIN setup.book : Remembered(i)'
    <3> HIDE DEF Remembered
    <3> QED BY <2>5, <2>6
  <2>8. Placed'
    BY <1>1, <1>5, <2>1, <2>2
  <2> QED BY <2>7, <2>8
<1>9. CASE EndRun
  <2>1. /\ OnPlan /\ runNo' = runNo + 1 /\ phase' = "done" /\ UNCHANGED <<seen, tape>>
        /\ runNo + 1 \in DOMAIN plan
    BY <1>1, <1>9 DEF EndRun, OnPlan
  <2>2. /\ day \in Nat /\ day' \in Nat /\ day' <= day /\ day' + 1 \in plan[runNo + 1].on
        /\ \A d \in plan[runNo].on : d <= day
        /\ \A d \in plan[runNo + 1].on : d > day'
        /\ plan[runNo + 1].part = "test" => day' = day
    BY <1>1, <1>9, <2>1, NextRunStarts
  <2>3. runNo \in Nat /\ plan[runNo].on \subseteq Nat /\ plan[runNo + 1].on \subseteq Nat
    BY <1>1, <2>1, RunsOfAWalk DEF OnPlan
  <2>4. Placed'
    <3>1. plan[runNo + 1].part = "test" => \A d \in plan[runNo].on : d <= day'
      BY <2>2
    <3>2. runNo' - 1 = runNo /\ Len(tape) \in Nat
      BY <2>1, <2>3, LenProperties DEF BookTypes
    <3> QED BY <1>1, <1>5, <2>1, <2>2, <3>1, <3>2
  <2>5. ASSUME NEW i \in DOMAIN setup.book PROVE Remembered(i)'
    <3>1. Turns(i)' = {}
      <4>1. \A d \in plan[runNo + 1].on : ~(Over(i, d)')
        BY <2>2, <2>3 DEF Over
      <4> QED BY <1>1, <2>1, <4>1 DEF Turns
    <3>2. CASE plan[runNo + 1].part = "test"
      <4>1. Trained(i)' = {d \in plan[runNo].on : Gauged(i, d)}
        <5>1. \A d : Gauged(i, d)' <=> Gauged(i, d)
          BY <1>1, <2>1, GaugedKept
        <5>2. runNo' - 1 = runNo
          BY <2>1, <2>3
        <5> QED BY <1>1, <2>1, <3>2, <5>1, <5>2 DEF Trained
      <4>2. Turns(i) = {d \in plan[runNo].on : Gauged(i, d)}
        <5>1. \A d \in plan[runNo].on : Over(i, d)
          BY <1>9, <2>2, <2>3 DEF Over, EndRun
        <5> QED BY <5>1 DEF Turns
      <4>3. Fresh(i)' = Cardinality(Turns(i)) /\ Fresh(i)' <= Fresh(i)
        <5>1. Cardinality(Trained(i)) \in Nat /\ Cardinality(Turns(i)) \in Nat
          BY <1>1, <2>1, FreshIsNatural
        <5>2. Fresh(i)' = Cardinality(Trained(i)') + Cardinality(Turns(i)')
          BY DEF Fresh
        <5>3. Cardinality(Turns(i)') = 0 /\ Cardinality(Trained(i)') = Cardinality(Turns(i))
          BY <3>1, <4>1, <4>2, FS_EmptySet
        <5> HIDE DEF Remembered
        <5> QED BY <5>1, <5>2, <5>3 DEF Fresh
      <4>4. Fresh(i)' \in Nat
        BY <1>1, <2>1, <4>3, FreshIsNatural
      <4> HIDE DEF Placed
      <4> QED BY <1>5, <2>1, <2>2, <3>2, <4>3, <4>4
    <3>3. CASE plan[runNo + 1].part # "test"
      <4>1. Trained(i)' = {}
        BY <1>1, <2>1, <3>3 DEF Trained
      <4>2. Fresh(i)' = 0
        BY <3>1, <4>1, FS_EmptySet DEF Fresh
      <4> QED BY <1>5, <2>1, <4>2
    <3> QED BY <3>2, <3>3
  <2>6. \A i \in DOMAIN setup.book : Remembered(i)'
    <3> HIDE DEF Remembered
    <3> QED BY <2>5
  <2> QED BY <2>4, <2>6
<1>10. CASE /\ UNCHANGED <<setup, study, plan, runNo, tape, day, seen>>
            /\ phase' # "done" => phase # "done" /\ today' = today
            /\ \A i \in DOMAIN setup.book : Turns(i)' = Turns(i)
  <2>1. OnPlan
    BY <1>10 DEF OnPlan
  <2>2. \A i : Trained(i)' = Trained(i)
    BY <1>10, TrainedKept
  <2>3. \A i \in DOMAIN setup.book : Fresh(i)' = Fresh(i)
    BY <1>10, <2>2 DEF Fresh
  <2>4. \A i \in DOMAIN setup.book : Remembered(i)'
    BY <1>5, <1>10, <2>1, <2>3
  <2>5. Placed'
    BY <1>5, <1>10, <2>1 DEF ReadsTheTape
  <2> QED BY <2>4, <2>5
<1> QED BY <1>7, <1>8, <1>9, <1>10, OtherSteps

LEMMA LastOfASequence ==
    ASSUME NEW q, NEW n \in Nat, Len(q) \in Nat, NEW m \in ToSet(LastOf(q, n))
    PROVE  \E j \in 1..Len(q) : j > Len(q) - n /\ m = q[j]
<1> DEFINE a == AtLeast(1, Len(q) - n + 1)
<1>1. a \in Int /\ a >= 1 /\ a > Len(q) - n
  BY DEF AtLeast
<1>2. PICK i \in 1..(Len(q) - a + 1) : m = SubSeq(q, a, Len(q))[i]
  <2>1. \A i \in a..Len(q) : q[i] \in {q[k] : k \in a..Len(q)}
    OBVIOUS
  <2>2. /\ SubSeq(q, a, Len(q)) \in Seq({q[k] : k \in a..Len(q)})
        /\ Len(SubSeq(q, a, Len(q))) = IF a <= Len(q) THEN Len(q) - a + 1 ELSE 0
    BY <1>1, <2>1, SubSeqProperties
  <2>3. DOMAIN SubSeq(q, a, Len(q)) = 1..Len(SubSeq(q, a, Len(q)))
    BY <2>2, LenProperties
  <2>4. \E i \in DOMAIN SubSeq(q, a, Len(q)) : m = SubSeq(q, a, Len(q))[i]
    BY DEF LastOf, ToSet
  <2> QED BY <1>1, <2>2, <2>3, <2>4
<1>3. m = q[a + i - 1]
  <2>1. \A k \in a..Len(q) : q[k] \in {q[l] : l \in a..Len(q)}
    OBVIOUS
  <2>2. \A k \in 1..(Len(q) - a + 1) : SubSeq(q, a, Len(q))[k] = q[a + k - 1]
    BY <1>1, <2>1, SubSeqProperties
  <2> QED BY <1>2, <2>2
<1>4. a + i - 1 \in 1..Len(q) /\ a + i - 1 > Len(q) - n
  BY <1>1, <1>2
<1> QED BY <1>3, <1>4

GatesInv == StudyInv /\ ReadsTheTape /\ FoldsInOrder /\ WindowsInOrder

LEMMA GatesInvariance == ResearchSpec => []GatesInv
<1>1. ResearchInit => GatesInv
  <2>1. StudyInit => FoldsInOrder
    <3> SUFFICES ASSUME StudyInit PROVE FoldsInOrder
      OBVIOUS
    <3>1. seen = [i \in DOMAIN setup.book |-> <<>>] /\ DOMAIN <<>> = {}
      BY DEF StudyInit, Init
    <3> QED BY <3>1 DEF FoldsInOrder
  <2> QED BY <2>1, StudyInvInit, ReadsTheTapeInit, WindowsInOrderInit DEF ResearchInit, GatesInv
<1>2. GatesInv /\ [ResearchNext]_researchVars => GatesInv'
  <2>1. [ResearchNext]_researchVars => [StudyNext]_allVars
    BY DEF ResearchNext, researchVars
  <2> QED BY <2>1, StudyInvStep, ReadsTheTapeStep, FoldsInOrderStep, WindowsInOrderStep DEF GatesInv, StudyInv
<1> QED BY <1>1, <1>2, PTL DEF ResearchSpec

(* What a rank gate has ranked a day of a fold or of a test among lies       *)
(* before that day, whatever the windows, the folds and the chains: a test   *)
(* starts where its training days end, and folds come in their order.        *)
THEOREM GatesRankOnThePast == ResearchSpec => []RanksOnThePast
<1>1. GatesInv => RanksOnThePast
  <2> DEFINE train(i) == IF plan[runNo].part = "test" THEN Cardinality(Measured(i, plan[runNo - 1])) ELSE 0
             enough(i) == train(i) + Cardinality(Measured(i, plan[runNo])) >= RankWindow
  <2> SUFFICES ASSUME GatesInv, phase = "decide", OnPlan, NEW i \in DOMAIN setup.book, i < at,
                      plan[runNo].part = "fold" \/ (plan[runNo].part = "test" /\ enough(i)),
                      NEW m \in ToSet(LastOf(seen[i], RankWindow))
               PROVE  m.day <= day
    BY Zenon DEF RanksOnThePast
  <2>1. /\ BookTypes /\ ReadsTheTape /\ FoldsInOrder /\ WindowsInOrder
        /\ study \in Studies /\ plan = Plan(study) /\ RankWindow \in Nat
    BY GateAssumption DEF GatesInv, StudyInv, BookTypes
  <2>2. day \in plan[runNo].on /\ day \in Nat /\ Len(seen[i]) \in Nat /\ DOMAIN seen[i] = 1..Len(seen[i])
    <3>1. day \in plan[runNo].on /\ day \in 1..Len(tape)
      BY <2>1 DEF ReadsTheTape
    <3>2. Len(tape) \in Nat
      BY <2>1, LenProperties DEF BookTypes
    <3> QED BY <2>1, <3>1, <3>2, SeenIsASequence
  <2>3. PICK j \in 1..Len(seen[i]) : j > Len(seen[i]) - RankWindow /\ m = seen[i][j]
    BY <2>1, <2>2, LastOfASequence
  <2>4. CASE study.kind = "once"
    <3>1. Plan(study) = <<[part |-> "once", on |-> 1..study.days]>>
      BY <2>4 DEF Plan
    <3>2. plan[runNo].part = "once"
      BY <2>1, <3>1 DEF OnPlan
    <3> QED BY <3>2
  <2>5. CASE study.kind = "cpcv"
    <3>1. PICK r \in DOMAIN plan : r <= runNo /\ m.day \in plan[r].on /\ (r = runNo => m.day <= day)
      BY <2>1, <2>2, <2>3, <2>5 DEF FoldsInOrder
    <3>2. DOMAIN plan = 1..study.folds
      BY <2>1, <2>5, CpcvRunsAreTheFolds
    <3>3. CASE r < runNo
      BY <2>1, <2>2, <2>5, <3>1, <3>3, FoldsComeInOrder DEF OnPlan
    <3> QED BY <3>1, <3>2, <3>3 DEF OnPlan
  <2>6. CASE study.kind = "walk_forward"
    <3>1. RunsFollow(plan) /\ \A r \in DOMAIN plan : plan[r].on \subseteq Nat \ {0}
      BY <2>1, <2>6, RunsOfAWalk
    <3>2. plan[runNo].part = "test" /\ enough(i)
      BY <3>1 DEF RunsFollow, OnPlan
    <3>3. PICK n \in Nat : DOMAIN plan = 1..n
      BY <2>1, <2>6, RunsOfAWalk
    <3>4. runNo \in 1..n /\ runNo - 1 \in 1..n
      BY <3>1, <3>2, <3>3 DEF RunsFollow, OnPlan
    <3>5. \A d \in plan[runNo - 1].on : d \in 1..day
      <4>1. \A d \in plan[runNo - 1].on : d <= day
        BY <2>1, <2>6, <3>2 DEF WindowsInOrder
      <4> QED BY <2>2, <3>1, <3>3, <3>4, <4>1
    <3>6. Measured(i, plan[runNo - 1]) = Trained(i)
      BY <3>2, <3>5 DEF Measured, Trained, Gauged, SnapshotOf
    <3>7. Measured(i, plan[runNo]) = Turns(i)
      <4>1. \A d \in plan[runNo].on : d \in 1..day <=> Over(i, d)
        BY <2>2, <3>1, <3>3, <3>4 DEF Over
      <4> QED BY <4>1 DEF Measured, Turns, Gauged, SnapshotOf
    <3>8. Fresh(i) >= RankWindow /\ Fresh(i) \in Nat
      BY <2>1, <2>6, <3>2, <3>6, <3>7, FreshIsNatural DEF Fresh
    <3>9. m.day \in 1..day
      <4>1. j > Len(seen[i]) - Fresh(i)
        BY <2>1, <2>2, <2>3, <3>8
      <4> QED BY <2>1, <2>2, <2>3, <2>6, <4>1 DEF WindowsInOrder
    <3> QED BY <2>2, <3>9
  <2> QED BY <2>1, <2>4, <2>5, <2>6, StudyAssumption
<1> QED BY <1>1, GatesInvariance, PTL

-----------------------------------------------------------------------------
(* Legs whose calls, if there are any, are one bought and one sold. *)
AllPuts(legs) == \A l \in legs : l.side = "put"
Hedged(legs) ==
    \/ AllPuts(legs)
    \/ \E a, b \in legs : /\ a.side = "call" /\ a.quantity = 1
                          /\ b.side = "call" /\ b.quantity = -1
                          /\ AllPuts(legs \ {a, b})

AreLegs(legs) ==
    /\ IsFiniteSet(legs) /\ legs # {}
    /\ \A l \in legs : l.strike \in Nat /\ l.quantity \in Int /\ l.side \in Sides

(* Payoffs as totals. *)
LEMMA PayoffIsTotal ==
    ASSUME NEW legs, AreLegs(legs), NEW p \in Int
    PROVE  /\ PayoffAt(legs, p) = Total([l \in legs |-> l.quantity * IntrinsicAt(l, p)], legs)
           /\ \A l \in legs : IntrinsicAt(l, p) \in Int
<1> DEFINE f == [l \in legs |-> l.quantity * IntrinsicAt(l, p)]
<1>1. DOMAIN f = legs
  OBVIOUS
<1>2. \A l \in legs : IntrinsicAt(l, p) \in Int
  BY DEF AreLegs, IntrinsicAt, AtLeast
<1>3. PayoffAt(legs, p) = SumFunction(f)
  BY DEF PayoffAt
<1> HIDE DEF f
<1>4. SumFunction(f) = Total(f, legs)
  BY <1>1, SumFunctionIsTotal
<1> QED BY <1>2, <1>3, <1>4 DEF f

(* A call and a put gain nothing but their quantity times the way above all *)
(* strikes, and so nothing if the calls are even.                           *)
LEMMA EvenCalls ==
    ASSUME NEW legs, AreLegs(legs), Hedged(legs)
    PROVE  Total([l \in legs |-> IF l.side = "call" THEN l.quantity ELSE 0], legs) = 0
<1> DEFINE f == [l \in legs |-> IF l.side = "call" THEN l.quantity ELSE 0]
<1>1. \A l \in legs : f[l] \in Int
  BY DEF AreLegs
<1>2. IsFiniteSet(legs)
  BY DEF AreLegs
<1>3. ASSUME AllPuts(legs) PROVE Total(f, legs) = 0
  <2>1. \A l \in legs : f[l] = 0
    BY <1>3 DEF AllPuts
  <2> HIDE DEF f
  <2> QED BY <1>2, <2>1, TotalOfZeros
<1>4. ASSUME NEW a \in legs, NEW b \in legs,
             a.side = "call", a.quantity = 1, b.side = "call", b.quantity = -1, AllPuts(legs \ {a, b})
      PROVE  Total(f, legs) = 0
  <2>1. f[a] = 1 /\ f[b] = -1 /\ \A l \in legs \ {a, b} : f[l] = 0
    BY <1>4 DEF AllPuts
  <2>2. (legs \ {a}) \ {b} = legs \ {a, b} /\ b \in legs \ {a}
    <3>1. a # b BY <1>4
    <3> QED BY <3>1
  <2>3. IsFiniteSet(legs \ {a}) /\ IsFiniteSet(legs \ {a, b})
    BY <1>2, FS_Subset
  <2> HIDE DEF f
  <2>4. Total(f, legs) = f[a] + Total(f, legs \ {a})
    BY <1>1, <1>2, TotalRules
  <2>5. Total(f, legs \ {a}) = f[b] + Total(f, (legs \ {a}) \ {b})
    BY <1>1, <2>2, <2>3, TotalRules
  <2>6. Total(f, legs \ {a, b}) = 0
    BY <2>1, <2>3, TotalOfZeros
  <2> QED BY <2>1, <2>2, <2>4, <2>5, <2>6
<1> HIDE DEF f
<1>5. Total(f, legs) = 0
  <2>1. CASE ~AllPuts(legs)
    <3>1. PICK a \in legs, b \in legs : /\ a.side = "call" /\ a.quantity = 1
                                       /\ b.side = "call" /\ b.quantity = -1
                                       /\ AllPuts(legs \ {a, b})
      BY <2>1 DEF Hedged
    <3> QED BY <1>4, <3>1
  <2> QED BY <1>3, <2>1
<1> QED BY <1>5 DEF f

(* Above the highest strike the payoff is what it is there. *)
LEMMA PayoffAboveStrikes ==
    ASSUME NEW legs, AreLegs(legs), Hedged(legs), NEW top \in Nat, \A l \in legs : l.strike <= top,
           NEW s \in Nat, s > top
    PROVE  PayoffAt(legs, s) = PayoffAt(legs, top)
<1> DEFINE f == [l \in legs |-> l.quantity * IntrinsicAt(l, s)]
           g == [l \in legs |-> l.quantity * IntrinsicAt(l, top)]
           h == [l \in legs |-> IF l.side = "call" THEN l.quantity ELSE 0]
<1>1. ASSUME NEW l \in legs
      PROVE  f[l] \in Int /\ g[l] \in Int /\ h[l] \in Int /\ 1 * f[l] = 1 * g[l] + (s - top) * h[l]
  <2> DEFINE q == l.quantity
             k == l.strike
  <2>1. q \in Int /\ k \in Nat /\ k <= top /\ l.side \in {"call", "put"}
    BY DEF AreLegs, Sides
  <2>2. CASE l.side = "call"
    <3>1. IntrinsicAt(l, s) = s - k /\ IntrinsicAt(l, top) = top - k
      BY <2>1, <2>2 DEF IntrinsicAt, AtLeast
    <3>2. f[l] = q * (s - k) /\ g[l] = q * (top - k) /\ h[l] = q
      BY <2>2, <3>1
    <3> HIDE DEF f, g, h, q, k
    <3>3. 1 * (q * (s - k)) = 1 * (q * (top - k)) + (s - top) * q
      BY <2>1
    <3>4. q * (s - k) \in Int /\ q * (top - k) \in Int
      BY <2>1
    <3> QED BY <2>1, <3>2, <3>3, <3>4
  <2>3. CASE l.side = "put"
    <3>1. IntrinsicAt(l, s) = 0 /\ IntrinsicAt(l, top) = 0
      BY <2>1, <2>3 DEF IntrinsicAt, AtLeast
    <3>2. f[l] = q * 0 /\ g[l] = q * 0 /\ h[l] = 0
      BY <2>3, <3>1
    <3> HIDE DEF f, g, h, q, k
    <3> QED BY <2>1, <3>2
  <2> QED BY <2>1, <2>2, <2>3
<1>2. IsFiniteSet(legs)
  BY DEF AreLegs
<1>3. Total(h, legs) = 0
  BY EvenCalls
<1>4. PayoffAt(legs, s) = Total(f, legs) /\ PayoffAt(legs, top) = Total(g, legs)
  BY PayoffIsTotal
<1> HIDE DEF f, g, h
<1>5. 1 * Total(f, legs) = 1 * Total(g, legs) + (s - top) * Total(h, legs)
  BY <1>1, <1>2, TotalIsLinear
<1>6. Total(f, legs) \in Int /\ Total(g, legs) \in Int
  BY <1>1, <1>2, TotalRules
<1> QED BY <1>3, <1>4, <1>5, <1>6

(* Between two prices with no strike between them payoffs are on a line. *)
LEMMA PayoffBetweenStrikes ==
    ASSUME NEW legs, AreLegs(legs), NEW lo \in Nat, NEW hi \in Nat, NEW s \in Nat, lo < s, s < hi,
           \A l \in legs : l.strike <= lo \/ hi <= l.strike
    PROVE  (hi - lo) * PayoffAt(legs, s) = (hi - s) * PayoffAt(legs, lo) + (s - lo) * PayoffAt(legs, hi)
<1> DEFINE f == [l \in legs |-> l.quantity * IntrinsicAt(l, s)]
           g == [l \in legs |-> l.quantity * IntrinsicAt(l, lo)]
           h == [l \in legs |-> l.quantity * IntrinsicAt(l, hi)]
<1>1. ASSUME NEW l \in legs
      PROVE  f[l] \in Int /\ g[l] \in Int /\ h[l] \in Int /\ (hi - lo) * f[l] = (hi - s) * g[l] + (s - lo) * h[l]
  <2> DEFINE q == l.quantity
             k == l.strike
             i == IntrinsicAt(l, s)
             m == IntrinsicAt(l, lo)
             n == IntrinsicAt(l, hi)
  <2>1. q \in Int /\ k \in Nat /\ (k <= lo \/ hi <= k) /\ l.side \in {"call", "put"}
    BY DEF AreLegs, Sides
  <2>2. \/ i = s - k /\ m = lo - k /\ n = hi - k
        \/ i = k - s /\ m = k - lo /\ n = k - hi
        \/ i = 0 /\ m = 0 /\ n = 0
    BY <2>1 DEF IntrinsicAt, AtLeast
  <2>3. f[l] = q * i /\ g[l] = q * m /\ h[l] = q * n
    OBVIOUS
  <2> HIDE DEF f, g, h, q, k, i, m, n
  <2>4. i \in Int /\ m \in Int /\ n \in Int
    BY <2>1, <2>2
  <2>5. (hi - lo) * i = (hi - s) * m + (s - lo) * n
    <3>1. CASE i = s - k /\ m = lo - k /\ n = hi - k
      <4>1. (hi - lo) * (s - k) = (hi - s) * (lo - k) + (s - lo) * (hi - k)
        BY <2>1
      <4> QED BY <3>1, <4>1
    <3>2. CASE i = k - s /\ m = k - lo /\ n = k - hi
      <4>1. (hi - lo) * (k - s) = (hi - s) * (k - lo) + (s - lo) * (k - hi)
        BY <2>1
      <4> QED BY <3>2, <4>1
    <3>3. CASE i = 0 /\ m = 0 /\ n = 0
      BY <3>3
    <3> QED BY <2>2, <3>1, <3>2, <3>3
  <2>6. (hi - lo) * (q * i) = (hi - s) * (q * m) + (s - lo) * (q * n)
    <3>1. (hi - lo) * (q * i) = q * ((hi - lo) * i)
      BY <2>1, <2>4
    <3>2. (hi - s) * (q * m) = q * ((hi - s) * m)
      BY <2>1, <2>4
    <3>3. (s - lo) * (q * n) = q * ((s - lo) * n)
      BY <2>1, <2>4
    <3> DEFINE u == (hi - s) * m
               w == (s - lo) * n
    <3>4. u \in Int /\ w \in Int /\ (hi - lo) * i = u + w
      BY <2>4, <2>5
    <3> HIDE DEF u, w
    <3>5. q * (u + w) = q * u + q * w
      BY <2>1, <3>4
    <3>6. (hi - lo) * (q * i) = q * u + q * w
      BY <3>1, <3>4, <3>5
    <3> QED BY <3>2, <3>3, <3>6 DEF u, w
  <2>7. q * i \in Int /\ q * m \in Int /\ q * n \in Int
    BY <2>1, <2>4
  <2> QED BY <2>3, <2>6, <2>7
<1>2. IsFiniteSet(legs)
  BY DEF AreLegs
<1>3. PayoffAt(legs, s) = Total(f, legs) /\ PayoffAt(legs, lo) = Total(g, legs) /\ PayoffAt(legs, hi) = Total(h, legs)
  BY PayoffIsTotal
<1>4. hi - lo \in Int /\ hi - s \in Int /\ s - lo \in Int
  OBVIOUS
<1> HIDE DEF f, g, h
<1>5. (hi - lo) * Total(f, legs) = (hi - s) * Total(g, legs) + (s - lo) * Total(h, legs)
  BY <1>1, <1>2, <1>4, TotalIsLinear
<1> QED BY <1>3, <1>5

(* What a hedged position pays at any price is no more than it pays at one  *)
(* of the sampled prices, and no less than at another.                      *)
LEMMA SamplesAreEnough ==
    ASSUME NEW legs, AreLegs(legs), Hedged(legs), NEW s \in Nat
    PROVE  LET payoffs == {PayoffAt(legs, p) : p \in SamplePrices(legs)}
           IN  PayoffAt(legs, s) \in Int /\ Min(payoffs) <= PayoffAt(legs, s) /\ PayoffAt(legs, s) <= Max(payoffs)
<1> DEFINE payoffs == {PayoffAt(legs, p) : p \in SamplePrices(legs)}
           K == {l.strike : l \in legs}
<1>1. /\ \A p \in Int : PayoffAt(legs, p) \in Int
      /\ IsFiniteSet(payoffs) /\ payoffs # {} /\ payoffs \in SUBSET Int
  BY SampledPayoffs DEF AreLegs
<1>2. IsFiniteSet(K) /\ K # {} /\ K \subseteq Nat
  <2> DEFINE f == [l \in legs |-> l.strike]
  <2>1. IsFiniteSet(Range(f)) BY ValuesAreFinite DEF AreLegs
  <2>2. Range(f) = K BY DEF Range
  <2>3. K # {} /\ K \subseteq Nat BY DEF AreLegs
  <2> QED BY <2>1, <2>2, <2>3
<1>3. ({0} \cup K) \subseteq SamplePrices(legs)
  BY DEF SamplePrices
<1>4. \A l \in legs : l.strike \in K
  OBVIOUS
<1>5. \A p \in {0} \cup K : PayoffAt(legs, p) \in payoffs
  BY <1>3
<1>6. /\ \A x \in payoffs : Min(payoffs) <= x /\ x <= Max(payoffs)
      /\ Min(payoffs) \in Int /\ Max(payoffs) \in Int
  <2> HIDE DEF payoffs
  <2> QED BY <1>1, Extremes
<1> HIDE DEF payoffs, K
<1>7. CASE s \in {0} \cup K
  BY <1>1, <1>5, <1>6, <1>7 DEF payoffs
<1>8. ASSUME s # 0, s \notin K
      PROVE  Min(payoffs) <= PayoffAt(legs, s) /\ PayoffAt(legs, s) <= Max(payoffs)
  <2>0. \A k \in K : k \in Nat /\ k \in Int
    BY <1>2
  <2>1. Max(K) \in K /\ (\A k \in K : k <= Max(K)) /\ Max(K) \in Nat /\ Max(K) # s
    <3>1. K \in SUBSET Int BY <2>0
    <3>2. Max(K) \in K /\ \A k \in K : k <= Max(K) BY <1>2, <3>1, Extremes
    <3> QED BY <1>8, <2>0, <3>2
  <2>2. CASE s > Max(K)
    <3>1. PayoffAt(legs, s) = PayoffAt(legs, Max(K))
      BY <1>2, <1>4, <2>1, <2>2, PayoffAboveStrikes
    <3> QED BY <1>5, <1>6, <2>1, <3>1
  <2>3. CASE s < Max(K)
    <3> DEFINE under == {k \in {0} \cup K : k < s}
               over == {k \in K : s < k}
               lo == Max(under)
               hi == Min(over)
    <3>1. /\ lo \in under /\ \A k \in under : k <= lo
      <4>1. IsFiniteSet({0} \cup K) BY <1>2, FS_Singleton, FS_Union
      <4>2. IsFiniteSet(under) BY <4>1, FS_Subset
      <4>3. under \in SUBSET Int /\ 0 \in under BY <2>0, <1>8
      <4> HIDE DEF under
      <4> QED BY <4>2, <4>3, Extremes
    <3>2. /\ hi \in over /\ \A k \in over : hi <= k
      <4>1. IsFiniteSet(over) BY <1>2, FS_Subset
      <4>2. over \in SUBSET Int /\ Max(K) \in over BY <2>0, <2>1, <2>3
      <4> HIDE DEF over
      <4> QED BY <4>1, <4>2, Extremes
    <3> HIDE DEF lo, hi
    <3>3. lo \in {0} \cup K /\ hi \in K /\ lo \in Nat /\ hi \in Nat /\ lo < s /\ s < hi
      BY <1>2, <3>1, <3>2
    <3>4. \A k \in K : k <= lo \/ hi <= k
      BY <1>2, <1>8, <3>1, <3>2
    <3> HIDE DEF under, over
    <3> DEFINE x == PayoffAt(legs, s)
               y == PayoffAt(legs, lo)
               z == PayoffAt(legs, hi)
               a == hi - s
               b == s - lo
    <3>5. (hi - lo) * x = a * y + b * z
      BY <1>4, <3>3, <3>4, PayoffBetweenStrikes
    <3>6. /\ x \in Int /\ y \in Int /\ z \in Int
          /\ Min(payoffs) <= y /\ y <= Max(payoffs) /\ Min(payoffs) <= z /\ z <= Max(payoffs)
      BY <1>1, <1>5, <1>6, <3>3
    <3>7. a \in Nat /\ b \in Nat /\ a > 0 /\ b > 0 /\ hi - lo = a + b
      BY <3>3
    <3> HIDE DEF x, y, z, a, b
    <3>8. \A m \in Int : m <= y /\ m <= z => m <= x
      <4> SUFFICES ASSUME NEW m \in Int, m <= y, m <= z, ~(m <= x) PROVE FALSE
        OBVIOUS
      <4>1. a * y >= a * m /\ b * z >= b * m
        BY <3>6, <3>7
      <4>2. (a + b) * x < (a + b) * m
        BY <3>6, <3>7
      <4>3. (a + b) * m = a * m + b * m
        BY <3>7
      <4>4. {a * y, b * z, a * m, b * m, (a + b) * x} \subseteq Int
        BY <3>6, <3>7
      <4> QED BY <3>5, <3>7, <4>1, <4>2, <4>3, <4>4
    <3>9. \A m \in Int : y <= m /\ z <= m => x <= m
      <4> SUFFICES ASSUME NEW m \in Int, y <= m, z <= m, ~(x <= m) PROVE FALSE
        OBVIOUS
      <4>1. a * y <= a * m /\ b * z <= b * m
        BY <3>6, <3>7
      <4>2. (a + b) * x > (a + b) * m
        BY <3>6, <3>7
      <4>3. (a + b) * m = a * m + b * m
        BY <3>7
      <4>4. {a * y, b * z, a * m, b * m, (a + b) * x} \subseteq Int
        BY <3>6, <3>7
      <4> QED BY <3>5, <3>7, <4>1, <4>2, <4>3, <4>4
    <3> QED BY <1>6, <3>6, <3>8, <3>9 DEF x
  <2> QED BY <2>1, <2>2, <2>3
<1> QED BY <1>1, <1>7, <1>8 DEF payoffs

-----------------------------------------------------------------------------
(* A leg that is quoted is filled within half the spread of what the tables *)
(* say of it, whichever side is paid.                                       *)
LEMMA FillsNearTheo ==
    ASSUME NEW u, NEW now \in Int, NEW price \in Int, NEW gone, NEW dead,
           NEW snap, snap = Snapshot(u, now, price, gone, dead),
           NEW c \in Legs(snap), Contract(c) = c, Mid(snap, c) > 0, NEW q
    PROVE  /\ FillPrice(snap, c, q) \in Int /\ Theo(c, now, price) \in Int
           /\ Theo(c, now, price) - HalfSpread <= FillPrice(snap, c, q)
           /\ FillPrice(snap, c, q) <= Theo(c, now, price) + HalfSpread
<1> DEFINE L == {Leg(e, k, s) : e \in {x \in Expiries : x >= now}, k \in Strikes \ gone, s \in Sides}
           theo == Theo(c, now, price)
           isDead == c.strike \in dead
           b == Bid(snap, c)
           a == Ask(snap, c)
           offset == ((a - b) * OffsetPct) \div 200
<1>1. snap.quotes = [l \in L |-> Quote(l, now, price, l.strike \in dead)]
  BY DEF Snapshot
<1>2. c \in L
  <2> HIDE DEF L
  <2> QED BY <1>1 DEF Legs
<1>3. c \in ListedLegs
  BY <1>2 DEF Leg, ListedLegs
<1>4. theo \in Int /\ HalfSpread \in Nat /\ OffsetPct \in Nat /\ OffsetPct <= 100
  BY <1>3, TheoIsInteger, ChainAssumption
<1>5. b = Quote(c, now, price, isDead).bid /\ a = Quote(c, now, price, isDead).ask
  <2>1. snap.quotes[c] = Quote(c, now, price, isDead)
    <3> HIDE DEF L
    <3> QED BY <1>1, <1>2
  <2> QED BY <2>1 DEF Bid, Ask
<1> HIDE DEF theo
<1>6. IF isDead THEN b = 0 /\ a = 0
      ELSE a = theo + HalfSpread /\ b = AtLeast(0, theo - HalfSpread)
  BY <1>5 DEF Quote, theo
<1>7. Mid(snap, c) = IF b <= 0 THEN a ELSE IF a <= 0 THEN b ELSE (a + b) \div 2
  BY DEF Mid
<1>8. FillPrice(snap, c, q) = IF b <= 0 \/ a <= 0 THEN Mid(snap, c)
                              ELSE IF q > 0 THEN Mid(snap, c) + offset ELSE Mid(snap, c) - offset
  BY DEF FillPrice
<1>9. offset = ((a - b) * OffsetPct) \div 200
  OBVIOUS
<1> DEFINE mid == Mid(snap, c)
           fill == FillPrice(snap, c, q)
<1> HIDE DEF isDead, b, a, offset, mid, fill
<1>10. ~isDead
  BY <1>6, <1>7
<1>11. CASE theo - HalfSpread <= 0
  <2>1. b = 0
    BY <1>4, <1>6, <1>10, <1>11 DEF AtLeast
  <2>2. fill = a /\ a = theo + HalfSpread
    BY <1>6, <1>7, <1>8, <1>10, <2>1 DEF fill, mid
  <2> QED BY <1>4, <2>2 DEF fill, theo
<1>12. CASE theo - HalfSpread > 0
  <2>1. b = theo - HalfSpread /\ a = theo + HalfSpread /\ a \in Nat /\ b \in Nat /\ b > 0 /\ a > 0
    BY <1>4, <1>6, <1>10, <1>12 DEF AtLeast
  <2>2. mid = theo
    <3>1. mid = (a + b) \div 2 BY <1>7, <2>1 DEF mid
    <3>2. a + b = 2 * theo BY <1>4, <2>1
    <3> QED BY <1>4, <3>1, <3>2
  <2>3. 0 <= offset /\ offset <= HalfSpread /\ offset \in Int
    <3>1. a - b = 2 * HalfSpread BY <1>4, <2>1
    <3>2. 0 <= HalfSpread * OffsetPct /\ HalfSpread * OffsetPct <= HalfSpread * 100
      BY <1>4
    <3>3. (a - b) * OffsetPct = 2 * (HalfSpread * OffsetPct)
      BY <1>4, <3>1
    <3> DEFINE x == HalfSpread * OffsetPct
    <3>4. x \in Int /\ offset = (2 * x) \div 200 /\ 0 <= x /\ x <= HalfSpread * 100
      BY <1>4, <1>9, <3>2, <3>3
    <3> HIDE DEF x
    <3> QED BY <1>4, <3>4
  <2>4. fill = mid + offset \/ fill = mid - offset
    BY <1>8, <2>1 DEF fill, mid
  <2> QED BY <1>4, <2>2, <2>3, <2>4 DEF fill, theo
<1> QED BY <1>4, <1>11, <1>12

(* What the chain says a hedged position of one expiry is worth lies between *)
(* what it pays at the worst and at the best of the sampled prices.          *)
LEMMA WorthWithinPayoffs ==
    ASSUME NEW legs, AreLegs(legs), Hedged(legs),
           NEW price \in Prices \cup Range(Other), NEW e \in Expiries, NEW now \in 0..e,
           \A l \in legs : l.expiry = e /\ Contract(l) \in ListedLegs
    PROVE  LET payoffs == {PayoffAt(legs, p) : p \in SamplePrices(legs)}
               worth == Total([l \in legs |-> l.quantity * Theo(Contract(l), now, price)], legs)
           IN  worth \in Int /\ Min(payoffs) <= worth /\ worth <= Max(payoffs)
<1> DEFINE payoffs == {PayoffAt(legs, p) : p \in SamplePrices(legs)}
           law == Outlook[price][e - now]
           D == DOMAIN law
           W == SumFunction(law)
           q == [l \in legs |-> l.quantity]
           v == [l \in legs |-> Theo(Contract(l), now, price)]
           m == [l \in legs |-> [s \in D |-> IntrinsicAt(l, s)]]
           M == [l \in legs |-> [s \in D |-> law[s] * IntrinsicAt(l, s)]]
           R == [s \in D |-> [l \in legs |-> l.quantity * IntrinsicAt(l, s)]]
           value == [l \in legs |-> l.quantity * Theo(Contract(l), now, price)]
           A == Total(value, legs)
           B == [s \in D |-> law[s] * Total(R[s], legs)]
<1>1. /\ IsFiniteSet(D) /\ D \subseteq Nat /\ Range(law) \subseteq Nat /\ W > 0
      /\ \A k \in Strikes, side \in Sides : W * Theo(Leg(e, k, side), now, price) = Mean(law, Leg(e, k, side))
  BY OutlookAssumption, Zenon
<1>2. \A s \in D : s \in Nat /\ law[s] \in Nat
  <2> HIDE DEF law
  <2> QED BY <1>1 DEF Range
<1>3. W \in Nat /\ W = Total(law, D)
  <2> HIDE DEF law
  <2>1. W = Total(law, D) BY SumFunctionIsTotal
  <2> QED BY <1>1, <1>2, <2>1, TotalIsNatural
<1>4. IsFiniteSet(legs)
  BY DEF AreLegs
<1>5. now \in Int /\ price \in Int /\ e \in Nat
  <2>1. Expiries \subseteq Nat BY ChainAssumption
  <2>2. Prices \subseteq Nat /\ Other \in [Prices -> Nat \ {0}] BY BacktestAssumption
  <2> QED BY <2>1, <2>2 DEF Range
<1>6. \A l \in legs : q[l] \in Int /\ v[l] \in Int
  BY <1>5, TheoIsInteger DEF AreLegs
<1>7. \A l \in legs : \A s \in D : m[l][s] \in Int
  <2>1. ASSUME NEW s \in D PROVE \A l \in legs : IntrinsicAt(l, s) \in Int
    <3>1. s \in Int
      <4> HIDE DEF D
      <4> QED BY <1>2
    <3> QED BY <3>1, PayoffIsTotal
  <2> QED BY <2>1
<1>8. ASSUME NEW l \in legs PROVE W * v[l] = Total(M[l], D)
  <2> DEFINE c == Contract(l)
             g == M[l]
  <2>1. c = Leg(e, l.strike, l.side) /\ l.strike \in Strikes /\ l.side \in Sides
    BY DEF Contract, Leg, ListedLegs
  <2>2. W * v[l] = Mean(law, c)
    BY <1>1, <2>1
  <2>3. \A s : IntrinsicAt(c, s) = IntrinsicAt(l, s)
    BY DEF Contract, Leg, IntrinsicAt
  <2>4. [s \in D |-> law[s] * IntrinsicAt(c, s)] = g
    BY <2>3
  <2>5. Mean(law, c) = SumFunction(g) /\ DOMAIN g = D
    BY <2>4 DEF Mean
  <2> HIDE DEF g, c, W, v
  <2>6. SumFunction(g) = Total(g, D)
    BY <2>5, SumFunctionIsTotal
  <2> QED BY <2>2, <2>5, <2>6 DEF g
<1>9. W * A = Total(B, D)
  <2>1. W \in Int /\ IsFiniteSet(D) /\ \A s \in D : law[s] \in Int
    BY <1>1, <1>2, <1>3
  <2>2. \A l \in legs : q[l] \in Int /\ v[l] \in Int /\ value[l] = q[l] * v[l]
    BY <1>6
  <2>3. \A l \in legs : \A s \in D : m[l][s] \in Int /\ M[l][s] = law[s] * m[l][s]
    BY <1>7
  <2>4. \A l \in legs : \A s \in D : R[s][l] = q[l] * m[l][s]
    OBVIOUS
  <2>5. \A s \in D : B[s] = law[s] * Total(R[s], legs)
    <3> HIDE DEF R
    <3> QED OBVIOUS
  <2>6. \A l \in legs : W * v[l] = Total(M[l], D)
    BY <1>8
  <2> HIDE DEF law, D, W, q, v, m, M, R, B, value
  <2>7. FairTable(D, law, W, legs, q, v, m, value, M, R, B)
    BY <1>4, <2>1, <2>2, <2>3, <2>4, <2>5, <2>6 DEF FairTable
  <2> QED BY <2>7, MeanOfTotals
<1>10. A \in Int
  <2>1. \A l \in legs : value[l] \in Int
    BY <1>6
  <2> HIDE DEF value
  <2> QED BY <1>4, <2>1, TotalRules
<1>11. \A s \in D : s \in Int /\ Total(R[s], legs) = PayoffAt(legs, s)
  <2> SUFFICES ASSUME NEW s \in D PROVE s \in Int /\ Total(R[s], legs) = PayoffAt(legs, s)
    OBVIOUS
  <2>1. s \in Int
    <3> HIDE DEF D
    <3> QED BY <1>2
  <2>2. R[s] = [l \in legs |-> l.quantity * IntrinsicAt(l, s)]
    OBVIOUS
  <2>3. PayoffAt(legs, s) = Total([l \in legs |-> l.quantity * IntrinsicAt(l, s)], legs)
    BY <2>1, PayoffIsTotal
  <2> QED BY <2>1, <2>2, <2>3
<1> DEFINE pay(s) == PayoffAt(legs, s)
<1>12. \A s \in D : B[s] = law[s] * pay(s)
  BY <1>11
<1>13. Min(payoffs) \in Int /\ Max(payoffs) \in Int
  <2>1. IsFiniteSet(payoffs) /\ payoffs # {} /\ payoffs \in SUBSET Int
    BY SampledPayoffs DEF AreLegs
  <2> HIDE DEF payoffs
  <2> QED BY <2>1, Extremes
<1>14. \A s \in D : pay(s) \in Int /\ Min(payoffs) <= pay(s) /\ pay(s) <= Max(payoffs)
  <2> HIDE DEF pay, D
  <2> QED BY <1>2, SamplesAreEnough DEF pay
<1> HIDE DEF law, D, W, payoffs, A, B, pay
<1> DEFINE lo == Min(payoffs)
           hi == Max(payoffs)
           Low == [s \in D |-> law[s] * lo]
           High == [s \in D |-> law[s] * hi]
           Zero == [s \in D |-> 0]
<1>15. \A s \in D : /\ law[s] \in Int /\ Zero[s] \in Int
                    /\ Low[s] \in Int /\ B[s] \in Int /\ High[s] \in Int
                    /\ 1 * Low[s] = lo * law[s] + 1 * Zero[s]
                    /\ 1 * High[s] = hi * law[s] + 1 * Zero[s]
                    /\ Low[s] <= B[s] /\ B[s] <= High[s]
  <2> SUFFICES ASSUME NEW s \in D
               PROVE  /\ law[s] \in Int /\ Zero[s] \in Int
                      /\ Low[s] \in Int /\ B[s] \in Int /\ High[s] \in Int
                      /\ 1 * Low[s] = lo * law[s] + 1 * Zero[s]
                      /\ 1 * High[s] = hi * law[s] + 1 * Zero[s]
                      /\ Low[s] <= B[s] /\ B[s] <= High[s]
    OBVIOUS
  <2> DEFINE w == law[s]
             p == pay(s)
  <2>1. w \in Nat /\ lo \in Int /\ hi \in Int /\ p \in Int /\ lo <= p /\ p <= hi
    BY <1>2, <1>13, <1>14
  <2>2. Low[s] = w * lo /\ B[s] = w * p /\ High[s] = w * hi /\ Zero[s] = 0
    BY <1>12
  <2> HIDE DEF Low, High, Zero, lo, hi, w, p
  <2>3. w * lo <= w * p /\ w * p <= w * hi /\ w * lo \in Int /\ w * p \in Int /\ w * hi \in Int
    BY <2>1
  <2>4. 1 * (w * lo) = lo * w + 1 * 0 /\ 1 * (w * hi) = hi * w + 1 * 0
    BY <2>1
  <2>5. w \in Int /\ w = law[s]
    BY <2>1 DEF w
  <2> QED BY <2>2, <2>3, <2>4, <2>5
<1>16. lo \in Int /\ hi \in Int /\ Total(Zero, D) = 0
  <2>1. \A s \in D : Zero[s] = 0
    OBVIOUS
  <2> HIDE DEF Zero
  <2>2. Total(Zero, D) = 0
    BY <1>1, <2>1, TotalOfZeros
  <2> QED BY <1>13, <2>2
<1> HIDE DEF Low, High, Zero, lo, hi
<1>17. /\ 1 * Total(Low, D) = lo * Total(law, D) + 1 * Total(Zero, D)
       /\ 1 * Total(High, D) = hi * Total(law, D) + 1 * Total(Zero, D)
  <2>1. IsFiniteSet(D)
    BY <1>1
  <2>2. 1 * Total(Low, D) = lo * Total(law, D) + 1 * Total(Zero, D)
    <3>1. \A s \in D : Low[s] \in Int /\ law[s] \in Int /\ Zero[s] \in Int
      BY <1>15
    <3>2. \A s \in D : 1 * Low[s] = lo * law[s] + 1 * Zero[s]
      BY <1>15
    <3>3. lo \in Int BY <1>16
    <3> QED BY <2>1, <3>1, <3>2, <3>3, TotalIsLinear
  <2>3. 1 * Total(High, D) = hi * Total(law, D) + 1 * Total(Zero, D)
    <3>1. \A s \in D : High[s] \in Int /\ law[s] \in Int /\ Zero[s] \in Int
      BY <1>15
    <3>2. \A s \in D : 1 * High[s] = hi * law[s] + 1 * Zero[s]
      BY <1>15
    <3>3. hi \in Int BY <1>16
    <3> QED BY <2>1, <3>1, <3>2, <3>3, TotalIsLinear
  <2> QED BY <2>2, <2>3
<1>18. Total(Low, D) <= Total(B, D) /\ Total(B, D) <= Total(High, D)
  BY <1>1, <1>15, TotalIsMonotone
<1>19. /\ Total(Low, D) \in Int /\ Total(High, D) \in Int /\ Total(B, D) \in Int
       /\ Total(law, D) \in Int /\ Total(Zero, D) \in Int
  BY <1>1, <1>15, TotalRules
<1>20. lo * W <= W * A /\ W * A <= hi * W
  BY <1>3, <1>9, <1>16, <1>17, <1>18, <1>19
<1>21. lo <= A /\ A <= hi
  <2>1. W \in Nat /\ W > 0 /\ A \in Int
    BY <1>1, <1>3, <1>10
  <2>2. ~(lo <= A) => lo * W > W * A
    BY <1>16, <2>1
  <2>3. ~(A <= hi) => W * A > hi * W
    BY <1>16, <2>1
  <2>4. lo * W \in Int /\ W * A \in Int /\ hi * W \in Int
    BY <1>16, <2>1
  <2> QED BY <1>16, <1>20, <2>1, <2>2, <2>3, <2>4
<1> QED BY <1>10, <1>21 DEF lo, hi, payoffs, A, value

(* Closing a hedged position on a snapshot of an outlook that is quoted for *)
(* all its legs loses no more than was set aside and earns no more than the *)
(* legs can pay, but for the spread.                                        *)
LEMMA ClosedWithinPayoffs ==
    ASSUME NEW pos \in Positions, Hedged(pos.legs), pos.maxLoss = MaxLoss(pos.legs, pos.credit),
           NEW u, NEW now \in Nat, NEW price \in Prices \cup Range(Other), NEW gone, NEW dead,
           NEW snap, snap = Snapshot(u, now, price, gone, dead),
           \A l \in pos.legs : Contract(l) \in Legs(snap) /\ Mid(snap, l) > 0,
           Cardinality(ExpiriesOf(pos.legs)) = 1
    PROVE  /\ - ClosedPnl(snap, pos) <= pos.maxLoss + Crossing(pos.legs)
           /\ ClosedPnl(snap, pos) <= pos.credit + BestPayoff(pos.legs) + Crossing(pos.legs)
<1> DEFINE legs == pos.legs
           payoffs == {PayoffAt(legs, p) : p \in SamplePrices(legs)}
           f == [l \in legs |-> l.quantity * ClosePrice(snap, l)]
           g == [l \in legs |-> l.quantity * Theo(Contract(l), now, price)]
           h == [l \in legs |-> AtLeast(- l.quantity, l.quantity) * HalfSpread]
           L == {Leg(e, k, s) : e \in {x \in Expiries : x >= now}, k \in Strikes \ gone, s \in Sides}
<1>0. AreLegs(legs) /\ IsFiniteSet(legs) /\ pos.credit \in Int /\ price \in Int /\ now \in Int
  <2>1. legs \in SetsOf(PricedLegs) /\ pos.credit \in Int
    BY DEF Positions
  <2>2. AreLegs(legs)
    BY <2>1 DEF SetsOf, PricedLegs, AreLegs
  <2>3. Prices \subseteq Nat /\ Other \in [Prices -> Nat \ {0}] BY BacktestAssumption
  <2> QED BY <2>1, <2>2, <2>3 DEF AreLegs, Range
<1>1. Legs(snap) = L
  BY DEF Snapshot, Legs
<1>2. \A l \in legs : Contract(l) \in ListedLegs /\ l.expiry \in Expiries /\ l.expiry >= now
  <2> SUFFICES ASSUME NEW l \in legs
               PROVE  Contract(l) \in ListedLegs /\ l.expiry \in Expiries /\ l.expiry >= now
    OBVIOUS
  <2>1. Contract(l) \in L
    BY <1>1
  <2>2. PICK x \in {y \in Expiries : y >= now}, k \in Strikes \ gone, s \in Sides : Contract(l) = Leg(x, k, s)
    BY <2>1
  <2>3. l.expiry = x
    BY <2>2 DEF Contract, Leg
  <2>4. Leg(x, k, s) \in ListedLegs
    BY DEF Leg, ListedLegs
  <2> QED BY <2>2, <2>3, <2>4
<1>3. PICK e : ExpiriesOf(legs) = {e}
  <2>1. IsFiniteSet(ExpiriesOf(legs))
    BY PositionArithmetic DEF Positions
  <2> QED BY <2>1, FS_Singleton
<1>4. e \in Expiries /\ now \in 0..e /\ \A l \in legs : l.expiry = e
  <2>1. \A l \in legs : l.expiry = e
    BY <1>3 DEF ExpiriesOf
  <2>2. e \in Expiries /\ e >= now
    BY <1>0, <1>2, <2>1 DEF AreLegs
  <2>3. e \in Nat
    BY <2>2, ChainAssumption
  <2> QED BY <2>1, <2>2, <2>3
<1>5. Total(g, legs) \in Int /\ Min(payoffs) <= Total(g, legs) /\ Total(g, legs) <= Max(payoffs)
  <2> HIDE DEF legs
  <2> QED BY <1>0, <1>2, <1>4, WorthWithinPayoffs DEF legs
<1>6. ASSUME NEW l \in legs
      PROVE  /\ f[l] \in Int /\ g[l] \in Int /\ h[l] \in Int
             /\ f[l] <= g[l] + h[l] /\ g[l] <= f[l] + h[l]
  <2> DEFINE c == Contract(l)
             fill == FillPrice(snap, c, - l.quantity)
             theo == Theo(c, now, price)
             q == l.quantity
  <2>1. Contract(c) = c /\ Mid(snap, c) = Mid(snap, l) /\ c \in Legs(snap)
    BY DEF Contract, Leg, Mid, Bid, Ask
  <2>2. fill \in Int /\ theo \in Int /\ theo - HalfSpread <= fill /\ fill <= theo + HalfSpread
    <3> HIDE DEF c
    <3> QED BY <1>0, <2>1, FillsNearTheo
  <2>3. f[l] = q * fill /\ g[l] = q * theo /\ h[l] = AtLeast(- q, q) * HalfSpread
    BY <2>1 DEF ClosePrice
  <2>4. q \in Int /\ HalfSpread \in Nat
    BY <1>0, ChainAssumption DEF AreLegs
  <2> HIDE DEF fill, theo, q, f, g, h
  <2> DEFINE d == fill - theo
             n == AtLeast(- q, q)
  <2>5. /\ d \in Int /\ - HalfSpread <= d /\ d <= HalfSpread
        /\ n \in Nat /\ - n <= q /\ q <= n
    BY <2>2, <2>4 DEF AtLeast
  <2>6. q * fill = q * theo + q * d
    BY <2>2, <2>4
  <2> HIDE DEF d, n
  <2>7. q * d <= n * HalfSpread /\ - (n * HalfSpread) <= q * d
    <3>1. CASE q >= 0
      <4>1. q * d <= q * HalfSpread /\ - (q * HalfSpread) <= q * d
        BY <2>4, <2>5, <3>1
      <4>2. q * HalfSpread <= n * HalfSpread
        BY <2>4, <2>5, <3>1
      <4>3. {q * d, q * HalfSpread, n * HalfSpread} \subseteq Int
        BY <2>4, <2>5
      <4> QED BY <4>1, <4>2, <4>3
    <3>2. CASE q < 0
      <4>1. q * d <= (- q) * HalfSpread /\ - ((- q) * HalfSpread) <= q * d
        BY <2>4, <2>5, <3>2
      <4>2. (- q) * HalfSpread <= n * HalfSpread
        BY <2>4, <2>5, <3>2
      <4>3. {q * d, (- q) * HalfSpread, n * HalfSpread} \subseteq Int
        BY <2>4, <2>5
      <4> QED BY <4>1, <4>2, <4>3
    <3> QED BY <2>4, <3>1, <3>2
  <2>8. q * fill \in Int /\ q * theo \in Int /\ q * d \in Int /\ n * HalfSpread \in Int
    BY <2>2, <2>4, <2>5
  <2>9. h[l] = n * HalfSpread
    BY <2>3 DEF n
  <2> QED BY <2>3, <2>6, <2>7, <2>8, <2>9
<1>7. ClosedPnl(snap, pos) = pos.credit + Total(f, legs) /\ Crossing(legs) = Total(h, legs)
  <2>1. DOMAIN f = legs /\ DOMAIN h = legs
    OBVIOUS
  <2>2. ClosedPnl(snap, pos) = pos.credit + SumFunction(f) /\ Crossing(legs) = SumFunction(h)
    BY DEF ClosedPnl, Crossing
  <2> HIDE DEF f, h
  <2> QED BY <2>1, <2>2, SumFunctionIsTotal
<1>8. BestPayoff(legs) = Max(payoffs)
      /\ pos.maxLoss = AtLeast(0, - pos.credit - Min({0} \cup payoffs))
  BY DEF BestPayoff, MaxLoss
<1>9. /\ Min(payoffs) \in Int /\ Max(payoffs) \in Int
      /\ Min({0} \cup payoffs) \in Int /\ Min({0} \cup payoffs) <= Min(payoffs)
  <2>1. IsFiniteSet(payoffs) /\ payoffs # {} /\ payoffs \in SUBSET Int
    BY <1>0, SampledPayoffs DEF AreLegs
  <2> HIDE DEF payoffs
  <2>2. IsFiniteSet({0} \cup payoffs) /\ {0} \cup payoffs # {} /\ {0} \cup payoffs \in SUBSET Int
    <3>1. IsFiniteSet({0} \cup payoffs)
      BY <2>1, FS_Singleton, FS_Union
    <3> QED BY <2>1, <3>1
  <2>3. Min(payoffs) \in payoffs /\ Max(payoffs) \in payoffs
    BY <2>1, Extremes
  <2>4. Min({0} \cup payoffs) \in {0} \cup payoffs /\ \A x \in {0} \cup payoffs : Min({0} \cup payoffs) <= x
    BY <2>2, Extremes
  <2> QED BY <2>1, <2>2, <2>3, <2>4
<1> HIDE DEF f, g, h, payoffs, legs
<1> DEFINE gh == [l \in legs |-> g[l] + h[l]]
           fh == [l \in legs |-> f[l] + h[l]]
<1>10. \A l \in legs : /\ gh[l] \in Int /\ fh[l] \in Int
                       /\ 1 * gh[l] = 1 * g[l] + 1 * h[l] /\ 1 * fh[l] = 1 * f[l] + 1 * h[l]
                       /\ f[l] <= gh[l] /\ g[l] <= fh[l]
  BY <1>6
<1> HIDE DEF gh, fh
<1>11. /\ 1 * Total(gh, legs) = 1 * Total(g, legs) + 1 * Total(h, legs)
       /\ 1 * Total(fh, legs) = 1 * Total(f, legs) + 1 * Total(h, legs)
  BY <1>0, <1>6, <1>10, TotalIsLinear
<1>12. Total(f, legs) <= Total(gh, legs) /\ Total(g, legs) <= Total(fh, legs)
  BY <1>0, <1>6, <1>10, TotalIsMonotone
<1>13. {Total(f, legs), Total(g, legs), Total(h, legs), Total(gh, legs), Total(fh, legs)} \subseteq Int
  BY <1>0, <1>6, <1>10, TotalRules
<1>14. /\ - ClosedPnl(snap, pos) <= pos.maxLoss + Crossing(legs)
       /\ ClosedPnl(snap, pos) <= pos.credit + BestPayoff(legs) + Crossing(legs)
  BY <1>0, <1>5, <1>7, <1>8, <1>9, <1>11, <1>12, <1>13 DEF AtLeast
<1> QED BY <1>14 DEF legs

(* Orders made of legs, and no call in them that is not sold against one.   *)
AnOrder(legs) == /\ Hedged(legs)
                 /\ \A l \in legs : l = OrderLeg(l.expiry, l.strike, l.side, l.quantity)

(* No strategy asks for a call it does not sell another one against.        *)
LEMMA OrdersAreHedged ==
    ASSUME NEW snap, NEW id \in BaseIds, NEW legs \in OrdersOf(id, snap)
    PROVE  AnOrder(legs)
<1>1. \A e : (\A l \in Puts(snap, e) : l.side = "put") /\ (\A l \in Calls(snap, e) : l.side = "call")
  BY DEF Puts, Calls, ForExpiry
<1>2. \A S, l : Below(S, l) \subseteq S /\ Above(S, l) \subseteq S
  BY DEF Below, Above
<1>3. \A S, t : ClosestDelta(snap, S, t) \subseteq S
  BY DEF ClosestDelta, FirstNearest
<1>4. \A S, k : ClosestStrike(S, k) \subseteq S
  BY DEF ClosestStrike, FirstNearest
<1>5. \A S, b, k : Higher(S, b, k) \subseteq S /\ Lower(S, b, k) \subseteq S
  BY <1>2, <1>4 DEF Higher, Lower
<1>6. \A l : /\ Buy(l).side = l.side /\ Buy(l).quantity = 1
             /\ Sell(l).side = l.side /\ Sell(l).quantity = -1
             /\ SellTwo(l).side = l.side
  BY DEF Buy, Sell, SellTwo, OrderLeg
<1>7. \A l : \A x \in {Buy(l), Sell(l), SellTwo(l)} : x = OrderLeg(x.expiry, x.strike, x.side, x.quantity)
  BY DEF Buy, Sell, SellTwo, OrderLeg
<1>8. ASSUME NEW s, NEW w, s.side = "put", w.side = "put"
      PROVE  AnOrder({Sell(s), Buy(w)}) /\ AllPuts({Sell(s), Buy(w)})
  BY <1>6, <1>7, <1>8 DEF AnOrder, Hedged, AllPuts
<1>9. ASSUME NEW s, NEW w, s.side = "call", w.side = "call"
      PROVE  AnOrder({Sell(s), Buy(w)})
  <2> DEFINE L == {Sell(s), Buy(w)}
  <2>1. AllPuts(L \ {Buy(w), Sell(s)})
    BY DEF AllPuts
  <2>2. /\ Buy(w) \in L /\ Buy(w).side = "call" /\ Buy(w).quantity = 1
        /\ Sell(s) \in L /\ Sell(s).side = "call" /\ Sell(s).quantity = -1
    BY <1>6, <1>9
  <2>3. \A l \in L : l = OrderLeg(l.expiry, l.strike, l.side, l.quantity)
    BY <1>7
  <2> HIDE DEF L
  <2>4. AnOrder(L)
    BY <2>1, <2>2, <2>3 DEF AnOrder, Hedged
  <2> QED BY <2>4 DEF L
<1>10. ASSUME NEW a, NEW b, AllPuts(a), AnOrder(a), AnOrder(b)
       PROVE  AnOrder(a \cup b)
  <2>1. \A l \in a \cup b : l = OrderLeg(l.expiry, l.strike, l.side, l.quantity)
    BY <1>10 DEF AnOrder
  <2>2. CASE AllPuts(b)
    BY <1>10, <2>1, <2>2 DEF AllPuts, Hedged, AnOrder
  <2>3. CASE ~AllPuts(b)
    <3>1. PICK x \in b, y \in b : /\ x.side = "call" /\ x.quantity = 1
                                 /\ y.side = "call" /\ y.quantity = -1 /\ AllPuts(b \ {x, y})
      BY <1>10, <2>3 DEF Hedged, AnOrder
    <3>2. AllPuts((a \cup b) \ {x, y}) /\ x \in a \cup b /\ y \in a \cup b
      BY <1>10, <3>1 DEF AllPuts
    <3>3. Hedged(a \cup b)
      BY <3>1, <3>2 DEF Hedged
    <3> QED BY <2>1, <3>3 DEF AnOrder
  <2> QED BY <2>2, <2>3
<1>11. ASSUME NEW a, AnOrder(a) PROVE AnOrder({[l EXCEPT !.quantity = - @] : l \in a})
  <2> DEFINE turned(l) == [l EXCEPT !.quantity = - @]
             b == {turned(l) : l \in a}
  <2>1. \A l \in a : turned(l) = OrderLeg(l.expiry, l.strike, l.side, - l.quantity)
    BY <1>11 DEF AnOrder, OrderLeg
  <2> HIDE DEF turned
  <2>2. \A l \in a : /\ turned(l).side = l.side /\ turned(l).quantity = - l.quantity
                     /\ turned(l) = OrderLeg(turned(l).expiry, turned(l).strike, turned(l).side, turned(l).quantity)
    BY <2>1 DEF OrderLeg
  <2>3. \A l \in b : l = OrderLeg(l.expiry, l.strike, l.side, l.quantity)
    BY <2>2
  <2>4. CASE AllPuts(a)
    <3>1. AllPuts(b)
      BY <2>2, <2>4 DEF AllPuts
    <3> HIDE DEF b
    <3>2. AnOrder(b)
      BY <2>3, <3>1 DEF AnOrder, Hedged
    <3> QED BY <3>2 DEF b, turned
  <2>5. CASE ~AllPuts(a)
    <3>1. PICK x \in a, y \in a : /\ x.side = "call" /\ x.quantity = 1
                                 /\ y.side = "call" /\ y.quantity = -1 /\ AllPuts(a \ {x, y})
      BY <1>11, <2>5 DEF Hedged, AnOrder
    <3>2. /\ turned(y) \in b /\ turned(y).side = "call" /\ turned(y).quantity = 1
          /\ turned(x) \in b /\ turned(x).side = "call" /\ turned(x).quantity = -1
      BY <2>2, <3>1
    <3>3. AllPuts(b \ {turned(y), turned(x)})
      BY <2>2, <3>1 DEF AllPuts
    <3> HIDE DEF b
    <3>4. Hedged(b)
      BY <3>2, <3>3 DEF Hedged
    <3>5. AnOrder(b)
      BY <2>3, <3>4 DEF AnOrder
    <3> QED BY <3>5 DEF b, turned
  <2> QED BY <2>4, <2>5
<1>12. \A e, x, y : \A a \in PutSpread(snap, e, x, y) : AllPuts(a) /\ AnOrder(a)
  <2> SUFFICES ASSUME NEW e, NEW x, NEW y,
                      NEW s \in ClosestDelta(snap, Puts(snap, e), - x),
                      NEW w \in ClosestDelta(snap, Below(Puts(snap, e), s), - y)
               PROVE  AllPuts({Sell(s), Buy(w)}) /\ AnOrder({Sell(s), Buy(w)})
    BY DEF PutSpread
  <2>1. s.side = "put" /\ w.side = "put"
    BY <1>1, <1>2, <1>3
  <2> QED BY <1>8, <2>1
<1>13. \A e, x, y : \A a \in CallSpread(snap, e, x, y) : AnOrder(a)
  <2> SUFFICES ASSUME NEW e, NEW x, NEW y,
                      NEW s \in ClosestDelta(snap, Calls(snap, e), x),
                      NEW w \in ClosestDelta(snap, Above(Calls(snap, e), s), y)
               PROVE  AnOrder({Sell(s), Buy(w)})
    BY DEF CallSpread
  <2>1. s.side = "call" /\ w.side = "call"
    BY <1>1, <1>2, <1>3
  <2> QED BY <1>9, <2>1
<1>14. \A e, x, y, u, v : \A a \in Together(PutSpread(snap, e, x, y), CallSpread(snap, e, u, v)) : AnOrder(a)
  BY <1>10, <1>12, <1>13 DEF Together
<1>15. /\ \A a \in PutCreditSpread(snap) : AnOrder(a)
       /\ \A a \in CallCreditSpread(snap) : AnOrder(a)
  BY <1>12, <1>13 DEF PutCreditSpread, CallCreditSpread
<1>16. /\ \A a \in IronCondor(snap) : AnOrder(a)
       /\ \A a \in ShortStrangleDefined(snap) : AnOrder(a)
       /\ \A a \in JadeLizard(snap) : AnOrder(a)
  BY <1>14 DEF IronCondor, ShortStrangleDefined, JadeLizard
<1>17. \A a \in ReverseIronCondor(snap) : AnOrder(a)
  <2>1. \A A : (\A a \in A : AnOrder(a)) => \A a \in Reversed(A) : AnOrder(a)
    BY <1>11 DEF Reversed
  <2> QED BY <1>14, <2>1 DEF ReverseIronCondor
<1>18. \A a \in IronButterfly(snap) : AnOrder(a)
  <2> DEFINE common(e) == {c \in Calls(snap, e) : \E p \in Puts(snap, e) : p.strike = c.strike}
         wings(e, body) ==
            {{Sell(body), Sell([body EXCEPT !.side = "put"]), Buy(c), Buy(p)} :
             c \in ClosestDelta(snap, Above(Calls(snap, e), body), 5),
             p \in ClosestDelta(snap, Below(Puts(snap, e), body), -5)}
  <2>0. IronButterfly(snap) = UNION {UNION {wings(e, body) : body \in ClosestStrike(common(e), snap.price)} :
                                     e \in ExpiryFor(snap, TargetDte)}
    BY DEF IronButterfly
  <2>1. ASSUME NEW e, NEW body \in ClosestStrike(common(e), snap.price), NEW a \in wings(e, body)
        PROVE  AnOrder(a)
    <3>1. PICK c \in ClosestDelta(snap, Above(Calls(snap, e), body), 5),
               p \in ClosestDelta(snap, Below(Puts(snap, e), body), -5) :
             a = {Sell(body), Sell([body EXCEPT !.side = "put"]), Buy(c), Buy(p)}
      BY <2>1
    <3>2. body.side = "call" /\ c.side = "call" /\ p.side = "put"
      <4>1. body \in common(e) BY <1>4
      <4> QED BY <1>1, <1>2, <1>3, <4>1
    <3> DEFINE other == [body EXCEPT !.side = "put"]
    <3>3. other.side = "put"
      OBVIOUS
    <3> HIDE DEF other
    <3>4. AnOrder({Sell(body), Buy(c)}) /\ AnOrder({Sell(other), Buy(p)}) /\ AllPuts({Sell(other), Buy(p)})
      BY <1>8, <1>9, <3>2, <3>3
    <3>5. a = {Sell(other), Buy(p)} \cup {Sell(body), Buy(c)}
      BY <3>1 DEF other
    <3> QED BY <1>10, <3>4, <3>5
  <2> HIDE DEF wings, common
  <2> QED BY <2>0, <2>1
<1>19. \A a \in PutBrokenWingButterfly(snap) : AnOrder(a)
  <2> SUFFICES ASSUME NEW e, NEW body \in ClosestDelta(snap, Puts(snap, e), -20),
                      NEW outer \in Lower(Puts(snap, e), body, OuterWing),
                      NEW inner \in Higher(Puts(snap, e), body, InnerWing)
               PROVE  AnOrder({Buy(outer), SellTwo(body), Buy(inner)})
    BY DEF PutBrokenWingButterfly
  <2>1. body.side = "put" /\ outer.side = "put" /\ inner.side = "put"
    BY <1>1, <1>3, <1>5
  <2> QED BY <1>6, <1>7, <2>1 DEF AnOrder, Hedged, AllPuts
<1>20. \A a \in PutCalendar(snap) : AnOrder(a)
  <2> DEFINE middle(f) == ClosestStrike(Puts(snap, f), snap.price)
             back(f, b) == {l \in UNION {ClosestStrike(Puts(snap, b), m.strike) : m \in middle(f)} :
                               \A m \in middle(f) : Distance(l.strike, m.strike) <= CalendarSlack}
             orders(f, b) == {{Sell([l EXCEPT !.expiry = f]), Buy(l)} : l \in back(f, b)}
  <2>0. PutCalendar(snap) = UNION {orders(x[1], x[2]) : x \in TwoExpiries(snap)}
    BY DEF PutCalendar
  <2>1. ASSUME NEW f, NEW b, NEW a \in orders(f, b) PROVE AnOrder(a)
    <3>1. PICK l \in back(f, b) : a = {Sell([l EXCEPT !.expiry = f]), Buy(l)}
      BY <2>1
    <3>2. l \in Puts(snap, b)
      BY <1>4
    <3>3. l.side = "put" /\ [l EXCEPT !.expiry = f].side = "put"
      BY <1>1, <3>2
    <3> DEFINE near == [l EXCEPT !.expiry = f]
    <3> HIDE DEF near
    <3> QED BY <1>8, <3>1, <3>3 DEF near
  <2> HIDE DEF orders
  <2> QED BY <2>0, <2>1
<1>21. \A a \in PutDiagonal(snap) : AnOrder(a)
  <2> DEFINE orders(f, b) ==
            UNION {{{Sell(s), Buy(l)} : l \in ClosestDelta(snap, Below(Puts(snap, b), s), -10)} :
                   s \in ClosestDelta(snap, Puts(snap, f), -30)}
  <2>0. PutDiagonal(snap) = UNION {orders(x[1], x[2]) : x \in TwoExpiries(snap)}
    BY DEF PutDiagonal
  <2>1. ASSUME NEW f, NEW b, NEW a \in orders(f, b) PROVE AnOrder(a)
    <3>1. PICK s \in ClosestDelta(snap, Puts(snap, f), -30) :
             \E l \in ClosestDelta(snap, Below(Puts(snap, b), s), -10) : a = {Sell(s), Buy(l)}
      BY <2>1
    <3>2. PICK l \in ClosestDelta(snap, Below(Puts(snap, b), s), -10) : a = {Sell(s), Buy(l)}
      BY <3>1
    <3>3. s.side = "put" /\ l.side = "put"
      BY <1>1, <1>2, <1>3
    <3> QED BY <1>8, <3>2, <3>3
  <2> HIDE DEF orders
  <2> QED BY <2>0, <2>1
<1>22. \A a \in CallDiagonal(snap) : AnOrder(a)
  <2> DEFINE orders(f, b) ==
            UNION {{{Sell(s), Buy(l)} : l \in ClosestDelta(snap, Above(Calls(snap, b), s), 10)} :
                   s \in ClosestDelta(snap, Calls(snap, f), 30)}
  <2>0. CallDiagonal(snap) = UNION {orders(x[1], x[2]) : x \in TwoExpiries(snap)}
    BY DEF CallDiagonal
  <2>1. ASSUME NEW f, NEW b, NEW a \in orders(f, b) PROVE AnOrder(a)
    <3>1. PICK s \in ClosestDelta(snap, Calls(snap, f), 30) :
             \E l \in ClosestDelta(snap, Above(Calls(snap, b), s), 10) : a = {Sell(s), Buy(l)}
      BY <2>1
    <3>2. PICK l \in ClosestDelta(snap, Above(Calls(snap, b), s), 10) : a = {Sell(s), Buy(l)}
      BY <3>1
    <3>3. s.side = "call" /\ l.side = "call"
      BY <1>1, <1>2, <1>3
    <3> QED BY <1>9, <3>2, <3>3
  <2> HIDE DEF orders
  <2> QED BY <2>0, <2>1
<1> QED
  BY <1>15, <1>16, <1>17, <1>18, <1>19, <1>20, <1>21, <1>22 DEF OrdersOf, BaseIds

(* The fills of an order keep its legs. *)
LEMMA FillsAreHedged ==
    ASSUME NEW snap, NEW legs, Hedged(legs)
    PROVE  Hedged(Filled(snap, legs))
<1> DEFINE fill(l) == [expiry |-> l.expiry, strike |-> l.strike, side |-> l.side, quantity |-> l.quantity,
                       price |-> FillPrice(snap, Contract(l), l.quantity)]
           new == Filled(snap, legs)
<1>1. new = {fill(l) : l \in legs}
  BY DEF Filled
<1>2. \A l : fill(l).side = l.side /\ fill(l).quantity = l.quantity
  OBVIOUS
<1> HIDE DEF fill, new
<1>3. CASE AllPuts(legs)
  <2>1. AllPuts(new)
    BY <1>1, <1>2, <1>3 DEF AllPuts
  <2> QED BY <2>1 DEF Hedged, new
<1>4. CASE ~AllPuts(legs)
  <2>1. PICK x \in legs, y \in legs : /\ x.side = "call" /\ x.quantity = 1
                                     /\ y.side = "call" /\ y.quantity = -1 /\ AllPuts(legs \ {x, y})
    BY <1>4 DEF Hedged
  <2>2. /\ fill(x) \in new /\ fill(x).side = "call" /\ fill(x).quantity = 1
        /\ fill(y) \in new /\ fill(y).side = "call" /\ fill(y).quantity = -1
    BY <1>1, <1>2, <2>1
  <2>3. AllPuts(new \ {fill(x), fill(y)})
    BY <1>1, <1>2, <2>1 DEF AllPuts
  <2> QED BY <2>2, <2>3 DEF Hedged, new
<1> QED BY <1>3, <1>4

(* Every order and every position is hedged, what was set aside for a       *)
(* position is its greatest loss, and the trades are at possible prices.    *)
PossibleTrade(t) ==
    (t.quoted /\ t.present /\ Cardinality(ExpiriesOf(t.legs)) = 1)
    => /\ - t.pnl <= t.reserve + Crossing(t.legs)
       /\ t.pnl <= t.credit + BestPayoff(t.legs) + Crossing(t.legs)

Secured(pos) == Hedged(pos.legs) /\ pos.maxLoss = MaxLoss(pos.legs, pos.credit)

HedgedBook ==
    /\ \A i \in 1..Len(pending) : Hedged(pending[i].legs)
    /\ \A i \in 1..Len(open) : Secured(open[i])
    /\ \A i \in 1..Len(trades) : PossibleTrade(trades[i])

(* What holds of the elements of a sequence holds of those of a longer one, *)
(* of its tail, and of what is left when one is taken out.                  *)
LEMMA SequencesKeep ==
    ASSUME NEW S, NEW s \in Seq(S), NEW P, \A i \in 1..Len(s) : s[i] \in P
    PROVE  /\ \A x \in S \cap P : \A i \in 1..Len(Append(s, x)) : Append(s, x)[i] \in P
           /\ s # <<>> => Head(s) \in P /\ \A i \in 1..Len(Tail(s)) : Tail(s)[i] \in P
           /\ \A j \in 1..Len(s) : \A i \in 1..Len(RemoveAt(s, j)) : RemoveAt(s, j)[i] \in P
<1>1. Len(s) \in Nat
  BY LenProperties
<1>2. ASSUME NEW x \in S \cap P, NEW i \in 1..Len(Append(s, x))
      PROVE  Append(s, x)[i] \in P
  <2>1. /\ Len(Append(s, x)) = Len(s) + 1 /\ Append(s, x)[Len(s) + 1] = x
        /\ \A k \in 1..Len(s) : Append(s, x)[k] = s[k]
    BY AppendProperties
  <2>2. i \in 1..Len(s) \/ i = Len(s) + 1
    BY <1>1, <2>1
  <2> QED BY <2>1, <2>2
<1>3. ASSUME s # <<>>
      PROVE  Head(s) \in P /\ \A i \in 1..Len(Tail(s)) : Tail(s)[i] \in P
  <2>1. Len(s) # 0 /\ Head(s) = s[1] /\ Len(Tail(s)) = Len(s) - 1 /\ \A i \in 1..Len(Tail(s)) : Tail(s)[i] = s[i + 1]
    BY <1>3, HeadTailProperties, EmptySeq, LenProperties
  <2>2. 1 \in 1..Len(s) /\ \A i \in 1..Len(Tail(s)) : i + 1 \in 1..Len(s)
    BY <1>1, <2>1
  <2> QED BY <2>1, <2>2
<1>4. ASSUME NEW j \in 1..Len(s), NEW i \in 1..Len(RemoveAt(s, j))
      PROVE  RemoveAt(s, j)[i] \in P
  <2>1. /\ Len(RemoveAt(s, j)) = Len(s) - 1
        /\ \A k \in 1..(Len(s) - 1) : RemoveAt(s, j)[k] = s[IF k < j THEN k ELSE k + 1]
    BY RemoveAtSound
  <2>2. i \in 1..(Len(s) - 1) /\ (IF i < j THEN i ELSE i + 1) \in 1..Len(s)
    BY <1>1, <2>1
  <2> QED BY <2>1, <2>2
<1> QED BY <1>2, <1>3, <1>4

LEMMA HedgedBookFill ==
    ASSUME BookTypes, HedgedBook, Fill \/ Reject
    PROVE  HedgedBook'
<1> DEFINE ord == Head(pending)
           Fine == {o \in Orders : Hedged(o.legs)}
           Safe == {p \in Positions : Secured(p)}
<1>1. /\ pending \in Seq(Orders) /\ pending # <<>> /\ pending' = Tail(pending) /\ UNCHANGED trades
      /\ open \in Seq(Positions)
  BY DEF BookTypes, Fill, Reject
<1>2. \A i \in 1..Len(pending) : pending[i] \in Fine
  BY <1>1, ElementOfSeq DEF HedgedBook
<1>3. ord \in Fine /\ \A i \in 1..Len(pending') : pending'[i] \in Fine
  <2> HIDE DEF Fine
  <2> QED BY <1>1, <1>2, SequencesKeep
<1>4. \A i \in 1..Len(open) : open[i] \in Safe
  BY <1>1, ElementOfSeq DEF HedgedBook
<1>5. \A i \in 1..Len(open') : open'[i] \in Safe
  <2>1. CASE Reject
    BY <1>4, <2>1 DEF Reject
  <2>2. CASE Fill
    <3> DEFINE snap == today[ord.source]
               legs == Filled(snap, ord.legs)
               pos == Position(ord, snap)
    <3>1. ord.source \in DOMAIN today /\ Fillable(snap, ord.legs) /\ open' = Append(open, pos)
      BY <2>2 DEF Fill, Verdict
    <3>2. pos \in Positions
      BY <1>3, <3>1, PositionIsSound DEF BookTypes
    <3>3. pos.legs = legs /\ pos.credit = Credit(legs) /\ pos.maxLoss = MaxLoss(legs, Credit(legs))
      BY DEF Position
    <3>4. Hedged(legs)
      BY <1>3, FillsAreHedged
    <3>5. pos \in Safe
      BY <3>2, <3>3, <3>4 DEF Secured
    <3> HIDE DEF Safe, pos
    <3> QED BY <1>1, <1>4, <3>1, <3>2, <3>5, SequencesKeep
  <2> QED BY <2>1, <2>2
<1> QED BY <1>1, <1>3, <1>5 DEF HedgedBook

LEMMA HedgedBookDecide ==
    ASSUME BookTypes, HedgedBook, Decide
    PROVE  HedgedBook'
<1> DEFINE strat == setup.book[at]
           Fine == {o \in Orders : Hedged(o.legs)}
<1>1. /\ at \in DOMAIN setup.book /\ pending \in Seq(Orders) /\ pending' \in Seq(Orders)
      /\ UNCHANGED <<open, trades>>
  BY DecidedOne DEF Decide
<1>2. strat.base \in BaseIds
  BY <1>1, BookMembers DEF BookTypes
<1>3. CASE UNCHANGED pending
  BY <1>1, <1>3 DEF HedgedBook
<1>4. CASE \E legs \in OnChain(strat, today[strat.source], open, seen[at], market) :
              pending' = Append(pending, [strat |-> strat.id, tag |-> TagOf(strat),
                                          source |-> strat.source, legs |-> legs])
  <2>1. PICK legs \in OnChain(strat, today[strat.source], open, seen[at], market) :
              pending' = Append(pending, [strat |-> strat.id, tag |-> TagOf(strat),
                                          source |-> strat.source, legs |-> legs])
    BY <1>4
  <2> DEFINE ord == [strat |-> strat.id, tag |-> TagOf(strat), source |-> strat.source, legs |-> legs]
  <2>2. Hedged(legs)
    BY <1>2, <2>1, OrdersAreHedged DEF OnChain, AnOrder
  <2>3. pending' = Append(pending, ord) /\ ord.legs = legs
    BY <2>1
  <2> HIDE DEF ord
  <2>4. Len(pending) \in Nat /\ Len(pending') = Len(pending) + 1 /\ pending'[Len(pending) + 1] = ord
        /\ \A i \in 1..Len(pending) : pending'[i] = pending[i]
    BY <1>1, <2>3, AppendProperties, LenProperties
  <2>5. \A i \in 1..Len(pending') : Hedged(pending'[i].legs)
    <3> SUFFICES ASSUME NEW i \in 1..Len(pending') PROVE Hedged(pending'[i].legs)
      OBVIOUS
    <3>1. i \in 1..Len(pending) \/ i = Len(pending) + 1
      BY <2>4
    <3> QED BY <2>2, <2>3, <2>4, <3>1 DEF HedgedBook
  <2> QED BY <1>1, <2>5 DEF HedgedBook
<1> QED BY <1>3, <1>4 DEF Decide

LEMMA HedgedBookClose ==
    ASSUME BookTypes, ReadsTheTape, HedgedBook, Close
    PROVE  HedgedBook'
<1> DEFINE pos == open[at]
           snap == MarkSnapshot(pos)
           reason == ShouldClose(pos, snap)
           sale == Trade(pos, snap, reason)
           Safe == {p \in Positions : Secured(p)}
           Possible == {t \in Trades : PossibleTrade(t)}
<1>1. /\ phase = "manage" /\ at <= Len(open) /\ UNCHANGED pending
      /\ open' = RemoveAt(open, at) /\ trades' = Append(trades, sale)
      /\ open \in Seq(Positions) /\ trades \in Seq(Trades)
  BY DEF Close, BookTypes
<1>2. at \in 1..Len(open)
  BY <1>1, LenProperties DEF BookTypes
<1>3. \A i \in 1..Len(open) : open[i] \in Safe
  BY <1>1, ElementOfSeq DEF HedgedBook
<1>4. \A i \in 1..Len(trades) : trades[i] \in Possible
  BY <1>1, ElementOfSeq DEF HedgedBook
<1>5. \A i \in 1..Len(open') : open'[i] \in Safe
  <2> HIDE DEF Safe
  <2> QED BY <1>1, <1>2, <1>3, SequencesKeep
<1>6. pos \in Positions /\ Hedged(pos.legs) /\ pos.maxLoss = MaxLoss(pos.legs, pos.credit)
  BY <1>2, <1>3 DEF Secured
<1>7. sale \in Trades
  <2>1. reason \in Reasons
    BY DEF ShouldClose, Reasons
  <2> QED BY <1>1, <1>6, <2>1, MarkedOnASnapshot, TradeIsSound
<1>8. PossibleTrade(sale)
  <2> SUFFICES ASSUME sale.quoted, sale.present, Cardinality(ExpiriesOf(sale.legs)) = 1
               PROVE  /\ - sale.pnl <= sale.reserve + Crossing(sale.legs)
                      /\ sale.pnl <= sale.credit + BestPayoff(sale.legs) + Crossing(sale.legs)
    BY DEF PossibleTrade
  <2>1. /\ sale.legs = pos.legs /\ sale.credit = pos.credit /\ sale.reserve = pos.maxLoss
        /\ sale.pnl = ClosedPnl(snap, pos)
        /\ \A l \in pos.legs : Contract(l) \in Legs(snap) /\ Mid(snap, l) > 0
        /\ pos.source \in DOMAIN today
    BY DEF Trade
  <2>2. snap = today[pos.source]
    BY <2>1 DEF MarkSnapshot
  <2>3. day \in 1..Len(tape) /\ today[pos.source] = SnapshotOf(pos.source, day)
    BY <1>1, <2>1 DEF ReadsTheTape
  <2> DEFINE price == IF pos.source = "A" THEN tape[day].price ELSE Other[tape[day].price]
  <2>4. day \in Nat /\ price \in Prices \cup Range(Other)
    <3>1. day \in Nat
      BY <2>3
    <3>2. tape[day] \in TapeDays
      BY <2>3, ElementOfSeq DEF BookTypes
    <3>3. tape[day].price \in Prices /\ DOMAIN Other = Prices
      BY <3>2, BacktestAssumption DEF TapeDays
    <3> QED BY <3>1, <3>3 DEF Range
  <2>5. snap = Snapshot(pos.source, day, price, tape[day].quirk.gone, tape[day].quirk.dead)
    BY <2>2, <2>3 DEF SnapshotOf
  <2> HIDE DEF snap, sale, price, pos
  <2>6. /\ - ClosedPnl(snap, pos) <= pos.maxLoss + Crossing(pos.legs)
        /\ ClosedPnl(snap, pos) <= pos.credit + BestPayoff(pos.legs) + Crossing(pos.legs)
    BY <1>6, <2>1, <2>4, <2>5, ClosedWithinPayoffs
  <2> QED BY <2>1, <2>6
<1>9. \A i \in 1..Len(trades') : trades'[i] \in Possible
  <2>1. sale \in Trades \cap Possible
    BY <1>7, <1>8
  <2> HIDE DEF Possible, sale
  <2> QED BY <1>1, <1>4, <2>1, SequencesKeep
<1> QED BY <1>1, <1>5, <1>9 DEF HedgedBook

LEMMA HedgedBookStep == BookTypes /\ ReadsTheTape /\ HedgedBook /\ [StudyNext]_allVars => HedgedBook'
<1> SUFFICES ASSUME BookTypes, ReadsTheTape, HedgedBook, [StudyNext]_allVars PROVE HedgedBook'
  OBVIOUS
<1>1. CASE UNCHANGED <<open, pending, trades>>
  BY <1>1 DEF HedgedBook, PossibleTrade, Secured
<1>2. CASE ReadDay
  <2>1. UNCHANGED <<open, pending, trades>>
    BY <1>2 DEF ReadDay, NextSnapshot, account
  <2> QED BY <1>1, <2>1
<1>3. CASE Close
  BY <1>3, HedgedBookClose
<1>4. CASE Fill \/ Reject
  BY <1>4, HedgedBookFill
<1>5. CASE Decide
  BY <1>5, HedgedBookDecide
<1>6. CASE Keep \/ ManageDone \/ FillDone \/ Skip \/ DayDone
  <2>1. UNCHANGED <<open, pending, trades>>
    BY <1>6 DEF Keep, ManageDone, FillDone, Skip, DayDone, account
  <2> QED BY <1>1, <2>1
<1>7. CASE EndRun
  <2>1. \/ UNCHANGED <<open, pending, trades>>
        \/ open' = <<>> /\ pending' = <<>> /\ trades' = <<>>
    BY <1>7 DEF EndRun, StartRun
  <2>2. CASE open' = <<>> /\ pending' = <<>> /\ trades' = <<>>
    BY <2>2 DEF HedgedBook
  <2> QED BY <1>1, <2>1, <2>2
<1>8. CASE UNCHANGED allVars
  <2>1. UNCHANGED <<open, pending, trades>>
    BY <1>8 DEF allVars, vars, account
  <2> QED BY <1>1, <2>1
<1> QED BY <1>2, <1>3, <1>4, <1>5, <1>6, <1>7, <1>8 DEF StudyNext, WithinTheRun

(* A trade loses no more than was set aside for it and earns no more than   *)
(* its legs can pay, for any chain of prices that leave no arbitrage, if    *)
(* its legs end on one day and all had quotes when it was closed: every     *)
(* strategy sells a call only against one it buys, so what the legs pay at  *)
(* any price is between what they pay at two of those compute_max_loss      *)
(* looks at, and a fill is within half the spread of a fair price.          *)
THEOREM ClosesArePossible == ResearchSpec => []ClosesAtAPossiblePrice
<1> DEFINE Inv == StudyInv /\ ReadsTheTape /\ HedgedBook
<1>1. ResearchInit => Inv
  <2>1. StudyInit => HedgedBook
    BY DEF StudyInit, Init, HedgedBook
  <2> QED BY <2>1, StudyInvInit, ReadsTheTapeInit DEF ResearchInit
<1>2. Inv /\ [ResearchNext]_researchVars => Inv'
  <2>1. [ResearchNext]_researchVars => [StudyNext]_allVars
    BY DEF ResearchNext, researchVars
  <2> QED BY <2>1, StudyInvStep, ReadsTheTapeStep, HedgedBookStep DEF StudyInv
<1>3. Inv => ClosesAtAPossiblePrice
  <2> SUFFICES ASSUME BookTypes, HedgedBook PROVE ClosesAtAPossiblePrice
    BY DEF StudyInv
  <2>1. DOMAIN trades = 1..Len(trades)
    BY LenProperties DEF BookTypes
  <2> QED BY <2>1 DEF HedgedBook, PossibleTrade, ClosesAtAPossiblePrice
<1> QED BY <1>1, <1>2, <1>3, PTL DEF ResearchSpec

-----------------------------------------------------------------------------
(* What a study concludes it concludes once, from the results of all runs.  *)
Concluded == verdict # "open" => ~OnPlan /\ verdict = StudyVerdict(results)

LEMMA ConcludedStep == Concluded /\ [StudyNext]_allVars => Concluded'
<1> SUFFICES ASSUME Concluded, [StudyNext]_allVars PROVE Concluded'
  OBVIOUS
<1>0. ASSUME UNCHANGED <<study, plan, runNo, results, verdict>>
      PROVE  Concluded'
  <2>1. StudyVerdict(results)' = StudyVerdict(results)
    BY <1>0 DEF StudyVerdict, SharpesOf, CpcvSharpes, PathsTraded, PathTrades
  <2> QED BY <1>0, <2>1 DEF Concluded, OnPlan
<1>1. CASE ReadDay \/ WithinTheRun
  BY <1>0, <1>1 DEF ReadDay, WithinTheRun, studyVars
<1>2. CASE EndRun
  <2>1. OnPlan /\ runNo' = runNo + 1 /\ UNCHANGED <<study, plan>>
    BY <1>2 DEF EndRun
  <2>2. verdict = "open"
    BY <2>1 DEF Concluded
  <2>3. CASE runNo + 1 \in DOMAIN plan
    BY <1>2, <2>2, <2>3 DEF EndRun, Concluded
  <2>4. CASE ~(runNo + 1 \in DOMAIN plan)
    <3>1. verdict' = StudyVerdict(results') /\ ~OnPlan'
      BY <1>2, <2>1, <2>4 DEF EndRun, OnPlan
    <3>2. StudyVerdict(results)' = StudyVerdict(results')
      BY <2>1 DEF StudyVerdict, SharpesOf, CpcvSharpes, PathsTraded, PathTrades
    <3> QED BY <3>1, <3>2 DEF Concluded
  <2> QED BY <2>3, <2>4
<1>3. CASE UNCHANGED allVars
  BY <1>0, <1>3 DEF allVars, studyVars
<1> QED BY <1>1, <1>2, <1>3 DEF StudyNext

(* A Sharpe ratio is an integer, and has the sign of what was made. *)
LEMMA SharpeHasTheSign ==
    ASSUME NEW pnls
    PROVE  TradeDollarSharpe(pnls) \in Int /\ (TradeDollarSharpe(pnls) > 0 => SumOf(pnls) > 0)
<1> DEFINE n == Len(pnls)
           sum == SumOf(pnls)
           spread == n * SumOf([i \in DOMAIN pnls |-> pnls[i] * pnls[i]]) - sum * sum
           square == (100 * sum * sum * (n - 1) + n * spread - 1) \div (n * spread)
           sizes == {r \in 1..MaxSharpe : r * r >= square} \cup {MaxSharpe}
           size == Min(sizes)
<1>1. size \in Nat
  <2>1. MaxSharpe \in Nat
    BY SharpeAssumption
  <2>2. sizes \in SUBSET Nat /\ sizes # {}
    BY <2>1
  <2>3. PICK s \in sizes : \A x \in sizes : ~(x < s)
    <3> HIDE DEF sizes
    <3> QED BY <2>2, LeastNumber
  <2>4. \A x \in sizes : s <= x
    BY <2>2, <2>3
  <2> HIDE DEF sizes
  <2> QED BY <2>2, <2>4 DEF Min
<1>2. TradeDollarSharpe(pnls) = IF n < 2 \/ spread = 0 \/ sum = 0 THEN 0 ELSE IF sum > 0 THEN size ELSE - size
  BY DEF TradeDollarSharpe
<1> HIDE DEF size, spread, n, sum
<1>3. TradeDollarSharpe(pnls) \in {0, size, - size} /\ (TradeDollarSharpe(pnls) = size => size = 0 \/ sum > 0)
  BY <1>1, <1>2
<1>4. TradeDollarSharpe(pnls) > 0 => TradeDollarSharpe(pnls) = size /\ size # 0
  BY <1>1, <1>3
<1> QED BY <1>1, <1>3, <1>4 DEF sum

(* A sum above zero has a value above zero. *)
LEMMA SomeValueIsPositive ==
    ASSUME NEW f, IsFiniteSet(DOMAIN f), \A x \in DOMAIN f : f[x] \in Int, SumOf(f) > 0
    PROVE  \E x \in DOMAIN f : f[x] > 0
<1> SUFFICES ASSUME \A x \in DOMAIN f : ~(f[x] > 0)
             PROVE  FALSE
  OBVIOUS
<1> DEFINE S == DOMAIN f
           P == {T \in SUBSET S : Total(f, T) <= 0}
<1>1. ASSUME NEW T \in SUBSET S, \A x \in T : T \ {x} \in P
      PROVE  T \in P
  <2>1. IsFiniteSet(T) /\ \A x \in T : f[x] \in Int
    BY FS_Subset
  <2>2. CASE T = {}
    BY <2>1, <2>2, TotalRules
  <2>3. CASE T # {}
    <3>1. PICK x \in T : TRUE
      BY <2>3
    <3>2. Total(f, T) = f[x] + Total(f, T \ {x})
      BY <2>1, <3>1, TotalRules
    <3>3. Total(f, T \ {x}) <= 0 /\ Total(f, T \ {x}) \in Int
      <4>1. IsFiniteSet(T \ {x}) /\ \A y \in T \ {x} : f[y] \in Int
        BY <2>1, FS_Subset
      <4>2. Total(f, T \ {x}) \in Int
        BY <4>1, TotalRules
      <4> QED BY <1>1, <3>1, <4>2
    <3>4. f[x] \in Int /\ ~(f[x] > 0)
      BY <3>1
    <3>5. Total(f, T) <= 0
      BY <3>2, <3>3, <3>4
    <3> QED BY <3>5
  <2> QED BY <2>2, <2>3
<1>2. Total(f, S) <= 0
  <2>1. IsFiniteSet(S)
    OBVIOUS
  <2>2. \A T \in SUBSET S : T \in P
    <3> HIDE DEF P, S
    <3> QED BY <1>1, <2>1, SubsetInduction
  <2> QED BY <2>2
<1>3. Total(f, S) \in Int /\ SumOf(f) = Total(f, S)
  BY TotalRules, SumOfIsTotal
<1> QED BY <1>2, <1>3

(* Among n values there is one of each rank. *)
LEMMA RankedIsAValue ==
    ASSUME NEW f, IsFiniteSet(DOMAIN f), \A x \in DOMAIN f : f[x] \in Int,
           NEW n \in Nat, 1 <= n, n <= Cardinality(DOMAIN f)
    PROVE  /\ Ranked(f, n) \in Int
           /\ Cardinality({x \in DOMAIN f : f[x] < Ranked(f, n)}) < n
<1> DEFINE S == DOMAIN f
           Upto(v) == {x \in S : f[x] <= v}
           Under1(v) == {x \in S : f[x] < v}
           V == {v \in Range(f) : n <= Cardinality(Upto(v))}
<1>1. Range(f) \in SUBSET Int /\ IsFiniteSet(Range(f)) /\ IsFiniteSet(V) /\ V \in SUBSET Int
  <2>1. IsFiniteSet(Range(f))
    BY ValuesAreFinite
  <2>2. V \subseteq Range(f)
    OBVIOUS
  <2> QED BY <2>1, <2>2, FS_Subset DEF Range
<1>2. \A v : /\ IsFiniteSet(Upto(v)) /\ IsFiniteSet(Under1(v))
             /\ Cardinality(Upto(v)) \in Nat /\ Cardinality(Under1(v)) \in Nat
  <2>1. \A v : Upto(v) \subseteq S /\ Under1(v) \subseteq S
    OBVIOUS
  <2> QED BY <2>1, FS_Subset, FS_CardinalityType
<1>3. V # {}
  <2>1. S # {}
    BY FS_EmptySet
  <2>2. Range(f) # {}
    BY <2>1 DEF Range
  <2>3. Max(Range(f)) \in Range(f) /\ \A x \in Range(f) : x <= Max(Range(f))
    BY <1>1, <2>2, Extremes
  <2>4. Upto(Max(Range(f))) = S
    BY <2>3 DEF Range
  <2>5. Max(Range(f)) \in V
    BY <2>3, <2>4
  <2> QED BY <2>5
<1> DEFINE v == Min(V)
<1>4. v \in V /\ \A x \in V : v <= x
  <2> HIDE DEF V
  <2> QED BY <1>1, <1>3, Extremes
<1>5. Cardinality(Under1(v)) < n
  <2> DEFINE L == {x \in Range(f) : x < v}
  <2>1. v \in Int
    BY <1>1, <1>4
  <2>2. CASE Under1(v) = {}
    <3> HIDE DEF Under1, v
    <3> QED BY <2>2, FS_EmptySet
  <2>3. CASE Under1(v) # {}
    <3>1. L # {} /\ L \in SUBSET Int /\ IsFiniteSet(L)
      <4>1. L \subseteq Range(f)
        OBVIOUS
      <4>2. L # {}
        BY <2>3 DEF Range
      <4> QED BY <1>1, <4>1, <4>2, FS_Subset
    <3> DEFINE w == Max(L)
    <3>2. w \in L /\ \A x \in L : x <= w
      <4> HIDE DEF L
      <4> QED BY <3>1, Extremes
    <3>3. Upto(w) = Under1(v)
      <4>1. \A x \in S : f[x] \in Int /\ f[x] \in Range(f)
        BY DEF Range
      <4>2. w \in Int /\ w < v
        BY <3>1, <3>2
      <4>3. \A x \in S : f[x] <= w => f[x] < v
        BY <2>1, <4>1, <4>2
      <4>4. \A x \in S : f[x] < v => f[x] <= w
        BY <3>2, <4>1
      <4> HIDE DEF w, v
      <4> QED BY <4>3, <4>4
    <3>4. w \notin V
      <4>1. w \in Int /\ w < v
        BY <3>1, <3>2
      <4>2. ~(v <= w)
        <5> HIDE DEF v, w
        <5> QED BY <2>1, <4>1
      <4> HIDE DEF V, v, w
      <4> QED BY <1>4, <4>2
    <3>5. w \in Range(f)
      BY <3>2
    <3>6. ~(n <= Cardinality(Upto(w)))
      BY <3>4, <3>5
    <3>7. Cardinality(Upto(w)) < n
      <4>1. Cardinality(Upto(w)) \in Nat
        BY <1>2
      <4> HIDE DEF Upto, w
      <4> QED BY <3>6, <4>1
    <3> HIDE DEF Upto, Under1, v, w
    <3> QED BY <3>3, <3>7
  <2> QED BY <2>2, <2>3
<1>6. \E u \in Range(f) : Cardinality(Under1(u)) < n /\ n <= Cardinality(Upto(u))
  BY <1>4, <1>5
<1>7. Ranked(f, n) = CHOOSE u \in Range(f) : Cardinality(Under1(u)) < n /\ n <= Cardinality(Upto(u))
  BY DEF Ranked
<1>8. Ranked(f, n) \in Range(f) /\ Cardinality(Under1(Ranked(f, n))) < n
  <2> HIDE DEF Under1, Upto
  <2> QED BY <1>6, <1>7
<1> QED BY <1>1, <1>8

(* Half of the values and more are above zero if their median is. *)
LEMMA HalfIsAbove ==
    ASSUME NEW f, IsFiniteSet(DOMAIN f), DOMAIN f # {}, \A x \in DOMAIN f : f[x] \in Int,
           TwiceMedian(f) > 0
    PROVE  2 * Cardinality({x \in DOMAIN f : f[x] > 0}) >= Cardinality(DOMAIN f)
<1> DEFINE S == DOMAIN f
           n == Cardinality(S)
           low == (n + 1) \div 2
           high == n \div 2 + 1
           Above0 == {x \in S : f[x] > 0}
<1>1. n \in Nat /\ n >= 1
  <2>1. n \in Nat /\ n # 0
    BY FS_CardinalityType, FS_EmptySet
  <2> QED BY <2>1
<1>2. /\ low \in Nat /\ 1 <= low /\ low <= n /\ 2 * low <= n + 1
      /\ high \in Nat /\ 1 <= high /\ high <= n /\ 2 * high <= n + 2
  BY <1>1
<1> HIDE DEF n, low, high
<1>3. ASSUME NEW r \in Nat, 1 <= r, r <= n, 2 * r <= n + 2, Ranked(f, r) > 0
      PROVE  2 * Cardinality(Above0) >= n
  <2> DEFINE B == {x \in S : f[x] < Ranked(f, r)}
  <2>1. Ranked(f, r) \in Int /\ Cardinality(B) < r
    BY <1>3, RankedIsAValue DEF n
  <2>2. IsFiniteSet(B) /\ IsFiniteSet(S \ B) /\ IsFiniteSet(Above0)
    BY FS_Subset
  <2>3. S \ B \subseteq Above0
    BY <1>3, <2>1
  <2>4. Cardinality(S \ B) <= Cardinality(Above0)
    BY <2>2, <2>3, FS_Subset
  <2>5. Cardinality(S \ B) = n - Cardinality(B)
    <3>1. B \subseteq S /\ S \cap B = B
      OBVIOUS
    <3> QED BY <2>2, <3>1, FS_Difference DEF n
  <2>6. Cardinality(B) \in Nat /\ Cardinality(Above0) \in Nat
    BY <2>2, FS_CardinalityType
  <2> HIDE DEF B, Above0
  <2> QED BY <1>1, <1>3, <2>1, <2>4, <2>5, <2>6
<1>4. Ranked(f, low) \in Int /\ Ranked(f, high) \in Int
  BY <1>2, RankedIsAValue DEF n
<1>5. Ranked(f, low) + Ranked(f, high) > 0
  BY DEF TwiceMedian, n, low, high
<1>6. Ranked(f, low) > 0 \/ Ranked(f, high) > 0
  BY <1>4, <1>5
<1>7. 2 * Cardinality(Above0) >= n
  BY <1>1, <1>2, <1>3, <1>6
<1> QED BY <1>7 DEF n

(* The runs of a plan and the paths of a cross-validation are finitely many.*)
LEMMA RunsAreFinite ==
    ASSUME NEW s \in Studies
    PROVE  /\ s.kind = "walk_forward" => IsFiniteSet(DOMAIN Plan(s))
           /\ s.kind = "cpcv" => IsFiniteSet(DOMAIN Paths(s.folds, s.k))
<1>1. CASE s.kind = "walk_forward"
  <2> DEFINE last == (2 * s.days + 1) - 1 - 2 * s.train - 2 * s.test
             roll == 2 * s.roll
             m == IF last < 0 THEN 0 ELSE 1 + last \div roll
             windows == SplitWindows(1, 2 * s.days + 1, 2 * s.train, 2 * s.test, 2 * s.roll)
  <2>1. s.days \in Nat /\ s.train \in Nat /\ s.test \in Nat /\ s.roll \in Nat /\ s.roll # 0
    BY <1>1, StudyAssumption, BacktestAssumption
  <2>2. last \in Int /\ m \in Nat
    <3>1. last \in Int /\ roll \in Nat /\ roll > 0
      BY <2>1
    <3> HIDE DEF last, roll
    <3> QED BY <3>1
  <2>3. Len(windows) = m
    <3> DEFINE window(i) == [train |-> 1 + (i - 1) * roll, test |-> 1 + (i - 1) * roll + 2 * s.train,
                             end |-> 1 + (i - 1) * roll + 2 * s.train + 2 * s.test]
    <3>1. windows = [i \in 1..m |-> window(i)]
      BY Zenon DEF SplitWindows
    <3> HIDE DEF window
    <3> HIDE DEF windows, m
    <3> QED BY <2>2, <3>1
  <2>4. DOMAIN Plan(s) = 1..(2 * m)
    <3>1. Plan(s) = WalkForwardRuns(s)
      BY <1>1 DEF Plan
    <3>2. DOMAIN WalkForwardRuns(s) = 1..(2 * Len(windows))
      BY DEF WalkForwardRuns
    <3> QED BY <2>3, <3>1, <3>2
  <2>5. IsFiniteSet(1..(2 * m))
    <3> HIDE DEF m
    <3> QED BY <2>2, FS_Interval
  <2> QED BY <1>1, <2>4, <2>5
<1>2. CASE s.kind = "cpcv"
  <2>1. s.folds \in Nat
    BY <1>2, StudyAssumption
  <2> DEFINE combos == kSubset(s.k, 1..s.folds)
  <2>2. IsFiniteSet(combos)
    <3>1. IsFiniteSet(1..s.folds)
      BY <2>1, FS_Interval
    <3>2. IsFiniteSet(SUBSET (1..s.folds))
      BY <3>1, FS_SUBSET
    <3>3. combos \subseteq SUBSET (1..s.folds)
      BY DEF kSubset
    <3> QED BY <3>2, <3>3, FS_Subset
  <2>3. Cardinality(combos) \in Nat
    BY <2>2, FS_CardinalityType
  <2>4. DOMAIN Paths(s.folds, s.k) = 1..Cardinality(combos)
    BY DEF Paths, InOrder
  <2>5. IsFiniteSet(1..Cardinality(combos))
    BY <2>3, FS_Interval
  <2> QED BY <1>2, <2>4, <2>5
<1> QED BY <1>1, <1>2

(* A study that passes made money on days it was not fitted to, for any     *)
(* prices, strategies, windows and folds, as long as the required share of  *)
(* the in-sample Sharpe and the required median are above zero.             *)
THEOREM PassingMadeMoney == OosPct > 0 /\ MedianSharpe > 0 => (ResearchSpec => []PassedMadeMoney)
<1> SUFFICES ASSUME OosPct > 0, MedianSharpe > 0
             PROVE  ResearchSpec => []PassedMadeMoney
  OBVIOUS
<1>1. ResearchInit => Concluded
  BY DEF ResearchInit, StudyInit, Concluded
<1>2. Concluded /\ [ResearchNext]_researchVars => Concluded'
  <2>1. [ResearchNext]_researchVars => [StudyNext]_allVars
    BY DEF ResearchNext, researchVars
  <2> QED BY <2>1, ConcludedStep
<1>3. StudyInv /\ Concluded => PassedMadeMoney
  <2> SUFFICES ASSUME BookTypes, verdict = StudyVerdict(results), verdict = "passed"
               PROVE  PassedMadeMoney
    BY DEF StudyInv, Concluded, PassedMadeMoney
  <2>0. study \in Studies /\ plan = Plan(study) /\ study.kind \in {"once", "walk_forward", "cpcv"}
        /\ OosPct \in Nat /\ MedianSharpe \in Nat
    BY StudyAssumption, WindowsAssumption DEF BookTypes
  <2>1. CASE study.kind = "once"
    BY <2>1 DEF StudyVerdict
  <2>2. CASE study.kind = "walk_forward"
    <3> DEFINE train == SharpesOf("train", results)
               test == SharpesOf("test", results)
    <3>1. SumOf(train) > 0 /\ 100 * SumOf(test) >= OosPct * SumOf(train)
      BY <2>2 DEF StudyVerdict, WalkForwardPasses
    <3>2. \A part : /\ IsFiniteSet(DOMAIN SharpesOf(part, results))
                    /\ \A i \in DOMAIN SharpesOf(part, results) :
                          /\ SharpesOf(part, results)[i] = TradeDollarSharpe(results[i])
                          /\ SharpesOf(part, results)[i] \in Int
                          /\ i \in DOMAIN plan /\ plan[i].part = part
      <4>1. IsFiniteSet(DOMAIN plan)
        BY <2>0, <2>2, RunsAreFinite
      <4>2. \A part : DOMAIN SharpesOf(part, results) = {j \in DOMAIN plan : plan[j].part = part}
        BY DEF SharpesOf
      <4>3. \A part : IsFiniteSet(DOMAIN SharpesOf(part, results))
        BY <4>1, <4>2, FS_Subset
      <4> QED BY <4>2, <4>3, SharpeHasTheSign DEF SharpesOf
    <3>3. SumOf(train) \in Int /\ SumOf(test) \in Int
      BY <3>2, SumIsInteger
    <3>4. SumOf(test) > 0
      <4>1. OosPct * SumOf(train) > 0
        BY <2>0, <3>1, <3>3
      <4>2. OosPct * SumOf(train) \in Int
        BY <2>0, <3>3
      <4> HIDE DEF train, test
      <4> QED BY <3>1, <3>3, <4>1, <4>2
    <3>5. PICK i \in DOMAIN test : test[i] > 0
      <4> HIDE DEF train
      <4> QED BY <3>2, <3>4, SomeValueIsPositive
    <3>6. i \in DOMAIN plan /\ plan[i].part = "test" /\ SumOf(results[i]) > 0
      BY <3>2, <3>5, SharpeHasTheSign
    <3> QED BY <2>2, <3>6 DEF PassedMadeMoney
  <2>3. CASE study.kind = "cpcv"
    <3> DEFINE sharpes == CpcvSharpes(results)
               paths == PathsTraded(results)
               won == {p \in paths : SumOf(PathTrades(results)[p]) > 0}
    <3>1. DOMAIN sharpes # {} /\ TwiceMedian(sharpes) >= 2 * MedianSharpe
      BY <2>3 DEF StudyVerdict, CpcvPasses
    <3>2. /\ DOMAIN sharpes = paths
          /\ \A p \in paths : sharpes[p] = TradeDollarSharpe(PathTrades(results)[p]) /\ sharpes[p] \in Int
      BY SharpeHasTheSign DEF CpcvSharpes
    <3>3. IsFiniteSet(paths)
      <4>1. IsFiniteSet(DOMAIN Paths(study.folds, study.k))
        BY <2>0, <2>3, RunsAreFinite
      <4>2. DOMAIN PathTrades(results) = DOMAIN Paths(study.folds, study.k)
        BY DEF PathTrades
      <4>3. paths \subseteq DOMAIN PathTrades(results)
        BY DEF PathsTraded
      <4> QED BY <4>1, <4>2, <4>3, FS_Subset
    <3> HIDE DEF sharpes, paths
    <3>4. TwiceMedian(sharpes) > 0
      <4>1. TwiceMedian(sharpes) \in Int
        <5> DEFINE n == Cardinality(DOMAIN sharpes)
        <5>1. n \in Nat /\ n # 0
          BY <3>1, <3>2, <3>3, FS_CardinalityType, FS_EmptySet
        <5>2. /\ (n + 1) \div 2 \in Nat /\ 1 <= (n + 1) \div 2 /\ (n + 1) \div 2 <= n
              /\ n \div 2 + 1 \in Nat /\ 1 <= n \div 2 + 1 /\ n \div 2 + 1 <= n
          BY <5>1
        <5>3. Ranked(sharpes, (n + 1) \div 2) \in Int /\ Ranked(sharpes, n \div 2 + 1) \in Int
          <6> HIDE DEF n
          <6> QED BY <3>2, <3>3, <5>2, RankedIsAValue DEF n
        <5> QED BY <5>3 DEF TwiceMedian
      <4> QED BY <2>0, <3>1, <4>1
    <3>5. 2 * Cardinality({p \in paths : sharpes[p] > 0}) >= Cardinality(paths)
      BY <3>1, <3>2, <3>3, <3>4, HalfIsAbove
    <3>6. {p \in paths : sharpes[p] > 0} \subseteq won
      BY <3>2, SharpeHasTheSign
    <3>7. Cardinality({p \in paths : sharpes[p] > 0}) <= Cardinality(won)
      <4>1. IsFiniteSet(won)
        BY <3>3, FS_Subset
      <4> QED BY <3>6, <4>1, FS_Subset
    <3>8. Cardinality(won) \in Nat /\ Cardinality(paths) \in Nat /\ Cardinality({p \in paths : sharpes[p] > 0}) \in Nat
      <4>1. IsFiniteSet(won) /\ IsFiniteSet({p \in paths : sharpes[p] > 0})
        BY <3>3, FS_Subset
      <4> QED BY <3>3, <4>1, FS_CardinalityType
    <3>9. 2 * Cardinality(won) >= Cardinality(paths)
      <4> HIDE DEF won
      <4> QED BY <3>5, <3>7, <3>8
    <3> QED BY <2>3, <3>9 DEF PassedMadeMoney, paths
  <2> QED BY <2>0, <2>1, <2>2, <2>3
<1> QED BY <1>1, <1>2, <1>3, StudyInvariance, PTL DEF ResearchSpec

-----------------------------------------------------------------------------
(* A session is entered and settled on bars of the contracts asked for.     *)
FuturesKnown ==
    /\ session \in Sessions
    /\ stage \in {"manage", "traded"} =>
          Lookup(EntryAt, session.active) # {} /\ Settlement # {}
    /\ trade # {} => stage = "traded"

(* A price looked up for a contract is of a bar of that contract. *)
LEMMA LookupIsOfItsContract ==
    ASSUME NEW m \in Int, NEW symbol, NEW i \in Lookup(m, symbol)
    PROVE  SymbolAt(i) = symbol
<1> DEFINE near == {j \in BarsTo(m) : /\ Cardinality({k \in BarsTo(m) : k > j}) <= WalkBack
                                      /\ SymbolAt(j) = symbol}
<1>1. near \subseteq 1..m /\ IsFiniteSet(near)
  <2>1. near \subseteq 1..m BY DEF BarsTo
  <2>2. IsFiniteSet(1..m) BY FS_Interval
  <2> QED BY <2>1, <2>2, FS_Subset
<1>2. near # {} /\ i = Max(near)
  BY DEF Lookup
<1>3. i \in near
  <2> HIDE DEF near
  <2> QED BY <1>1, <1>2, Extremes
<1> QED BY <1>3

LEMMA FuturesKnownStep == FuturesKnown /\ [ZeroDteNext]_zvars => FuturesKnown'
<1> SUFFICES ASSUME FuturesKnown, [ZeroDteNext]_zvars PROVE FuturesKnown'
  OBVIOUS
<1>0. ASSUME UNCHANGED <<session, bars>>
      PROVE  /\ Lookup(EntryAt, session.active)' = Lookup(EntryAt, session.active)
             /\ Settlement' = Settlement
  BY <1>0 DEF Lookup, Settlement, TargetUnderlying, BarsTo, SymbolAt
<1>1. CASE \E price \in TapePrices, quiet \in Quiet \cup {{}}, bar \in BOOLEAN : Minute(price, quiet, bar)
  BY <1>1 DEF Minute, FuturesKnown
<1>2. CASE SkipSession
  BY <1>2 DEF SkipSession, FuturesKnown, DayOver
<1>3. CASE Enter
  <2>1. UNCHANGED <<session, bars, trade>> /\ stage' = "manage" /\ stage = "read"
    BY <1>3 DEF Enter, DayOver
  <2>2. ~(UnderlyingAtEntry <= 0) /\ PriceOf(Settlement) > 0
    BY <1>3 DEF Enter, OnEntry
  <2>3. Lookup(EntryAt, session.active) # {} /\ Settlement # {}
    <3>1. PriceOf({}) = 0 BY DEF PriceOf
    <3> QED BY <2>2, <3>1 DEF UnderlyingAtEntry
  <2> QED BY <1>0, <2>1, <2>3 DEF FuturesKnown
<1>4. CASE CheckNothing \/ CloseEarly \/ Settle
  <2>1. UNCHANGED <<session, bars>> /\ stage = "manage" /\ stage' \in {"manage", "traded"}
        /\ (trade' # {} => stage' = "traded" \/ trade' = trade)
    BY <1>4 DEF CheckNothing, CloseEarly, Settle, Checking, Record
  <2> QED BY <1>0, <2>1 DEF FuturesKnown
<1>5. CASE UNCHANGED zvars
  <2>1. UNCHANGED <<session, bars, stage, trade>>
    BY <1>5 DEF zvars
  <2> QED BY <1>0, <2>1 DEF FuturesKnown
<1> QED BY <1>1, <1>2, <1>3, <1>4, <1>5 DEF ZeroDteNext

(* A 0DTE session is decided and settled on one future, its own, whenever   *)
(* its options are on a single one, for any times, rolls and missing bars.  *)
THEOREM SessionsUseOneFuture == ResearchSpec => []OneFuture
<1>1. ResearchInit => FuturesKnown
  BY DEF ResearchInit, ZeroDteInit, FuturesKnown
<1>2. FuturesKnown /\ [ResearchNext]_researchVars => FuturesKnown'
  <2>1. [ResearchNext]_researchVars => [ZeroDteNext]_zvars
    BY DEF ResearchNext, researchVars
  <2> QED BY <2>1, FuturesKnownStep
<1>3. FuturesKnown => OneFuture
  <2> SUFFICES ASSUME FuturesKnown, trade # {}, ~(Len(session.listed) > 1)
               PROVE  {SymbolAt(m) : m \in Lookup(EntryAt, session.active) \cup Settlement} = {session.own}
    BY DEF OneFuture
  <2>1. Lookup(EntryAt, session.active) # {} /\ session \in Sessions
    BY DEF FuturesKnown
  <2>2. session.active = session.own /\ Head(session.listed) = session.own
    <3> DEFINE list == session.listed
    <3>1. list \in Seq({"old", "new"}) /\ session.own \in ToSet(list) /\ session.active \in ToSet(list)
          /\ ~(Len(list) > 1)
      BY <2>1, ZeroDteAssumption
    <3>2. Len(list) \in Nat /\ DOMAIN list = 1..Len(list)
      BY <3>1, LenProperties
    <3> HIDE DEF list
    <3>3. \A x \in ToSet(list) : x = list[1] /\ list # <<>>
      BY <3>1, <3>2 DEF ToSet
    <3>4. Head(list) = list[1]
      BY <3>1, <3>3
    <3> QED BY <3>1, <3>3, <3>4 DEF list
  <2>3. EntryAt \in Int /\ SettleAt \in Int
    BY ZeroDteAssumption
  <2>4. \A m \in Lookup(EntryAt, session.active) \cup Settlement : SymbolAt(m) = session.own
    BY <2>2, <2>3, LookupIsOfItsContract DEF Settlement, TargetUnderlying
  <2> QED BY <2>1, <2>4
<1> QED BY <1>1, <1>2, <1>3, PTL DEF ResearchSpec

-----------------------------------------------------------------------------
(* Prices of a session's contracts that no spread contradicts: one is worth *)
(* no less than nothing and no more than its strikes are apart, and a put   *)
(* and a call spread beyond it no more than the wider one.                  *)
Puts0 == {l \in Contracts : l.side = "put"}
Calls0 == {l \in Contracts : l.side = "call"}

Coherent(V) ==
    /\ \A l \in Contracts : V[l] \in Int
    /\ \A w, s \in Puts0 : w.strike < s.strike => V[s] - V[w] \in 0..(s.strike - w.strike)
    /\ \A c, d \in Calls0 : c.strike < d.strike => V[c] - V[d] \in 0..(d.strike - c.strike)
    /\ \A w, s \in Puts0, c, d \in Calls0 :
          w.strike < s.strike /\ s.strike < c.strike /\ c.strike < d.strike =>
              \/ (V[s] - V[w]) + (V[c] - V[d]) <= s.strike - w.strike
              \/ (V[s] - V[w]) + (V[c] - V[d]) <= d.strike - c.strike

LEMMA ContractsKnown ==
    \A l \in Contracts : /\ l.strike \in Strikes /\ l.strike \in Nat /\ l.expiry = SettleAt /\ l.side \in Sides
                         /\ l = Leg(SettleAt, l.strike, l.side) /\ SettleAt \in Nat /\ Contract(l) = l
<1> SUFFICES ASSUME NEW k \in Strikes, NEW s \in Sides, NEW l, l = Leg(SettleAt, k, s)
             PROVE  /\ l.strike \in Strikes /\ l.strike \in Nat /\ l.expiry = SettleAt /\ l.side \in Sides
                    /\ l = Leg(SettleAt, l.strike, l.side) /\ SettleAt \in Nat /\ Contract(l) = l
  BY DEF Contracts
<1>1. l.strike = k /\ l.side = s /\ l.expiry = SettleAt
  BY DEF Leg
<1>2. k \in Nat /\ SettleAt \in Nat
  BY ChainAssumption, ZeroDteAssumption
<1> QED BY <1>1, <1>2 DEF Contract

(* What contracts pay is coherent. *)
LEMMA IntrinsicIsCoherent ==
    ASSUME NEW p \in Int
    PROVE  Coherent([l \in Contracts |-> IntrinsicAt(l, p)])
<1> DEFINE V == [l \in Contracts |-> IntrinsicAt(l, p)]
<1>1. \A l \in Contracts : V[l] = IntrinsicAt(l, p) /\ l.strike \in Nat
  BY ContractsKnown
<1>2. \A l \in Puts0 : l \in Contracts /\ V[l] = IF l.strike - p < 0 THEN 0 ELSE l.strike - p
  BY <1>1 DEF Puts0, IntrinsicAt, AtLeast
<1>3. \A l \in Calls0 : l \in Contracts /\ V[l] = IF p - l.strike < 0 THEN 0 ELSE p - l.strike
  BY <1>1 DEF Calls0, IntrinsicAt, AtLeast
<1>4. \A l \in Contracts : V[l] \in Int
  BY <1>1 DEF IntrinsicAt, AtLeast
<1> HIDE DEF V
<1>5. \A w, s \in Puts0 : w.strike < s.strike => V[s] - V[w] \in 0..(s.strike - w.strike)
  BY <1>1, <1>2
<1>6. \A c, d \in Calls0 : c.strike < d.strike => V[c] - V[d] \in 0..(d.strike - c.strike)
  BY <1>1, <1>3
<1>7. ASSUME NEW w \in Puts0, NEW s \in Puts0, NEW c \in Calls0, NEW d \in Calls0,
             w.strike < s.strike, s.strike < c.strike, c.strike < d.strike
      PROVE  \/ (V[s] - V[w]) + (V[c] - V[d]) <= s.strike - w.strike
             \/ (V[s] - V[w]) + (V[c] - V[d]) <= d.strike - c.strike
  BY <1>1, <1>2, <1>3, <1>7
<1> QED BY <1>4, <1>5, <1>6, <1>7 DEF Coherent, V

(* So are the closes of a minute, which leave no arbitrage. *)
LEMMA ClosesAreCoherent ==
    ASSUME NEW m \in 1..SettleAt, NEW price \in OwnPrices
    PROVE  Coherent([l \in Contracts |-> Theo(l, m, price)])
<1> DEFINE V == [l \in Contracts |-> Theo(l, m, price)]
           call(k) == Theo(Leg(SettleAt, k, "call"), m, price)
<1>0. price \in Int /\ m \in Int /\ SettleAt \in Nat
  BY ZeroDteAssumption DEF OwnPrices
<1>1. ASSUME NEW l \in Contracts
      PROVE  /\ call(l.strike) \in Int /\ V[l] \in Int
             /\ l.side = "call" => V[l] = call(l.strike)
             /\ l.side = "put" => V[l] = call(l.strike) + (l.strike - price)
  <2> DEFINE c == Leg(SettleAt, l.strike, "call")
  <2>1. l.strike \in Nat /\ l.expiry = SettleAt /\ l.side \in Sides /\ l = Leg(SettleAt, l.strike, l.side)
    BY ContractsKnown
  <2>2. c.expiry = SettleAt /\ c.strike = l.strike /\ c.side = "call"
    BY DEF Leg
  <2>3. PICK v \in Nat : /\ Theo(l, m, price) = IntrinsicAt(l, price) + v
                         /\ Theo(c, m, price) = IntrinsicAt(c, price) + v
    <3> HIDE DEF c, call, V
    <3>1. PICK v \in Nat : \A x : x.expiry = SettleAt /\ x.strike = l.strike =>
                                    Theo(x, m, price) = IntrinsicAt(x, price) + v
      BY <1>0, <2>1, TimeValueOfAStrike
    <3> QED BY <2>1, <2>2, <3>1
  <2>4. IntrinsicAt(c, price) = IF price - l.strike < 0 THEN 0 ELSE price - l.strike
    BY <2>2 DEF IntrinsicAt, AtLeast
  <2>5. l.side = "put" => IntrinsicAt(l, price) = IF l.strike - price < 0 THEN 0 ELSE l.strike - price
    BY DEF IntrinsicAt, AtLeast
  <2>6. l.side = "call" => l = c
    BY <2>1
  <2>7. l.side = "put" \/ l.side = "call"
    BY <2>1 DEF Sides
  <2>8. V[l] = Theo(l, m, price) /\ call(l.strike) = Theo(c, m, price)
    OBVIOUS
  <2> HIDE DEF c, V, call
  <2> QED BY <1>0, <2>1, <2>3, <2>4, <2>5, <2>6, <2>7, <2>8
<1>2. ASSUME NEW j \in Strikes, NEW k \in Strikes, j < k
      PROVE  call(j) - call(k) \in 0..(k - j)
  BY <1>2, ArbitrageAssumption
<1>3. ASSUME NEW j \in Strikes, NEW k \in Strikes, NEW i \in Strikes, NEW h \in Strikes, j < k, k <= i, i < h
      PROVE  (h - i) * (call(j) - call(k)) >= (k - j) * (call(i) - call(h))
  BY <1>3, ArbitrageAssumption
<1>4. \A l \in Contracts : l.strike \in Strikes /\ l.strike \in Nat
  BY ContractsKnown
<1> HIDE DEF V, call
<1>5. \A w, s \in Puts0 : w.strike < s.strike => V[s] - V[w] \in 0..(s.strike - w.strike)
  <2> SUFFICES ASSUME NEW w \in Puts0, NEW s \in Puts0, w.strike < s.strike
               PROVE  V[s] - V[w] \in 0..(s.strike - w.strike)
    OBVIOUS
  <2>1. w \in Contracts /\ s \in Contracts /\ w.side = "put" /\ s.side = "put"
    BY DEF Puts0
  <2>2. call(w.strike) - call(s.strike) \in 0..(s.strike - w.strike)
    BY <1>2, <1>4, <2>1
  <2> QED BY <1>0, <1>1, <1>4, <2>1, <2>2
<1>6. \A c, d \in Calls0 : c.strike < d.strike => V[c] - V[d] \in 0..(d.strike - c.strike)
  <2> SUFFICES ASSUME NEW c \in Calls0, NEW d \in Calls0, c.strike < d.strike
               PROVE  V[c] - V[d] \in 0..(d.strike - c.strike)
    OBVIOUS
  <2>1. c \in Contracts /\ d \in Contracts /\ c.side = "call" /\ d.side = "call"
    BY DEF Calls0
  <2> QED BY <1>1, <1>2, <1>4, <2>1
<1>7. ASSUME NEW w \in Puts0, NEW s \in Puts0, NEW c \in Calls0, NEW d \in Calls0,
             w.strike < s.strike, s.strike < c.strike, c.strike < d.strike
      PROVE  \/ (V[s] - V[w]) + (V[c] - V[d]) <= s.strike - w.strike
             \/ (V[s] - V[w]) + (V[c] - V[d]) <= d.strike - c.strike
  <2> DEFINE a == s.strike - w.strike
             b == d.strike - c.strike
             x == call(w.strike) - call(s.strike)
             y == call(c.strike) - call(d.strike)
  <2>1. /\ w \in Contracts /\ s \in Contracts /\ w.side = "put" /\ s.side = "put"
        /\ c \in Contracts /\ d \in Contracts /\ c.side = "call" /\ d.side = "call"
    BY DEF Puts0, Calls0
  <2>2. x \in 0..a /\ y \in 0..b
    BY <1>2, <1>4, <1>7, <2>1
  <2>3. b * x >= a * y
    BY <1>3, <1>4, <1>7, <2>1
  <2>4. a \in Nat /\ b \in Nat /\ a > 0 /\ b > 0
    BY <1>4, <1>7, <2>1
  <2>5. V[s] - V[w] = a - x /\ V[c] - V[d] = y
    BY <1>0, <1>1, <1>4, <2>1
  <2>6. CASE a >= b
    <3> HIDE DEF a, b, x, y
    <3>1. a * y >= b * y
      BY <2>2, <2>4, <2>6
    <3>2. b * x >= b * y
      BY <2>2, <2>3, <2>4, <3>1
    <3>3. x >= y
      BY <2>2, <2>4, <3>2
    <3>4. (a - x) + y <= a
      BY <2>2, <2>4, <3>3
    <3> QED BY <2>5, <3>4 DEF a
  <2>7. CASE b > a
    <3> HIDE DEF a, b, x, y
    <3>1. b * (b - y) >= b * (a - x)
      <4>1. b * (a - x) = b * a - b * x
        BY <2>2, <2>4
      <4>2. b * a - b * x <= b * a - a * y
        BY <2>2, <2>3, <2>4
      <4>3. b * a - a * y = a * (b - y)
        BY <2>2, <2>4
      <4>4. a * (b - y) <= b * (b - y)
        BY <2>2, <2>4, <2>7
      <4> QED BY <2>2, <2>4, <4>1, <4>2, <4>3, <4>4
    <3>2. b - y >= a - x
      BY <2>2, <2>4, <3>1
    <3>3. (a - x) + y <= b
      BY <2>2, <2>4, <3>2
    <3> QED BY <2>5, <3>3 DEF b
  <2>8. a >= b \/ b > a
    <3> HIDE DEF a, b
    <3> QED BY <2>4
  <2> QED BY <2>6, <2>7, <2>8
<1> QED BY <1>1, <1>5, <1>6, <1>7 DEF Coherent, V

(* The totals of two and of four values. *)
LEMMA TotalOfTwo ==
    ASSUME NEW f, NEW a, NEW b, a # b, DOMAIN f = {a, b}, f[a] \in Int, f[b] \in Int
    PROVE  SumFunction(f) = f[a] + f[b]
<1>1. IsFiniteSet({b}) /\ IsFiniteSet({a, b})
  <2>1. IsFiniteSet({b}) /\ IsFiniteSet({a} \cup {b})
    BY FS_Singleton, FS_Union
  <2>2. {a} \cup {b} = {a, b}
    OBVIOUS
  <2> QED BY <2>1, <2>2
<1>2. Total(f, {a, b}) = f[a] + Total(f, {a, b} \ {a})
  BY <1>1, TotalRules
<1>3. {a, b} \ {a} = {b} /\ {b} \ {b} = {}
  OBVIOUS
<1>4. Total(f, {b}) = f[b] + Total(f, {b} \ {b}) /\ Total(f, {}) = 0
  BY <1>1, TotalRules
<1>5. Total(f, {b}) = f[b]
  <2>1. Total(f, {b} \ {b}) = 0
    BY <1>3, <1>4, Zenon
  <2> QED BY <1>4, <2>1
<1>6. Total(f, {a, b}) = f[a] + f[b]
  BY <1>2, <1>3, <1>5
<1>7. SumFunction(f) = Total(f, {a, b})
  <2>1. SumFunction(f) = Total(f, DOMAIN f)
    BY SumFunctionIsTotal
  <2> QED BY <2>1
<1> QED BY <1>6, <1>7

LEMMA TotalOfFour ==
    ASSUME NEW f, NEW a, NEW b, NEW c, NEW d, a # b, a # c, a # d, b # c, b # d, c # d,
           DOMAIN f = {a, b, c, d}, f[a] \in Int, f[b] \in Int, f[c] \in Int, f[d] \in Int
    PROVE  SumFunction(f) = f[a] + f[b] + f[c] + f[d]
<1> DEFINE g == [x \in {c, d} |-> f[x]]
<1>1. IsFiniteSet({c, d}) /\ IsFiniteSet({b, c, d}) /\ IsFiniteSet({a, b, c, d})
  <2>1. IsFiniteSet({a}) /\ IsFiniteSet({b}) /\ IsFiniteSet({c}) /\ IsFiniteSet({d})
    BY FS_Singleton
  <2>2. IsFiniteSet({c} \cup {d})
    BY <2>1, FS_Union
  <2>3. IsFiniteSet({b} \cup ({c} \cup {d}))
    BY <2>1, <2>2, FS_Union
  <2>4. IsFiniteSet({a} \cup ({b} \cup ({c} \cup {d})))
    BY <2>1, <2>3, FS_Union
  <2>5. /\ {c} \cup {d} = {c, d} /\ {b} \cup ({c} \cup {d}) = {b, c, d}
        /\ {a} \cup ({b} \cup ({c} \cup {d})) = {a, b, c, d}
    OBVIOUS
  <2> QED BY <2>2, <2>3, <2>4, <2>5
<1>2. Total(f, {a, b, c, d}) = f[a] + Total(f, {a, b, c, d} \ {a})
  BY <1>1, TotalRules
<1>3. {a, b, c, d} \ {a} = {b, c, d} /\ {b, c, d} \ {b} = {c, d}
  OBVIOUS
<1>4. Total(f, {b, c, d}) = f[b] + Total(f, {b, c, d} \ {b})
  BY <1>1, TotalRules
<1>5. Total(f, {c, d}) = f[c] + f[d]
  <2>1. DOMAIN g = {c, d} /\ g[c] = f[c] /\ g[d] = f[d] /\ \A x \in {c, d} : g[x] = f[x] /\ f[x] \in Int
    OBVIOUS
  <2>2. Total(g, {c, d}) = Total(f, {c, d})
    <3> HIDE DEF g
    <3> QED BY <1>1, <2>1, TotalOfEqual
  <2>3. SumFunction(g) = g[c] + g[d]
    <3> HIDE DEF g
    <3> QED BY <2>1, TotalOfTwo
  <2>4. SumFunction(g) = Total(g, {c, d})
    BY <2>1, SumFunctionIsTotal
  <2> HIDE DEF g
  <2> QED BY <2>1, <2>2, <2>3, <2>4
<1>6. Total(f, {b, c, d}) = f[b] + (f[c] + f[d])
  BY <1>3, <1>4, <1>5
<1>7. Total(f, {a, b, c, d}) = f[a] + (f[b] + (f[c] + f[d]))
  BY <1>2, <1>3, <1>6
<1>8. SumFunction(f) = Total(f, {a, b, c, d})
  BY SumFunctionIsTotal
<1> QED BY <1>7, <1>8

(* What the two spreads of a session's order cost at coherent prices.       *)
IsPutSpread(w, s) == w \in Puts0 /\ s \in Puts0 /\ w.strike < s.strike
IsCallSpread(c, d) == c \in Calls0 /\ d \in Calls0 /\ c.strike < d.strike
IsPcs(L) == \E w, s \in Puts0 : IsPutSpread(w, s) /\ L = {Sell(s), Buy(w)}
IsCondor(L) == \E w, s \in Puts0, c, d \in Calls0 :
                  /\ IsPutSpread(w, s) /\ IsCallSpread(c, d) /\ s.strike < c.strike
                  /\ L = {Sell(s), Buy(w)} \cup {Sell(c), Buy(d)}

CostAt(L, V) == - SumFunction([l \in L |-> l.quantity * V[Contract(l)]])

LEMMA LegsOfAContract ==
    \A l \in Contracts : /\ Contract(Sell(l)) = l /\ Contract(Buy(l)) = l
                         /\ Sell(l).quantity = -1 /\ Buy(l).quantity = 1
                         /\ Sell(l).strike = l.strike /\ Buy(l).strike = l.strike
                         /\ Sell(l).side = l.side /\ Buy(l).side = l.side
                         /\ Sell(l).expiry = SettleAt /\ Buy(l).expiry = SettleAt
<1> SUFFICES ASSUME NEW l \in Contracts
             PROVE  /\ Contract(Sell(l)) = l /\ Contract(Buy(l)) = l
                    /\ Sell(l).quantity = -1 /\ Buy(l).quantity = 1
                    /\ Sell(l).strike = l.strike /\ Buy(l).strike = l.strike
                    /\ Sell(l).side = l.side /\ Buy(l).side = l.side
                    /\ Sell(l).expiry = SettleAt /\ Buy(l).expiry = SettleAt
  OBVIOUS
<1>1. l = Leg(SettleAt, l.strike, l.side) /\ l.expiry = SettleAt
  BY ContractsKnown
<1>2. /\ Sell(l) = [expiry |-> SettleAt, strike |-> l.strike, side |-> l.side, quantity |-> -1]
      /\ Buy(l) = [expiry |-> SettleAt, strike |-> l.strike, side |-> l.side, quantity |-> 1]
  BY <1>1 DEF Sell, Buy, OrderLeg
<1> QED BY <1>1, <1>2 DEF Contract

LEMMA PcsCosts ==
    ASSUME NEW w, NEW s, IsPutSpread(w, s), NEW V, \A l \in Contracts : V[l] \in Int
    PROVE  CostAt({Sell(s), Buy(w)}, V) = V[s] - V[w]
<1> DEFINE L == {Sell(s), Buy(w)}
           f == [l \in L |-> l.quantity * V[Contract(l)]]
<1>1. w \in Contracts /\ s \in Contracts
  BY DEF IsPutSpread, Puts0
<1>2. Sell(s) # Buy(w)
  BY <1>1, LegsOfAContract
<1>3. DOMAIN f = {Sell(s), Buy(w)} /\ f[Sell(s)] = - V[s] /\ f[Buy(w)] = V[w]
  BY <1>1, LegsOfAContract
<1> HIDE DEF f
<1>4. SumFunction(f) = - V[s] + V[w]
  BY <1>1, <1>2, <1>3, TotalOfTwo
<1> QED BY <1>1, <1>4 DEF CostAt, f

LEMMA CondorCosts ==
    ASSUME NEW w, NEW s, NEW c, NEW d, IsPutSpread(w, s), IsCallSpread(c, d),
           NEW V, \A l \in Contracts : V[l] \in Int
    PROVE  CostAt({Sell(s), Buy(w)} \cup {Sell(c), Buy(d)}, V) = (V[s] - V[w]) + (V[c] - V[d])
<1> DEFINE L == {Sell(s), Buy(w)} \cup {Sell(c), Buy(d)}
           f == [l \in L |-> l.quantity * V[Contract(l)]]
<1>1. w \in Contracts /\ s \in Contracts /\ c \in Contracts /\ d \in Contracts
  BY DEF IsPutSpread, IsCallSpread, Puts0, Calls0
<1>2. w.side = "put" /\ s.side = "put" /\ c.side = "call" /\ d.side = "call"
  BY DEF IsPutSpread, IsCallSpread, Puts0, Calls0
<1>3. /\ Sell(s) # Buy(w) /\ Sell(s) # Sell(c) /\ Sell(s) # Buy(d)
      /\ Buy(w) # Sell(c) /\ Buy(w) # Buy(d) /\ Sell(c) # Buy(d)
  BY <1>1, <1>2, LegsOfAContract
<1>4. /\ DOMAIN f = {Sell(s), Buy(w), Sell(c), Buy(d)}
      /\ f[Sell(s)] = - V[s] /\ f[Buy(w)] = V[w] /\ f[Sell(c)] = - V[c] /\ f[Buy(d)] = V[d]
  BY <1>1, LegsOfAContract
<1> HIDE DEF f
<1>5. SumFunction(f) = - V[s] + V[w] + (- V[c]) + V[d]
  BY <1>1, <1>3, <1>4, TotalOfFour
<1> QED BY <1>1, <1>5 DEF CostAt, f

LEMMA LegsAreFinite ==
    ASSUME NEW L, IsPcs(L) \/ IsCondor(L)
    PROVE  IsFiniteSet(L) /\ L # {} /\ \A l \in L : l.quantity \in Int /\ l.strike \in Nat /\ Contract(l) \in Contracts
<1>1. \A x, y : IsFiniteSet({x, y})
  <2> SUFFICES ASSUME NEW x, NEW y PROVE IsFiniteSet({x, y})
    OBVIOUS
  <2>1. IsFiniteSet({x} \cup {y}) /\ {x} \cup {y} = {x, y}
    BY FS_Singleton, FS_Union
  <2> QED BY <2>1
<1>2. \A a, b, x, y : IsFiniteSet({a, b} \cup {x, y})
  BY <1>1, FS_Union
<1>3. IsFiniteSet(L)
  <2>1. CASE IsPcs(L)
    <3>1. PICK w, s : L = {Sell(s), Buy(w)}
      BY <2>1 DEF IsPcs
    <3> QED BY <1>1, <3>1
  <2>2. CASE IsCondor(L)
    <3>1. PICK w, s, c, d : L = {Sell(s), Buy(w)} \cup {Sell(c), Buy(d)}
      BY <2>2 DEF IsCondor
    <3> QED BY <1>2, <3>1
  <2> QED BY <2>1, <2>2
<1>4. L # {}
  BY DEF IsPcs, IsCondor
<1>5. \A l \in L : \E x \in Contracts : l = Sell(x) \/ l = Buy(x)
  BY DEF IsPcs, IsCondor, Puts0, Calls0
<1>6. \A l \in L : l.quantity \in Int /\ l.strike \in Nat /\ Contract(l) \in Contracts
  BY <1>5, LegsOfAContract, ContractsKnown
<1> QED BY <1>3, <1>4, <1>6

(* What legs pay is what they cost at their intrinsic values.               *)
LEMMA PayoffIsACost ==
    ASSUME NEW L, NEW p \in Int, IsPcs(L) \/ IsCondor(L)
    PROVE  /\ PayoffAt(L, p) = - CostAt(L, [l \in Contracts |-> IntrinsicAt(l, p)])
           /\ CostAt(L, [l \in Contracts |-> IntrinsicAt(l, p)]) \in Int
<1> DEFINE V == [l \in Contracts |-> IntrinsicAt(l, p)]
           f == [l \in L |-> l.quantity * V[Contract(l)]]
           g == [l \in L |-> l.quantity * IntrinsicAt(l, p)]
<1>1. \A l \in L : Contract(l) \in Contracts
  BY LegsOfAContract DEF IsPcs, IsCondor, Puts0, Calls0
<1>2. \A l \in L : V[Contract(l)] = IntrinsicAt(l, p)
  <2>1. \A l : IntrinsicAt(Contract(l), p) = IntrinsicAt(l, p)
    BY DEF IntrinsicAt, Contract, Leg
  <2> QED BY <1>1, <2>1
<1>3. f = g
  <2> HIDE DEF V
  <2> QED BY <1>2
<1>4. \A l \in Contracts : V[l] \in Int
  BY IntrinsicIsCoherent DEF Coherent
<1>5. CostAt(L, V) \in Int
  <2> HIDE DEF V
  <2>1. CASE IsPcs(L)
    <3>1. PICK w \in Puts0, s \in Puts0 : IsPutSpread(w, s) /\ L = {Sell(s), Buy(w)}
      BY <2>1 DEF IsPcs
    <3>2. CostAt(L, V) = V[s] - V[w]
      BY <1>4, <3>1, PcsCosts
    <3> QED BY <1>4, <3>2 DEF Puts0
  <2>2. CASE IsCondor(L)
    <3>1. PICK w \in Puts0, s \in Puts0, c \in Calls0, d \in Calls0 :
             /\ IsPutSpread(w, s) /\ IsCallSpread(c, d)
             /\ L = {Sell(s), Buy(w)} \cup {Sell(c), Buy(d)}
      BY <2>2 DEF IsCondor
    <3>2. CostAt(L, V) = (V[s] - V[w]) + (V[c] - V[d])
      BY <1>4, <3>1, CondorCosts
    <3> QED BY <1>4, <3>2 DEF Puts0, Calls0
  <2> QED BY <2>1, <2>2
<1>6. PayoffAt(L, p) = SumFunction(g) /\ CostAt(L, V) = - SumFunction(f)
  BY DEF PayoffAt, CostAt
<1>7. SumFunction(f) \in Int
  <2>1. IsFiniteSet(L)
    BY LegsAreFinite
  <2>2. \A l \in L : l.quantity \in Int
    BY LegsAreFinite
  <2>3. DOMAIN f = L /\ \A l \in L : f[l] \in Int
    <3> HIDE DEF V
    <3> QED BY <1>1, <1>4, <2>2
  <2> HIDE DEF f
  <2> QED BY <2>1, <2>3, TotalIsInteger
<1> HIDE DEF f, g, V
<1> QED BY <1>3, <1>5, <1>6, <1>7 DEF V

(* An order is as wide as its wider spread.                                 *)
LEMMA WidthOfAnOrder ==
    ASSUME NEW L, IsPcs(L) \/ IsCondor(L)
    PROVE  /\ Width(L) \in Int
           /\ \A w, s \in Puts0 : IsPutSpread(w, s) /\ {Sell(s), Buy(w)} \subseteq L => s.strike - w.strike <= Width(L)
           /\ \A c, d \in Calls0 : IsCallSpread(c, d) /\ {Sell(c), Buy(d)} \subseteq L => d.strike - c.strike <= Width(L)
<1> DEFINE payoffs == {PayoffAt(L, p) : p \in SamplePrices(L)}
           I(p) == [l \in Contracts |-> IntrinsicAt(l, p)]
<1>0. \A l \in Contracts : l.strike \in Nat
  BY ContractsKnown
<1>1. IsFiniteSet(L) /\ L # {} /\ \A l \in L : l.strike \in Nat /\ l.quantity \in Int
  BY LegsAreFinite
<1>2. /\ IsFiniteSet(payoffs) /\ payoffs # {} /\ payoffs \in SUBSET Int
      /\ \E top \in Nat : {0, 2 * top} \subseteq SamplePrices(L) /\ \A l \in L : l.strike <= top
  BY <1>1, SampledPayoffs
<1>3. PICK top \in Nat : {0, 2 * top} \subseteq SamplePrices(L) /\ \A l \in L : l.strike <= top
  BY <1>2
<1>4. Min(payoffs) \in payoffs /\ \A x \in payoffs : Min(payoffs) <= x
  <2> HIDE DEF payoffs
  <2>1. payoffs \in SUBSET Int /\ IsFiniteSet(payoffs) /\ payoffs # {}
    BY <1>2
  <2> QED BY <2>1, Extremes
<1>5. Width(L) = - Min(payoffs) /\ Width(L) \in Int /\ \A x \in payoffs : - x <= Width(L)
  <2>1. Width(L) = - Min(payoffs)
    BY DEF Width
  <2>2. payoffs \in SUBSET Int
    BY <1>2
  <2>3. PICK least \in Int : least = Min(payoffs) /\ \A x \in payoffs : least <= x /\ x \in Int
    <3> HIDE DEF payoffs
    <3> QED BY <1>4, <2>2
  <2>4. \A x \in payoffs : - x <= - least
    <3> HIDE DEF payoffs
    <3> QED BY <2>3
  <2> HIDE DEF payoffs
  <2> QED BY <2>1, <2>3, <2>4
<1>6. ASSUME NEW p \in SamplePrices(L), p \in Int
      PROVE  CostAt(L, I(p)) <= Width(L)
  <2>1. PayoffAt(L, p) = - CostAt(L, I(p)) /\ CostAt(L, I(p)) \in Int
    BY <1>6, PayoffIsACost
  <2>2. PayoffAt(L, p) \in payoffs
    OBVIOUS
  <2>3. - PayoffAt(L, p) <= Width(L)
    BY <1>5, <2>2
  <2> HIDE DEF I
  <2> QED BY <1>5, <2>1, <2>3
<1>7. CostAt(L, I(0)) <= Width(L) /\ CostAt(L, I(2 * top)) <= Width(L)
  <2>1. 0 \in SamplePrices(L) /\ 2 * top \in SamplePrices(L) /\ 0 \in Int /\ 2 * top \in Int
    BY <1>3
  <2> HIDE DEF I, payoffs
  <2> QED BY <1>6, <2>1
<1>8. \A l \in Contracts : I(0)[l] = IntrinsicAt(l, 0) /\ I(2 * top)[l] = IntrinsicAt(l, 2 * top)
  OBVIOUS
<1>9. \A p \in Int : \A l \in Contracts : I(p)[l] \in Int
  BY IntrinsicIsCoherent DEF Coherent
<1>10. \A l \in Puts0 : I(0)[l] = l.strike /\ (l.strike <= top => I(2 * top)[l] = 0)
  <2> SUFFICES ASSUME NEW l \in Puts0
               PROVE  I(0)[l] = l.strike /\ (l.strike <= top => I(2 * top)[l] = 0)
    OBVIOUS
  <2>1. l \in Contracts /\ l.side = "put" /\ l.strike \in Nat
    BY <1>0 DEF Puts0
  <2>2. I(0)[l] = IntrinsicAt(l, 0) /\ I(2 * top)[l] = IntrinsicAt(l, 2 * top)
    BY <2>1
  <2>3. IntrinsicAt(l, 0) = l.strike /\ (l.strike <= top => IntrinsicAt(l, 2 * top) = 0)
    BY <2>1 DEF IntrinsicAt, AtLeast
  <2> QED BY <2>2, <2>3
<1>11. \A l \in Calls0 : I(0)[l] = 0 /\ (l.strike <= top => I(2 * top)[l] = 2 * top - l.strike)
  <2> SUFFICES ASSUME NEW l \in Calls0
               PROVE  I(0)[l] = 0 /\ (l.strike <= top => I(2 * top)[l] = 2 * top - l.strike)
    OBVIOUS
  <2>1. l \in Contracts /\ l.side = "call" /\ l.strike \in Nat
    BY <1>0 DEF Calls0
  <2>2. I(0)[l] = IntrinsicAt(l, 0) /\ I(2 * top)[l] = IntrinsicAt(l, 2 * top)
    BY <2>1
  <2>3. IntrinsicAt(l, 0) = 0 /\ (l.strike <= top => IntrinsicAt(l, 2 * top) = 2 * top - l.strike)
    BY <2>1 DEF IntrinsicAt, AtLeast
  <2> QED BY <2>2, <2>3
<1> HIDE DEF I, payoffs
<1>12. CASE IsPcs(L)
  <2>1. PICK w \in Puts0, s \in Puts0 : IsPutSpread(w, s) /\ L = {Sell(s), Buy(w)}
    BY <1>12 DEF IsPcs
  <2>2. w \in Contracts /\ s \in Contracts
    BY DEF Puts0
  <2>3. CostAt(L, I(0)) = s.strike - w.strike
    BY <1>9, <1>10, <2>1, PcsCosts
  <2>4. ASSUME NEW x \in Puts0, NEW y \in Puts0, {Sell(y), Buy(x)} \subseteq L
        PROVE  y = s /\ x = w
    <3>1. x \in Contracts /\ y \in Contracts
      BY DEF Puts0
    <3>2. Sell(y) = Sell(s) /\ Buy(x) = Buy(w)
      <4>1. Sell(y) # Buy(w) /\ Buy(x) # Sell(s)
        BY <2>2, <3>1, LegsOfAContract
      <4> QED BY <2>1, <2>4, <4>1
    <3> QED BY <2>2, <3>1, <3>2, LegsOfAContract
  <2>5. ASSUME NEW c \in Calls0, Sell(c) \in L
        PROVE  FALSE
    <3>1. c \in Contracts /\ c.side = "call" /\ w.side = "put" /\ s.side = "put"
      BY DEF Puts0, Calls0
    <3> QED BY <2>1, <2>2, <2>5, <3>1, LegsOfAContract
  <2> QED BY <1>5, <1>7, <2>3, <2>4, <2>5
<1>13. CASE IsCondor(L)
  <2>1. PICK w \in Puts0, s \in Puts0, c \in Calls0, d \in Calls0 :
           /\ IsPutSpread(w, s) /\ IsCallSpread(c, d)
           /\ L = {Sell(s), Buy(w)} \cup {Sell(c), Buy(d)}
    BY <1>13 DEF IsCondor
  <2>2. w \in Contracts /\ s \in Contracts /\ c \in Contracts /\ d \in Contracts
    BY DEF Puts0, Calls0
  <2>3. w.side = "put" /\ s.side = "put" /\ c.side = "call" /\ d.side = "call"
    BY DEF Puts0, Calls0
  <2>4. w.strike <= top /\ s.strike <= top /\ c.strike <= top /\ d.strike <= top
    BY <1>3, <2>1, <2>2, LegsOfAContract
  <2>5. CostAt(L, I(0)) = s.strike - w.strike
    <3>1. CostAt(L, I(0)) = (I(0)[s] - I(0)[w]) + (I(0)[c] - I(0)[d])
      BY <1>9, <2>1, CondorCosts
    <3> QED BY <1>0, <1>10, <1>11, <2>2, <3>1
  <2>6. CostAt(L, I(2 * top)) = d.strike - c.strike
    <3>1. CostAt(L, I(2 * top)) = (I(2 * top)[s] - I(2 * top)[w]) + (I(2 * top)[c] - I(2 * top)[d])
      BY <1>9, <2>1, CondorCosts
    <3> QED BY <1>0, <1>10, <1>11, <2>2, <2>4, <3>1
  <2>7. ASSUME NEW x \in Puts0, NEW y \in Puts0, {Sell(y), Buy(x)} \subseteq L
        PROVE  y = s /\ x = w
    <3>1. x \in Contracts /\ y \in Contracts /\ x.side = "put" /\ y.side = "put"
      BY DEF Puts0
    <3>2. Sell(y) = Sell(s)
      <4>1. Sell(y) # Buy(w) /\ Sell(y) # Sell(c) /\ Sell(y) # Buy(d)
        BY <2>2, <2>3, <3>1, LegsOfAContract
      <4> QED BY <2>1, <2>7, <4>1
    <3>3. Buy(x) = Buy(w)
      <4>1. Buy(x) # Sell(s) /\ Buy(x) # Sell(c) /\ Buy(x) # Buy(d)
        BY <2>2, <2>3, <3>1, LegsOfAContract
      <4> QED BY <2>1, <2>7, <4>1
    <3> QED BY <2>2, <3>1, <3>2, <3>3, LegsOfAContract
  <2>8. ASSUME NEW x \in Calls0, NEW y \in Calls0, {Sell(x), Buy(y)} \subseteq L
        PROVE  x = c /\ y = d
    <3>1. x \in Contracts /\ y \in Contracts /\ x.side = "call" /\ y.side = "call"
      BY DEF Calls0
    <3>2. Sell(x) = Sell(c)
      <4>1. Sell(x) # Buy(w) /\ Sell(x) # Sell(s) /\ Sell(x) # Buy(d)
        BY <2>2, <2>3, <3>1, LegsOfAContract
      <4> QED BY <2>1, <2>8, <4>1
    <3>3. Buy(y) = Buy(d)
      <4>1. Buy(y) # Sell(s) /\ Buy(y) # Sell(c) /\ Buy(y) # Buy(w)
        BY <2>2, <2>3, <3>1, LegsOfAContract
      <4> QED BY <2>1, <2>8, <4>1
    <3> QED BY <2>2, <3>1, <3>2, <3>3, LegsOfAContract
  <2> QED BY <1>5, <1>7, <2>5, <2>6, <2>7, <2>8
<1> QED BY <1>12, <1>13

(* At coherent prices an order costs no less than nothing and no more than  *)
(* it is wide.                                                              *)
LEMMA CostsFitTheWings ==
    ASSUME NEW L, IsPcs(L) \/ IsCondor(L), NEW V, Coherent(V)
    PROVE  CostAt(L, V) \in 0..Width(L)
<1>0. /\ \A l \in Contracts : V[l] \in Int /\ l.strike \in Nat
      /\ \A w, s \in Puts0 : w.strike < s.strike => V[s] - V[w] \in 0..(s.strike - w.strike)
      /\ \A c, d \in Calls0 : c.strike < d.strike => V[c] - V[d] \in 0..(d.strike - c.strike)
  BY ContractsKnown DEF Coherent
<1>1. Width(L) \in Int
  BY WidthOfAnOrder
<1>2. CASE IsPcs(L)
  <2>1. PICK w \in Puts0, s \in Puts0 : IsPutSpread(w, s) /\ L = {Sell(s), Buy(w)}
    BY <1>2 DEF IsPcs
  <2>2. CostAt(L, V) = V[s] - V[w]
    BY <1>0, <2>1, PcsCosts
  <2>3. V[s] - V[w] \in 0..(s.strike - w.strike)
    BY <1>0, <2>1 DEF IsPutSpread
  <2>4. s.strike - w.strike <= Width(L)
    BY <2>1, WidthOfAnOrder
  <2>5. s.strike - w.strike \in Int
    BY <1>0, <2>1 DEF Puts0
  <2> QED BY <1>1, <2>2, <2>3, <2>4, <2>5
<1>3. CASE IsCondor(L)
  <2>1. PICK w \in Puts0, s \in Puts0, c \in Calls0, d \in Calls0 :
           /\ IsPutSpread(w, s) /\ IsCallSpread(c, d) /\ s.strike < c.strike
           /\ L = {Sell(s), Buy(w)} \cup {Sell(c), Buy(d)}
    BY <1>3 DEF IsCondor
  <2> DEFINE x == V[s] - V[w]
             y == V[c] - V[d]
             a == s.strike - w.strike
             b == d.strike - c.strike
  <2>2. CostAt(L, V) = x + y
    BY <1>0, <2>1, CondorCosts
  <2>3. x \in 0..a /\ y \in 0..b
    BY <1>0, <2>1 DEF IsPutSpread, IsCallSpread
  <2>4. x + y <= a \/ x + y <= b
    BY <2>1 DEF Coherent, IsPutSpread, IsCallSpread
  <2>5. a <= Width(L) /\ b <= Width(L)
    BY <2>1, WidthOfAnOrder
  <2>6. a \in Int /\ b \in Int
    BY <1>0, <2>1 DEF Puts0, Calls0
  <2> HIDE DEF x, y, a, b
  <2> QED BY <1>1, <2>2, <2>3, <2>4, <2>5, <2>6
<1> QED BY <1>2, <1>3

-----------------------------------------------------------------------------
(* The session as it is entered: its order is one of the two of the 0DTE    *)
(* pair, on contracts that have traded by then.                             *)
BarsOfADay == [price : TapePrices, quiet : Quiet \cup {{}}, bar : BOOLEAN]
LegsTraded(L) == \A l \in L : \E i \in 1..EntryAt : Contract(l) \in Traded(i)

SessionPriced ==
    /\ bars \in Seq(BarsOfADay)
    /\ trade # {} => stage = "traded"
    /\ stage \in {"manage", "traded"} => Len(bars) = SettleAt
    /\ stage = "manage" => /\ IsPcs(order) \/ IsCondor(order)
                           /\ LegsTraded(order)
                           /\ credit = CloseCost(order, EntryAt)
                           /\ checkAt \in Nat /\ checkAt >= EntryAt
    /\ PaidWithinTheWings

(* What a lookup answers is a number once the bars are read. *)
LEMMA LookedUpPrices ==
    ASSUME bars \in Seq(BarsOfADay), NEW m \in Int, m <= Len(bars), NEW symbol
    PROVE  PriceOf(Lookup(m, symbol)) \in Int
<1>0. /\ Basis \in Int /\ \A i \in 1..Len(bars) : bars[i].price \in TapePrices /\ bars[i].price \in Int
      /\ Len(bars) \in Nat
  <2>1. Basis \in Int /\ \A p \in TapePrices : p \in Int
    BY ZeroDteAssumption
  <2>2. \A i \in 1..Len(bars) : bars[i] \in BarsOfADay
    OBVIOUS
  <2>3. \A b \in BarsOfADay : b.price \in TapePrices
    BY DEF BarsOfADay
  <2>4. Len(bars) \in Nat
    OBVIOUS
  <2> QED BY <2>1, <2>2, <2>3, <2>4
<1> DEFINE near == {i \in BarsTo(m) : /\ Cardinality({j \in BarsTo(m) : j > i}) <= WalkBack
                                      /\ SymbolAt(i) = symbol}
<1>1. CASE near = {}
  <2>1. Lookup(m, symbol) = {}
    BY <1>1 DEF Lookup
  <2> QED BY <2>1 DEF PriceOf
<1>2. CASE near # {}
  <2>1. near \subseteq 1..m /\ IsFiniteSet(near) /\ near \in SUBSET Int
    <3>1. near \subseteq 1..m
      BY DEF BarsTo
    <3> HIDE DEF near
    <3>2. IsFiniteSet(near)
      <4>1. IsFiniteSet(1..m)
        BY FS_Interval
      <4> QED BY <3>1, <4>1, FS_Subset
    <3> QED BY <3>1, <3>2
  <2>2. Lookup(m, symbol) = {Max(near)}
    BY <1>2 DEF Lookup
  <2>3. Max(near) \in near
    <3> HIDE DEF near
    <3> QED BY <1>2, <2>1, Extremes
  <2>4. PICK i \in 1..m : Lookup(m, symbol) = {i}
    BY <2>1, <2>2, <2>3
  <2>5. FuturePrice(i) \in Int
    BY <1>0, <2>4 DEF FuturePrice
  <2> DEFINE P == {FuturePrice(j) : j \in {i}}
  <2>6. P \in SUBSET Int /\ P # {} /\ IsFiniteSet(P)
    <3>1. P = {FuturePrice(i)}
      OBVIOUS
    <3> QED BY <2>5, <3>1, FS_Singleton
  <2>7. Max(P) \in Int
    <3> HIDE DEF P
    <3> QED BY <2>6, Extremes
  <2>8. PriceOf({i}) = Max(P)
    BY DEF PriceOf
  <2> QED BY <2>4, <2>7, <2>8
<1> QED BY <1>1, <1>2

(* Legs taken at the closes of one minute cost no more than they are wide.  *)
LEMMA ClosesFitTheWings ==
    ASSUME bars \in Seq(BarsOfADay), Len(bars) = SettleAt,
           NEW L, IsPcs(L) \/ IsCondor(L), LegsTraded(L),
           NEW m \in Int, EntryAt <= m, m <= SettleAt, BarsTogether(L, m)
    PROVE  CloseCost(L, m) \in 0..Width(L)
<1>0. EntryAt \in Nat /\ SettleAt \in Nat /\ Basis \in Int
  BY ZeroDteAssumption
<1>1. PICK l0 \in L : TRUE
  BY LegsAreFinite
<1>2. ASSUME NEW l \in L PROVE LastBar(l, m) \in 1..m
  <2> DEFINE traded == {i \in 1..m : Contract(l) \in Traded(i)}
  <2>1. PICK i \in 1..EntryAt : Contract(l) \in Traded(i)
    BY DEF LegsTraded
  <2>2. i \in traded
    BY <1>0, <2>1
  <2>3. traded \in SUBSET Int /\ traded # {} /\ IsFiniteSet(traded) /\ traded \subseteq 1..m
    <3>1. traded \subseteq 1..m /\ IsFiniteSet(1..m)
      BY FS_Interval
    <3> QED BY <2>2, <3>1, FS_Subset
  <2>4. Max(traded) \in traded
    <3> HIDE DEF traded
    <3> QED BY <2>3, Extremes
  <2> QED BY <2>3, <2>4 DEF LastBar
<1> DEFINE b == LastBar(l0, m)
           price == OwnPrice(b)
           V == [l \in Contracts |-> Theo(l, b, price)]
           f == [l \in L |-> l.quantity * CloseOf(l, m)]
           g == [l \in L |-> l.quantity * V[Contract(l)]]
<1>3. b \in 1..SettleAt /\ \A l \in L : LastBar(l, m) = b
  BY <1>0, <1>1, <1>2 DEF BarsTogether
<1>4. price \in OwnPrices
  <2>1. bars[b] \in BarsOfADay
    BY <1>3
  <2>2. bars[b].price \in TapePrices /\ bars[b].price \in Int
    BY <2>1, ZeroDteAssumption DEF BarsOfADay
  <2>3. price = bars[b].price + 0 \/ price = bars[b].price + Basis
    BY DEF OwnPrice
  <2>4. bars[b].price + 0 = bars[b].price
    <3>1. \A x \in Int : x + 0 = x
      OBVIOUS
    <3> QED BY <2>2, <3>1, Zenon
  <2> QED BY <2>2, <2>3, <2>4 DEF OwnPrices
<1>5. Coherent(V)
  <2> HIDE DEF b, price
  <2> QED BY <1>3, <1>4, ClosesAreCoherent
<1>6. CostAt(L, V) \in 0..Width(L)
  <2> HIDE DEF V
  <2> QED BY <1>5, CostsFitTheWings
<1>7. f = g
  <2>1. \A l \in L : CloseOf(l, m) = Theo(Contract(l), b, price)
    BY <1>3 DEF CloseOf
  <2>2. \A l \in L : Contract(l) \in Contracts
    BY LegsAreFinite
  <2>3. \A l \in L : V[Contract(l)] = CloseOf(l, m)
    <3> HIDE DEF b, price
    <3> QED BY <2>1, <2>2
  <2> HIDE DEF V, b, price
  <2> QED BY <2>3
<1>8. CloseCost(L, m) = - SumFunction(f) /\ CostAt(L, V) = - SumFunction(g)
  BY DEF CloseCost, CostAt
<1> HIDE DEF f, g, V, b, price
<1> QED BY <1>6, <1>7, <1>8

LEMMA SettlementFitsTheWings ==
    ASSUME bars \in Seq(BarsOfADay), Len(bars) = SettleAt, NEW L, IsPcs(L) \/ IsCondor(L)
    PROVE  SettleCost(L) \in 0..Width(L)
<1> DEFINE p == PriceOf(Settlement)
           V == [l \in Contracts |-> IntrinsicAt(l, p)]
<1>1. p \in Int
  <2>1. SettleAt \in Int /\ SettleAt <= Len(bars)
    BY ZeroDteAssumption
  <2> QED BY <2>1, LookedUpPrices DEF Settlement
<1>2. SettleCost(L) = - PayoffAt(L, p)
  BY DEF SettleCost
<1> HIDE DEF p
<1>3. Coherent(V) /\ PayoffAt(L, p) = - CostAt(L, V) /\ CostAt(L, V) \in Int
  BY <1>1, IntrinsicIsCoherent, PayoffIsACost
<1>4. CostAt(L, V) \in 0..Width(L)
  <2> HIDE DEF V
  <2> QED BY <1>3, CostsFitTheWings
<1> HIDE DEF V
<1> QED BY <1>2, <1>3, <1>4

(* The orders of the pair are spreads of the snapshot's contracts. *)
LEMMA OrdersOfThePair ==
    ASSUME bars \in Seq(BarsOfADay), Len(bars) = SettleAt, NEW L \in OnEntry
    PROVE  (IsPcs(L) \/ IsCondor(L)) /\ LegsTraded(L)
<1> DEFINE snap == SnapshotAtEntry
           price == UnderlyingAtEntry
           puts == OtmPuts(snap, price)
           calls == OtmCalls(snap, price)
<1>1. price \in Int
  <2>1. EntryAt \in Int /\ EntryAt <= Len(bars)
    BY ZeroDteAssumption
  <2> QED BY <2>1, LookedUpPrices DEF UnderlyingAtEntry
<1>2. snap \subseteq Contracts /\ \A l \in snap : \E i \in 1..EntryAt : l \in Traded(i)
  BY DEF SnapshotAtEntry, Traded
<1>3. \A l \in Contracts : l.strike \in Nat /\ Contract(Sell(l)) = l /\ Contract(Buy(l)) = l
  BY ContractsKnown, LegsOfAContract
<1>4. \A S, strike : ClosestStrike(S, strike) \subseteq S
  BY DEF ClosestStrike, FirstNearest
<1>5. /\ \A l \in puts : l \in snap /\ l \in Puts0 /\ l.strike < price
      /\ \A l \in calls : l \in snap /\ l \in Calls0 /\ l.strike > price
  BY <1>2 DEF OtmPuts, OtmCalls, Puts0, Calls0
<1>6. ASSUME NEW A \in Mes0dtePcs(snap, price)
      PROVE  \E w, s \in puts : IsPutSpread(w, s) /\ A = {Sell(s), Buy(w)}
  <2>1. PICK s \in ClosestStrike(puts, price - ShortOffset) :
           \E w \in Lower(puts, s, WingWidth) : A = {Sell(s), Buy(w)}
    BY DEF Mes0dtePcs
  <2>2. PICK w \in Lower(puts, s, WingWidth) : A = {Sell(s), Buy(w)}
    BY <2>1
  <2>3. w \in Below(puts, s)
    BY <1>4, <2>2 DEF Lower
  <2>4. w \in puts /\ w.strike < s.strike
    BY <2>3 DEF Below
  <2>5. s \in puts
    BY <1>4
  <2> QED BY <1>5, <2>2, <2>4, <2>5 DEF IsPutSpread
<1>7. ASSUME NEW B \in UNION {{{Sell(s), Buy(w)} : w \in Higher(calls, s, WingWidth)} :
                              s \in ClosestStrike(calls, price + ShortOffset)}
      PROVE  \E c, d \in calls : IsCallSpread(c, d) /\ B = {Sell(c), Buy(d)}
  <2>1. PICK c \in ClosestStrike(calls, price + ShortOffset) :
           \E d \in Higher(calls, c, WingWidth) : B = {Sell(c), Buy(d)}
    OBVIOUS
  <2>2. PICK d \in Higher(calls, c, WingWidth) : B = {Sell(c), Buy(d)}
    BY <2>1
  <2>3. d \in Above(calls, c)
    BY <1>4, <2>2 DEF Higher
  <2>4. d \in calls /\ c.strike < d.strike
    <3>1. d \in calls /\ d.strike > c.strike
      BY <2>3 DEF Above
    <3>2. c \in calls /\ c.strike \in Nat /\ d.strike \in Nat
      BY <1>2, <1>3, <1>4, <1>5, <3>1
    <3> QED BY <3>1, <3>2
  <2>5. c \in calls
    BY <1>4
  <2> QED BY <1>5, <2>2, <2>4, <2>5 DEF IsCallSpread
<1>8. CASE L \in Mes0dtePcs(snap, price)
  <2>1. PICK w \in puts, s \in puts : IsPutSpread(w, s) /\ L = {Sell(s), Buy(w)}
    BY <1>6, <1>8
  <2>2. IsPcs(L)
    BY <1>5, <2>1 DEF IsPcs
  <2>3. LegsTraded(L)
    <3>1. w \in snap /\ s \in snap /\ Contract(Sell(s)) = s /\ Contract(Buy(w)) = w
      BY <1>2, <1>3, <1>5, <2>1
    <3> QED BY <1>2, <2>1, <3>1 DEF LegsTraded
  <2> QED BY <2>2, <2>3
<1>9. CASE L \in Mes0dteIronCondor(snap, price)
  <2> DEFINE bears == UNION {{{Sell(s), Buy(w)} : w \in Higher(calls, s, WingWidth)} :
                             s \in ClosestStrike(calls, price + ShortOffset)}
  <2>0. Mes0dteIronCondor(snap, price) = Together(Mes0dtePcs(snap, price), bears)
    BY DEF Mes0dteIronCondor
  <2>1. PICK A \in Mes0dtePcs(snap, price), B \in bears : L = A \cup B
    <3> HIDE DEF bears
    <3> QED BY <1>9, <2>0 DEF Together
  <2>2. PICK w \in puts, s \in puts : IsPutSpread(w, s) /\ A = {Sell(s), Buy(w)}
    BY <1>6
  <2>3. PICK c \in calls, d \in calls : IsCallSpread(c, d) /\ B = {Sell(c), Buy(d)}
    BY <1>7
  <2>4. s.strike < c.strike
    <3>1. s.strike < price /\ c.strike > price /\ s.strike \in Nat /\ c.strike \in Nat
      BY <1>2, <1>3, <1>5, <2>2, <2>3
    <3> HIDE DEF price
    <3> QED BY <1>1, <3>1
  <2>5. IsCondor(L)
    BY <1>5, <2>1, <2>2, <2>3, <2>4 DEF IsCondor
  <2>6. LegsTraded(L)
    <3>1. /\ w \in snap /\ s \in snap /\ Contract(Sell(s)) = s /\ Contract(Buy(w)) = w
          /\ c \in snap /\ d \in snap /\ Contract(Sell(c)) = c /\ Contract(Buy(d)) = d
      BY <1>2, <1>3, <1>5, <2>2, <2>3
    <3> QED BY <1>2, <2>1, <2>2, <2>3, <3>1 DEF LegsTraded
  <2> QED BY <2>5, <2>6
<1> QED BY <1>8, <1>9 DEF OnEntry

LEMMA SessionPricedStep == SessionPriced /\ [ZeroDteNext]_zvars => SessionPriced'
<1> SUFFICES ASSUME SessionPriced, [ZeroDteNext]_zvars PROVE SessionPriced'
  OBVIOUS
<1>0. /\ bars \in Seq(BarsOfADay) /\ (trade # {} => stage = "traded")
      /\ (stage \in {"manage", "traded"} => Len(bars) = SettleAt)
      /\ EntryAt \in Nat /\ SettleAt \in Nat /\ EntryAt < SettleAt /\ CheckEvery \in Nat
  BY ZeroDteAssumption DEF SessionPriced
<1>1. ASSUME UNCHANGED <<session, bars, trade>>
      PROVE  PaidWithinTheWings'
  <2>1. \A L : Width(L)' = Width(L)
    BY DEF Width, PayoffAt, SamplePrices
  <2>2. \A L, m : BarsTogether(L, m)' = BarsTogether(L, m)
    BY <1>1 DEF BarsTogether, LastBar, Traded
  <2> QED BY <1>1, <2>1, <2>2 DEF PaidWithinTheWings, SessionPriced
<1>2. ASSUME trade' = {} PROVE PaidWithinTheWings'
  BY <1>2 DEF PaidWithinTheWings
<1>3. ASSUME UNCHANGED <<session, bars>>
      PROVE  \A L : /\ LegsTraded(L)' = LegsTraded(L)
                    /\ CloseCost(L, EntryAt)' = CloseCost(L, EntryAt)
  BY <1>3 DEF LegsTraded, Traded, CloseCost, CloseOf, LastBar, OwnPrice
<1>4. CASE \E price \in TapePrices, quiet \in Quiet \cup {{}}, bar \in BOOLEAN : Minute(price, quiet, bar)
  <2>1. PICK price \in TapePrices, quiet \in Quiet \cup {{}}, bar \in BOOLEAN : Minute(price, quiet, bar)
    BY <1>4
  <2>2. /\ stage = "read" /\ stage' = stage /\ trade' = trade /\ trade = {}
        /\ bars' = Append(bars, [price |-> price, quiet |-> quiet, bar |-> bar])
    BY <1>0, <2>1 DEF Minute
  <2>3. [price |-> price, quiet |-> quiet, bar |-> bar] \in BarsOfADay
    BY DEF BarsOfADay
  <2>4. bars' \in Seq(BarsOfADay)
    BY <1>0, <2>2, <2>3
  <2> QED BY <1>2, <2>2, <2>4 DEF SessionPriced
<1>5. CASE SkipSession
  <2>1. stage' \in {"skipped", "unlisted"} /\ UNCHANGED <<session, bars, trade>> /\ trade = {}
    BY <1>0, <1>5 DEF SkipSession, DayOver
  <2> QED BY <1>0, <1>1, <2>1 DEF SessionPriced
<1>6. CASE Enter
  <2>1. /\ stage' = "manage" /\ UNCHANGED <<session, bars, trade>> /\ trade = {} /\ Len(bars) = SettleAt
        /\ order' \in OnEntry /\ credit' = CloseCost(order', EntryAt) /\ checkAt' = EntryAt + CheckEvery
    BY <1>0, <1>6 DEF Enter, DayOver
  <2>2. (IsPcs(order') \/ IsCondor(order')) /\ LegsTraded(order')
    BY <1>0, <2>1, OrdersOfThePair
  <2>3. checkAt' \in Nat /\ checkAt' >= EntryAt
    BY <1>0, <2>1
  <2>4. (IsPcs(order) \/ IsCondor(order))' /\ LegsTraded(order)' /\ credit' = CloseCost(order, EntryAt)'
    <3>1. LegsTraded(order)' = (\A l \in order' : \E i \in 1..EntryAt : Contract(l) \in Traded(i)')
      BY DEF LegsTraded
    <3>2. \A i : Traded(i)' = Traded(i)
      BY <2>1 DEF Traded
    <3>3. LegsTraded(order)'
      BY <2>2, <3>1, <3>2 DEF LegsTraded
    <3>4. CloseCost(order, EntryAt)' = CloseCost(order', EntryAt)
      BY <2>1 DEF CloseCost, CloseOf, LastBar, OwnPrice, Traded
    <3>5. (IsPcs(order) \/ IsCondor(order))'
      BY <2>2 DEF IsPcs, IsCondor
    <3> QED BY <2>1, <3>3, <3>4, <3>5
  <2> QED BY <1>0, <1>2, <2>1, <2>3, <2>4 DEF SessionPriced
<1>7. CASE CheckNothing
  <2>1. /\ stage = "manage" /\ UNCHANGED <<session, bars, stage, order, credit, trade>>
        /\ checkAt' = checkAt + CheckEvery /\ checkAt \in Nat /\ checkAt >= EntryAt
    BY <1>7 DEF CheckNothing, Checking, SessionPriced
  <2>2. checkAt' \in Nat /\ checkAt' >= EntryAt
    BY <1>0, <2>1
  <2>3. /\ (IsPcs(order) \/ IsCondor(order))'
        /\ LegsTraded(order)' /\ credit' = CloseCost(order, EntryAt)'
    BY <1>3, <2>1 DEF SessionPriced, IsPcs, IsCondor, LegsTraded, CloseCost, Traded, CloseOf, LastBar, OwnPrice
  <2> QED BY <1>0, <1>1, <2>1, <2>2, <2>3 DEF SessionPriced
<1>8. CASE CloseEarly \/ Settle
  <2>1. PICK reason, when, cost :
           /\ stage = "manage" /\ Record(reason, when, cost)
           /\ \/ reason # "settlement" /\ when = checkAt /\ checkAt < SettleAt /\ cost = CloseCost(order, checkAt)
              \/ reason = "settlement" /\ when = SettleAt /\ cost = SettleCost(order)
    BY <1>8 DEF CloseEarly, Settle, Checking
  <2>2. /\ trade' = {[reason |-> reason, at |-> when, legs |-> order, credit |-> credit, cost |-> cost]}
        /\ stage' = "traded" /\ UNCHANGED <<session, bars>> /\ Len(bars) = SettleAt
    BY <1>0, <2>1 DEF Record
  <2>3. /\ IsPcs(order) \/ IsCondor(order)
        /\ LegsTraded(order) /\ credit = CloseCost(order, EntryAt) /\ checkAt \in Nat /\ checkAt >= EntryAt
    BY <2>1 DEF SessionPriced
  <2>4. BarsTogether(order, EntryAt) => credit \in 0..Width(order)
    BY <1>0, <2>2, <2>3, ClosesFitTheWings
  <2>5. reason = "settlement" \/ BarsTogether(order, when) => cost \in 0..Width(order)
    <3>1. CASE when = checkAt /\ checkAt < SettleAt /\ cost = CloseCost(order, checkAt) /\ reason # "settlement"
      BY <1>0, <2>2, <2>3, <3>1, ClosesFitTheWings
    <3>2. CASE cost = SettleCost(order)
      BY <1>0, <2>2, <2>3, <3>2, SettlementFitsTheWings
    <3> QED BY <2>1, <3>1, <3>2
  <2>6. \A L : Width(L)' = Width(L)
    BY DEF Width, PayoffAt, SamplePrices
  <2>7. \A L, m : BarsTogether(L, m)' = BarsTogether(L, m)
    BY <2>2 DEF BarsTogether, LastBar, Traded
  <2>8. PaidWithinTheWings'
    <3> SUFFICES ASSUME NEW t \in trade'
                 PROVE  /\ BarsTogether(t.legs, EntryAt)' => t.credit \in 0..Width(t.legs)'
                        /\ (t.reason = "settlement" \/ BarsTogether(t.legs, t.at)') => t.cost \in 0..Width(t.legs)'
      BY DEF PaidWithinTheWings
    <3>1. t.reason = reason /\ t.at = when /\ t.legs = order /\ t.credit = credit /\ t.cost = cost
      BY <2>2
    <3> QED BY <2>4, <2>5, <2>6, <2>7, <3>1
  <2> QED BY <1>0, <2>2, <2>8 DEF SessionPriced
<1>9. CASE UNCHANGED zvars
  <2>1. UNCHANGED <<session, bars, stage, order, credit, checkAt, trade>>
    BY <1>9 DEF zvars
  <2>2. stage = "manage" => /\ (IsPcs(order) \/ IsCondor(order))'
                            /\ LegsTraded(order)' /\ credit' = CloseCost(order, EntryAt)'
    BY <2>1 DEF SessionPriced, IsPcs, IsCondor, LegsTraded, CloseCost, Traded, CloseOf, LastBar, OwnPrice
  <2> QED BY <1>0, <1>1, <2>1, <2>2 DEF SessionPriced
<1> QED BY <1>4, <1>5, <1>6, <1>7, <1>8, <1>9 DEF ZeroDteNext

(* A 0DTE spread is sold, bought back and settled between nothing and what  *)
(* its wings are apart, for any strikes, offsets, gaps, rolls and times, if *)
(* its legs are taken at closes of one minute and those leave no arbitrage: *)
(* the strategies pick wings beyond the shorts and on one side each.        *)
THEOREM SpreadsPayWithinTheWings == ResearchSpec => []PaidWithinTheWings
<1>1. ResearchInit => SessionPriced
  BY DEF ResearchInit, ZeroDteInit, SessionPriced, PaidWithinTheWings
<1>2. SessionPriced /\ [ResearchNext]_researchVars => SessionPriced'
  <2>1. [ResearchNext]_researchVars => [ZeroDteNext]_zvars
    BY DEF ResearchNext, researchVars
  <2> QED BY <2>1, SessionPricedStep
<1>3. SessionPriced => PaidWithinTheWings
  BY DEF SessionPriced
<1> QED BY <1>1, <1>2, <1>3, PTL DEF ResearchSpec
=============================================================================
