-------------------------- MODULE Safeguards_proofs --------------------------
(***************************************************************************)
(* What holds of the risk gate (RiskGate) whatever the strategies, caps,   *)
(* windows and bounds, and of the reconciliation loop (Reconciliation)     *)
(* whatever the cadences, the sleep, the longest query, the orders and the *)
(* instruments.                                                            *)
(*                                                                         *)
(* The gate.  Four strengthenings of TypeOK are inductive: Resumption,     *)
(* what the state of the switch says of the end of its history; Remembered,*)
(* which says that an order sent within the window is still among the ids  *)
(* seen; Counted, which ties the counters of RiskState to the open         *)
(* positions they count; and Balanced, which ties its amounts to the       *)
(* profits and losses they add up.                                         *)
(*                                                                         *)
(* The loop.  OnTime bounds the age of a check by where the loop is.  A    *)
(* check that is still to come was at most Slack and one sleep old when    *)
(* the tick began; one that has run is as old as the tick; one that was    *)
(* passed over was not due, and then the tick has spent one query less.    *)
(*                                                                         *)
(* Grounded holds the answer against the local view it will be compared    *)
(* with: while the two sides agree, neither can move on what is compared,  *)
(* since the other one would have to move in the same step.                *)
(***************************************************************************)
EXTENDS RiskGate, Reconciliation, Sums_proofs

LEMMA InitTypeOK == Init => TypeOK
<1> SUFFICES ASSUME Init PROVE TypeOK
  OBVIOUS
<1>1. state \in {"inactive", "active", "awaiting_reconciliation"}
  BY DEF Init
<1>2. trips \in Seq({"trip", "clear", "reconciled"}) /\ claims \in Seq(Coid \X Nat)
  BY DEF Init
<1>3. risk \in RiskState
  BY DEF Init, RiskState
<1>4. DOMAIN seen = {} /\ now \in Nat
  BY DEF Init
<1>5. /\ inFlight \subseteq Coid /\ DOMAIN positions \subseteq Coid
      /\ positions \in [DOMAIN positions -> Int] /\ closed \in [day : Int, week : Int]
      /\ DOMAIN start \subseteq Coid /\ start \in [DOMAIN start -> Int]
  BY DEF Init
<1> QED BY <1>1, <1>2, <1>3, <1>4, <1>5 DEF TypeOK

(* A fill keeps the type of the counters. *)
LEMMA UpdateOnFillType ==
    ASSUME TypeOK, NEW s \in Strategy, NEW r \in Int, NEW o \in Int, NEW d \in Int
    PROVE  UpdateOnFill(s, r, o, d) \in RiskState
<1>1. \A n \in Nat : AtLeastZero(n + d) \in Nat
  BY DEF AtLeastZero
<1>2. /\ risk.realizedToday \in Int /\ risk.realizedThisWeek \in Int /\ risk.openPnl \in Int
      /\ risk.openPositions \in Nat /\ risk.instances \in [Strategy -> Nat]
  BY DEF TypeOK, RiskState
<1>3. [risk.instances EXCEPT ![s] = AtLeastZero(@ + d)] \in [Strategy -> Nat]
  BY <1>1, <1>2
<1> QED BY <1>1, <1>2, <1>3 DEF UpdateOnFill, RiskState

(* So does a reset, one field at a time. *)
LEMMA ResetType ==
    ASSUME NEW r \in RiskState
    PROVE  /\ [r EXCEPT !.realizedToday = 0] \in RiskState
           /\ [r EXCEPT !.realizedThisWeek = 0] \in RiskState
           /\ [r EXCEPT !.openPnl = 0] \in RiskState
           /\ [r EXCEPT !.realizedToday = 0, !.openPnl = 0] =
                  [[r EXCEPT !.realizedToday = 0] EXCEPT !.openPnl = 0]
<1>1. [r EXCEPT !.realizedToday = 0] \in RiskState
  BY DEF RiskState
<1>2. [r EXCEPT !.realizedThisWeek = 0] \in RiskState
  BY DEF RiskState
<1>3. [r EXCEPT !.openPnl = 0] \in RiskState
  BY DEF RiskState
<1>4. [r EXCEPT !.realizedToday = 0, !.openPnl = 0] =
          [[r EXCEPT !.realizedToday = 0] EXCEPT !.openPnl = 0]
  BY DEF RiskState
<1> QED BY <1>1, <1>2, <1>3, <1>4

LEMMA NextTypeOK == TypeOK /\ [Next]_vars => TypeOK'
<1> SUFFICES ASSUME TypeOK, [Next]_vars PROVE TypeOK'
  OBVIOUS
<1>1. CASE Trip
  BY <1>1 DEF TypeOK, Trip, StateAfterTrip, Record, market
<1>2. CASE Clear
  BY <1>2 DEF TypeOK, Clear, Record, market
<1>3. CASE MarkReconciled
  BY <1>3 DEF TypeOK, MarkReconciled, Record, market
<1>4. ASSUME NEW c \in Coid, Submit(c) PROVE TypeOK'
  <2>1. DOMAIN seen' \subseteq Coid /\ \A d \in DOMAIN seen' : seen'[d] \in 0..now'
    BY <1>4 DEF TypeOK, Submit, Register, StillSeen
  <2>2. claims' \in Seq(Coid \X Nat) /\ inFlight' \subseteq Coid
    BY <1>4 DEF TypeOK, Submit
  <2> QED BY <1>4, <2>1, <2>2 DEF TypeOK, Submit, switch
<1>5. ASSUME NEW c \in Coid, Refuse(c) PROVE TypeOK'
  BY <1>5 DEF TypeOK, Refuse, StillSeen, switch, market
<1>6. ASSUME NEW c \in Coid, EntryFill(c) PROVE TypeOK'
  <2>1. c[1] \in Strategy
    BY DEF Coid
  <2>2. risk' = UpdateOnFill(c[1], 0, 0, 1)
    BY <1>6 DEF EntryFill
  <2>3. risk' \in RiskState
    BY <2>1, <2>2, UpdateOnFillType
  <2> QED BY <1>6, <2>3 DEF TypeOK, EntryFill, switch
<1>7. ASSUME NEW c \in Coid, EntryDies(c) PROVE TypeOK'
  BY <1>7 DEF TypeOK, EntryDies, switch
<1>8. ASSUME NEW c \in Coid, CloseFill(c) PROVE TypeOK'
  <2>1. c[1] \in Strategy /\ positions[c] \in Int
    BY <1>8 DEF TypeOK, Coid, CloseFill
  <2>2. risk' = UpdateOnFill(c[1], positions[c], -positions[c], -1)
    BY <1>8 DEF CloseFill
  <2>3. risk' \in RiskState
    BY <2>1, <2>2, UpdateOnFillType
  <2> QED BY <1>8, <2>1, <2>3 DEF TypeOK, CloseFill, switch
<1>9. ASSUME NEW c \in Coid, NEW d \in {-1, 1}, Mark(c, d) PROVE TypeOK'
  <2>1. c[1] \in Strategy /\ d \in Int /\ positions[c] \in Int
    BY <1>9 DEF TypeOK, Coid, Mark
  <2>2. risk' = UpdateOnFill(c[1], 0, d, 0)
    BY <1>9 DEF Mark
  <2>3. risk' \in RiskState
    BY <2>1, <2>2, UpdateOnFillType
  <2> QED BY <1>9, <2>1, <2>3 DEF TypeOK, Mark, switch
<1>10. CASE ResetDailyCounters
  <2>1. risk' \in RiskState
    <3>1. risk \in RiskState
      BY DEF TypeOK
    <3>2. risk' = [[risk EXCEPT !.realizedToday = 0] EXCEPT !.openPnl = 0]
      BY <1>10, <3>1, ResetType DEF ResetDailyCounters
    <3> QED BY <3>1, <3>2, ResetType
  <2>2. closed' \in [day : Int, week : Int]
    <3>1. closed \in [day : Int, week : Int]
      BY DEF TypeOK
    <3>2. closed' = [closed EXCEPT !.day = 0]
      BY <1>10 DEF ResetDailyCounters
    <3> QED BY <3>1, <3>2
  <2> QED BY <1>10, <2>1, <2>2 DEF TypeOK, ResetDailyCounters, switch
<1>11. CASE ResetWeeklyCounters
  <2>1. risk' \in RiskState
    <3>1. risk \in RiskState
      BY DEF TypeOK
    <3>2. risk' = [risk EXCEPT !.realizedThisWeek = 0]
      BY <1>11 DEF ResetWeeklyCounters
    <3> QED BY <3>1, <3>2, ResetType
  <2>2. closed' \in [day : Int, week : Int]
    <3>1. closed \in [day : Int, week : Int]
      BY DEF TypeOK
    <3>2. closed' = [closed EXCEPT !.week = 0]
      BY <1>11 DEF ResetWeeklyCounters
    <3> QED BY <3>1, <3>2
  <2> QED BY <1>11, <2>1, <2>2 DEF TypeOK, ResetWeeklyCounters, switch
<1>12. CASE Hour
  BY <1>12 DEF TypeOK, Hour, switch, market
<1>13. CASE UNCHANGED vars
  BY <1>13 DEF TypeOK, vars, switch, market
<1> QED
  BY <1>1, <1>2, <1>3, <1>4, <1>5, <1>6, <1>7, <1>8, <1>9, <1>10, <1>11, <1>12, <1>13
  DEF Next

(* The switch, the counters, the ids and the books keep their types. *)
THEOREM GateTypeCorrect == Spec => []TypeOK
BY InitTypeOK, NextTypeOK, PTL DEF Spec

-----------------------------------------------------------------------------
(* What the state of the switch says of the end of its history. *)
Resumption ==
    /\ state = "inactive" =>
           \/ trips = <<>>
           \/ /\ Len(trips) >= 2
              /\ trips[Len(trips) - 1] = "clear" /\ trips[Len(trips)] = "reconciled"
    /\ state = "awaiting_reconciliation" => Len(trips) >= 1 /\ trips[Len(trips)] = "clear"

LEMMA NextResumption == TypeOK /\ Resumption /\ [Next]_vars => Resumption'
<1> SUFFICES ASSUME TypeOK, Resumption, [Next]_vars PROVE Resumption'
  OBVIOUS
<1>1. CASE Trip
  BY <1>1 DEF Resumption, Trip, StateAfterTrip
<1>2. CASE Clear
  BY <1>2 DEF TypeOK, Resumption, Clear, Record
<1>3. CASE MarkReconciled
  <2>1. /\ Len(trips) >= 1 /\ trips[Len(trips)] = "clear"
        /\ trips \in Seq({"trip", "clear", "reconciled"})
        /\ trips' = Append(trips, "reconciled") /\ state' = "inactive"
    BY <1>3 DEF TypeOK, Resumption, MarkReconciled, Record
  <2> QED BY <2>1 DEF Resumption
<1>4. CASE UNCHANGED switch
  BY <1>4 DEF Resumption, switch
<1>5. Trip \/ Clear \/ MarkReconciled \/ UNCHANGED switch
  BY DEF Next, Submit, Refuse, EntryFill, EntryDies, CloseFill, Mark, ResetDailyCounters,
         ResetWeeklyCounters, Hour, vars, switch
<1> QED BY <1>1, <1>2, <1>3, <1>4, <1>5

(* Trading resumes only by a clear and a reconciliation after the last trip,*)
(* for every history of trips however interleaved.                          *)
THEOREM ResumptionCorrect == Spec => []ResumesOnlyReconciled
<1>1. Init => Resumption
  BY DEF Init, Resumption
<1>2. TypeOK /\ Resumption => ResumesOnlyReconciled
  <2> SUFFICES ASSUME TypeOK, Resumption, ~ IsActive, NEW i \in DOMAIN trips, trips[i] = "trip"
               PROVE  /\ Len(trips) >= i + 2
                      /\ trips[Len(trips) - 1] = "clear" /\ trips[Len(trips)] = "reconciled"
    BY DEF ResumesOnlyReconciled
  <2>1. trips \in Seq({"trip", "clear", "reconciled"}) /\ i \in 1..Len(trips)
    BY DEF TypeOK
  <2>2. Len(trips) >= 2 /\ trips[Len(trips) - 1] = "clear" /\ trips[Len(trips)] = "reconciled"
    BY <2>1 DEF Resumption, IsActive
  <2>3. i # Len(trips) /\ i # Len(trips) - 1
    BY <2>2
  <2> QED BY <2>1, <2>2, <2>3
<1> QED BY <1>1, <1>2, InitTypeOK, NextTypeOK, NextResumption, PTL DEF Spec

-----------------------------------------------------------------------------
(* An order sent within the window is still among the ids seen. *)
Remembered ==
    \A i \in DOMAIN claims :
        /\ claims[i][2] <= now
        /\ now - claims[i][2] <= Window =>
               claims[i][1] \in DOMAIN seen /\ claims[i][2] <= seen[claims[i][1]]

LEMMA ClaimTypes ==
    ASSUME TypeOK
    PROVE  /\ claims \in Seq(Coid \X Nat) /\ now \in Nat /\ Window \in Nat
           /\ \A i \in DOMAIN claims : claims[i][2] \in Nat
           /\ \A c \in DOMAIN seen : seen[c] \in Nat
<1>1. claims \in Seq(Coid \X Nat) /\ now \in Nat
  BY DEF TypeOK
<1>2. Window \in Nat
  BY RiskGateAssumption
<1>3. \A i \in DOMAIN claims : claims[i] \in Coid \X Nat
  BY <1>1
<1>4. \A c \in DOMAIN seen : seen[c] \in Nat
  BY DEF TypeOK
<1> QED BY <1>1, <1>2, <1>3, <1>4

(* Dropping the ids that are stale forgets no claim of the window. *)
LEMMA StillSeenKeeps ==
    ASSUME TypeOK, Remembered, NEW i \in DOMAIN claims, now - claims[i][2] <= Window
    PROVE  claims[i][1] \in StillSeen
<1>1. /\ now \in Nat /\ Window \in Nat /\ claims[i][2] \in Nat
      /\ \A c \in DOMAIN seen : seen[c] \in Nat
  BY ClaimTypes
<1>2. claims[i][1] \in DOMAIN seen /\ claims[i][2] <= seen[claims[i][1]]
  BY DEF Remembered
<1> QED BY <1>1, <1>2 DEF StillSeen

LEMMA NextRemembered ==
    TypeOK /\ Remembered /\ OncePerWindow /\ [Next]_vars => Remembered' /\ OncePerWindow'
<1> SUFFICES ASSUME TypeOK, Remembered, OncePerWindow, [Next]_vars
             PROVE  Remembered' /\ OncePerWindow'
  OBVIOUS
<1>0. /\ claims \in Seq(Coid \X Nat) /\ now \in Nat /\ Window \in Nat
      /\ \A i \in DOMAIN claims : claims[i][2] \in Nat
  BY ClaimTypes
<1>1. ASSUME NEW c \in Coid, Submit(c) PROVE Remembered' /\ OncePerWindow'
  <2>1. /\ claims' = Append(claims, <<c, now>>) /\ now' = now
        /\ c \notin StillSeen
        /\ seen' = [d \in StillSeen \cup {c} |-> IF d = c THEN now ELSE seen[d]]
    BY <1>1 DEF Submit, Register
  <2>2. /\ DOMAIN claims' = 1..(Len(claims) + 1) /\ DOMAIN claims = 1..Len(claims)
        /\ \A i \in DOMAIN claims : claims'[i] = claims[i]
        /\ claims'[Len(claims) + 1] = <<c, now>>
    BY <1>0, <2>1
  <2>3. Remembered'
    <3> SUFFICES ASSUME NEW i \in DOMAIN claims'
                 PROVE  /\ claims'[i][2] <= now'
                        /\ now' - claims'[i][2] <= Window =>
                               /\ claims'[i][1] \in DOMAIN seen'
                               /\ claims'[i][2] <= seen'[claims'[i][1]]
      BY DEF Remembered
    <3>1. CASE i = Len(claims) + 1
      BY <1>0, <2>1, <2>2, <3>1
    <3>2. CASE i \in DOMAIN claims
      <4>1. claims'[i] = claims[i] /\ claims[i][2] <= now
        BY <2>2, <3>2 DEF Remembered
      <4>2. ASSUME now - claims[i][2] <= Window
            PROVE  /\ claims[i][1] \in StillSeen
                   /\ claims[i][2] <= seen[claims[i][1]]
        BY <3>2, <4>2, StillSeenKeeps DEF Remembered
      <4> QED BY <1>0, <2>1, <4>1, <4>2
    <3> QED BY <2>2, <3>1, <3>2
  <2>4. OncePerWindow'
    <3> SUFFICES ASSUME NEW i \in DOMAIN claims', NEW j \in DOMAIN claims',
                        i < j, claims'[i][1] = claims'[j][1]
                 PROVE  claims'[j][2] - claims'[i][2] > Window
      BY DEF OncePerWindow
    <3>1. i \in DOMAIN claims /\ claims'[i] = claims[i]
      BY <1>0, <2>2
    <3>2. CASE j \in DOMAIN claims
      BY <2>2, <3>1, <3>2 DEF OncePerWindow
    <3>3. CASE j = Len(claims) + 1
      <4>1. claims'[j] = <<c, now>> /\ claims[i][1] = c
        BY <2>2, <3>1, <3>3
      <4>2. ~ (now - claims[i][2] <= Window)
        BY <2>1, <3>1, <4>1, StillSeenKeeps
      <4> QED BY <1>0, <3>1, <4>1, <4>2
    <3> QED BY <2>2, <3>2, <3>3
  <2> QED BY <2>3, <2>4
<1>2. ASSUME NEW c \in Coid, Refuse(c) PROVE Remembered' /\ OncePerWindow'
  <2>1. /\ seen' = [d \in StillSeen |-> seen[d]] /\ now' = now /\ claims' = claims
    BY <1>2 DEF Refuse, market
  <2>2. OncePerWindow'
    BY <2>1 DEF OncePerWindow
  <2>3. ASSUME NEW i \in DOMAIN claims, now - claims[i][2] <= Window
        PROVE  claims[i][1] \in StillSeen /\ claims[i][2] <= seen[claims[i][1]]
    BY <2>3, StillSeenKeeps DEF Remembered
  <2> QED BY <2>1, <2>2, <2>3 DEF Remembered
<1>3. CASE Hour
  <2>1. now' = now + 1 /\ seen' = seen /\ claims' = claims
    BY <1>3 DEF Hour
  <2> QED BY <1>0, <2>1 DEF Remembered, OncePerWindow
<1>4. CASE UNCHANGED <<seen, now, claims>>
  BY <1>4 DEF Remembered, OncePerWindow
<1>5. \/ \E c \in Coid : Submit(c) \/ Refuse(c)
      \/ Hour \/ UNCHANGED <<seen, now, claims>>
  BY DEF Next, Trip, Clear, MarkReconciled, EntryFill, EntryDies, CloseFill, Mark,
         ResetDailyCounters, ResetWeeklyCounters, vars
<1> QED BY <1>1, <1>2, <1>3, <1>4, <1>5

(* No id is sent twice within a window, whatever the window and however     *)
(* long the history.                                                        *)
THEOREM WindowCorrect == Spec => []OncePerWindow
<1>1. Init => Remembered /\ OncePerWindow
  BY DEF Init, Remembered, OncePerWindow
<1> QED BY <1>1, InitTypeOK, NextTypeOK, NextRemembered, PTL DEF Spec

-----------------------------------------------------------------------------
(* The counters count what is open, and what is in flight is not open.  *)
Counted ==
    /\ IsFiniteSet(inFlight) /\ IsFiniteSet(DOMAIN positions)
    /\ inFlight \cap DOMAIN positions = {}
    /\ Cardinality(inFlight) <= MaxInFlight
    /\ risk.openPositions = Cardinality(DOMAIN positions)
    /\ \A s \in Strategy : risk.instances[s] = Cardinality(OfStrategy(s, DOMAIN positions))

(* Adding and removing one id changes the count of its strategy alone. *)
LEMMA OfStrategyFinite ==
    ASSUME NEW s, NEW S, IsFiniteSet(S)
    PROVE  /\ IsFiniteSet(OfStrategy(s, S))
           /\ Cardinality(OfStrategy(s, S)) \in Nat
           /\ Cardinality(OfStrategy(s, S)) <= Cardinality(S)
           /\ Cardinality(S) \in Nat
<1>1. OfStrategy(s, S) \in SUBSET S
  BY DEF OfStrategy
<1> QED BY <1>1, FS_Subset, FS_CardinalityType

LEMMA OfStrategyAdd ==
    ASSUME NEW s, NEW S, IsFiniteSet(S), NEW c, c \notin S
    PROVE  Cardinality(OfStrategy(s, S \cup {c})) =
               IF c[1] = s THEN Cardinality(OfStrategy(s, S)) + 1
                           ELSE Cardinality(OfStrategy(s, S))
<1>1. IsFiniteSet(OfStrategy(s, S)) /\ c \notin OfStrategy(s, S)
  BY OfStrategyFinite DEF OfStrategy
<1>2. CASE c[1] = s
  <2>1. OfStrategy(s, S \cup {c}) = OfStrategy(s, S) \cup {c}
    BY <1>2 DEF OfStrategy
  <2>2. Cardinality(OfStrategy(s, S) \cup {c}) = Cardinality(OfStrategy(s, S)) + 1
    BY <1>1, FS_AddElement
  <2> QED BY <1>2, <2>1, <2>2
<1>3. CASE c[1] # s
  <2>1. OfStrategy(s, S \cup {c}) = OfStrategy(s, S)
    BY <1>3 DEF OfStrategy
  <2> QED BY <1>3, <2>1
<1> QED BY <1>2, <1>3

LEMMA OfStrategyRemove ==
    ASSUME NEW s, NEW S, IsFiniteSet(S), NEW c \in S
    PROVE  Cardinality(OfStrategy(s, S \ {c})) =
               IF c[1] = s THEN Cardinality(OfStrategy(s, S)) - 1
                           ELSE Cardinality(OfStrategy(s, S))
<1>1. IsFiniteSet(OfStrategy(s, S))
  BY OfStrategyFinite
<1>2. CASE c[1] = s
  <2>1. OfStrategy(s, S \ {c}) = OfStrategy(s, S) \ {c} /\ c \in OfStrategy(s, S)
    BY <1>2 DEF OfStrategy
  <2> QED BY <1>1, <1>2, <2>1, FS_RemoveElement
<1>3. CASE c[1] # s
  <2>1. OfStrategy(s, S \ {c}) = OfStrategy(s, S)
    BY <1>3 DEF OfStrategy
  <2> QED BY <1>3, <2>1
<1> QED BY <1>2, <1>3

(* Taking ids away raises no count. *)
LEMMA OfStrategyLess ==
    ASSUME NEW s, NEW S, IsFiniteSet(S), NEW T \in SUBSET S
    PROVE  /\ IsFiniteSet(T) /\ Cardinality(T) <= Cardinality(S)
           /\ Cardinality(OfStrategy(s, T)) <= Cardinality(OfStrategy(s, S))
<1>1. OfStrategy(s, T) \in SUBSET OfStrategy(s, S)
  BY DEF OfStrategy
<1> QED BY <1>1, FS_Subset, OfStrategyFinite

LEMMA InitCounted == Init => Counted /\ PositionCapOverrun
<1> SUFFICES ASSUME Init PROVE Counted /\ PositionCapOverrun
  OBVIOUS
<1>1. MaxInFlight \in Nat /\ MaxInFlight > 0 /\ MaxTotal \in Nat /\ MaxInstances \in Nat
  BY RiskGateAssumption
<1>2. inFlight = {} /\ DOMAIN positions = {} /\ DOMAIN positions \cup inFlight = {}
  BY DEF Init
<1>3. /\ IsFiniteSet({}) /\ Cardinality({}) = 0
      /\ \A s \in Strategy : OfStrategy(s, {}) = {}
  BY FS_EmptySet DEF OfStrategy
<1>4. risk.openPositions = 0 /\ \A s \in Strategy : risk.instances[s] = 0
  BY DEF Init
<1>5. Counted
  <2>1. \A s \in Strategy : risk.instances[s] = Cardinality(OfStrategy(s, DOMAIN positions))
    BY <1>2, <1>3, <1>4
  <2> QED BY <1>1, <1>2, <1>3, <1>4, <2>1 DEF Counted
<1>6. PositionCapOverrun
  BY <1>1, <1>2, <1>3 DEF PositionCapOverrun
<1> QED BY <1>5, <1>6

LEMMA NextCounted ==
    TypeOK /\ Counted /\ PositionCapOverrun /\ [Next]_vars => Counted' /\ PositionCapOverrun'
<1> SUFFICES ASSUME TypeOK, Counted, PositionCapOverrun, [Next]_vars
             PROVE  Counted' /\ PositionCapOverrun'
  OBVIOUS
<1> DEFINE P == DOMAIN positions
           I == inFlight
           N(s, S) == Cardinality(OfStrategy(s, S))
<1>a. /\ MaxInFlight \in Nat /\ MaxTotal \in Nat /\ MaxInstances \in Nat
      /\ IsFiniteSet(I) /\ IsFiniteSet(P) /\ I \cap P = {} /\ Cardinality(I) <= MaxInFlight
      /\ risk.openPositions = Cardinality(P) /\ risk.instances \in [Strategy -> Nat]
      /\ \A s \in Strategy : risk.instances[s] = N(s, P)
  BY RiskGateAssumption DEF Counted, TypeOK, RiskState
<1>b. IsFiniteSet(P \cup I)
  BY <1>a, FS_Union
<1>c. Cardinality(P) \in Nat /\ Cardinality(I) \in Nat
  BY <1>a, FS_CardinalityType
<1>d. \A s : N(s, P) \in Nat /\ N(s, I) \in Nat /\ N(s, P \cup I) \in Nat /\ N(s, I) <= Cardinality(I)
  BY <1>a, <1>b, OfStrategyFinite
<1>e. \A s \in Strategy : N(s, P \cup I) < MaxInstances + MaxInFlight
  BY DEF PositionCapOverrun
<1>1. ASSUME NEW c \in Coid, Submit(c) PROVE Counted' /\ PositionCapOverrun'
  <2>1. /\ Cardinality(I) < MaxInFlight /\ c \notin I /\ c \notin P
        /\ inFlight' = I \cup {c} /\ positions' = positions /\ risk' = risk
    BY <1>1 DEF Submit
  <2>2. c[1] \in Strategy /\ Cardinality(P) < MaxTotal /\ N(c[1], P) < MaxInstances
    <3>1. c[1] \in Strategy /\ risk.openPositions < MaxTotal /\ risk.instances[c[1]] < MaxInstances
      BY <1>1 DEF Submit, PreFlightCheck, UnderPositionCap, UnderInstanceCap, Coid
    <3> QED BY <1>a, <3>1
  <2>3. IsFiniteSet(I \cup {c}) /\ Cardinality(I \cup {c}) = Cardinality(I) + 1
    BY <1>a, <2>1, FS_AddElement
  <2>4. Counted'
    BY <1>a, <1>c, <2>1, <2>3 DEF Counted
  <2>5. Cardinality(P) + Cardinality(I \cup {c}) < MaxTotal + MaxInFlight
    BY <1>a, <1>c, <2>1, <2>2, <2>3
  <2>6. ASSUME NEW s \in Strategy
        PROVE  N(s, P \cup (I \cup {c})) < MaxInstances + MaxInFlight
    <3>1. P \cup (I \cup {c}) = (P \cup I) \cup {c} /\ c \notin P \cup I
      BY <2>1
    <3>2. CASE s # c[1]
      <4>1. N(s, (P \cup I) \cup {c}) = N(s, P \cup I)
        BY <1>b, <3>1, <3>2, OfStrategyAdd
      <4> QED BY <1>e, <3>1, <4>1
    <3>3. CASE s = c[1]
      <4>1. N(s, (P \cup I) \cup {c}) = N(s, P \cup I) + 1
        BY <1>b, <3>1, <3>3, OfStrategyAdd
      <4>2. OfStrategy(s, P \cup I) = OfStrategy(s, P) \cup OfStrategy(s, I)
        BY DEF OfStrategy
      <4>3. N(s, P \cup I) <= N(s, P) + N(s, I)
        <5>1. IsFiniteSet(OfStrategy(s, P)) /\ IsFiniteSet(OfStrategy(s, I))
          BY <1>a, OfStrategyFinite
        <5>2. IsFiniteSet(OfStrategy(s, P) \cap OfStrategy(s, I))
          BY <5>1, FS_Intersection
        <5>3. Cardinality(OfStrategy(s, P) \cap OfStrategy(s, I)) \in Nat
          BY <5>2, FS_CardinalityType
        <5>4. N(s, P \cup I) =
                  N(s, P) + N(s, I) - Cardinality(OfStrategy(s, P) \cap OfStrategy(s, I))
          BY <4>2, <5>1, FS_Union
        <5> QED BY <1>d, <5>3, <5>4
      <4>4. N(s, P) < MaxInstances
        BY <2>2, <3>3
      <4> QED BY <1>a, <1>c, <1>d, <2>1, <3>1, <4>1, <4>3, <4>4
    <3> QED BY <3>2, <3>3
  <2>7. PositionCapOverrun'
    BY <2>1, <2>5, <2>6 DEF PositionCapOverrun
  <2> QED BY <2>4, <2>7
<1>2. ASSUME NEW c \in Coid, EntryFill(c) PROVE Counted' /\ PositionCapOverrun'
  <2>1. /\ c \in I /\ c \notin P /\ inFlight' = I \ {c} /\ c[1] \in Strategy
        /\ DOMAIN positions' = P \cup {c} /\ risk' = UpdateOnFill(c[1], 0, 0, 1)
    BY <1>2, <1>a DEF EntryFill, Coid
  <2>2. /\ IsFiniteSet(I \ {c}) /\ Cardinality(I \ {c}) = Cardinality(I) - 1
        /\ IsFiniteSet(P \cup {c}) /\ Cardinality(P \cup {c}) = Cardinality(P) + 1
    BY <1>a, <2>1, FS_AddElement, FS_RemoveElement
  <2>3. /\ risk'.openPositions = Cardinality(P) + 1
        /\ risk'.instances = [risk.instances EXCEPT ![c[1]] = N(c[1], P) + 1]
    BY <1>a, <1>c, <1>d, <2>1 DEF UpdateOnFill, AtLeastZero
  <2>4. \A s \in Strategy : risk'.instances[s] = N(s, P \cup {c})
    <3> TAKE s \in Strategy
    <3>1. N(s, P \cup {c}) = IF c[1] = s THEN N(s, P) + 1 ELSE N(s, P)
      BY <1>a, <2>1, OfStrategyAdd
    <3>2. risk'.instances[s] = IF c[1] = s THEN N(s, P) + 1 ELSE N(s, P)
      BY <1>a, <2>1, <2>3
    <3> QED BY <3>1, <3>2
  <2>5. Counted'
    BY <1>a, <1>c, <2>1, <2>2, <2>3, <2>4 DEF Counted
  <2>6. (P \cup {c}) \cup (I \ {c}) = P \cup I
    BY <2>1
  <2>7. Cardinality(P \cup {c}) + Cardinality(I \ {c}) = Cardinality(P) + Cardinality(I)
    BY <1>c, <2>2
  <2>8. PositionCapOverrun'
    BY <2>1, <2>6, <2>7 DEF PositionCapOverrun
  <2> QED BY <2>5, <2>8
<1>3. ASSUME NEW c \in Coid, EntryDies(c) PROVE Counted' /\ PositionCapOverrun'
  <2>1. c \in I /\ inFlight' = I \ {c} /\ positions' = positions /\ risk' = risk
    BY <1>3 DEF EntryDies
  <2>2. IsFiniteSet(I \ {c}) /\ Cardinality(I \ {c}) = Cardinality(I) - 1
    BY <1>a, <2>1, FS_RemoveElement
  <2>3. Counted'
    BY <1>a, <1>c, <2>1, <2>2 DEF Counted
  <2>4. P \cup (I \ {c}) \in SUBSET (P \cup I)
    OBVIOUS
  <2>5. \A s \in Strategy : N(s, P \cup (I \ {c})) <= N(s, P \cup I)
    BY <1>b, <2>4, OfStrategyLess
  <2>6. \A s \in Strategy : N(s, P \cup (I \ {c})) \in Nat
    BY <1>a, <2>2, FS_Union, OfStrategyFinite
  <2>7. \A s \in Strategy : N(s, P \cup (I \ {c})) < MaxInstances + MaxInFlight
    <3> TAKE s \in Strategy
    <3>1. /\ N(s, P \cup (I \ {c})) <= N(s, P \cup I) /\ N(s, P \cup (I \ {c})) \in Nat
          /\ N(s, P \cup I) \in Nat /\ N(s, P \cup I) < MaxInstances + MaxInFlight
      BY <1>d, <1>e, <2>5, <2>6
    <3> HIDE DEF N
    <3> QED BY <1>a, <3>1
  <2>8. Cardinality(P) + Cardinality(I \ {c}) < MaxTotal + MaxInFlight
    BY <1>a, <1>c, <2>2 DEF PositionCapOverrun
  <2>9. PositionCapOverrun'
    BY <2>1, <2>7, <2>8 DEF PositionCapOverrun
  <2> QED BY <2>3, <2>9
<1>4. ASSUME NEW c \in Coid, CloseFill(c) PROVE Counted' /\ PositionCapOverrun'
  <2>1. /\ c \in P /\ c \notin I /\ inFlight' = I /\ c[1] \in Strategy
        /\ DOMAIN positions' = P \ {c}
        /\ risk' = UpdateOnFill(c[1], positions[c], -positions[c], -1)
    BY <1>4, <1>a DEF CloseFill, Coid
  <2>2. /\ IsFiniteSet(P \ {c}) /\ Cardinality(P \ {c}) = Cardinality(P) - 1
        /\ Cardinality(P \ {c}) \in Nat
    BY <1>a, <2>1, FS_RemoveElement, FS_CardinalityType
  <2>3. /\ N(c[1], P \ {c}) = N(c[1], P) - 1 /\ N(c[1], P \ {c}) \in Nat
    BY <1>a, <2>1, <2>2, OfStrategyRemove, OfStrategyFinite
  <2>4. /\ risk'.openPositions = Cardinality(P) - 1
        /\ risk'.instances = [risk.instances EXCEPT ![c[1]] = N(c[1], P) - 1]
    BY <1>a, <1>c, <1>d, <2>1, <2>2, <2>3 DEF UpdateOnFill, AtLeastZero
  <2>5. \A s \in Strategy : risk'.instances[s] = N(s, P \ {c})
    <3> TAKE s \in Strategy
    <3>1. N(s, P \ {c}) = IF c[1] = s THEN N(s, P) - 1 ELSE N(s, P)
      BY <1>a, <2>1, OfStrategyRemove
    <3>2. risk'.instances[s] = IF c[1] = s THEN N(s, P) - 1 ELSE N(s, P)
      BY <1>a, <2>1, <2>4
    <3> QED BY <3>1, <3>2
  <2>6. Counted'
    BY <1>a, <1>c, <2>1, <2>2, <2>4, <2>5 DEF Counted
  <2>7. (P \ {c}) \cup I \in SUBSET (P \cup I)
    OBVIOUS
  <2>8. \A s \in Strategy : N(s, (P \ {c}) \cup I) <= N(s, P \cup I)
    BY <1>b, <2>7, OfStrategyLess
  <2>9. \A s \in Strategy : N(s, (P \ {c}) \cup I) \in Nat
    BY <1>a, <2>2, FS_Union, OfStrategyFinite
  <2>10. \A s \in Strategy : N(s, (P \ {c}) \cup I) < MaxInstances + MaxInFlight
    <3> TAKE s \in Strategy
    <3>1. /\ N(s, (P \ {c}) \cup I) <= N(s, P \cup I) /\ N(s, (P \ {c}) \cup I) \in Nat
          /\ N(s, P \cup I) \in Nat /\ N(s, P \cup I) < MaxInstances + MaxInFlight
      BY <1>d, <1>e, <2>8, <2>9
    <3> HIDE DEF N
    <3> QED BY <1>a, <3>1
  <2>11. Cardinality(P \ {c}) + Cardinality(I) < MaxTotal + MaxInFlight
    BY <1>a, <1>c, <2>2 DEF PositionCapOverrun
  <2>12. PositionCapOverrun'
    BY <2>1, <2>10, <2>11 DEF PositionCapOverrun
  <2> QED BY <2>6, <2>12
<1>5. ASSUME DOMAIN positions' = P, inFlight' = I, risk'.openPositions = risk.openPositions,
             risk'.instances = risk.instances
      PROVE  Counted' /\ PositionCapOverrun'
  BY <1>5 DEF Counted, PositionCapOverrun
<1>6. ASSUME NEW c \in Coid, NEW d \in {-1, 1}, Mark(c, d)
      PROVE  /\ DOMAIN positions' = P /\ inFlight' = I
             /\ risk'.openPositions = risk.openPositions /\ risk'.instances = risk.instances
  <2>1. /\ DOMAIN positions' = P /\ inFlight' = I /\ c[1] \in Strategy
        /\ risk' = UpdateOnFill(c[1], 0, d, 0)
    BY <1>6 DEF Mark, Coid
  <2>2. risk'.openPositions = risk.openPositions
    BY <1>a, <1>c, <2>1 DEF UpdateOnFill, AtLeastZero
  <2>3. risk'.instances = risk.instances
    BY <1>a, <2>1 DEF UpdateOnFill, AtLeastZero
  <2> QED BY <2>1, <2>2, <2>3
<1>7. ASSUME ResetDailyCounters \/ ResetWeeklyCounters
      PROVE  /\ positions' = positions /\ inFlight' = I
             /\ risk'.openPositions = risk.openPositions /\ risk'.instances = risk.instances
  <2>1. risk \in RiskState
    BY DEF TypeOK
  <2> QED BY <1>7, <2>1 DEF ResetDailyCounters, ResetWeeklyCounters, RiskState
<1>8. CASE UNCHANGED <<risk, market>>
  BY <1>5, <1>8 DEF market
<1>9. \/ \E c \in Coid : \/ Submit(c) \/ EntryFill(c) \/ EntryDies(c) \/ CloseFill(c)
                         \/ \E d \in {-1, 1} : Mark(c, d)
      \/ ResetDailyCounters \/ ResetWeeklyCounters \/ UNCHANGED <<risk, market>>
  BY DEF Next, Trip, Clear, MarkReconciled, Refuse, Hour, vars
<1> QED BY <1>1, <1>2, <1>3, <1>4, <1>5, <1>6, <1>7, <1>8, <1>9

(* The caps are overrun by less than the orders in flight, for any caps,    *)
(* any strategies and any number of orders in flight.                       *)
THEOREM CapsCorrect == Spec => []PositionCapOverrun
BY InitTypeOK, NextTypeOK, InitCounted, NextCounted, PTL DEF Spec

-----------------------------------------------------------------------------
(* The counters add up: what they hold as open is the change of the open    *)
(* positions since the daily reset, what they hold as realized is what the  *)
(* closed trades brought.                                                   *)
Balanced ==
    /\ IsFiniteSet(DOMAIN start)
    /\ risk.openPnl = ChangeToday
    /\ risk.realizedToday = closed.day /\ risk.realizedThisWeek = closed.week

(* The open profit is an integer, and the position of any one id can be     *)
(* taken out of it.                                                         *)
LEMMA OpenPnlRules ==
    ASSUME NEW pos, IsFiniteSet(DOMAIN pos), \A c \in DOMAIN pos : pos[c] \in Int
    PROVE  /\ OpenPnl(pos) = Total(pos, DOMAIN pos)
           /\ OpenPnl(pos) \in Int
           /\ \A c \in DOMAIN pos : OpenPnl(pos) = pos[c] + Total(pos, DOMAIN pos \ {c})
<1>1. OpenPnl(pos) = Total(pos, DOMAIN pos)
  BY DEF OpenPnl, MapThenSumSet, MapThenFoldSet, Total, FoldOf, IsFold, FirstOf, Rest
<1> QED BY <1>1, TotalRules

(* Positions that differ in one id differ in its profit. *)
LEMMA OpenPnlOfOther ==
    ASSUME NEW pos, IsFiniteSet(DOMAIN pos), \A c \in DOMAIN pos : pos[c] \in Int,
           NEW other, NEW k,
           DOMAIN other \ {k} = DOMAIN pos \ {k}, \A c \in DOMAIN pos \ {k} : other[c] = pos[c],
           k \in DOMAIN other => other[k] \in Int
    PROVE  /\ IsFiniteSet(DOMAIN other)
           /\ OpenPnl(other) =
                  OpenPnl(pos) - (IF k \in DOMAIN pos THEN pos[k] ELSE 0)
                               + (IF k \in DOMAIN other THEN other[k] ELSE 0)
<1> DEFINE R == DOMAIN pos \ {k}
           rest == Total(pos, R)
<1>1. IsFiniteSet(R) /\ \A c \in R : pos[c] \in Int /\ other[c] = pos[c]
  BY FS_Subset
<1>2. Total(other, R) = rest /\ rest \in Int
  BY <1>1, TotalOfEqual, TotalRules
<1>3. DOMAIN other = R \/ DOMAIN other = R \cup {k}
  OBVIOUS
<1>4. IsFiniteSet(DOMAIN other)
  BY <1>1, <1>3, FS_AddElement
<1>5. \A c \in DOMAIN other : other[c] \in Int
  BY <1>1, <1>3
<1>6. OpenPnl(pos) = rest + (IF k \in DOMAIN pos THEN pos[k] ELSE 0)
  <2>1. CASE k \in DOMAIN pos
    <3>1. OpenPnl(pos) = pos[k] + rest /\ pos[k] \in Int
      BY <2>1, OpenPnlRules
    <3> QED BY <1>2, <2>1, <3>1
  <2>2. CASE k \notin DOMAIN pos
    <3>1. R = DOMAIN pos /\ OpenPnl(pos) = rest
      BY <2>2, OpenPnlRules
    <3> QED BY <1>2, <2>2, <3>1
  <2> QED BY <2>1, <2>2
<1>7. OpenPnl(other) = rest + (IF k \in DOMAIN other THEN other[k] ELSE 0)
  <2>1. CASE k \in DOMAIN other
    <3>1. DOMAIN other \ {k} = R
      OBVIOUS
    <3>2. OpenPnl(other) = other[k] + Total(other, R) /\ other[k] \in Int
      BY <1>4, <1>5, <2>1, <3>1, OpenPnlRules
    <3> QED BY <1>2, <2>1, <3>2
  <2>2. CASE k \notin DOMAIN other
    <3>1. DOMAIN other = R
      BY <2>2
    <3>2. OpenPnl(other) = Total(other, R)
      BY <1>4, <1>5, <3>1, OpenPnlRules
    <3> QED BY <1>2, <2>2, <3>2
  <2> QED BY <2>1, <2>2
<1> QED BY <1>2, <1>4, <1>6, <1>7

(* What the numbers are. *)
LEMMA BooksAreInts ==
    ASSUME TypeOK, Counted, Balanced
    PROVE  /\ \A c \in DOMAIN positions : positions[c] \in Int
           /\ \A c \in DOMAIN start : start[c] \in Int
           /\ OpenPnl(positions) \in Int /\ OpenPnl(start) \in Int
           /\ risk.openPnl \in Int /\ risk.realizedToday \in Int /\ risk.realizedThisWeek \in Int
           /\ closed.day \in Int /\ closed.week \in Int
<1>1. /\ \A c \in DOMAIN positions : positions[c] \in Int
      /\ \A c \in DOMAIN start : start[c] \in Int
  BY DEF TypeOK
<1>2. OpenPnl(positions) \in Int /\ OpenPnl(start) \in Int
  BY <1>1, OpenPnlRules DEF Counted, Balanced
<1>3. /\ risk.openPnl \in Int /\ risk.realizedToday \in Int /\ risk.realizedThisWeek \in Int
      /\ closed.day \in Int /\ closed.week \in Int
  BY DEF TypeOK, RiskState
<1> QED BY <1>1, <1>2, <1>3

LEMMA InitBalanced == Init => Balanced
<1> SUFFICES ASSUME Init PROVE Balanced
  OBVIOUS
<1>1. DOMAIN positions = {} /\ start = positions /\ IsFiniteSet(DOMAIN positions)
  BY FS_EmptySet DEF Init
<1>2. OpenPnl(positions) \in Int
  BY <1>1, OpenPnlRules
<1>3. risk.openPnl = 0 /\ risk.realizedToday = 0 /\ risk.realizedThisWeek = 0
      /\ closed.day = 0 /\ closed.week = 0
  BY DEF Init
<1> QED BY <1>1, <1>2, <1>3 DEF Balanced, ChangeToday

LEMMA NextBalanced == TypeOK /\ Counted /\ Balanced /\ [Next]_vars => Balanced'
<1> SUFFICES ASSUME TypeOK, Counted, Balanced, [Next]_vars PROVE Balanced'
  OBVIOUS
<1>0. /\ \A c \in DOMAIN positions : positions[c] \in Int
      /\ OpenPnl(positions) \in Int /\ OpenPnl(start) \in Int
      /\ closed \in [day : Int, week : Int] /\ risk \in RiskState
      /\ IsFiniteSet(DOMAIN positions) /\ IsFiniteSet(DOMAIN start)
      /\ risk.openPnl = OpenPnl(positions) - OpenPnl(start)
      /\ risk.realizedToday = closed.day /\ risk.realizedThisWeek = closed.week
  BY BooksAreInts DEF Counted, Balanced, ChangeToday, TypeOK
<1>1. ASSUME NEW c \in Coid, EntryFill(c) PROVE Balanced'
  <2>1. /\ positions' = [d \in DOMAIN positions \cup {c} |-> IF d = c THEN 0 ELSE positions[d]]
        /\ risk' = UpdateOnFill(c[1], 0, 0, 1) /\ closed' = closed /\ start' = start
    BY <1>1 DEF EntryFill
  <2>2. risk'.openPnl = risk.openPnl /\ risk'.realizedToday = risk.realizedToday
        /\ risk'.realizedThisWeek = risk.realizedThisWeek
    BY <1>0, <2>1 DEF UpdateOnFill, RiskState
  <2>3. CASE c \notin DOMAIN positions
    <3>1. /\ DOMAIN positions' \ {c} = DOMAIN positions \ {c} /\ c \in DOMAIN positions'
          /\ \A d \in DOMAIN positions \ {c} : positions'[d] = positions[d]
          /\ positions'[c] = 0
      BY <2>1
    <3>2. /\ IsFiniteSet(DOMAIN positions')
          /\ OpenPnl(positions') = OpenPnl(positions) - 0 + 0
      BY <1>0, <2>3, <3>1, OpenPnlOfOther
    <3> QED BY <1>0, <2>1, <2>2, <3>2 DEF Balanced, ChangeToday
  <2>4. c \notin DOMAIN positions
    BY <1>1 DEF EntryFill, Counted
  <2> QED BY <2>3, <2>4
<1>2. ASSUME NEW c \in Coid, NEW d \in {-1, 1}, Mark(c, d) PROVE Balanced'
  <2>1. /\ positions' = [positions EXCEPT ![c] = @ + d] /\ c \in DOMAIN positions
        /\ risk' = UpdateOnFill(c[1], 0, d, 0) /\ closed' = closed /\ start' = start
    BY <1>2 DEF Mark
  <2>2. risk'.openPnl = risk.openPnl + d /\ risk'.realizedToday = risk.realizedToday
        /\ risk'.realizedThisWeek = risk.realizedThisWeek
    BY <1>0, <2>1 DEF UpdateOnFill, RiskState
  <2>3. /\ DOMAIN positions' = DOMAIN positions
        /\ \A e \in DOMAIN positions \ {c} : positions'[e] = positions[e]
        /\ positions'[c] = positions[c] + d /\ positions[c] \in Int
    BY <1>0, <2>1 DEF TypeOK
  <2>4. /\ IsFiniteSet(DOMAIN positions')
        /\ OpenPnl(positions') = OpenPnl(positions) - positions[c] + positions'[c]
    <3>1. positions'[c] \in Int
      BY <2>3
    <3> QED BY <1>0, <2>1, <2>3, <3>1, OpenPnlOfOther
  <2>5. OpenPnl(positions') = OpenPnl(positions) + d
    BY <1>0, <2>3, <2>4
  <2> QED BY <1>0, <2>1, <2>2, <2>4, <2>5 DEF Balanced, ChangeToday
<1>3. ASSUME NEW c \in Coid, CloseFill(c) PROVE Balanced'
  <2>1. /\ positions' = [d \in DOMAIN positions \ {c} |-> positions[d]] /\ c \in DOMAIN positions
        /\ closed' = [day |-> closed.day + positions[c], week |-> closed.week + positions[c]]
        /\ risk' = UpdateOnFill(c[1], positions[c], -positions[c], -1) /\ start' = start
    BY <1>3 DEF CloseFill
  <2>2. /\ risk'.openPnl = risk.openPnl + -positions[c]
        /\ risk'.realizedToday = risk.realizedToday + positions[c]
        /\ risk'.realizedThisWeek = risk.realizedThisWeek + positions[c]
        /\ closed'.day = closed.day + positions[c] /\ closed'.week = closed.week + positions[c]
    BY <1>0, <2>1 DEF UpdateOnFill, RiskState
  <2>3. /\ DOMAIN positions' \ {c} = DOMAIN positions \ {c} /\ c \notin DOMAIN positions'
        /\ \A e \in DOMAIN positions \ {c} : positions'[e] = positions[e]
    BY <2>1
  <2>4. /\ IsFiniteSet(DOMAIN positions')
        /\ OpenPnl(positions') = OpenPnl(positions) - positions[c] + 0
    BY <1>0, <2>1, <2>3, OpenPnlOfOther
  <2> QED BY <1>0, <2>1, <2>2, <2>4 DEF Balanced, ChangeToday
<1>4. CASE ResetDailyCounters
  <2>1. /\ risk' = [risk EXCEPT !.realizedToday = 0, !.openPnl = 0]
        /\ closed' = [closed EXCEPT !.day = 0]
        /\ start' = positions /\ positions' = positions
    BY <1>4 DEF ResetDailyCounters
  <2>2. /\ risk'.openPnl = 0 /\ risk'.realizedToday = 0
        /\ risk'.realizedThisWeek = risk.realizedThisWeek
        /\ closed'.day = 0 /\ closed'.week = closed.week
    BY <1>0, <2>1 DEF RiskState
  <2> QED BY <1>0, <2>1, <2>2 DEF Balanced, ChangeToday
<1>5. CASE ResetWeeklyCounters
  <2>1. /\ risk' = [risk EXCEPT !.realizedThisWeek = 0]
        /\ closed' = [closed EXCEPT !.week = 0]
        /\ start' = start /\ positions' = positions
    BY <1>5 DEF ResetWeeklyCounters
  <2>2. /\ risk'.openPnl = risk.openPnl /\ risk'.realizedToday = risk.realizedToday
        /\ risk'.realizedThisWeek = 0
        /\ closed'.day = closed.day /\ closed'.week = 0
    BY <1>0, <2>1 DEF RiskState
  <2> QED BY <1>0, <2>1, <2>2 DEF Balanced, ChangeToday
<1>6. CASE UNCHANGED <<risk, positions, closed, start>>
  BY <1>6 DEF Balanced, ChangeToday
<1>7. \/ \E c \in Coid : EntryFill(c) \/ CloseFill(c) \/ \E d \in {-1, 1} : Mark(c, d)
      \/ ResetDailyCounters \/ ResetWeeklyCounters \/ UNCHANGED <<risk, positions, closed, start>>
  BY DEF Next, Trip, Clear, MarkReconciled, Submit, Refuse, EntryDies, Hour, vars, market
<1> QED BY <1>1, <1>2, <1>3, <1>4, <1>5, <1>6, <1>7

(* An order is sent only with both caps unbroken. *)
LEMMA SubmitUnderCaps ==
    TypeOK /\ Balanced /\ [Next]_vars =>
        [claims' # claims => /\ closed.day + ChangeToday > -DailyLossCap
                             /\ closed.week + ChangeToday > -WeeklyLossCap]_vars
<1> SUFFICES ASSUME TypeOK, Balanced, [Next]_vars, claims' # claims
             PROVE  /\ closed.day + ChangeToday > -DailyLossCap
                    /\ closed.week + ChangeToday > -WeeklyLossCap
  OBVIOUS
<1>1. PICK c \in Coid : Submit(c)
  BY DEF Next, Trip, Clear, MarkReconciled, Refuse, EntryFill, EntryDies, CloseFill, Mark,
         ResetDailyCounters, ResetWeeklyCounters, Hour, vars
<1>2. UnderDailyCap /\ UnderWeeklyCap
  BY <1>1 DEF Submit, PreFlightCheck
<1> QED BY <1>2 DEF UnderDailyCap, UnderWeeklyCap, Balanced

(* For any caps, marks and positions held over any resets: no order leaves  *)
(* past a loss cap.                                                         *)
THEOREM LossCapsHold == Spec => NoOrderPastLossCap
<1>1. TypeOK /\ Balanced /\ [Next]_vars =>
        [claims' # claims => /\ closed.day + ChangeToday > -DailyLossCap
                             /\ closed.week + ChangeToday > -WeeklyLossCap]_vars
  BY SubmitUnderCaps
<1> QED BY <1>1, InitTypeOK, NextTypeOK, InitCounted, NextCounted, InitBalanced, NextBalanced, PTL
    DEF Spec, NoOrderPastLossCap

-----------------------------------------------------------------------------
(* The reconciliation loop.                                                 *)

Slack(c) == Max({Cadence[c] - 1 + 2 * Delay, 3 * Delay})

LoopTypeOK ==
    /\ pc \in Checks \cup {"asleep"}
    /\ waited \in Nat /\ inTick \in 0..MaxAge
    /\ age \in [Checks -> 0..MaxAge] /\ excused \subseteq Checks
    /\ local \in [orders : LocalOrders, positions : Positions]
    /\ broker \in [orders : BrokerOrders, positions : Positions, margin : {Funds, Funds + 1}]

(* A sleep and a query have their limits, and a tick asks once per check.   *)
Timely ==
    /\ pc = "asleep" => waited <= SleepTime /\ answers = {}
    /\ pc # "asleep" => waited <= Delay /\ inTick <= (Index(pc) - 1) * Delay + waited
    /\ \A c \in Checks : inTick <= age[c]

(* How old a check is, asleep or as the tick stands. *)
OnTime(c) ==
    IF pc = "asleep" THEN age[c] <= Slack(c) + waited
    ELSE IF Index(pc) <= Index(c) THEN age[c] - inTick <= Slack(c) + SleepTime
    ELSE \/ age[c] = inTick
         \/ age[c] - inTick < Cadence[c] /\ inTick <= (Index(pc) - 2) * Delay + waited

LoopInv == LoopTypeOK /\ Timely /\ \A c \in Checks \ excused : age[c] < MaxAge => OnTime(c)

(* An answer that tells the same story as the local view. *)
Matches(check, l, reply) ==
    CASE check = "orders"    -> \A o \in OrderId : l.orders[o] = "FILLED" <=> o \notin DOMAIN reply
      [] check = "positions" -> l.positions = reply
      [] check = "account"   -> reply \in Int /\ reply <= Funds
      [] OTHER               -> TRUE

Grounded == agreed => Agree(pc, local, broker) /\ \A reply \in answers : Matches(pc, local, reply)

-----------------------------------------------------------------------------
LEMMA OrderIs ==
    /\ Checks = {"orders", "positions", "account"}
    /\ Index("orders") = 1 /\ Index("positions") = 2 /\ Index("account") = 3
    /\ \A c \in Checks : Index(c) \in 1..3 /\ Order[Index(c)] = c
    /\ \A i \in 1..3 : Order[i] \in Checks /\ Index(Order[i]) = i
<1>1. Order[1] = "orders" /\ Order[2] = "positions" /\ Order[3] = "account"
  BY DEF Order
<1>2. Checks = {"orders", "positions", "account"}
  BY <1>1 DEF Checks
<1>3. ASSUME NEW i \in 1..3 PROVE Index(Order[i]) = i
  <2>1. \A j \in 1..3 : Order[j] = Order[i] <=> j = i
    BY <1>1
  <2> QED BY <2>1 DEF Index
<1>4. Index("orders") = 1 /\ Index("positions") = 2 /\ Index("account") = 3
  BY <1>1, <1>3
<1> QED BY <1>1, <1>2, <1>4

LEMMA SlackIs ==
    ASSUME NEW c \in Checks
    PROVE  /\ Slack(c) \in Int /\ Slack(c) >= Cadence[c] - 1 + 2 * Delay /\ Slack(c) >= 3 * Delay
           /\ Longest(c) = Slack(c) + SleepTime + Index(c) * Delay
           /\ Cadence[c] \in Nat /\ Delay \in Nat /\ SleepTime \in Nat
<1>1. Cadence[c] \in Nat /\ Delay \in Nat /\ SleepTime \in Nat
  BY CadenceAssumption, TimesAssumption
<1> DEFINE a == Cadence[c] - 1 + 2 * Delay
           b == 3 * Delay
<1>2. a \in Int /\ b \in Int
  BY <1>1
<1> HIDE DEF a, b
<1>3. Max({a, b}) \in Int /\ Max({a, b}) >= a /\ Max({a, b}) >= b
  <2>1. \E m \in {a, b} : \A y \in {a, b} : m >= y
    BY <1>2
  <2> QED BY <1>2, <2>1 DEF Max
<1> USE DEF a, b
<1> QED BY <1>1, <1>3 DEF Slack, Longest

(* The next check is the first of those left that is due. *)
LEMMA NextDueIs ==
    ASSUME NEW k \in 1..4, NEW elapsed
    PROVE  LET n == NextDue(k, elapsed)
           IN  /\ n \in Checks \cup {"asleep"}
               /\ n # "asleep" => Index(n) >= k
               /\ \A c \in Checks :
                     (Index(c) >= k /\ (n = "asleep" \/ Index(c) < Index(n))) => ~ IsDue(c, elapsed[c])
<1> DEFINE due == {j \in k..3 : IsDue(Order[j], elapsed[Order[j]])}
<1>1. CASE due = {}
  <2>1. NextDue(k, elapsed) = "asleep"
    BY <1>1 DEF NextDue
  <2>2. \A c \in Checks : Index(c) >= k => ~ IsDue(c, elapsed[c])
    BY <1>1, OrderIs
  <2> QED BY <2>1, <2>2
<1>2. CASE due # {}
  <2>1. due \subseteq 1..3 /\ \E m \in due : \A j \in due : m <= j
    BY <1>2
  <2>2. Min(due) \in due /\ \A j \in due : Min(due) <= j
    BY <2>1 DEF Min
  <2>3. NextDue(k, elapsed) = Order[Min(due)]
    BY <1>2 DEF NextDue
  <2>4. NextDue(k, elapsed) \in Checks /\ Index(NextDue(k, elapsed)) = Min(due)
    BY <2>1, <2>2, <2>3, OrderIs
  <2>5. \A c \in Checks : Index(c) >= k /\ Index(c) < Min(due) => ~ IsDue(c, elapsed[c])
    BY <2>1, <2>2, OrderIs
  <2>6. "asleep" \notin Checks
    BY OrderIs
  <2> QED BY <2>1, <2>2, <2>4, <2>5, <2>6
<1> QED BY <1>1, <1>2

-----------------------------------------------------------------------------
(* The ages.                                                                *)

LEMMA Numbers ==
    ASSUME LoopTypeOK
    PROVE  /\ MaxAge \in Nat /\ Delay \in Nat /\ SleepTime \in Nat /\ Funds \in Nat
           /\ inTick \in Nat /\ waited \in Nat /\ \A c \in Checks : age[c] \in Nat /\ age[c] <= MaxAge
BY CadenceAssumption, TimesAssumption DEF LoopTypeOK

LEMMA InitLoop == ReconcileInit => LoopInv
<1> SUFFICES ASSUME ReconcileInit PROVE LoopInv
  OBVIOUS
<1>1. /\ MaxAge \in Nat /\ Delay \in Nat /\ SleepTime \in Nat /\ Funds \in Nat
  BY CadenceAssumption, TimesAssumption
<1>2. LoopTypeOK
  <2>1. /\ [o \in OrderId |-> "WORKING"] \in LocalOrders
        /\ [o \in OrderId |-> "WORKING"] \in BrokerOrders
        /\ [i \in Instrument |-> 0] \in Positions
    BY TimesAssumption DEF LocalOrders, BrokerOrders, Positions
  <2> QED BY <1>1, <2>1 DEF ReconcileInit, LoopTypeOK
<1>3. Timely
  BY <1>1 DEF ReconcileInit, Timely
<1>4. \A c \in Checks : age[c] = MaxAge
  BY DEF ReconcileInit
<1> QED BY <1>1, <1>2, <1>3, <1>4 DEF LoopInv

(* A tick begins: what it passes over is not due. *)
LEMMA WakeLoop == ASSUME LoopInv, Wake PROVE LoopInv'
<1> DEFINE n == NextDue(1, age)
<1>1. /\ pc = "asleep" /\ pc' = n /\ waited' = 0 /\ inTick' = 0
      /\ UNCHANGED <<local, broker, answers, age, excused>>
  BY DEF Wake, env
<1>2. /\ n \in Checks \cup {"asleep"}
      /\ \A c \in Checks : n = "asleep" \/ Index(c) < Index(n) => ~ IsDue(c, age[c])
  <2>1. \A c \in Checks : Index(c) >= 1
    BY OrderIs
  <2> HIDE DEF n
  <2> QED BY <2>1, NextDueIs DEF n
<1> HIDE DEF n
<1>3. LoopTypeOK'
  BY <1>1, <1>2, Numbers DEF LoopInv, LoopTypeOK
<1>4. Timely'
  <2>1. \A c \in Checks : Index(c) \in 1..3
    BY OrderIs
  <2>2. n # "asleep" => 0 <= (Index(n) - 1) * Delay /\ (Index(n) - 1) * Delay \in Int
    BY <1>2, <2>1, Numbers DEF LoopInv
  <2> QED BY <1>1, <2>2, Numbers DEF LoopInv, Timely
<1>5. ASSUME NEW c \in Checks \ excused, age[c] < MaxAge PROVE OnTime(c)'
  <2>1. /\ age[c] <= Slack(c) + waited /\ waited <= SleepTime
        /\ Slack(c) \in Int /\ Slack(c) >= Cadence[c] - 1 + 2 * Delay /\ Cadence[c] \in Nat
    BY <1>1, <1>5, SlackIs DEF LoopInv, OnTime, Timely
  <2>2. age[c] \in Nat /\ waited \in Nat /\ Delay \in Nat /\ SleepTime \in Nat
    BY <1>5, Numbers DEF LoopInv
  <2>3. CASE n = "asleep"
    <3>1. age[c] < Cadence[c]
      BY <1>2, <1>5, <2>1, <2>2, <2>3 DEF IsDue
    <3> QED BY <1>1, <2>1, <2>2, <2>3, <3>1 DEF OnTime, Slack
  <2>4. CASE n # "asleep" /\ Index(n) <= Index(c)
    BY <1>1, <2>1, <2>2, <2>4 DEF OnTime, Slack
  <2>5. CASE n # "asleep" /\ Index(c) < Index(n)
    <3>1. age[c] < Cadence[c]
      BY <1>2, <1>5, <2>1, <2>2, <2>5 DEF IsDue
    <3>2. Index(c) \in 1..3 /\ Index(n) \in 1..3
      BY <1>2, <1>5, <2>5, OrderIs
    <3>3. 0 <= (Index(n) - 2) * Delay
      BY <2>2, <2>5, <3>2
    <3> QED BY <1>1, <2>2, <2>5, <3>1, <3>2, <3>3 DEF OnTime
  <2>6. (n = "asleep" \/ Index(n) \in Int) /\ Index(c) \in Int
    BY <1>2, <1>5, OrderIs
  <2> QED BY <2>3, <2>4, <2>5, <2>6
<1> QED BY <1>1, <1>3, <1>4, <1>5 DEF LoopInv

(* Time passes: the ages grow with the tick and with what was waited. *)
LEMMA TimeLoop == ASSUME LoopInv, Time PROVE LoopInv'
<1>1. /\ waited' = waited + 1 /\ inTick' = Elapsed(inTick)
      /\ age' = [c \in Checks |-> Elapsed(age[c])]
      /\ IF pc = "asleep" THEN waited < SleepTime ELSE waited < Delay
      /\ UNCHANGED <<local, broker, pc, answers, excused>>
  BY DEF Time, env, history, Awaiting
<1>2. \A t \in 0..MaxAge : Elapsed(t) \in 0..MaxAge /\ t <= Elapsed(t) /\ Elapsed(t) <= t + 1
                          /\ (Elapsed(t) < MaxAge => Elapsed(t) = t + 1)
  BY Numbers DEF LoopInv, Elapsed
<1>3. LoopTypeOK'
  BY <1>1, <1>2, Numbers DEF LoopInv, LoopTypeOK
<1>4. Timely'
  <2>1. \A c \in Checks : inTick' <= age'[c]
    <3> TAKE c \in Checks
    <3>1. inTick <= age[c] /\ age[c] \in 0..MaxAge /\ inTick \in 0..MaxAge
      BY Numbers DEF LoopInv, Timely, LoopTypeOK
    <3>2. Elapsed(inTick) <= Elapsed(age[c])
      BY <3>1, Numbers DEF LoopInv, Elapsed
    <3> QED BY <1>1, <3>2
  <2>2. pc # "asleep" => (Index(pc) - 1) * Delay \in Int
    BY OrderIs, Numbers DEF LoopInv, LoopTypeOK
  <2>3. inTick' <= inTick + 1 /\ inTick' \in Int
    BY <1>1, <1>2, Numbers DEF LoopInv, LoopTypeOK
  <2> HIDE DEF Index
  <2> QED BY <1>1, <2>1, <2>2, <2>3, Numbers DEF LoopInv, Timely
<1>5. ASSUME NEW c \in Checks \ excused, age'[c] < MaxAge PROVE OnTime(c)'
  <2>1. age'[c] = age[c] + 1 /\ age[c] < MaxAge /\ age[c] \in Nat
    BY <1>1, <1>2, <1>5, Numbers DEF LoopInv, LoopTypeOK
  <2>2. inTick' = inTick + 1
    <3>1. inTick < MaxAge
      BY <1>5, <2>1, Numbers DEF LoopInv, Timely
    <3> QED BY <1>1, <3>1, Numbers DEF LoopInv, Elapsed
  <2>3. OnTime(c)
    BY <1>5, <2>1 DEF LoopInv
  <2>4. Slack(c) \in Int /\ (pc # "asleep" => Index(pc) \in 1..3 /\ (Index(pc) - 2) * Delay \in Int) /\ Index(c) \in 1..3
    BY <1>5, SlackIs, OrderIs, Numbers DEF LoopInv, LoopTypeOK
  <2>5. waited \in Nat /\ inTick \in Nat /\ Cadence[c] \in Nat
    BY <1>5, Numbers, SlackIs DEF LoopInv
  <2> QED BY <1>1, <2>1, <2>2, <2>3, <2>4, <2>5 DEF OnTime, Slack
<1> QED BY <1>1, <1>3, <1>4, <1>5 DEF LoopInv

(* A check has run or was passed over; the rest is judged as the tick began.*)
LEMMA CompareLoop == ASSUME LoopInv, Compare PROVE LoopInv'
<1> DEFINE k == Index(pc)
           e == [c \in Checks |-> age[c] - inTick]
           n == NextDue(k + 1, e)
<1>1. /\ pc # "asleep" /\ pc' = n /\ waited' = 0 /\ inTick' = inTick /\ answers' = {}
      /\ age' = [age EXCEPT ![pc] = inTick] /\ excused' = excused \ {pc}
      /\ UNCHANGED <<local, broker>>
  BY DEF Compare, GoOn, env, LoopInv, Timely
<1>2. pc \in Checks /\ k \in 1..3 /\ Order[k] = pc
  BY <1>1, OrderIs DEF LoopInv, LoopTypeOK
<1>3. /\ n \in Checks \cup {"asleep"}
      /\ n # "asleep" => Index(n) >= k + 1
      /\ \A c \in Checks :
            (Index(c) >= k + 1 /\ (n = "asleep" \/ Index(c) < Index(n))) => ~ IsDue(c, age[c] - inTick)
  <2>1. k + 1 \in 1..4
    BY <1>2
  <2>2. \A c \in Checks : e[c] = age[c] - inTick
    OBVIOUS
  <2> HIDE DEF k, e
  <2> QED BY <2>1, <2>2, NextDueIs
<1> HIDE DEF n
<1>4. /\ inTick <= (k - 1) * Delay + waited /\ waited <= Delay
      /\ inTick \in Nat /\ waited \in Nat /\ Delay \in Nat
  BY <1>1, Numbers DEF LoopInv, Timely
<1>5. LoopTypeOK'
  BY <1>1, <1>2, <1>3 DEF LoopInv, LoopTypeOK
<1>6. Timely'
  <2>1. n # "asleep" => inTick <= (Index(n) - 1) * Delay
    <3> SUFFICES ASSUME n # "asleep" PROVE inTick <= (Index(n) - 1) * Delay
      OBVIOUS
    <3>1. Index(n) \in 1..3 /\ Index(n) >= k + 1
      BY <1>3, OrderIs
    <3> HIDE DEF k
    <3>2. inTick <= k * Delay
      BY <1>2, <1>4
    <3> QED BY <1>2, <1>4, <3>1, <3>2
  <2>2. \A c \in Checks : inTick <= age'[c]
    BY <1>1, <1>4 DEF LoopInv, Timely, LoopTypeOK
  <2>3. n # "asleep" => (Index(n) - 1) * Delay \in Int
    BY <1>3, <1>4, OrderIs
  <2> QED BY <1>1, <1>4, <2>1, <2>2, <2>3, Numbers DEF LoopInv, Timely
<1>7. ASSUME NEW c \in Checks, c \notin excused', age'[c] < MaxAge PROVE OnTime(c)'
  <2>1. /\ Index(c) \in 1..3
        /\ n # "asleep" => Index(n) \in 1..3
        /\ age[c] \in Nat /\ Cadence[c] \in Nat /\ SleepTime \in Nat
        /\ Slack(c) \in Int /\ Slack(c) >= Cadence[c] - 1 + 2 * Delay /\ Slack(c) >= 3 * Delay
    BY <1>3, OrderIs, SlackIs, Numbers DEF LoopInv
  <2>2. \/ n = "asleep" /\ pc' = "asleep"
        \/ pc' = n /\ n # "asleep" /\ Index(n) \in (k + 1)..3
    BY <1>1, <1>2, <1>3, <2>1
  <2>3. CASE c = pc
    <3>1. age'[c] = inTick
      BY <1>1, <2>3 DEF LoopInv, LoopTypeOK
    <3>2. inTick <= 3 * Delay
      <4> HIDE DEF k
      <4> QED BY <1>2, <1>4
    <3>3. ~ (Index(n) <= k) \/ n = "asleep"
      BY <1>2, <2>2
    <3> QED BY <1>1, <1>4, <2>1, <2>2, <2>3, <3>1, <3>2, <3>3 DEF OnTime, Slack
  <2>4. CASE c # pc /\ Index(c) < k
    <3>1. age'[c] = age[c] /\ OnTime(c)
      BY <1>1, <1>7, <2>4 DEF LoopInv, LoopTypeOK
    <3>2. age[c] = inTick \/ (age[c] - inTick < Cadence[c] /\ inTick <= (k - 2) * Delay + waited)
      BY <1>1, <1>2, <2>1, <2>4, <3>1 DEF OnTime
    <3> HIDE DEF k
    <3>3. age[c] = inTick \/ (age[c] - inTick < Cadence[c] /\ inTick <= (k - 1) * Delay)
      BY <1>2, <1>4, <3>2
    <3>4. inTick <= 3 * Delay /\ (k - 1) * Delay <= 2 * Delay
      BY <1>2, <1>4
    <3>5. CASE n = "asleep"
      <4>1. age[c] <= Slack(c)
        BY <1>2, <1>4, <2>1, <3>3, <3>4
      <4> QED BY <1>1, <2>1, <3>1, <3>5, <4>1 DEF OnTime, Slack
    <3>6. CASE n # "asleep"
      <4>1. (k - 1) * Delay <= (Index(n) - 2) * Delay /\ (Index(n) - 2) * Delay \in Int /\ (k - 1) * Delay \in Int
        BY <1>2, <1>4, <2>2, <3>6
      <4>2. age[c] = inTick \/ (age[c] - inTick < Cadence[c] /\ inTick <= (Index(n) - 2) * Delay)
        BY <1>4, <3>3, <4>1
      <4>3. ~ (Index(n) <= Index(c))
        BY <1>2, <2>1, <2>2, <2>4, <3>6
      <4> QED BY <1>1, <1>4, <3>1, <3>6, <4>1, <4>2, <4>3 DEF OnTime
    <3> QED BY <3>5, <3>6
  <2>5. CASE c # pc /\ Index(c) > k
    <3>1. age'[c] = age[c] /\ OnTime(c)
      BY <1>1, <1>7, <2>5 DEF LoopInv, LoopTypeOK
    <3>2. age[c] - inTick <= Slack(c) + SleepTime
      BY <1>1, <1>2, <2>1, <2>5, <3>1 DEF OnTime
    <3>3. CASE n # "asleep" /\ Index(n) <= Index(c)
      BY <1>1, <3>1, <3>2, <3>3 DEF OnTime, Slack
    <3>4. CASE n # "asleep" /\ Index(c) < Index(n)
      <4>1. age[c] - inTick < Cadence[c]
        BY <1>2, <1>3, <1>4, <2>1, <2>5, <3>4 DEF IsDue
      <4> HIDE DEF k
      <4>2. inTick <= (Index(n) - 2) * Delay /\ (Index(n) - 2) * Delay \in Int
        <5>1. k * Delay <= (Index(n) - 2) * Delay
          BY <1>2, <1>4, <2>1, <2>5, <3>4
        <5>2. inTick <= k * Delay
          BY <1>2, <1>4
        <5> QED BY <1>2, <1>4, <2>1, <3>4, <5>1, <5>2
      <4>3. ~ (Index(n) <= Index(c))
        BY <2>1, <3>4
      <4> QED BY <1>1, <1>4, <3>1, <3>4, <4>1, <4>2, <4>3 DEF OnTime
    <3>5. CASE n = "asleep"
      <4>1. age[c] - inTick < Cadence[c]
        BY <1>2, <1>3, <1>4, <2>1, <2>5, <3>5 DEF IsDue
      <4> HIDE DEF k
      <4>2. inTick <= 2 * Delay
        <5>1. k \in 1..2
          BY <1>2, <2>1, <2>5
        <5> QED BY <1>4, <5>1
      <4>3. age[c] <= Slack(c)
        BY <1>4, <2>1, <4>1, <4>2
      <4> QED BY <1>1, <2>1, <3>1, <3>5, <4>3 DEF OnTime, Slack
    <3>6. (n = "asleep" \/ Index(n) \in Int) /\ Index(c) \in Int
      BY <2>1
    <3> QED BY <3>3, <3>4, <3>5, <3>6
  <2>6. c # pc => Index(c) # k
    BY <1>2, OrderIs
  <2> QED BY <1>2, <2>1, <2>3, <2>4, <2>5, <2>6
<1> QED BY <1>5, <1>6, <1>7 DEF LoopInv

(* The rest leaves the times alone, or excuses every check. *)
LEMMA OtherLoop ==
    ASSUME LoopInv, Answer \/ Fail \/ BrokerMoves \/ LocalMoves \/ UNCHANGED reconcileVars
    PROVE  LoopInv'
<1>1. ASSUME UNCHANGED <<pc, waited, inTick, age, excused>>, LoopTypeOK', (pc = "asleep" => answers' = {})
      PROVE  LoopInv'
  <2>1. Timely'
    BY <1>1 DEF LoopInv, Timely
  <2>2. \A c \in Checks : OnTime(c) => OnTime(c)'
    BY <1>1 DEF OnTime, Slack
  <2> QED BY <1>1, <2>1, <2>2 DEF LoopInv
<1>2. CASE Answer
  <2>1. UNCHANGED <<pc, waited, inTick, age, excused>> /\ LoopTypeOK' /\ pc # "asleep"
    BY <1>2 DEF Answer, Awaiting, LoopInv, LoopTypeOK, env, history
  <2> QED BY <1>1, <2>1
<1>3. CASE Fail
  <2>1. /\ pc # "asleep" /\ answers = {} /\ pc' = "asleep" /\ waited' = 0 /\ excused' = Checks
        /\ UNCHANGED <<local, broker, inTick, answers, age>>
    BY <1>3 DEF Fail, Awaiting, env
  <2>2. LoopTypeOK'
    BY <2>1 DEF LoopInv, LoopTypeOK
  <2>3. Timely'
    BY <2>1, Numbers DEF LoopInv, Timely
  <2> QED BY <2>1, <2>2, <2>3 DEF LoopInv
<1>4. CASE BrokerMoves
  <2>1. UNCHANGED <<local, pc, waited, inTick, age, answers, excused>>
    BY <1>4 DEF BrokerMoves, loop
  <2>2. broker' \in [orders : BrokerOrders, positions : Positions, margin : {Funds, Funds + 1}]
    BY <1>4 DEF BrokerMoves, LoopInv, LoopTypeOK
  <2>3. LoopTypeOK'
    BY <2>1, <2>2 DEF LoopInv, LoopTypeOK
  <2> QED BY <1>1, <2>1, <2>3 DEF LoopInv, Timely
<1>5. CASE LocalMoves
  <2>1. UNCHANGED <<broker, pc, waited, inTick, age, answers, excused>>
    BY <1>5 DEF LocalMoves, loop
  <2>2. local' \in [orders : LocalOrders, positions : Positions]
    BY <1>5 DEF LocalMoves, LoopInv, LoopTypeOK
  <2>3. LoopTypeOK'
    BY <2>1, <2>2 DEF LoopInv, LoopTypeOK
  <2> QED BY <1>1, <2>1, <2>3 DEF LoopInv, Timely
<1>6. CASE UNCHANGED reconcileVars
  <2>1. UNCHANGED <<pc, waited, inTick, age, answers, excused>> /\ LoopTypeOK'
    BY <1>6 DEF reconcileVars, env, loop, history, LoopInv, LoopTypeOK
  <2> QED BY <1>1, <2>1 DEF LoopInv, Timely
<1> QED BY <1>2, <1>3, <1>4, <1>5, <1>6

LEMMA StepLoop == LoopInv /\ [ReconcileNext]_reconcileVars => LoopInv'
BY WakeLoop, TimeLoop, CompareLoop, OtherLoop DEF ReconcileNext

(* What the bound of an age comes to, wherever the loop is. *)
LEMMA OnTimeBounds ==
    ASSUME LoopTypeOK, Timely, NEW c \in Checks, OnTime(c)
    PROVE  age[c] <= Longest(c)
<1>1. /\ Slack(c) \in Int /\ Slack(c) >= Cadence[c] - 1 + 2 * Delay /\ Slack(c) >= 3 * Delay
      /\ Longest(c) = Slack(c) + SleepTime + Index(c) * Delay
      /\ Cadence[c] \in Nat /\ Delay \in Nat /\ SleepTime \in Nat /\ Index(c) \in 1..3
      /\ age[c] \in Nat /\ inTick \in Nat /\ waited \in Nat
  BY SlackIs, OrderIs, Numbers
<1>2. 0 <= Index(c) * Delay /\ Index(c) * Delay \in Int
  BY <1>1
<1>3. CASE pc = "asleep"
  BY <1>1, <1>2, <1>3 DEF OnTime, Timely
<1>4. CASE pc # "asleep"
  <2> DEFINE j == Index(pc)
  <2>1. j \in 1..3 /\ inTick <= (j - 1) * Delay + waited /\ waited <= Delay
    BY <1>4, OrderIs DEF LoopTypeOK, Timely
  <2>2. CASE j <= Index(c)
    <3>1. age[c] - inTick <= Slack(c) + SleepTime
      BY <1>4, <2>2 DEF OnTime
    <3> HIDE DEF j
    <3>2. inTick <= Index(c) * Delay
      <4>1. (j - 1) * Delay + Delay <= Index(c) * Delay
        BY <1>1, <2>1, <2>2
      <4> QED BY <1>1, <1>2, <2>1, <4>1
    <3> QED BY <1>1, <1>2, <3>1, <3>2
  <2>3. CASE ~ (j <= Index(c))
    <3>1. age[c] = inTick \/ (age[c] - inTick < Cadence[c] /\ inTick <= (j - 2) * Delay + waited)
      BY <1>4, <2>3 DEF OnTime
    <3> HIDE DEF j
    <3>2. inTick <= 3 * Delay /\ (j - 2) * Delay + waited <= 2 * Delay
      BY <1>1, <2>1
    <3>3. (j - 2) * Delay \in Int
      BY <1>1, <2>1
    <3> QED BY <1>1, <1>2, <3>1, <3>2, <3>3
  <2> QED BY <2>2, <2>3
<1> QED BY <1>3, <1>4

(* Whatever the cadences and however slow the queries: a check that has run *)
(* since a query last raised is run again within its cadence, one sleep and *)
(* the queries of two ticks; slow ticks do not add up.                      *)
THEOREM ChecksRunOnTime == ReconcileSpec => []RunsOnTime
<1>1. LoopInv => RunsOnTime
  BY OnTimeBounds DEF LoopInv, RunsOnTime
<1> QED BY <1>1, InitLoop, StepLoop, PTL DEF ReconcileSpec

-----------------------------------------------------------------------------
(* The answers.                                                             *)

(* An answer that matches gives rise to no critical event. *)
LEMMA MatchIsCalm ==
    ASSUME LoopTypeOK, NEW reply, pc \in Checks, Matches(pc, local, reply)
    PROVE  \A e \in EventsOf(pc, local, reply) : e.severity # "critical"
<1>1. CASE pc = "orders"
  <2>1. \A o \in OrderId : local.orders[o] = "FILLED" => o \notin DOMAIN reply
    BY <1>1 DEF Matches
  <2>2. EventsOf(pc, local, reply) = DetectOrderDivergences(local.orders, reply)
    BY <1>1 DEF EventsOf
  <2> QED BY <2>1, <2>2 DEF DetectOrderDivergences, Event, LoopTypeOK, LocalOrders
<1>2. CASE pc = "positions"
  <2>1. local.positions = reply
    BY <1>2 DEF Matches
  <2>2. EventsOf(pc, local, reply) = DetectPositionDivergences(local.positions, reply)
    BY <1>2 DEF EventsOf
  <2> QED BY <2>1, <2>2 DEF DetectPositionDivergences
<1>3. CASE pc = "account"
  <2>1. reply \in Int /\ reply <= Funds
    BY <1>3 DEF Matches
  <2>2. EventsOf(pc, local, reply) = DetectAccountDivergences(reply, Funds)
    BY <1>3 DEF EventsOf
  <2>3. EventsOf(pc, local, reply) = {}
    BY <2>1, <2>2, Numbers DEF DetectAccountDivergences
  <2> QED BY <2>3
<1> QED BY <1>1, <1>2, <1>3, OrderIs

(* While the sides agree, what the broker is asked for matches the local    *)
(* view.                                                                    *)
LEMMA AgreementMatches ==
    ASSUME LoopTypeOK, Agree(pc, local, broker)
    PROVE  Matches(pc, local, Queried(pc, broker))
<1>1. broker.margin \in Int
  BY Numbers DEF LoopTypeOK
<1> QED BY <1>1 DEF Agree, Matches, Queried

(* If the local view moves and still agrees with the broker, it has not     *)
(* moved in what is compared.                                               *)
LEMMA LocalStays ==
    ASSUME NEW l, NEW m, NEW b, NEW reply,
           Agree(pc, l, b), Agree(pc, m, b), Matches(pc, l, reply)
    PROVE  Matches(pc, m, reply)
<1>1. CASE pc = "orders"
  BY <1>1 DEF Agree, Matches
<1>2. CASE pc = "positions"
  BY <1>2 DEF Agree, Matches
<1>3. CASE pc \notin {"orders", "positions"}
  BY <1>3 DEF Agree, Matches
<1> QED BY <1>1, <1>2, <1>3

LEMMA StepGrounded == LoopInv /\ Grounded /\ [ReconcileNext]_reconcileVars => Grounded'
<1> SUFFICES ASSUME LoopInv, Grounded, [ReconcileNext]_reconcileVars PROVE Grounded'
  OBVIOUS
<1> SUFFICES ASSUME agreed'
             PROVE  (Agree(pc, local, broker))' /\ \A reply \in answers' : Matches(pc, local, reply)'
  BY DEF Grounded
<1>1. CASE Wake
  <2>1. answers' = {} /\ (Agree(pc, local, broker))'
    BY <1>1 DEF Wake, env, LoopInv, Timely
  <2> QED BY <2>1
<1>2. CASE Compare
  <2>1. answers' = {} /\ (Agree(pc, local, broker))'
    BY <1>2 DEF Compare, GoOn, env
  <2> QED BY <2>1
<1>3. CASE Answer
  <2>1. agreed /\ UNCHANGED <<pc, local, broker>> /\ answers' = {Queried(pc, broker)}
    BY <1>3 DEF Answer, env, history
  <2>2. Agree(pc, local, broker) /\ Matches(pc, local, Queried(pc, broker))
    BY <2>1, AgreementMatches DEF Grounded, LoopInv
  <2> QED BY <2>1, <2>2
<1>4. CASE Fail
  <2>1. pc' = "asleep" /\ answers' = {}
    BY <1>4 DEF Fail, Awaiting
  <2> QED BY <2>1 DEF Agree
<1>5. CASE Time
  <2>1. UNCHANGED <<pc, local, broker, answers, agreed>>
    BY <1>5 DEF Time, env, history
  <2> QED BY <2>1 DEF Grounded
<1>6. CASE BrokerMoves
  <2>1. UNCHANGED <<pc, local, answers>> /\ agreed /\ Agree(pc, local, broker')
    BY <1>6 DEF BrokerMoves, loop
  <2> QED BY <2>1 DEF Grounded
<1>7. CASE LocalMoves
  <2>1. UNCHANGED <<pc, broker, answers>> /\ agreed /\ Agree(pc, local', broker)
    BY <1>7 DEF LocalMoves, loop
  <2>2. Agree(pc, local, broker) /\ \A reply \in answers : Matches(pc, local, reply)
    BY <2>1 DEF Grounded
  <2>3. \A reply \in answers : Matches(pc, local', reply)
    BY <2>1, <2>2, LocalStays
  <2> QED BY <2>1, <2>3
<1>8. CASE UNCHANGED reconcileVars
  BY <1>8 DEF reconcileVars, env, loop, history, Grounded
<1> QED BY <1>1, <1>2, <1>3, <1>4, <1>5, <1>6, <1>7, <1>8 DEF ReconcileNext

LEMMA CompareIsGrounded ==
    ASSUME LoopInv, Grounded, Compare, escalated' # "none"
    PROVE  ~ agreed
<1> SUFFICES ASSUME agreed PROVE FALSE
  OBVIOUS
<1>1. PICK reply \in answers, raised \in BOOLEAN :
         escalated' = IF \E e \in EventsOf(pc, local, reply) : Escalates(e, raised) THEN pc ELSE "none"
  BY DEF Compare
<1>2. PICK e \in EventsOf(pc, local, reply) : e.severity = "critical"
  BY <1>1 DEF Escalates
<1>3. pc \in Checks
  BY <1>1 DEF LoopInv, Timely, LoopTypeOK
<1>4. Matches(pc, local, reply)
  BY <1>1 DEF Grounded
<1> QED BY <1>2, <1>3, <1>4, MatchIsCalm DEF LoopInv

(* A critical event is escalated only if the two sides really disagreed at  *)
(* some time since the query was sent: that the answer is compared with a   *)
(* local view read later makes no divergence of its own.                    *)
THEOREM NoFalseAlarm == ReconcileSpec => EscalationIsGrounded
<1>1. ReconcileInit => LoopInv /\ Grounded
  <2>1. ReconcileInit => Grounded
    BY DEF ReconcileInit, Grounded, Agree
  <2> QED BY <2>1, InitLoop
<1>2. LoopInv /\ Grounded /\ [ReconcileNext]_reconcileVars => (LoopInv /\ Grounded)'
  BY StepLoop, StepGrounded
<1>3. LoopInv /\ Grounded /\ [ReconcileNext]_reconcileVars => [(Compare /\ escalated' # "none") => ~ agreed]_reconcileVars
  BY CompareIsGrounded
<1> QED BY <1>1, <1>2, <1>3, PTL DEF ReconcileSpec, EscalationIsGrounded
=============================================================================
