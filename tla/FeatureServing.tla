--------------------------- MODULE FeatureServing ---------------------------
(***************************************************************************)
(* What reads the feature store: the two checks of validate/, the          *)
(* retrieval of registry/api.py, and the panel of harness/data.py that     *)
(* gives a backtest the features of a bar.                                 *)
(***************************************************************************)
EXTENDS FeatureStore

CONSTANT Samples    \* rows the audit asks for

ASSUME SamplesAssumption == Samples \in Nat

(* audit_no_lookahead: as many rows as asked for, chosen at random, or all  *)
(* there are; each has to come out the same from the inputs up to its time. *)
AuditSamples(f) == kSubset(Min({Samples, Cardinality(DOMAIN store[f])}), DOMAIN store[f])

AuditMatches(f, t) ==
    LET again == Truncated(f, t)
    IN  t \in DOMAIN again /\ again[t] = store[f][t]

AuditPasses(f, sample) == sample # {} /\ \A t \in sample : AuditMatches(f, t)

(* A version that compares the rows both frames have. *)
ReproducibleRows(f) == Readable(f) /\ \A t \in DOMAIN store[f] \cap DOMAIN InMemory(f) : store[f][t] = InMemory(f)[t]

(* check_reproducibility: the stored frame is the one computed again. *)
Reproducible(f) == Readable(f) /\ store[f] = InMemory(f)

CanValidate(f) == Readable(f) /\ \A i \in InputsOf(f) : Readable(i)
Validated(f, sample) == CanValidate(f) /\ AuditPasses(f, sample) /\ Reproducible(f)

-----------------------------------------------------------------------------
(* get_feature: a row is served when the latency of its feature is over. *)
ServedAt(f, t) == t + registry[f].latency
KnownAt(f, moment) == {t \in DOMAIN store[f] : ServedAt(f, t) <= moment}

(* value_at: the last row up to a moment, as known at it. *)
ValueAt(f, moment) == {store[f][t] : t \in LastAt({u \in KnownAt(f, moment) : u <= moment}, moment)}

(* A version that joins on the time of the rows. *)
PanelValueByTime(f, bar) == {store[f][t] : t \in LastAt(DOMAIN store[f], bar)}

(* build_feature_panel: each bar takes the last row served by then. *)
PanelValue(f, bar) == {store[f][t] : t \in LastAt({u \in DOMAIN store[f] : ServedAt(f, u) <= bar},
                                                  bar)}

-----------------------------------------------------------------------------
(* What a feature is by what has traded before a time and the events until it. *)
SourceBy(name, t) == UpTo(raw[name], IF name = "events" THEN t ELSE t - 1)

FramesBy(t) ==
    LET frame[name \in Sources \cup FeatureIds] ==
            IF name \in Sources THEN SourceBy(name, t)
            ELSE Transformed(registry[name],
                             [i \in DOMAIN registry[name].inputs |-> frame[registry[name].inputs[i]]])
    IN  frame

FromScratch(name, t) == FramesBy(t)[name]

(* A feature with all that it is computed from. *)
Below(f) ==
    LET closed == {S \in SUBSET FeatureIds : f \in S /\ \A h \in S : InputsOf(h) \cap FeatureIds \subseteq S}
    IN  {g \in FeatureIds : \A S \in closed : g \in S}

SeesAhead(f) == \E g \in FeatureIds : LooksAhead(g) /\ g \in Below(f)

(* A row, once the sources behind it were complete, is never computed to    *)
(* anything else and no row comes before it, however the features above and *)
(* below are computed again: except a feature that looks at events to come, *)
(* when the calendar changes, and one under which a computation was cut     *)
(* short (features/engine.py, transforms).                                  *)
RowsAreFinal ==
    [][\A f \in FeatureIds : \/ SeesAhead(f) \/ f \in torn \cup torn'
                             \/ UpTo(store'[f], known[f]) = UpTo(store[f], known[f])]_featureVars

(* A feature that passes both checks lacks no row that the sources up to    *)
(* the time of the row give, as far as it was computed, and its rows are    *)
(* what they give: all of them if it does not look at events to come, and   *)
(* otherwise those the audit happened to take; unless the computation of an *)
(* input was cut short or an input looks at events to come, which neither   *)
(* check notices as they take the inputs from the store (validate/).        *)
ValidatedIsTrue ==
    \A f \in FeatureIds : \A sample \in AuditSamples(f) :
        Validated(f, sample) /\ (\A i \in InputsOf(f) \cap FeatureIds : i \notin torn /\ ~SeesAhead(i)) =>
            \A t \in 0..known[f] :
                LET true == FromScratch(f, t)
                IN  /\ t \in DOMAIN true => t \in DOMAIN store[f]
                    /\ t \in (IF LooksAhead(f) THEN sample ELSE DOMAIN store[f])
                           => t \in DOMAIN true /\ store[f][t] = true[t]

(* At a bar, the panel of a backtest has what the live query has, and that  *)
(* is what the sources gave one latency earlier (harness/data.py).          *)
PanelIsLive ==
    \A f \in FeatureIds \ torn : ~SeesAhead(f) =>
        \A bar \in 0..Horizon :
            LET then == bar - registry[f].latency
                true == FromScratch(f, then)
            IN  then <= known[f] =>
                    /\ PanelValue(f, bar) = {true[t] : t \in LastAt(DOMAIN true, then)}
                    /\ ValueAt(f, bar) = PanelValue(f, bar)
=============================================================================
