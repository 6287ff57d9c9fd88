-------------------------- MODULE OptionStrategies --------------------------
(***************************************************************************)
(* The strategies of options/strategies: what each opens on a chain.  A     *)
(* choice of a leg is the set of the legs that may be chosen: empty where   *)
(* the code returns None.  A strategy is then the set of its orders, empty  *)
(* or of one.  Deltas are in percent; a tie goes to the lower strike, the   *)
(* first of a sorted list.                                                  *)
(***************************************************************************)
EXTENDS OptionChain

CONSTANTS
    DeltaTolerance,     \* max_delta_tolerance of closest_delta
    MaxSpreadPct,       \* max_spread_pct_of_mid of is_fillable
    TargetDte,          \* target_dte of the strategies with one expiry
    FrontDte, BackDte,  \* target_dte_front, target_dte_back of those with two
    InnerWing, OuterWing, \* wings of the broken-wing butterfly
    CalendarSlack,      \* farthest strike the calendar takes for the middle one
    ShortOffset, WingWidth \* put_short_offset, wing_width_dollars of the 0DTE pair

ASSUME StrategyAssumption ==
    /\ {DeltaTolerance, MaxSpreadPct, InnerWing, OuterWing, CalendarSlack} \subseteq Nat
    /\ {ShortOffset, WingWidth, TargetDte, FrontDte, BackDte} \subseteq Nat

(* The expiry nearest to so many days from now, the later one of two. *)
PickExpiry(snap, target) ==
    LET E == {e \in Expiries : \E l \in Legs(snap) : l.expiry = e}
        Off(e) == Distance(e - snap.day, target)
    IN  {e \in E : \A x \in E : Off(e) < Off(x) \/ (Off(e) = Off(x) /\ e >= x)}

(* The expiry of a position: not the day itself. *)
ExpiryFor(snap, target) == {e \in PickExpiry(snap, target) : e > snap.day}

IsFillable(snap, l) ==
    LET b == Bid(snap, l)  a == Ask(snap, l)
    IN  /\ 0 < b /\ b < a
        /\ 100 * (a - b) < MaxSpreadPct * Mid(snap, l)

Puts(snap, e) == {l \in ForExpiry(snap, e, "put") : IsFillable(snap, l)}
Calls(snap, e) == {l \in ForExpiry(snap, e, "call") : IsFillable(snap, l)}
Below(legs, l) == {x \in legs : x.strike < l.strike}
Above(legs, l) == {x \in legs : x.strike > l.strike}

(* Of the legs, the first that is nearest to zero by Off. *)
FirstNearest(legs, Off(_)) ==
    {l \in legs : \A x \in legs : Off(l) < Off(x) \/ (Off(l) = Off(x) /\ l.strike <= x.strike)}

ClosestDelta(snap, legs, target) ==
    LET Off(l) == Distance(Delta(snap, l), target)
    IN  {l \in FirstNearest(legs, Off) : Off(l) <= DeltaTolerance}

ClosestStrike(legs, strike) == FirstNearest(legs, LAMBDA l : Distance(l.strike, strike))

Higher(legs, body, offset) == ClosestStrike(Above(legs, body), body.strike + offset)
Lower(legs, body, offset) == ClosestStrike(Below(legs, body), body.strike - offset)

Buy(l) == OrderLeg(l.expiry, l.strike, l.side, 1)
Sell(l) == OrderLeg(l.expiry, l.strike, l.side, -1)
SellTwo(l) == OrderLeg(l.expiry, l.strike, l.side, -2)

-----------------------------------------------------------------------------
(* A credit spread of one expiry: the leg nearest to the short delta is     *)
(* sold, the one beyond it nearest to the wing's is bought.                 *)
PutSpread(snap, e, short, wing) ==
    UNION {{{Sell(s), Buy(w)} : w \in ClosestDelta(snap, Below(Puts(snap, e), s), - wing)} :
           s \in ClosestDelta(snap, Puts(snap, e), - short)}

CallSpread(snap, e, short, wing) ==
    UNION {{{Sell(s), Buy(w)} : w \in ClosestDelta(snap, Above(Calls(snap, e), s), wing)} :
           s \in ClosestDelta(snap, Calls(snap, e), short)}

Together(A, B) == {a \cup b : a \in A, b \in B}
Reversed(A) == {{[l EXCEPT !.quantity = - @] : l \in a} : a \in A}

PutCreditSpread(snap) == UNION {PutSpread(snap, e, 30, 5) : e \in ExpiryFor(snap, TargetDte)}
CallCreditSpread(snap) == UNION {CallSpread(snap, e, 30, 5) : e \in ExpiryFor(snap, TargetDte)}

IronCondor(snap) ==
    UNION {Together(PutSpread(snap, e, 16, 5), CallSpread(snap, e, 16, 5)) :
           e \in ExpiryFor(snap, TargetDte)}

ShortStrangleDefined(snap) ==
    UNION {Together(PutSpread(snap, e, 25, 5), CallSpread(snap, e, 25, 5)) :
           e \in ExpiryFor(snap, TargetDte)}

JadeLizard(snap) ==
    UNION {Together(PutSpread(snap, e, 35, 5), CallSpread(snap, e, 20, 10)) :
           e \in ExpiryFor(snap, TargetDte)}

ReverseIronCondor(snap) ==
    UNION {Reversed(Together(PutSpread(snap, e, 30, 10), CallSpread(snap, e, 30, 10))) :
           e \in ExpiryFor(snap, TargetDte)}

(* The strikes nearest to the price at which both sides can be filled. *)
IronButterfly(snap) ==
    LET common(e) == {c \in Calls(snap, e) : \E p \in Puts(snap, e) : p.strike = c.strike}
        wings(e, body) ==
            {{Sell(body), Sell([body EXCEPT !.side = "put"]), Buy(c), Buy(p)} :
             c \in ClosestDelta(snap, Above(Calls(snap, e), body), 5),
             p \in ClosestDelta(snap, Below(Puts(snap, e), body), -5)}
    IN  UNION {UNION {wings(e, body) : body \in ClosestStrike(common(e), snap.price)} :
               e \in ExpiryFor(snap, TargetDte)}

PutBrokenWingButterfly(snap) ==
    LET wings(e, body) ==
            {{Buy(outer), SellTwo(body), Buy(inner)} :
             outer \in Lower(Puts(snap, e), body, OuterWing),
             inner \in Higher(Puts(snap, e), body, InnerWing)}
    IN  IF OuterWing <= InnerWing THEN {}
        ELSE UNION {UNION {wings(e, body) : body \in ClosestDelta(snap, Puts(snap, e), -20)} :
                    e \in ExpiryFor(snap, TargetDte)}

-----------------------------------------------------------------------------
(* Strategies with a front and a back expiry: the pairs of the two. *)
TwoExpiries(snap) == {x \in ExpiryFor(snap, FrontDte) \X ExpiryFor(snap, BackDte) : x[1] < x[2]}

(* The middle strike of the front, or the strike of the back nearest to it; *)
(* the front leg is ordered at that strike, listed there or not.            *)
PutCalendar(snap) ==
    LET middle(f) == ClosestStrike(Puts(snap, f), snap.price)
        back(f, b) == {l \in UNION {ClosestStrike(Puts(snap, b), m.strike) : m \in middle(f)} :
                          \A m \in middle(f) : Distance(l.strike, m.strike) <= CalendarSlack}
        orders(f, b) == {{Sell([l EXCEPT !.expiry = f]), Buy(l)} : l \in back(f, b)}
    IN  UNION {orders(x[1], x[2]) : x \in TwoExpiries(snap)}

PutDiagonal(snap) ==
    LET orders(f, b) ==
            UNION {{{Sell(s), Buy(l)} : l \in ClosestDelta(snap, Below(Puts(snap, b), s), -10)} :
                   s \in ClosestDelta(snap, Puts(snap, f), -30)}
    IN  UNION {orders(x[1], x[2]) : x \in TwoExpiries(snap)}

CallDiagonal(snap) ==
    LET orders(f, b) ==
            UNION {{{Sell(s), Buy(l)} : l \in ClosestDelta(snap, Above(Calls(snap, b), s), 10)} :
                   s \in ClosestDelta(snap, Calls(snap, f), 30)}
    IN  UNION {orders(x[1], x[2]) : x \in TwoExpiries(snap)}

-----------------------------------------------------------------------------
(* The 0DTE pair, on legs whose close is their only quote. *)
OtmPuts(legs, price) == {l \in legs : l.side = "put" /\ l.strike < price}
OtmCalls(legs, price) == {l \in legs : l.side = "call" /\ l.strike > price}

Mes0dtePcs(legs, price) ==
    UNION {{{Sell(s), Buy(w)} : w \in Lower(OtmPuts(legs, price), s, WingWidth)} :
           s \in ClosestStrike(OtmPuts(legs, price), price - ShortOffset)}

Mes0dteIronCondor(legs, price) ==
    Together(Mes0dtePcs(legs, price),
             UNION {{{Sell(s), Buy(w)} : w \in Higher(OtmCalls(legs, price), s, WingWidth)} :
                    s \in ClosestStrike(OtmCalls(legs, price), price + ShortOffset)})

-----------------------------------------------------------------------------
(* The registry: an id and its strategy. *)
BaseIds == {"pcs", "ccs", "condor", "strangle", "lizard", "reverse", "butterfly",
            "broken_wing", "calendar", "put_diagonal", "call_diagonal"}

OrdersOf(id, snap) ==
    CASE id = "pcs"           -> PutCreditSpread(snap)
      [] id = "ccs"           -> CallCreditSpread(snap)
      [] id = "condor"        -> IronCondor(snap)
      [] id = "strangle"      -> ShortStrangleDefined(snap)
      [] id = "lizard"        -> JadeLizard(snap)
      [] id = "reverse"       -> ReverseIronCondor(snap)
      [] id = "butterfly"     -> IronButterfly(snap)
      [] id = "broken_wing"   -> PutBrokenWingButterfly(snap)
      [] id = "calendar"      -> PutCalendar(snap)
      [] id = "put_diagonal"  -> PutDiagonal(snap)
      [] id = "call_diagonal" -> CallDiagonal(snap)
=============================================================================
