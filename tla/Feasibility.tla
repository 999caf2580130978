---------------------------- MODULE Feasibility ----------------------------
(***************************************************************************)
(* The feasibility figures of a parcel and the visitor's own assumptions.  *)
(* The server computes the panel's figures (core/engine/shared.py behind   *)
(* core/engine/feasibility.py); the browser runs the same engine again on  *)
(* the panel's inputs with the visitor's edits (assumptions.ts), which     *)
(* stay when another parcel is opened (store.ts).                          *)
(*                                                                         *)
(* Numbers are exact: a low, expected and high value are numerators over   *)
(* one denominator, `per`.  FAR, shares, coverage and range factors are    *)
(* in parts of Whole.  What doubles lose on the way is not modelled.       *)
(***************************************************************************)
EXTENDS Integers

CONSTANTS Panels,        \* what panels can be opened: [area, far, coverage, share, market]
          Whole,         \* parts a FAR, a share, a coverage, a factor is counted in
          Nothing,       \* nothing stated, nothing edited, no market row
          DefaultShare,  \* DEFAULT_SALEABLE_SHARE
          SliderMin, SliderMax,  \* of each edit, in the slider's steps
          ServerLimit            \* SERVER_LIMITS, the highest edit the server takes

ReasonCode == {"area_unknown", "far_not_stated", "coverage_not_stated", "requires_gfa",
               "no_market_data", "total_cost_zero"}
EditKeys == {"construction", "price", "share"}

(* What _validate_ranged accepts.  Rates come as whole euros.              *)
Ranged(x) ==
  /\ x \in [kind : {"multiplier", "absolute"}, expected : Nat, low : Nat, high : Nat]
  /\ IF x.kind = "multiplier" THEN x.low <= Whole /\ Whole <= x.high
     ELSE x.low <= x.expected /\ x.expected <= x.high

ASSUME FeasibilityAssumption ==
  /\ Whole \in Nat \ {0} /\ Nothing \notin Int \cup ReasonCode /\ DefaultShare \in 1..Whole
  /\ \A k \in EditKeys : SliderMin[k] \in Nat /\ SliderMax[k] \in Nat /\ ServerLimit[k] \in Nat
  /\ ServerLimit["share"] = Whole
  /\ \A p \in Panels :
       /\ p.area \in Nat \cup {Nothing} /\ p.far \in Int \cup {Nothing} /\ p.coverage \in Int \cup {Nothing}
       /\ p.share \in (1..Whole) \cup {Nothing}
       /\ p.market # Nothing => /\ Ranged(p.market.land) /\ Ranged(p.market.design)
                             /\ Ranged(p.market.construction) /\ Ranged(p.market.price)

VARIABLES panel,  \* the panel on screen, Nothing before the first
          edits   \* assumptionEdits: the visitor's value of a key, or Nothing

sandboxVars == <<panel, edits>>
NoEdits == [k \in EditKeys |-> Nothing]

-----------------------------------------------------------------------------
(* core/engine/shared.py, packages/feasibility-engine/src/engine.ts *)

(* Half away from zero, in hundredths.                                     *)
Rounded(n, d) == IF n < 0 THEN -((200 * (-n) + d) \div (2 * d)) ELSE (200 * n + d) \div (2 * d)

Triple(low, expected, high, per) == [low |-> low, expected |-> expected, high |-> high, per |-> per]
Times(k, x, per) == Triple(k * x.low, k * x.expected, k * x.high, per * x.per)
Plus(x, y) == Triple(x.low * y.per + y.low * x.per, x.expected * y.per + y.expected * x.per,
                     x.high * y.per + y.high * x.per, x.per * y.per)

bounds_of(x) ==
  IF x.kind = "multiplier" THEN Triple(x.expected * x.low, x.expected * Whole, x.expected * x.high, Whole)
  ELSE Triple(x.low, x.expected, x.high, 1)

(* Mutant: absolute bounds stay where they were.                           *)
edited_in_place(x, e) ==
  IF x.kind = "multiplier" THEN bounds_of([x EXCEPT !.expected = e])
  ELSE Triple(x.low, e, x.high, 1)

with_edited_expected(x, e) ==
  IF x.kind = "multiplier" THEN bounds_of([x EXCEPT !.expected = e])
  ELSE IF x.expected = 0 THEN Triple(e, e, e, 1)
  ELSE Triple(x.low * e, x.expected * e, x.high * e, x.expected)

(* Mutant: the edited construction cost is taken for the price too.        *)
resolve_mixed(market, ed) ==
  LET Rate(key, x) == IF ed[key] = Nothing THEN bounds_of(x) ELSE with_edited_expected(x, ed[key]) IN
  [land |-> bounds_of(market.land), design |-> bounds_of(market.design),
   construction |-> Rate("construction", market.construction),
   price |-> Rate("construction", market.price)]

resolve_market(market, ed) ==
  LET Rate(key, x) == IF ed[key] = Nothing THEN bounds_of(x) ELSE with_edited_expected(x, ed[key]) IN
  [land |-> bounds_of(market.land), design |-> bounds_of(market.design),
   construction |-> Rate("construction", market.construction), price |-> Rate("price", market.price)]

resolve_share(default, ed) == IF ed["share"] = Nothing THEN default ELSE ed["share"]

(* Areas are counted in Whole-ths (the saleable one in Whole-ths of those). *)
Gfa(plan) == plan.far * plan.area
Land(plan, m) == Times(plan.area, m.land, 1)
Design(plan, m) == Times(Gfa(plan), m.design, Whole)
Construction(plan, m) == Times(Gfa(plan), m.construction, Whole)
Total(plan, m) == Plus(Plus(Land(plan, m), Design(plan, m)), Construction(plan, m))
Revenue(plan, share, m) == Times(Gfa(plan) * share, m.price, Whole * Whole)
(* Mutant: low minus low, high minus high.                                 *)
ProfitPaired(revenue, total) ==
  Triple(revenue.low * total.per - total.low * revenue.per,
         revenue.expected * total.per - total.expected * revenue.per,
         revenue.high * total.per - total.high * revenue.per, revenue.per * total.per)

Profit(revenue, total) ==
  Triple(revenue.low * total.per - total.high * revenue.per,
         revenue.expected * total.per - total.expected * revenue.per,
         revenue.high * total.per - total.low * revenue.per, revenue.per * total.per)

Figure(low, expected, high) ==
  [status |-> "ok", reason |-> Nothing, low |-> low, expected |-> expected, high |-> high]
Ok(x) == Figure(Rounded(x.low, x.per), Rounded(x.expected, x.per), Rounded(x.high, x.per))
Cannot(reason) ==
  [status |-> "cannot_calculate", reason |-> reason, low |-> Nothing, expected |-> Nothing, high |-> Nothing]

(* The profit's `per` is the revenue's times the total's, which cancels.   *)
Roi(revenue, total) ==
  LET profit == Profit(revenue, total)
      Percent(part, of) == Rounded(100 * part, revenue.per * of) IN
  IF total.expected = 0 \/ total.low = 0 \/ total.high = 0 THEN Cannot("total_cost_zero")
  ELSE Figure(Percent(profit.low, total.high), Percent(profit.expected, total.expected),
              Percent(profit.high, total.low))

(* Why a figure cannot be calculated; the first reason that applies wins.  *)
First(reason, other) == IF reason # Nothing THEN reason ELSE other
Unless(reason, figure) == IF reason # Nothing THEN Cannot(reason) ELSE figure

area_reason(plan) == IF plan.area = Nothing THEN "area_unknown" ELSE Nothing
market_reason(market) == IF market = Nothing THEN "no_market_data" ELSE Nothing
without_far(plan, reason) == First(area_reason(plan), IF plan.far = Nothing THEN reason ELSE Nothing)
coverage_reason(plan) ==
  First(area_reason(plan), IF plan.coverage = Nothing THEN "coverage_not_stated" ELSE Nothing)
land_reason(plan, market) == First(area_reason(plan), market_reason(market))
money_reason(plan, market) == First(without_far(plan, "requires_gfa"), market_reason(market))

Area(n, per) == Ok(Triple(n, n, n, per))

(* _compute: `market` is the zone's row, `m` the triples resolved from it.  *)
Compute(plan, share, market, m) ==
  LET Money(figure) == Unless(money_reason(plan, market), figure)
      total == Total(plan, m)
      revenue == Revenue(plan, share, m) IN
  [max_gfa |-> Unless(without_far(plan, "far_not_stated"), Area(Gfa(plan), Whole)),
   max_coverage_area |-> Unless(coverage_reason(plan), Area(plan.area * plan.coverage, Whole)),
   saleable_area |-> Unless(without_far(plan, "requires_gfa"), Area(Gfa(plan) * share, Whole * Whole)),
   land_value |-> Unless(land_reason(plan, market), Ok(Land(plan, m))),
   construction_costs |-> Money(Ok(Construction(plan, m))),
   design_and_documentation_costs |-> Money(Ok(Design(plan, m))),
   total_cost |-> Money(Ok(total)),
   market_value |-> Money(Ok(revenue)),
   potential_profit |-> Money(Ok(Profit(revenue, total))),
   roi_pct |-> Money(Roi(revenue, total))]

FieldKeys == {"max_gfa", "max_coverage_area", "saleable_area", "construction_costs", "land_value",
              "design_and_documentation_costs", "total_cost", "market_value", "potential_profit",
              "roi_pct"}

FIELD_DEPENDENCIES ==
  [share |-> {"saleable_area", "market_value", "potential_profit", "roi_pct"},
   construction |-> {"construction_costs", "total_cost", "potential_profit", "roi_pct"},
   price |-> {"market_value", "potential_profit", "roi_pct"}]

-----------------------------------------------------------------------------
(* core/engine/feasibility.py, api/services/panel.py: a stated figure the  *)
(* formulas cannot run on is not given to them, and the reason says so.    *)
usable(value, range) == IF value \in range THEN value ELSE Nothing
Plan(p) == [area |-> p.area, far |-> usable(p.far, Nat), coverage |-> usable(p.coverage, 0..Whole)]
default_saleable_share(p) == IF p.share = Nothing THEN DefaultShare ELSE p.share

Recalculated(p, ed) ==
  Compute(Plan(p), resolve_share(default_saleable_share(p), ed), p.market,
          resolve_market(p.market, ed))

Payload(p) ==
  LET result == Recalculated(p, NoEdits)
      Renamed(figure) ==
        IF figure.reason = "far_not_stated" /\ p.far # Nothing THEN Cannot("far_not_usable")
        ELSE IF figure.reason = "coverage_not_stated" /\ p.coverage # Nothing
             THEN Cannot("coverage_not_usable") ELSE figure
  IN [f \in FieldKeys |-> Renamed(result[f])]

-----------------------------------------------------------------------------
(* frontend: lib/assumptions.ts, lib/store.ts, assumption-sandbox.tsx      *)

Default(p, key) ==
  IF key = "share" THEN default_saleable_share(p)
  ELSE IF p.market = Nothing THEN Nothing ELSE p.market[key].expected

(* sliderBounds, widened to include the zone's default.                    *)
sliderBounds(p, key) ==
  LET d == Default(p, key) IN
  (IF d # Nothing /\ d < SliderMin[key] THEN d ELSE SliderMin[key])..
  (IF d # Nothing /\ d > SliderMax[key] THEN d ELSE SliderMax[key])

(* editErrors: an edit made on another parcel may be outside the bounds    *)
(* here; then none of the edits is calculated.                             *)
Valid(p, ed) == \A k \in EditKeys :
  ed[k] # Nothing => ed[k] \in 1..ServerLimit[k] /\ ed[k] \in sliderBounds(p, k)
InUse(p, ed) == IF Valid(p, ed) THEN ed ELSE NoEdits

Shown(p, ed) == IF InUse(p, ed) = NoEdits THEN Payload(p) ELSE Recalculated(p, ed)

SandboxInit == panel = Nothing /\ edits = NoEdits

(* Another parcel, or the same one with new figures: the edits stay.       *)
openPanel == /\ panel' \in Panels
             /\ UNCHANGED edits

(* Without market figures the sliders are disabled; back on the default    *)
(* value it is no longer an edit.                                          *)
setAssumptionEdit(key, v) ==
  /\ panel # Nothing /\ panel.market # Nothing
  /\ v \in sliderBounds(panel, key)
  /\ edits' = [edits EXCEPT ![key] = IF v = Default(panel, key) THEN Nothing ELSE v]
  /\ UNCHANGED panel

resetAssumptions ==
  /\ panel # Nothing /\ edits # NoEdits
  /\ edits' = NoEdits
  /\ UNCHANGED panel

SandboxNext ==
  \/ openPanel
  \/ panel # Nothing /\ \E k \in EditKeys : \E v \in sliderBounds(panel, k) : setAssumptionEdit(k, v)
  \/ resetAssumptions

SandboxSpec == SandboxInit /\ [][SandboxNext]_sandboxVars

-----------------------------------------------------------------------------
(* What is opened is a panel, an edit is a value of its slider.            *)
SandboxTypeOK ==
  /\ panel \in Panels \cup {Nothing}
  /\ edits \in [EditKeys -> Nat \cup {Nothing}]

(* "For every output, low is its smallest plausible value and high its     *)
(* largest within those bounds" (engine.ts:20): whatever each rate is      *)
(* between the bounds in use, or if it is the one expected, the figure it  *)
(* gives can be calculated and lies in the range on screen; after any      *)
(* edits, kept from any parcels.                                           *)
RangesCover ==
  panel # Nothing /\ panel.market # Nothing =>
    LET ed == InUse(panel, edits)
        m == resolve_market(panel.market, ed)
        share == resolve_share(default_saleable_share(panel), ed)
        shown == Shown(panel, edits)
        At(n, x) == Triple(n, n, n, x.per)
        Within(x) == (x.low..x.high) \cup {x.expected}
    IN \A l \in Within(m.land), d \in Within(m.design),
          c \in Within(m.construction), v \in Within(m.price) :
         LET exact == Compute(Plan(panel), share, panel.market,
                        [land |-> At(l, m.land), design |-> At(d, m.design),
                         construction |-> At(c, m.construction), price |-> At(v, m.price)])
         IN \A f \in FieldKeys : shown[f].status = "ok" =>
              /\ exact[f].status = "ok"
              /\ exact[f].expected \in shown[f].low..shown[f].high

(* FIELD_DEPENDENCIES ("what an edit changes", engine.ts:90): moving one   *)
(* slider changes none of the other figures, be they the server's or the   *)
(* browser's before and after.                                             *)
SameFigure(x, y) == x.status = y.status /\ x.low = y.low /\ x.expected = y.expected /\ x.high = y.high
OnlyDependents ==
  [][\A k \in EditKeys :
       /\ panel # Nothing /\ panel' = panel
       /\ Valid(panel, edits) /\ Valid(panel, edits')
       /\ \A j \in EditKeys \ {k} : edits'[j] = edits[j]
       => \A f \in FieldKeys \ FIELD_DEPENDENCIES[k] :
            SameFigure(Shown(panel, edits)[f], Shown(panel, edits')[f])]_sandboxVars
=============================================================================
