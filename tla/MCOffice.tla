------------------------------ MODULE MCOffice ------------------------------
(***************************************************************************)
(* Six parts of the office that share no row here: market figures,         *)
(* sign-in mail, the panel's cache, the register of documents, the         *)
(* visitor's own assumptions, the geocoder.                                *)
(* In a behaviour one of them moves, which visits every state of each.     *)
(***************************************************************************)
EXTENDS Market, Mail, PanelCache, Documents, Feasibility, Geocode, TLC

CONSTANTS land, sale, a1, a2, o1, o2, o3, s1, NoValue

(* o1 and o2 are two figures of one metric, and two letters; a1 and a2 are *)
(* the processes of every part, s1 the one that geocodes.                 *)
MetricOfItem == o1 :> land @@ o2 :> land @@ o3 :> sale
AdminsByVersions == 0 :> 1 @@ 1 :> 1 @@ 2 :> 0 @@ 3 :> 0
FaultsByLetters == 0 :> 0 @@ 1 :> 1 @@ 2 :> 0

(* Rates given as multipliers (in halves) and as absolute bounds, with     *)
(* defaults below, on and above the sliders; panels that state every, one  *)
(* or no usable figure; edits that fit one panel's slider and not another's.    *)
By(kind, expected, low, high) ==
  [kind |-> kind, expected |-> expected, low |-> low, high |-> high]
Spread == By("multiplier", 2, 1, 3)
Even == By("multiplier", 3, 2, 2)
Given == By("absolute", 2, 1, 3)
Near == [land |-> Spread, design |-> Even, construction |-> Given, price |-> Spread]
Far == [land |-> Even, design |-> Given, construction |-> By("multiplier", 3, 1, 3),
        price |-> By("absolute", 4, 4, 5)]
PanelsToOpen ==
  { [area |-> 1, far |-> far, coverage |-> 1, share |-> NoValue, market |-> market] :
      far \in {2, 3}, market \in {Near, Far, NoValue} }
    \cup { [area |-> 2, far |-> -1, coverage |-> 5, share |-> 2, market |-> Near],
           [area |-> 2, far |-> NoValue, coverage |-> NoValue, share |-> 1, market |-> Far],
           [area |-> 1, far |-> 0, coverage |-> 2, share |-> 1, market |-> Near] }
LowestOf == [construction |-> 2, price |-> 3, share |-> 1]
HighestOf == [construction |-> 3, price |-> 4, share |-> 2]
HighestTaken == [construction |-> 3, price |-> 4, share |-> 2]

Symmetry == Permutations({a1, a2}) \cup Permutations({o1, o2})

VARIABLE part  \* the part that moves

OfficeInit ==
  /\ part \in {"market", "mail", "panel", "register", "sandbox", "geocode"}
  /\ MarketInit /\ MailInit /\ PanelInit /\ RegisterInit /\ SandboxInit
  /\ GeocodeInit
  /\ part # "mail" => sends

MarketMoves == /\ part = "market" /\ MarketNext
               /\ UNCHANGED <<part, mailVars, panelVars, registerVars, sandboxVars, geocodeVars>>
MailMoves == /\ part = "mail" /\ MailNext
             /\ UNCHANGED <<part, marketVars, panelVars, registerVars, sandboxVars, geocodeVars>>
PanelMoves == /\ part = "panel" /\ PanelNext
              /\ UNCHANGED <<part, marketVars, mailVars, registerVars, sandboxVars, geocodeVars>>
RegisterMoves == /\ part = "register" /\ RegisterNext
                 /\ UNCHANGED <<part, marketVars, mailVars, panelVars, sandboxVars, geocodeVars>>
SandboxMoves == /\ part = "sandbox" /\ SandboxNext
                /\ UNCHANGED <<part, marketVars, mailVars, panelVars, registerVars, geocodeVars>>
GeocodeMoves == /\ part = "geocode" /\ GeocodeNext
                /\ UNCHANGED <<part, marketVars, mailVars, panelVars, registerVars, sandboxVars>>

officeVars == <<part, marketVars, mailVars, panelVars, registerVars, sandboxVars,
                geocodeVars>>
OfficeSpec ==
  /\ OfficeInit
  /\ [][MarketMoves \/ MailMoves \/ PanelMoves \/ RegisterMoves \/ SandboxMoves
      \/ GeocodeMoves]_officeVars
=============================================================================
