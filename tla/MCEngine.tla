------------------------------- MODULE MCEngine -------------------------------
(***************************************************************************)
(* The three parts of the engine that keep no state in common, in one run: *)
(* what records an exchange, what compares two sides and what attributes a *)
(* change.  A behaviour is a behaviour of one of them; the other two stay  *)
(* in one of their initial states.                                         *)
(***************************************************************************)
EXTENDS MCCapture, MCComparison, MCAttribution

VARIABLE scene    \* the part that moves; fixed

engineVars == <<scene, captureVars, vars, attributionVars>>

AtRest(part) == scene # part
RestingScenario == CHOOSE s \in Scenarios : TRUE

EngineInit ==
    /\ scene \in {"capture", "comparison", "attribution"}
    /\ CaptureInit /\ (AtRest("capture") => scenario = RestingScenario)
    /\ Init /\ (AtRest("comparison") => setting = Least)
    /\ AttributionInit /\ (AtRest("attribution") => world = Usual)

EngineNext ==
    \/ scene = "capture" /\ CaptureNext /\ UNCHANGED <<scene, vars, attributionVars>>
    \/ scene = "comparison" /\ Next /\ UNCHANGED <<scene, captureVars, attributionVars>>
    \/ scene = "attribution" /\ AttributionNext /\ UNCHANGED <<scene, captureVars, vars>>

EngineSpec == EngineInit /\ [][EngineNext]_engineVars
=============================================================================
