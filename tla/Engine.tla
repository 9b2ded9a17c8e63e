------------------------------- MODULE Engine -------------------------------
(***************************************************************************)
(* The parts of the engine, and of the Go code on top of it, that work     *)
(* within one call and without jobs.  Each has its own state; a behaviour  *)
(* is about one part and leaves the others as they are in the beginning.   *)
(***************************************************************************)
EXTENDS EngineGC, Bridge, GoValues, Regexp, Maps, Shapes

CONSTANT Parts      \* the parts that a run is about

VARIABLE part

engineVars == <<part, gcVars, bridgeVars, objectsVars, regexpVars, mapVars, shapesVars>>

NoObjects ==
    /\ mem = <<>> /\ objs = <<>> /\ got = NoRead /\ wrote = NoWrite /\ writes = 0
    /\ panicked = FALSE

NoRegexp ==
    /\ re = [stack |-> 0] /\ text = <<>>
    /\ vm = [stack |-> <<>>, ret |-> Null]

EngineInit ==
    /\ part \in Parts /\ GCInit /\ BridgeInit /\ MapsInit /\ ShapesInit
    /\ IF part = "objects" THEN ObjectsInit ELSE NoObjects
    /\ IF part = "regexp" THEN RegexpInit ELSE NoRegexp

EngineNext ==
    \/ part = "gc" /\ GCNext /\ UNCHANGED <<part, bridgeVars, objectsVars, regexpVars, mapVars, shapesVars>>
    \/ part = "bridge" /\ BridgeNext /\ UNCHANGED <<part, gcVars, objectsVars, regexpVars, mapVars, shapesVars>>
    \/ part = "objects" /\ ObjectsNext /\ UNCHANGED <<part, gcVars, bridgeVars, regexpVars, mapVars, shapesVars>>
    \/ part = "regexp" /\ RegexpNext /\ UNCHANGED <<part, gcVars, bridgeVars, objectsVars, mapVars, shapesVars>>
    \/ part = "map" /\ MapsNext /\ UNCHANGED <<part, gcVars, bridgeVars, objectsVars, regexpVars, shapesVars>>
    \/ part = "shapes" /\ ShapesNext /\ UNCHANGED <<part, gcVars, bridgeVars, objectsVars, regexpVars, mapVars>>

EngineSpec == EngineInit /\ [][EngineNext]_engineVars

\* The state of every part keeps its shape.
EngineTypeOK ==
    /\ GCTypeOK /\ BridgeTypeOK /\ MapsTypeOK /\ ShapesTypeOK
    /\ part = "objects" => ObjectsTypeOK
    /\ part = "regexp" => RegexpTypeOK
=============================================================================
