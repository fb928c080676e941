--------------------------- MODULE MCModuleGraph ---------------------------
(***************************************************************************)
(* ModuleGraph over every import graph of at most MaxImports imports and   *)
(* at most one fault.                                                      *)
(***************************************************************************)
EXTENDS ModuleGraph

CONSTANTS MaxImports, MaxPrefix

Graphs == {g \in SUBSET (Sources \X Sources) : Cardinality(g) <= MaxImports}
AtMostOneFault == {{}} \cup {{f} : f \in Sources \X Stages}

MCInit ==
    /\ \E g \in Graphs : imports = [m \in Sources |-> {t \in Sources : <<m, t>> \in g}]
    /\ faults \in AtMostOneFault
    /\ \/ mode \in {"strict", "lenient"} /\ prefix = 0
       \/ mode = "complete" /\ prefix \in 1 .. MaxPrefix
    /\ phase = "read" /\ errors = {}
    /\ root = 0 /\ slots = N
    /\ mark = [m \in Sources |-> "unvisited"]
    /\ path = <<>> /\ left = [m \in Sources |-> {}]
    /\ order = <<>> /\ todo = 1
    /\ resolved = {} /\ deps = [m \in Sources |-> {}]
    /\ checked = {} /\ visible = [m \in Sources |-> {}]

MCSpec == MCInit /\ [][Next]_vars
=============================================================================
