---------------------------- MODULE MCModelRegistry ----------------------------
(***************************************************************************)
(* Two versions and two writers, both symmetric.  The history field        *)
(* cleared doubles the records, so a behaviour either lets one writer or   *)
(* one version move and tells every field apart, or lets all of them move  *)
(* and tells the states apart without the history.                         *)
(***************************************************************************)
EXTENDS ModelRegistry, TLC

VARIABLES
    crew,       \* the writers that open the registry in this behaviour
    stock       \* the versions they write

mcVars == <<registryVars, crew, stock>>

MCInit ==
    /\ RegistryInit
    /\ crew \in SUBSET Procs /\ stock \in SUBSET Versions
    /\ crew # {} /\ stock # {}

MCNext ==
    /\ RegistryNext
    /\ open' \subseteq crew
    /\ \A p \in Procs, v \in Versions \ stock : mem'[p][v] = NoRecord
    /\ UNCHANGED <<crew, stock>>

MCSpec == MCInit /\ [][MCNext]_mcVars

Plain(records) == [v \in Versions |-> <<records[v].stage, records[v].passed>>]

(* Every field decides ShippedHasCleared where one writer or one version   *)
(* moves; SingleProduction depends on the stages alone, and these on no    *)
(* history.                                                                *)
MCView ==
    IF crew = Procs /\ stock = Versions
    THEN <<open, [p \in Procs |-> Plain(mem[p])], Plain(file), crew, stock>>
    ELSE mcVars

Symmetry == Permutations(Versions) \cup Permutations(Procs)
=============================================================================
