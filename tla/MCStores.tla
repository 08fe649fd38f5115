------------------------------- MODULE MCStores -------------------------------
(***************************************************************************)
(* The stores of both generations, one of them in use at a time: the       *)
(* relational V2 store, or a V1 store with its units of work.  Before any  *)
(* is opened, a host may fill its plugin catalogs.                         *)
(***************************************************************************)
EXTENDS RelationalStore, UnitsOfWork, PluginCatalogs, TLC

CONSTANTS w1, w2, a1, a2, c1, c2

\* Statuses that take a task run to each way a store treats it differently.
StatusesInUse == {"PENDING", "READY", "REUSED", "CANCELLED"}

\* What entry points may come to: each failure, a registration of another API
\* version, one that fits and one whose factory makes no plugin.
YieldsInUse ==
    Failures \cup
    {[is |-> "registration", type |-> 1, name |-> 1, api |-> "current", factory |-> "fits"],
     [is |-> "registration", type |-> 1, name |-> 1, api |-> "other", factory |-> "fits"],
     [is |-> "registration", type |-> 2, name |-> 1, api |-> "current", factory |-> "unfit"]}

VARIABLE use

storesVars == <<use, storeVars, unitVars, pluginVars>>

\* Parts not in use start in one state.
StoresInit ==
    /\ use \in {"v1", "v2", "plugins"}
    /\ InitRelational /\ InitUnits /\ InitPlugins
    /\ use # "v2" => dialect = "sqlite"
    /\ use # "v1" => unitBackend = "v1-memory"
    /\ use # "plugins" => pluginVersion = "v2" /\ offered = << >>

StoresNext ==
    \/ use = "v2" /\ RelationalNext /\ UNCHANGED <<use, unitVars, pluginVars>>
    \/ use = "v1" /\ UnitNext /\ UNCHANGED <<use, storeVars, pluginVars>>
    \/ use = "plugins" /\ PluginsNext /\ UNCHANGED <<use, storeVars, unitVars>>

StoresSpec == StoresInit /\ [][StoresNext]_storesVars

=============================================================================
