--------------------------- MODULE PluginCatalogs ---------------------------
(***************************************************************************)
(* Plugin catalogs of both generations and the explicit enablement of      *)
(* installed entry points: plugins/registry.py, contracts.py, discovery.py *)
(* (V1) and plugins/v2.py.  One thread uses a catalog.                     *)
(*                                                                         *)
(* Entry points are listed in discovery order, which sorts by type, name   *)
(* and value; two installed packages may offer the same type and name.     *)
(***************************************************************************)
EXTENDS Naturals, Sequences, SequencesExt

CONSTANTS
    PluginTypes, PluginNames,    \* numbered in the order discovery sorts by
    PluginVersions,              \* the generations to look at: "v1", "v2"
    Yields,                      \* what loading an entry point may come to
    OfferBound,                  \* entry points installed
    EnableBound                  \* calls of enable_selected

Apis == {"current", "other"}
Factories == {"fits", "unfit", "raises"}
Registrations ==
    [is : {"registration"}, type : PluginTypes, name : PluginNames, api : Apis,
     factory : Factories]
\* No registration: loading raises an exception, or says itself that the plugin
\* does not fit (PluginCompatibilityError), or gives something else.
Failures == [is : {"raises", "refuses", "other"}]

ASSUME PluginConstants ==
    /\ PluginTypes \subseteq Nat /\ PluginNames \subseteq Nat
    /\ PluginVersions \subseteq {"v1", "v2"}
    /\ Yields \subseteq Registrations \cup Failures
    /\ OfferBound \in Nat /\ EnableBound \in Nat

Nothing == [is |-> "nothing"]
Identities == PluginTypes \X PluginNames
DiscoveryStatus == {"DISCOVERED", "REGISTERED", "INCOMPATIBLE", "FAILED"}

VARIABLES
    pluginVersion,
    offered,        \* the installed entry points in discovery order
    catalog,        \* catalog[<<type, name>>]: a registration or Nothing
    enabled,        \* names asked for of each type, of the call at hand
    candidates,     \* the entry points the call discovered, in order
    report,         \* the results of the call so far
    catalogBefore,  \* the catalog when the call began
    enablements,    \* calls begun
    created         \* the last instance handed out, with its registry

pluginVars == <<pluginVersion, offered, catalog, enabled, candidates, report,
                catalogBefore, enablements, created>>

Sorted(offers) ==
    \A i, j \in DOMAIN offers : i < j =>
        \/ offers[i].type < offers[j].type
        \/ offers[i].type = offers[j].type /\ offers[i].name <= offers[j].name

InitPlugins ==
    /\ pluginVersion \in PluginVersions
    /\ offered \in {offers \in SeqOf([type : PluginTypes, name : PluginNames,
                                      yields : Yields], OfferBound) : Sorted(offers)}
    /\ catalog = [id \in Identities |-> Nothing]
    /\ enabled = [type \in {} |-> {}]
    /\ candidates = << >> /\ report = << >>
    /\ catalogBefore = catalog
    /\ enablements = 0
    /\ created = Nothing

Identity(x) == <<x.type, x.name>>
Enabling == Len(report) < Len(candidates)

\* PluginRegistry.register of V1: what a registry takes, whatever its version.
LegacyTakes(reg, type) ==
    reg.type = type /\ catalog[<<type, reg.name>>] = Nothing

\* Mutant: a second registration under a name replaces the first.
TakesAgain(reg, type) == reg.type = type /\ reg.api = "current"

\* V2PluginRegistry.register.
Takes(reg, type) == LegacyTakes(reg, type) /\ reg.api = "current"

RegistrationAccepted(reg, type) ==
    IF pluginVersion = "v2" THEN Takes(reg, type) ELSE LegacyTakes(reg, type)

Registered(reg) == catalog' = [catalog EXCEPT ![Identity(reg)] = reg]

\* The host registers a plugin itself, or is refused with an exception.
RegisterManually(reg, type) ==
    /\ ~ Enabling
    /\ \/ RegistrationAccepted(reg, type) /\ Registered(reg)
       \/ ~ RegistrationAccepted(reg, type) /\ UNCHANGED catalog
    /\ catalogBefore' = catalog'
    /\ candidates' = << >> /\ report' = << >>
    /\ UNCHANGED <<pluginVersion, offered, enabled, enablements, created>>

\* discover: the entry points of the types given, or of all with none given.
Discovered(types) ==
    LET wanted == IF types = {} THEN PluginTypes ELSE types
        found[i \in 0..Len(offered)] ==
            IF i = 0 THEN << >>
            ELSE IF offered[i].type \in wanted THEN Append(found[i - 1], offered[i])
            ELSE found[i - 1]
    IN  found[Len(offered)]

\* enable_selected: a name nobody offers is an error before any code is loaded.
EnableSelected(names) ==
    /\ ~ Enabling
    /\ enablements < EnableBound
    /\ \A type \in DOMAIN names : \A name \in names[type] :
          \E i \in DOMAIN offered : Identity(offered[i]) = <<type, name>>
    /\ enablements' = enablements + 1
    /\ enabled' = names
    /\ candidates' = Discovered(DOMAIN names)
    /\ report' = << >>
    /\ catalogBefore' = catalog
    /\ UNCHANGED <<pluginVersion, offered, catalog, created>>

\* Only what was asked for by name is loaded.
Enabled(offer) == offer.type \in DOMAIN enabled /\ offer.name \in enabled[offer.type]

\* validate_plugin_registration of V1: the contract of a registration, which
\* also asks for the version.
LegacyContract(reg, offer) ==
    reg.name = offer.name /\ reg.type = offer.type /\ reg.api = "current"

\* _enable_one of V1: loading runs foreign code; every failure is a result.
\* What is no registration counts as one that did not load.
LegacyOutcome(offer) ==
    IF offer.yields.is \in {"raises", "other"} THEN "FAILED"
    ELSE IF offer.yields.is = "refuses" \/ ~ LegacyContract(offer.yields, offer)
    THEN "INCOMPATIBLE"
    ELSE IF LegacyTakes(offer.yields, offer.type) THEN "REGISTERED" ELSE "FAILED"

\* validate_v2_plugin_registration: what is no registration breaks the contract.
Contract(yields, offer) ==
    /\ yields.is = "registration"
    /\ yields.name = offer.name /\ yields.type = offer.type
    /\ yields.api = "current"

\* _enable_one of V2.
CurrentOutcome(offer) ==
    IF offer.yields.is = "raises" THEN "FAILED"
    ELSE IF ~ Contract(offer.yields, offer) THEN "INCOMPATIBLE"
    ELSE IF Takes(offer.yields, offer.type) THEN "REGISTERED" ELSE "FAILED"

Outcome(offer) ==
    IF ~ Enabled(offer) THEN "DISCOVERED"
    ELSE IF pluginVersion = "v2" THEN CurrentOutcome(offer) ELSE LegacyOutcome(offer)

EnableNext ==
    /\ Enabling
    /\ LET offer == candidates[Len(report) + 1]
       IN  /\ report' = Append(report, Outcome(offer))
           /\ IF Outcome(offer) = "REGISTERED"
              THEN Registered(offer.yields) ELSE UNCHANGED catalog
    /\ UNCHANGED <<pluginVersion, offered, enabled, candidates, catalogBefore,
                   enablements, created>>

\* assert_v2_plugin_instance_compatible: V2 looks before it hands out.
FittingInstance(reg) == reg.factory = "fits"

\* PluginRegistry.create of V1 hands out whatever the factory makes.
LegacyInstance(reg) == reg.factory # "raises"

\* create: a name not there, a factory that raises or an instance refused is
\* an exception and changes nothing.
Create(type, name) ==
    /\ ~ Enabling
    /\ catalog[<<type, name>>] # Nothing
    /\ LET reg == catalog[<<type, name>>]
       IN  IF pluginVersion = "v2" THEN FittingInstance(reg) ELSE LegacyInstance(reg)
    /\ created' = [type |-> type, from |-> catalog[<<type, name>>]]
    /\ UNCHANGED <<pluginVersion, offered, catalog, enabled, candidates, report,
                   catalogBefore, enablements>>

Selections == UNION {[types -> SUBSET PluginNames] : types \in SUBSET PluginTypes}

PluginsNext ==
    \/ \E reg \in Yields \ Failures, type \in PluginTypes :
          RegisterManually(reg, type)
    \/ \E names \in Selections : EnableSelected(names)
    \/ EnableNext
    \/ \E type \in PluginTypes, name \in PluginNames : Create(type, name)

PluginsSpec == InitPlugins /\ [][PluginsNext]_pluginVars

-----------------------------------------------------------------------------
(* Properties.                                                             *)

Holders(id) == {i \in DOMAIN report : report[i] = "REGISTERED" /\ Identity(candidates[i]) = id}

\* The report of a finished call speaks of every entry point discovered and
\* tells exactly what the call changed: one plugin that fails neither stops
\* the others nor leaves anything behind, a plugin there before is never
\* replaced, and of two packages that offer one name only the first gets it
\* (plugins/discovery.py enable_selected, _enable_one and plugins/v2.py).
ReportTellsCatalog ==
    ~ Enabling =>
        /\ enablements > 0 /\ candidates # << >> =>
              candidates = Discovered(DOMAIN enabled)
        /\ \A id \in Identities :
              IF Holders(id) = {} THEN catalog[id] = catalogBefore[id]
              ELSE /\ catalogBefore[id] = Nothing
                   /\ \E i \in Holders(id) :
                         /\ Holders(id) = {i}
                         /\ catalog[id] = candidates[i].yields
                         /\ \A j \in 1..(i - 1) : Identity(candidates[j]) = id =>
                               report[j] \in {"INCOMPATIBLE", "FAILED"}

\* What a V2 registry hands out satisfies the contract of the registry's type
\* and comes from a registration made for this API version, whichever way the
\* registration came in (plugins/v2.py V2PluginRegistry.create).
InstancesFit ==
    pluginVersion = "v2" /\ created # Nothing =>
        /\ created.from.factory = "fits"
        /\ created.from.type = created.type /\ created.from.api = "current"

\* What the host is told and what it is handed are what was registered
\* (plugins/discovery.py and plugins/v2.py).
CatalogIsTruthful == ReportTellsCatalog /\ InstancesFit

=============================================================================
