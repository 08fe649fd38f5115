\* Two writers use one store: the relational V2 store on either database, or a
\* V1 store (units of two writers overlap on the databases), or a host fills a
\* plugin catalog.
SPECIFICATION StoresSpec
CONSTANTS
    w1 = w1
    w2 = w2
    a1 = a1
    a2 = a2
    c1 = c1
    c2 = c2
    Writers = {w1, w2}
    TaskCount = 1
    AttemptIds = {a1, a2}
    Contents = {c1, c2}
    Statuses <- StatusesInUse
    Dialects = {"memory", "sqlite", "postgresql"}
    CommitBound = 5
    UnitWriters = {w1, w2}
    UnitBackends = {"v1-memory", "v1-sqlite", "v1-postgres"}
    Overlapping = {"v1-sqlite", "v1-postgres"}
    AttemptBound = 2
    UnitBound = 4
    PluginTypes = {1, 2}
    PluginNames = {1}
    PluginVersions = {"v1", "v2"}
    Yields <- YieldsInUse
    OfferBound = 2
    EnableBound = 1
\* The bounds let the writers and the host stop.
CHECK_DEADLOCK FALSE

INVARIANTS RecordsAndLogAgree UnitsFollowEachOther CatalogIsTruthful
PROPERTIES ImplementsStore
