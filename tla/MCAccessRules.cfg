SPECIFICATION Spec
CONSTANTS
    Absent = "absent"
    Files <- MCFiles
    Conds <- MCConds
    Importers = {i1, i2}
    Requests = {r1}
    Users = {"u1"}
    Kinds <- MCKinds
    Docs <- MCDocs
    InitDocs <- MCInitDocs
    Batches <- MCBatches
    Probes <- MCProbes
    MaxFaults = 1
    MaxBatches = 1
SYMMETRY Symmetric
INVARIANTS
    Unambiguous
    SimulationForetells
PROPERTIES
    ActsAsPermitted
    ImportedAsWritten
CHECK_DEADLOCK FALSE
