SPECIFICATION Spec
CONSTANTS
    Docs = {1, 2, 3}
    Wanted = {1}
    Passed = {1, 2}
    Fields = {"f", "g"}
    Absent = Absent
    InitDocs <- MCInitDocs
    Commits <- MCCommits
    PathOf <- MCPathOf
    Queries <- MCQueries
    Menu <- MCMenu
    Workers = {w1}
    Subs = {s1}
    ChannelSize = 1
    PageMax = 1
    MaxFaults = 1
INVARIANTS
    NothingForgotten
    ConnectionGivenBack
    QueriesAsAsked
    ListsComplete
PROPERTIES
    CommitsAsSent
CHECK_DEADLOCK FALSE
