\* Components of the panel, one at a time.
CONSTANTS
    Clients = {c1}
    MaxRuns = 2
    MaxToken = 2
    MaxTrouble = 2
    Users = {u1}
    Requests = {r1, r2}
    MaxOwn = 1
    MaxGlobal = 1
    MaxSecret = 3
    MaxSession = 2
    Sources = {i1, i2}
    Guessers = {g1, g2, g3}
    Window = 2
    MaxGuesses = 2
    MaxTracked = 1
    SourceBurst = 1
    GlobalBurst = 2
    MaxConcurrent = 1
    MaxActivations = 2
    MaxTroubles = 2
    Admins = {a1, a2}
    Refreshers = {t1, t2}
    MaxRevision = 4
    MaxFlaws = 1
    TTL = 1
    Backoff = 1
    Cooldown = 1
    Turns = {q1, q2}
    Forks = {b1}
    Callers = {c1, c2}
    Calls = {p1, p2}
    Slots = {s1, s2}
    MaxText = 1
    MaxAnswers = 2
    MaxQuotes = 1
    Nobody = Nobody
    Docs = {d1, d2}
    Askers = {r1, r2}
    Indexing = TRUE
    Rules = {"x", "y"}
    Plans = {1, 2}
    MaxRecords = 1
    MaxRules = 2
    MaxEdits = 4
    Owners = {u1}
    Nodes = {n1}
    Endpoints = {e1, e2}
    Operators = {a1, a2}
    MaxStamp = 4
SPECIFICATION PanelSpec
INVARIANTS
    NeverPaidTwice
    OldSecretsOpenNothing
    GuessesAreBounded
    ActivationIsWhole
    DeletedStaysAway
    QuotesStayTrue
    NoLostWakeup
    RulesAreKept
    LandingsAreReal
    SelectionIsProbed
PROPERTIES
    ResultsNeverGoBack
CHECK_DEADLOCK FALSE
