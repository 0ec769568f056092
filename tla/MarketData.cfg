\* Two workers that load a ticker's bars through the cache, three requests for
\* two symbols and a prefix with two permits, and the writers of the table.
CONSTANTS
    x = x
    y = y
    p = p
    a = a
    b = b
    c = c
    d = d
    e = e
    m = m
    n = n
    Tickers = {x}
    Workers = {a, b}
    LastDay = 3
    Slab = 1
    InitialTables <- Stored
    NoTicker = NoTicker
    Callers = {c, d, e}
    Loaders = {m, n}
    Symbols = {x, y}
    Listed = {x}
    Prefix = p
    Permits = 2
    NoAnswer = NoAnswer
SPECIFICATION SeparateSpec
SYMMETRY Symmetry
CONSTRAINT Bounded
INVARIANTS
    ServedWhole
    Coalesced
    AnswersAreTheProviders
    IndexKnowsTheTables
