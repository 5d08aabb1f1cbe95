\* Two runs over two companies, which may be in the database before, one lost
\* connection.
CONSTANTS
    s1 = s1
    s2 = s2
    a = a
    b = b
    x = x
    y = y
    e1 = e1
    e2 = e2
    l1 = l1
    cto = cto
    ceo = ceo
    Savers = {s1, s2}
    Domains = {a, b}
    Techs = {x, y}
    Emails = {e1, e2}
    Links = {l1}
    Titles = {cto, ceo}
    Unknown = Unknown
    NoSaver = NoSaver
    Batches <- MCBatches
    BadQueries <- MCBadQueries
    MaxCrashes = 1
SPECIFICATION Spec
CHECK_DEADLOCK FALSE
INVARIANTS
    AllOrNothing
    LookupStillHolds
    LossesExplained
PROPERTIES
    SavesEnd
