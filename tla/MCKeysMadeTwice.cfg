CONSTANTS
    w1 = w1
    w2 = w2
    t1 = t1
    t2 = t2
    Callers <- TheCallers
    Workers = {w1, w2}
    Threads = {t1, t2}
    Home <- TheHomes
    Tables = {"setting", "admin_user", "site"}
    Columns <- TheColumns
    Missing = Missing
    Empty = Empty
    None = None
    MaxKills = 0
    MaxErrors = 0
SPECIFICATION BootSpec
INVARIANT ArchivesStayReadable
CHECK_DEADLOCK FALSE
