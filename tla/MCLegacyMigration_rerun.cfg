SPECIFICATION Spec
CONSTANTS
    etf = etf
    fund = fund
    stock = stock
    p1 = p1
    p2 = p2
    n1 = n1
    t1 = t1
    t2 = t2
    u1 = u1
    r1 = r1
    Identities = {etf, fund, stock}
    Symbol <- MCSymbol
    Unresolved = Unresolved
    Amounts = {1, 2}
    Definitions = {"old", "new"}
    TaskNames = {"daily"}
    PositionIds = {p1, p2, n1}
    NewWatchIds = {w1}
    TaskIds = {t1, t2, u1}
    Reports = {r1, r2}
    Snapshots = {"early", "late", "grown"}
    Source <- MCSource
    Admin = Admin
    Member = Member
    Tester = Tester
    NoRow = NoRow
    NoSnapshot = NoSnapshot
    MaxEdits = 2
    MaxScripts = 3
INVARIANTS
    RowsAndFilesAgree
    OnlyUsersBlockImports
PROPERTIES
    ScriptsDeliver
    ScriptsSpareUsers
CHECK_DEADLOCK FALSE
