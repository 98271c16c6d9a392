SPECIFICATION Spec
CONSTANTS
    Tokens = {t1, t2, t3}
    NoToken = NoToken
    Passwords = {p1, p2}
    Requests = {c1, c2}
    Attempts = {c1, c2}
    LockThreshold = 3
    Codes = {t1, t2, t3}
    NoCode = NoCode
    LastStep = 3
    Changes = {c1, c2}
    Staff = {s1, s2}
    s1 = s1
    Roles = {full_admin, sales}
    FullAdmin = full_admin
    NoRole = NoRole
    Nobody = Nobody
    StaffCalls = {call}
    Keys = {coarse, viewing, fine, reviews, exporting}
    coarse = coarse
    viewing = viewing
    fine = fine
    reviews = reviews
    exporting = exporting
    Catalog = {viewing, fine, reviews, exporting}
    Expands <- ExpandsCoarse
    ExtraGrants <- SplitViewing
    SplitKey = reviews
    Groups = {support, staff}
    Superuser = full_admin
    Instances = {c1, c2}
    Petitions = {r1, r2}
    NoPetition = NoPetition
    Visits = {c1, c2}
    Links = {t1, t2, t3}
    NoLink = NoLink
    Readers = {c1, c2}
SYMMETRY AccountSymmetry
CHECK_DEADLOCK FALSE
INVARIANTS TypeOK OneLiveTokenPerSession PurgedStayOut RefusalsAreCounted EnabledHasCodes
    SecretsHold AlwaysAFullAdmin AccessKept ErasureStands
