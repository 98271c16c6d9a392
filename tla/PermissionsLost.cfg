SPECIFICATION Spec
CONSTANTS
    Keys = {coarse, viewing, fine, reviews, exporting}
    coarse = coarse
    viewing = viewing
    fine = fine
    reviews = reviews
    exporting = exporting
    Catalog = {viewing, fine, reviews, exporting}
    Expands <- ExpandsCoarse
    ExtraGrants <- SplitViewing
    SplitKey = reviews
    Groups = {support}
    Superuser = full_admin
    Instances = {c1}
    s1 = s1
    Tokens = {t1}
    NoToken = NoToken
    Passwords = {p1}
    Requests = {c1}
    Attempts = {c1}
    LockThreshold = 3
    Codes = {t1}
    NoCode = NoCode
    LastStep = 3
    Changes = {c1}
    Staff = {s1}
    Roles = {full_admin, sales}
    FullAdmin = full_admin
    NoRole = NoRole
    Nobody = Nobody
    StaffCalls = {c1}
    Petitions = {r1}
    NoPetition = NoPetition
    Visits = {c1}
    Links = {t1}
    NoLink = NoLink
    Readers = {c1}
CHECK_DEADLOCK FALSE
INVARIANT NobodyLosesAccess
