SPECIFICATION Spec
CONSTANTS
    site = site
    mail = mail
    here = here
    away = away
    post = post
    a1 = a1
    a2 = a2
    f1 = f1
    NoAddr = NoAddr
    Names = {site, mail}
    Fakes = {f1}
    Places = {here, away, post}
    Apps = {a1, a2}
    Lease = 2
    FakeTTL = 1
    Families = {"ip4"}
    Settings <- MCSettings
    Ttls = {0, 1}
    DefaultTTL = 2
    Patience = 1
    PlacesOf <- MCPlacesOf
    Numeric = {post}
    Doh = {}
    KeepDNS = TRUE
    Ports = {443, 853}
    Processes = {"game"}
    RuleLists <- MCRuleLists
    BaseSets <- MCBaseSets
    StartsVia = "direct"
    StartSetting <- Small
    Budgets <- MCBudgets
INVARIANTS LeadsToItsName RealIsOwn
PROPERTIES DecidesByTheStrongest NotLongGone
SYMMETRY MCSymmetry
CHECK_DEADLOCK FALSE
