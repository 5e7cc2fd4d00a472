INIT Init
NEXT Next
CONSTANTS
    People = {p}
    Browsers = {a, b}
    LoginSettings <- MCLoginSettings
    REFRESH_VALIDITY = 2
    LastTime = 2
    MaxStarts = 2
    MaxLogins = 3
    MaxChanges = 1
    Users = {u, v}
    WithAddress = {u}
    Clients = {a, b}
    ResetSettings <- MCResetSettings
    PIN_VALIDITY = 0
    CAPTCHA_VALIDITY = 1
    LastMoment = 1
    MaxFailures = 1
    MaxResetStarts = 2
    Names = {n, m}
    Referrers = {u}
    Askers = {a, b}
    Sources <- MCSources
    REFERRAL_EXPIRY_DAYS = 0
    LastDay = 1
    MaxCodes = 3
    MaxEdits = 2
    Holders = {d, e}
    Handlers = {a, b}
    Addresses = {x}
    Labels = {l}
    Confirmation = {TRUE, FALSE}
    MaxRequests = 2
    MaxFaults = 1
    Notifiers = {a, b}
    SubRows = {r1, r2}
    MaxEvents = 3
    MaxWrites = 2
SYMMETRY MCSymmetry
INVARIANT ReferralByProfile
CHECK_DEADLOCK FALSE
