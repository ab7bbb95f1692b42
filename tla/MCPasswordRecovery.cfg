SPECIFICATION Spec
CONSTANTS
    ann = ann
    bob = bob
    home = home
    shared = shared
    r1 = r1
    r2 = r2
    long = long
    weak = weak
    Names = {ann, bob}
    NoName = NoName
    Accounts = {ann, bob}
    Owner <- TwoAccounts
    Browsers = {home, shared}
    People <- SharedBrowser
    Passwords = {long, weak}
    NoPassword = NoPassword
    Shape <- TwoShapes
    Requirements <- LettersOfBothCases
    MaxInt = 4
    AllowUserUnlock = TRUE
    Requests = {r1, r2}
    MaxRecoveries = 2
    MaxSubmissions = 2
INVARIANT IInv
INVARIANT RecoveriesOfTheirOwners
INVARIANT SectionsCanBeMet
PROPERTY OwnersDecide
PROPERTY NewPasswordsMeetRequirements
SYMMETRY TheRequests
