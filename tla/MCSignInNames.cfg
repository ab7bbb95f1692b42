SPECIFICATION FairSpec
CONSTANTS
    ann = ann
    bob = bob
    annUpn = annUpn
    b1 = b1
    b2 = b2
    t1 = t1
    t2 = t2
    m1 = m1
    m2 = m2
    NoName = NoName
    NoToken = NoToken
    NoModel = NoModel
    Names = {ann, annUpn}
    Account <- OneUserTwoNames
    Browsers = {b1}
    Tokens = {t1}
    Models = {m1, m2}
    PreAuthnMode = TRUE
    PasswordManagement = TRUE
    WindowsAuthentication = FALSE
    MustChange = {}
    FormsUnchanged = FALSE
INVARIANT IInv
INVARIANT CookiesAgree
PROPERTY RequestsAnswered
