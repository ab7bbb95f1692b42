SPECIFICATION Spec
CONSTANTS
    ann = ann
    bob = bob
    annUpn = annUpn
    b1 = b1
    b2 = b2
    t1 = t1
    t2 = t2
    m1 = m1
    m2 = m2
    NoName = NoName
    NoToken = NoToken
    NoModel = NoModel
    Names = {ann, bob}
    Account <- TwoUsers
    Browsers = {b1, b2}
    Tokens = {t1, t2}
    Models = {m1}
    PreAuthnMode = FALSE
    PasswordManagement = TRUE
    WindowsAuthentication = TRUE
    MustChange = {t2}
    FormsUnchanged = TRUE
INVARIANT CookiesAgree
 
PROPERTY PasswordsVouch
PROPERTY OnePerson
SYMMETRY BrowsersAndUsers
