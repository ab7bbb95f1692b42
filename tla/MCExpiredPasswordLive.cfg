SPECIFICATION FairSpec
CONSTANTS
    ann = ann
    bob = bob
    annUpn = annUpn
    b1 = b1
    b2 = b2
    NoName = NoName
    NoSession = NoSession
    NoPassword = NoPassword
    Names = {ann}
    Account <- OneUser
    Browsers = {b1, b2}
    MaxVersion = 2
    PreAuthnMode = FALSE
PROPERTY StaleKeysEnd
PROPERTY RedirectsEnd
PROPERTY OwnersRenew
