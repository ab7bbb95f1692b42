SPECIFICATION FairSpec
CONSTANTS
    ann = ann
    bob = bob
    annUpn = annUpn
    b1 = b1
    b2 = b2
    NoName = NoName
    NoSession = NoSession
    NoPassword = NoPassword
    Names = {ann}
    Account <- OneUser
    Browsers = {b1}
    MaxVersion = 1
    PreAuthnMode = TRUE
PROPERTY RedirectsEnd
