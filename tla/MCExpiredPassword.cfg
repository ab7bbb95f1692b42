SPECIFICATION Spec
CONSTANTS
    ann = ann
    bob = bob
    annUpn = annUpn
    b1 = b1
    b2 = b2
    NoName = NoName
    NoSession = NoSession
    NoPassword = NoPassword
    Names = {ann, bob}
    Account <- TwoUsers
    Browsers = {b1, b2}
    MaxVersion = 1
    PreAuthnMode = TRUE
INVARIANT IInv
INVARIANT CookiesOfOneAccount
INVARIANT PasswordsOfTheirAccounts
SYMMETRY TheBrowsersAndUsers
PROPERTY OwnersRenew
PROPERTY RedirectsDescend
