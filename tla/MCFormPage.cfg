\* Four pages, four values, three captchas, three posts.
SPECIFICATION Spec
CONSTANTS
    Pages <- MCPages
    Value = {"", " ", "a", "b"}
    Empty = ""
    Blank = " "
    Target = "NewPassword"
    Confirm = "NewPasswordAgain"
    NoField = "NoField"
    MaxSolved = 3
    MaxPosts = 3
INVARIANT IInv
INVARIANT BoxesTellTheTruth
INVARIANT JudgedAtRest
INVARIANT PostsAreNew
