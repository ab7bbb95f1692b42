SPECIFICATION FairSpec
CONSTANTS
    mail = mail
    wiki = wiki
    docs = docs
    Images = {mail, wiki, docs}
    FileOf <- EachItsFile
    Blank = Blank
    MaxChanges = 2
    MaxFaults = 2
INVARIANT IInv
INVARIANT SoundRoundsAgree
PROPERTY PublishedLogosKept
PROPERTY Converges
