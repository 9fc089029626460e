SPECIFICATION MCSpec
CONSTANTS
    plain = plain  simple = simple  slash = slash  hash = hash  word = word
    Plain <- MCPlain
    Special = {slash}
    Hashy = {hash}
    Number = {0, 5, 7}
    Texts <- MCTexts
    Edits <- MCEdits
    MaxEscapes = 2
    MaxEdits = 2
    t1 = t1  t2 = t2  k1 = k1  k2 = k2  ann = ann  bob = bob  i1 = i1  i2 = i2
    Thread = {t1, t2}
    Name = {ann, bob}
    Pwd = {p}
    Sid = {k1, k2}
    Token = {i1, i2}
    None = None
    Gone = Gone
    MaxRequests = 2
    MaxFaults = 1
    Browser = {b1}
    User = {root, guest}
    Admin = root
    TlsActive = TRUE
    MaxSessions = 2
    MaxRestarts = 1
    m1 = m1  m2 = m2
    Message = {m1, m2}
    Flag = {"unseen", "seen"}
    Folders <- MCFolders
    Length <- MCLength
    Slashes <- MCSlashes
    Size <- MCSize
    Temporary = {"tmp"}
    Extras <- MCExtras
    Base <- MCBase
    NameMax = 5
    PrefixMax = 6
    MaxMail = 1
    MaxErrors = 1
SYMMETRY MCSymmetry
INVARIANTS
    EditsSurvive
    LiveFollowsFile
    InviteOnce
    GrantedIsSpent
    SetupStaysDone
    RedirectsEnd
    ActsAreMeant
    MovedWhole
PROPERTIES
    EditsExact
