CONSTANTS
    out = out
    in = in
    file = file
    Msg = {out, in, file}
    Sent = {out}
    File = {file}
    Unlisted = {}
    Limit = 2
    MaxRestarts = 1
    MaxAcross = 2
SPECIFICATION Spec
CHECK_DEADLOCK FALSE
INVARIANTS
    TypeOK
    ListIsSound
    SavedSurvivesRestart
    VerdictIsShown
    BrowserKeepsUp
    FileRowIsBacked
