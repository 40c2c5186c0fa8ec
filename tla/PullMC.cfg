SPECIFICATION Spec
CONSTANTS
    Sessions = {1}
    Granted = {1}
    Schemes = {"plain", "aead"}
    Legacy = {TRUE}
    Page = 1
    MaxLength = 2
    MaxTime = 1
    MaxDeletes = 1
    MaxTroubles = 2
INVARIANT TypeOK
INVARIANT MirrorIsOneDocument
PROPERTY PinKeptUnlessEmptied
PROPERTY ResumesUnlessEnded
