\* Two operations, one of which requires more; a window of three frames, two of
\* which decide; one automatic restart; two signals wait for the UI thread.
CONSTANTS
    helmet = helmet
    glove = glove
    op1 = op1
    op2 = op2
    Operations = {op1, op2}
    NoOperation = NoOperation
    Requires <- MCRequires
    ModelClasses = {helmet, glove}
    Frames <- MCFrames
    WindowSize = 3
    MinimumSamples = 2
    PresentPercent = 60
    AbsentPercent = 25
    MaxRetries = 1
    MaxTimers = 1
    MaxSignals = 2
    MaxCaptureSignals = 2
    MaxEvents = 2
    MaxLoginSignals = 2
    Offered = {op1, op2}
    NoArea = NoOperation
    MaxPictureSignals = 2
SPECIFICATION Spec
INVARIANTS
    TypeOK
    ButtonFollowsEvidence
    NoPageWaitsForNothing
    CameraBelongsToItsPage
    MonitoringIsNeverBlind
PROPERTY
    AuthorizedOnlyWhenVerified
