\* As OperatorStation.cfg, with a window of two frames.
CONSTANTS
    helmet = helmet
    glove = glove
    op1 = op1
    op2 = op2
    Operations = {op1, op2}
    NoOperation = NoOperation
    Requires <- MCRequires
    ModelClasses = {helmet, glove}
    Frames <- MCFrames
    WindowSize = 2
    MinimumSamples = 2
    PresentPercent = 60
    AbsentPercent = 25
    MaxRetries = 1
    MaxTimers = 1
    MaxSignals = 2
    MaxCaptureSignals = 2
    MaxEvents = 2
    MaxLoginSignals = 2
    Offered = {op1, op2}
    NoArea = NoOperation
    MaxPictureSignals = 2
SPECIFICATION Spec
PROPERTY
    AuthorizedOnUninterruptedEvidence
