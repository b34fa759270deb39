\* Two I/O errors or decayed frames anywhere in the life of a four-frame file; one of
\* the three contents is too large to be read back.
SPECIFICATION Spec
CONSTANTS
    Contents = {c1, c2, c3}
    Oversize = {c3}
    MaxFrames = 4
    MaxErrors = 2
    MaxDecays = 1
INVARIANTS
    PromisedSurvive
    ChainUnbroken
PROPERTY
    ImplementsLedger
