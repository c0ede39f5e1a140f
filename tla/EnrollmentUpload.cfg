SPECIFICATION Spec
CONSTANTS
    Uploads = {u1, u2}
    BatchSize = 2
    MaxRows = 3
    Stamps = {t1, t2}
    None = None
INVARIANT TypeOK
INVARIANT ConfirmedExcelIsStored
INVARIANT ConfirmedCSVHasItsEnd
INVARIANT EveryRowHandedOverOnce
INVARIANT WrongColumnsSaveNothing
PROPERTY EveryUploadEnds
\* every upload may have ended and nothing be left to do
CHECK_DEADLOCK FALSE
