SPECIFICATION Spec
CONSTANTS
    Uploads = {u1}
    BatchSize = 2
    MaxRows = 3
    Stamps = {t1}
    None = None
INVARIANT ConfirmedCSVIsStored
\* every upload may have ended and nothing be left to do
CHECK_DEADLOCK FALSE
