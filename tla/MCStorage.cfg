\* Two table names, two client files in directories of their own.
SPECIFICATION Spec
CONSTANTS
    f1 = f1
    f2 = f2
    b1 = b1
    b2 = b2
    d1 = d1
    d2 = d2
    Names = {t1, t2}
    Files = {f1, f2, b1, b2}
    Sources = {f1}
    Uploads = {f2}
    DirOf <- TwoDirs
    BaseOf <- Bases
    Kinds = {"unique"}
    Allow = {}
    MaxTs = 2
    MaxRows = 3
    None = None
    Other = Other
SYMMETRY NameSymmetry
INVARIANTS ScanTruthful CrashSafe FactsFresh
CHECK_DEADLOCK FALSE
