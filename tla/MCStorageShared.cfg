\* Two tables whose files lie in one directory, as every two uploaded tables do.
SPECIFICATION Spec
CONSTANTS
    f1 = f1
    f2 = f2
    b1 = b1
    b2 = b2
    d1 = d1
    d2 = d2
    Names = {t1, t2}
    Files = {f1, f2, b1, b2}
    Sources = {}
    Uploads = {f1, f2}
    DirOf <- OneDir
    BaseOf <- Bases
    Kinds = {}
    Allow = {"shared_dir"}
    MaxTs = 2
    MaxRows = 3
    None = None
    Other = Other
SYMMETRY NameSymmetry
INVARIANTS ScanTruthful
CHECK_DEADLOCK FALSE
