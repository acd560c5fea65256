CONSTANTS
    Templates = {t1, t2}
    Names = {"Default", "a"}
    Default = "Default"
    Contents = {"c", "d"}
    Original = "c"
    Readers = {r1}
    Editors = {e1, e2}
    None = None
    Miss = Miss
    MaxEdits = 4
    MaxMishaps = 1
SYMMETRY Symmetry
SPECIFICATION Spec
INVARIANT TypeOK
INVARIANT StaleHasCause
