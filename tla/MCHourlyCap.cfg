SPECIFICATION Spec
CONSTANTS
    k1 = k1
    Null = Null
    Keys = {k1}
    CertIssuePerHour = 0
INVARIANTS HourlyCap
CHECK_DEADLOCK FALSE
