SPECIFICATION Spec
CONSTANTS
    k1 = k1
    Null = Null
    Keys = {k1}
    CertIssuePerHour = 20
INVARIANT AdmittedBound
PROPERTIES BucketSpec
CHECK_DEADLOCK FALSE
