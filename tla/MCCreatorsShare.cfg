SPECIFICATION Spec
CONSTANTS
    j1 = j1  j2 = j2  j3 = j3
    k1 = k1  k2 = k2  k3 = k3
    ca1 = ca1  ca2 = ca2
    Null = Null
    Jobs = {j1, j2, j3}
    Keys = {k1, k2, k3}
    CAs = {ca1, ca2}
    LegacyRow = FALSE
    TranslateError = FALSE
    Faulty = {}
    MaxRestarts = 0
PROPERTY CreatorsShare
