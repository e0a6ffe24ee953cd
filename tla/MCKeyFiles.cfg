CONSTANTS
    k1 = k1
    k2 = k2
    k3 = k3
    k4 = k4
    Runs = {k1, k2, k3, k4}
    Absent = Absent
SPECIFICATION KeygenSpec
SYMMETRY Alike
INVARIANTS
    AnnouncedPairsStay
    SignaturesVerify
CHECK_DEADLOCK FALSE
