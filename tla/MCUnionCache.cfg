CONSTANTS
    t1 = t1
    t2 = t2
    Thread = {t1, t2}
    Key <- TwoKeys
    ResultOf <- TheirResults
    SeqMod = 8
    MaxPuts = 3
SPECIFICATION Spec
INVARIANTS NeverTorn
SYMMETRY ThreadSymmetry
