SPECIFICATION Spec
CHECK_DEADLOCK FALSE
CONSTANTS
    g1 = g1
    s1 = s1
    Group = {g1, g2}
    Session = {s1}
    Homes <- MCHomes
    BatchSize = 2
    CountMod = 65536
    MaxYields <- MCMaxYields
INVARIANT
    NoFault
