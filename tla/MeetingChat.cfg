SPECIFICATION Spec
CONSTANTS
    Clients = {c1, c2}
    Limit = 2
    NumMsgs = 3
    MaxEnds = 1
    MaxFaults = 1
SYMMETRY ClientSymmetry
INVARIANTS PanelIsComplete PanelInOrder NobodyStaysBehind
CHECK_DEADLOCK FALSE
