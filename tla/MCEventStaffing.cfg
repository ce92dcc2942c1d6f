SPECIFICATION Spec
CONSTANTS
    waitresses = waitresses
    porter = porter
    flowers = flowers
    ana = ana
    bruno = bruno
    w1 = w1
    w2 = w2
    None = None
    Lines <- MCLines
    LineType <- MCLineType
    LineDay <- MCLineDay
    Quantity <- MCQuantity
    Terms <- MCTerms
    Employees = {ana, bruno}
    Gender <- MCGender
    Workers = {w1, w2}
    Statuses = {"completed"}
    Overtimes = {30, 45}
SYMMETRY MCSymmetry
INVARIANTS
    FewAllocations
PROPERTIES
    OnlyAskedChanges
