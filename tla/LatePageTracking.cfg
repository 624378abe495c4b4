SPECIFICATION Spec
CONSTANTS
    p1 = p1
    p2 = p2
    Pages = {p1, p2}
    Guest = {g1}
    Gpu = Gpu
    NoOne = NoOne
    Capacity = 2
    Joined = FALSE
    Backed <- EachPage
    Modes <- LateModes
PROPERTIES
    ProtectionPrecedesCopies
