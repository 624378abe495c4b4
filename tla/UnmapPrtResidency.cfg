SPECIFICATION Spec
CONSTANTS
 Guests = {t1, t2}
 Pages = {p1, p2}
 NoOne = NoOne
INVARIANTS ResidencyPublished
