SPECIFICATION Spec
CONSTANTS
    Categories = {c1, c2}
    AgeGroups = {g1, g2}
    Formats = {f1}
    Collections = {k1}
    Names = {n1, n2}
    Labels = {l1}
    Defaults = {g1}
    Books = {b1, b2}
    Admins = {a1, a2}
    Absent = Absent
INVARIANTS
    TablesTypeOK
    UniqueNames
    MembersExist
PROPERTIES
    NoSilentRemoval
CHECK_DEADLOCK FALSE
