SPECIFICATION Spec
CONSTANTS
    Procs = {p1, p2}
    Targets = {t1, t2}
    Names = {admin, chosen, role1, role2}
    Absent = Absent
    Default = admin
    HandNames = {chosen}
    CollectedRole <- Own
    t1 = t1
    t2 = t2
    admin = admin
    chosen = chosen
    role1 = role1
    role2 = role2
    p1 = p1
    p2 = p2
SYMMETRY Symmetry
INVARIANTS
    TypeOK
    ArnsNameRoles
    
    
