CONSTANTS
    u1 = u1
    u2 = u2
    c1 = c1
    c2 = c2
    wizard = wizard
    pair = pair
    Users = {u1, u2}
    Codes = {c1, c2}
    NoUser = NoUser
    Commands = {wizard, pair}
    CommandOf <- MCCommandOf
    FirstFiles <- MCFirstFiles
    Imported = {u2}
    Environments <- MCEnvironments
SPECIFICATION Spec
INVARIANTS
    StrangersStayOut
    EnabledApiHasKey
PROPERTIES
    EntriesVanishForAReason
CHECK_DEADLOCK FALSE
