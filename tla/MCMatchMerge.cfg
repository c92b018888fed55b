SPECIFICATION Spec
CONSTANTS
    a = a
    b = b
    c = c
    m = m
    n = n
    x = x
    y = y
    Series = {a, b, c}
    Name = {m, n}
    Canon <- Canonical
    Source = {x, y}
    Titled <- Called
    Home <- Filed
    Reader = {u1}
    MaxRead = 1
    MaxSteps = 3
    None = None
INVARIANTS
    TypeOK
    ForwardsOneHop
PROPERTIES
    UnwindsExactly
    RevertSeparates
    SeparatedStaysApart
CHECK_DEADLOCK FALSE
