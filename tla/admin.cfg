SPECIFICATION PanelSpec
CONSTANTS
    u1 = u1  u2 = u2  p1 = p1  s1 = s1  s2 = s2  k1 = k1  c1 = c1  c2 = c2
    e1 = e1  e2 = e2
    Users = {u1, u2}
    Passwords = {p1}
    Subjects = {s1, s2}
    Tokens = {k1}
    Callers = {c1, c2}
    Changes <- OneColumn
    Nobody = Nobody
    Overlap = FALSE
    Provision = TRUE
    MaxChanges = 2
    MaxFailures = 1
    Calls = {e1, e2}
    Sections = {"fares", "links"}
    Keys = {"base", "note"}
    Values = {"new"}
    Required = {"base"}
    Null = Null
    Overlapping = FALSE
    FailingStarts = TRUE
    MaxWrites = 2
    MaxRestarts = 1
SYMMETRY Alike
INVARIANTS OwnerLeft SessionsCurrent LinkedFirst 
PROPERTIES LinkNeverMoves 
\* MaxChanges ends a behaviour: nobody can enable the accounts the shell
\* disabled.  So does MaxWrites.
CHECK_DEADLOCK FALSE
