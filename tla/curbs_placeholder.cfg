SPECIFICATION Spec
CONSTANTS
    z1 = z1  z2 = z2  p1 = p1  p2 = p2  r1 = r1  r2 = r2
    Zones = {z1, z2}
    Policies = {p1, p2}
    Rules = {r1, r2}
    Placeholder = Placeholder
    NotModified = NotModified
    None = None
    PolicyLayers <- SomePolicies
    CurbLayers <- SomeCurbs
    Documents <- SomeDocuments
    Admins = {"operator"}
    Overlap = FALSE
    MaxPublished = 2
    MaxEdits = 0
    MaxFailures = 0
INVARIANT PlaceholderOnlyUnknown
