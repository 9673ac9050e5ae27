SPECIFICATION FairSpec
CONSTANTS
    z1 = z1  z2 = z2  p1 = p1  p2 = p2  r1 = r1  r2 = r2
    Zones = {z1, z2}
    Policies = {p1, p2}
    Rules = {r1, r2}
    Placeholder = Placeholder
    NotModified = NotModified
    None = None
    PolicyLayers <- SomePolicies
    CurbLayers <- SomeCurbs
    Documents <- SomeDocuments
    Admins = {"operator"}
    Overlap = FALSE
    MaxPublished = 3
    MaxEdits = 2
    MaxFailures = 2
INVARIANTS Resolved EtagsHonest
PROPERTIES Mirrored
