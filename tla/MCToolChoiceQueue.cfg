SPECIFICATION Spec
CONSTANTS
    MaxForces = 2
    MaxPrompts = 3
    MaxToggles = 2
    p1 = p1
    p2 = p2
    c1 = c1
    c2 = c2
    NoPreview = NoPreview
    Previews <- TwoPreviews
    Calls <- TwoCalls
SYMMETRY Symmetry
INVARIANTS TypeOK ServedOnce PreviewKept
CHECK_DEADLOCK FALSE
