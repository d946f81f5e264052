SPECIFICATION Spec
CONSTANTS
    v1 = v1
    v2 = v2
    p1 = p1
    p2 = p2
    OutputOf = "stack"
    LaunchContents = {}
    StackContents <- StackWants
    Versions = {v1, v2}
    Params = {p1, p2}
PROPERTY OutputIsCurrent
