CONSTANTS
    Providers = {"oauth_github", "oauth_gitlab"}
    Expiring = {"oauth_github", "oauth_gitlab"}
    Rotating = {"oauth_gitlab"}
    Patches <- UserPatches
    Handlers = {h1, h2}
    MaxTokens = 3
SPECIFICATION Spec
INVARIANTS
    TypeOK
    ServedIsAlive
PROPERTIES
    MislabelledByOverlap
    LostOnlyByOverlap
    PromiseBrokenByOverlap
SYMMETRY Symmetry
