SPECIFICATION Spec
CONSTANTS
    Writers = {w1, w2}
    NoWriter = NoWriter
    Css = {css1}
    NoCss = NoCss
    Holders = {h1}
    Nobody = Nobody
    Calls = {"ConfigureServer", "ConfigureCustomCSS", "LockClusterResources", "FreeClusterResources"}
    MaxRows = 3
SYMMETRY Perms
INVARIANTS
    AlwaysConfigured
PROPERTIES
    OldVersionsAreFrozen
CHECK_DEADLOCK FALSE
