SPECIFICATION Spec
CONSTANTS
    Writers = {w1, w2, w3}
    NoWriter = NoWriter
    Css = {css1, css2}
    NoCss = NoCss
    Holders = {h1, h2}
    Nobody = Nobody
    Calls = {"ConfigureCustomCSS", "LockClusterResources", "FreeClusterResources"}
    MaxRows = 3
SYMMETRY Perms
INVARIANTS
    OneActiveRow
    CustomCssNeverLost
    RecordedHolderIsGranted
PROPERTIES
    CallsAreAtomic
CHECK_DEADLOCK FALSE
