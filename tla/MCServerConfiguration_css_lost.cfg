SPECIFICATION Spec
CONSTANTS
    Writers = {w1, w2}
    NoWriter = NoWriter
    Css = {css1, css2}
    NoCss = NoCss
    Holders = {h1, h2}
    Nobody = Nobody
    Calls = {"ConfigureServer", "ConfigureCustomCSS"}
    MaxRows = 3
SYMMETRY Perms
INVARIANTS
    CustomCssNeverLost
CHECK_DEADLOCK FALSE
