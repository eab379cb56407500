SPECIFICATION Spec
CONSTANTS
    Sessions = {s1}
    Objects = {f, g}
    Odd = {g}
    IMax <- MCIMax
    UMax <- MCUMax
    MaxBuffer = 2
    MaxReads = 3
    None = None
INVARIANTS
    WindowExact
    NotCutShort
    ReadAtExact
