SPECIFICATION UriSpec
CONSTANTS
    Wide2 = Wide2
    Wide3 = Wide3
    WideControl = WideControl
    Err = Err
    Halves <- MCHalves
    Ascii <- MCAscii
    Wide <- MCWide
    Encoding <- MCEncoding
    NUL <- MCNUL
    Slash <- MCSlash
    Percent <- MCPercent
    Backslash <- MCBackslash
    Dot <- MCDot
    Controls <- MCControls
    Pchars <- MCPchars
    HexValue <- MCHexValue
    HexDigit <- MCHexDigit
    Tokens <- MCTokens
    MaxTokens = 3
INVARIANTS
    RoundTrip
    RefusedExactly
    BytesKept
CHECK_DEADLOCK FALSE
