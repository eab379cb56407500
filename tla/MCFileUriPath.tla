---------------------------- MODULE MCFileUriPath ---------------------------
(* An instance of FileUriPath with a table of sixteen bytes.  Every class of  *)
(* bytes that the code tells apart has a member; the digit three is 'C' and   *)
(* 'c'.                                                                       *)
EXTENDS FileUriPath

CONSTANTS Wide2, Wide3, WideControl  \* scalars of two and three bytes

B(n) == <<n \div 4, n % 4>>

MCHalves == 0..3
MCAscii == {B(n) : n \in 0..11}
MCNUL == B(0)
Control == B(1)
MCSlash == B(2)
MCPercent == B(3)
MCDot == B(4)
Space == B(5)
Digit(v) == B(6 + v)
LowerC == B(10)
MCBackslash == B(11)
Lead2 == B(12)
Cont == B(13)
Cont2 == B(14)
Lead3 == B(15)

MCWide == {Wide2, Wide3, WideControl}
MCEncoding ==
    [c \in MCWide |-> CASE c = Wide2       -> <<Lead2, Cont>>
                        [] c = WideControl -> <<Lead2, Cont2>>
                        [] c = Wide3       -> <<Lead3, Cont, Cont>>]
MCControls == {MCNUL, Control, WideControl}
MCPchars == {MCDot, LowerC} \cup {Digit(v) : v \in MCHalves}
MCHexValue ==
    [d \in {LowerC} \cup {Digit(v) : v \in MCHalves} |->
        IF d = LowerC THEN 3 ELSE CHOOSE v \in MCHalves : d = Digit(v)]
MCHexDigit == [v \in MCHalves |-> Digit(v)]

\* Characters, lone percent signs, components that are a name or a parent, and
\* escapes of any byte, some of them in lower case.
Escape(n) == <<MCPercent, Digit(n \div 4), Digit(n % 4)>>
LowerCase(text) == [i \in 1..Len(text) |-> IF text[i] = Digit(3) THEN LowerC ELSE text[i]]
MCTokens ==
    {<<c>> : c \in {MCSlash, MCPercent, MCDot, Digit(0), Digit(2), LowerC, Wide2}}
    \cup {<<MCSlash, MCDot, MCDot>>, <<MCSlash, LowerC>>}
    \cup {Escape(n) : n \in 0..15} \cup {LowerCase(Escape(3)), LowerCase(Escape(15))}
=============================================================================
