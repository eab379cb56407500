---------------------------- MODULE FileUriPath -----------------------------
(***************************************************************************)
(* The codec between file: URIs and canonical local paths                  *)
(* (registry/local_file_uri_path.rs), and a client that resolves a URI,    *)
(* keeps the canonical URI it is given and resolves that one again.        *)
(* Path::parse and Uri::parse belong to the file-system API.               *)
(*                                                                         *)
(* A byte is the pair of its halves, and an escape is '%' and a digit for  *)
(* each of them.  A scalar below 0x80 is its byte; the others have an      *)
(* encoding of several bytes.  A text is a sequence of scalars, and a raw  *)
(* URI path is a text.  The character table is a constant, so that it can  *)
(* be that of the code or a smaller one.                                   *)
(***************************************************************************)
EXTENDS Naturals, Sequences, FiniteSets, SequencesExt

CONSTANTS
    Halves,      \* the values of half a byte
    Ascii,       \* the bytes that are scalars
    Wide,        \* the other scalars
    Encoding,    \* their UTF-8 encodings
    NUL, Slash, Percent, Backslash, Dot,
    Controls,    \* char::is_control
    Pchars,      \* the scalars that need no escape in a URI
    HexValue,    \* hex_value: the digits, of both cases, and their values
    HexDigit,    \* HEX: the digit for a value
    Tokens,      \* what the client makes URIs of
    MaxTokens,   \* bound: the length of a URI, in tokens
    Err          \* what a refused conversion gives

Bytes == Halves \X Halves
Scalars == Ascii \cup Wide
DigitChars == DOMAIN HexValue

ASSUME UriAssumption ==
    /\ Ascii \subseteq Bytes /\ Wide \cap Bytes = {}
    /\ Encoding \in [Wide -> Seq(Bytes \ Ascii) \ {<<>>}]
    /\ {NUL, Slash, Percent, Backslash} \subseteq Ascii /\ Percent \notin {NUL, Slash, Backslash}
    /\ Pchars \subseteq Ascii \ {NUL, Slash, Percent, Backslash} /\ Dot \in Pchars
    /\ Controls \subseteq Scalars \ (Pchars \cup {Slash, Backslash})
    /\ DigitChars \subseteq Pchars /\ HexValue \in [DigitChars -> Halves]
    /\ HexDigit \in [Halves -> DigitChars] /\ \A v \in Halves : HexValue[HexDigit[v]] = v
    /\ Tokens \subseteq Seq(Scalars) /\ MaxTokens \in Nat
    /\ Err \notin Bytes \cup Seq(Bytes) \cup Seq(Scalars)

VARIABLE windows  \* whether the build is for Windows

Utf8(scalar) == IF scalar \in Wide THEN Encoding[scalar] ELSE <<scalar>>
AsBytes(text) == FlattenSeq([i \in 1..Len(text) |-> Utf8(text[i])])

\* A loop that reads s from left to right: each turn looks at what is left,
\* pushes piece[..] and moves on by width[..].
Scan(S, width, piece) ==
    LET pushed[s \in Seq(S)] ==
            IF s = <<>> THEN <<>> ELSE piece[s] \o pushed[SubSeq(s, width[s] + 1, Len(s))]
    IN pushed

\* What is left begins with a complete escape.
EscapeAt(s) == Len(s) > 2 /\ s[1] = Percent /\ s[2] \in DigitChars /\ s[3] \in DigitChars

\* push_uri_escaped_byte: upper case.
Escaped(byte) == <<Percent, HexDigit[byte[1]], HexDigit[byte[2]]>>
Escapes(bytes) == FlattenSeq([i \in 1..Len(bytes) |-> Escaped(bytes[i])])

(***************************************************************************)
(* Decoding.                                                               *)
(***************************************************************************)

\* Mutant: an incomplete escape stands for itself.
LenientByte(s) == IF EscapeAt(s) THEN <<HexValue[s[2]], HexValue[s[3]]>> ELSE s[1]

\* The loop of decode_uri_bytes.  Err stands where it gives up.
UnescapedByte(s) ==
    CASE EscapeAt(s)                         -> <<HexValue[s[2]], HexValue[s[3]]>>
      [] ~EscapeAt(s) /\ s[1] = Percent -> Err
      [] OTHER                               -> s[1]
Unescape == Scan(Bytes, [s \in Seq(Bytes) |-> IF EscapeAt(s) THEN 3 ELSE 1],
                 [s \in Seq(Bytes) |-> <<UnescapedByte(s)>>])

\* decode_uri_bytes
DecodeUriBytes(component) ==
    LET decoded == Unescape[AsBytes(component)]
    IN IF Contains(decoded, Err) \/ Contains(decoded, NUL) THEN Err ELSE decoded

\* std::str::from_utf8: the scalar at the head of the bytes, if there is one.
HeadScalars(bytes) == {c \in Scalars : IsPrefix(Utf8(c), bytes)}
HeadScalar(bytes) == CHOOSE c \in HeadScalars(bytes) : TRUE

\* error_len().unwrap_or(1): how much of an invalid head is given up, which is
\* as much as could begin a scalar.  A head cut off by the end has no error_len.
InvalidLength(bytes) ==
    LET begun == {n \in 1..Len(bytes) :
                    \E c \in Wide : IsPrefix(SubSeq(bytes, 1, n), Encoding[c])}
    IN IF begun = {} \/ Len(bytes) \in begun THEN 1
       ELSE CHOOSE n \in begun : \A m \in begun : m <= n

\* Mutant: the percent sign is taken over like any other character.
RawScalar(scalar) == IF scalar \in Controls THEN Escapes(Utf8(scalar)) ELSE <<scalar>>

\* push_uri_scalars
PushedScalar(scalar) ==
    IF scalar = Percent \/ scalar \in Controls THEN Escapes(Utf8(scalar)) ELSE <<scalar>>

\* canonicalize_uri_bytes: valid scalars, and the bytes that belong to none
\* escaped one by one.
HeadLength(bytes) ==
    IF HeadScalars(bytes) # {} THEN Len(Utf8(HeadScalar(bytes))) ELSE InvalidLength(bytes)
HeadText(bytes) ==
    IF HeadScalars(bytes) # {} THEN PushedScalar(HeadScalar(bytes))
    ELSE Escapes(SubSeq(bytes, 1, InvalidLength(bytes)))
CanonicalizeUriBytes ==
    Scan(Bytes, [s \in Seq(Bytes) |-> HeadLength(s)], [s \in Seq(Bytes) |-> HeadText(s)])

\* decode_component
DecodeComponent(component) ==
    LET bytes == DecodeUriBytes(component)
        canonical == CanonicalizeUriBytes[bytes]
    IN IF bytes = Err THEN Err
       ELSE IF Contains(canonical, Slash) \/ (windows /\ Contains(canonical, Backslash)) THEN Err
       ELSE canonical

\* str::split('/'): what comes before each slash, the last one added.  Where
\* there is no slash, the end of the text counts as one.
FirstSlash(text) ==
    CHOOSE i \in 1..(Len(text) + 1) :
        /\ i <= Len(text) => text[i] = Slash
        /\ \A j \in 1..(i - 1) : text[j] # Slash
Components == Scan(Scalars, [t \in Seq(Scalars) |-> FirstSlash(t)],
                   [t \in Seq(Scalars) |-> <<SubSeq(t, 1, FirstSlash(t) - 1)>>])
Split(text) == Components[Append(text, Slash)]

Joined(components) ==
    FlattenSeq([i \in 1..Len(components) |->
        IF i = 1 THEN components[i] ELSE <<Slash>> \o components[i]])

\* Path::parse.  Components that are empty or a dot are dropped, and two dots
\* take back the last name, if there is one: a name stays unless, some way
\* on, there are as many parents as names.
Absolute(text) == text # <<>> /\ text[1] = Slash
Parent == <<Dot, Dot>>
IsName(component) == component \notin {<<>>, <<Dot>>, Parent}
Survives(components, i) ==
    /\ IsName(components[i])
    /\ \A j \in i..Len(components) :
          Cardinality({k \in i..j : components[k] = Parent})
            < Cardinality({k \in i..j : IsName(components[k])})
Resolved(components) ==
    FlattenSeq([i \in 1..Len(components) |->
        IF Survives(components, i) THEN <<components[i]>> ELSE <<>>])
Rooted(names) == <<<<>>>> \o (IF names = <<>> THEN <<<<>>>> ELSE names)
Normal(text) == Joined(Rooted(Resolved(Tail(Split(text)))))

\* What it may answer.  A path in normal form is taken as it is; whether another
\* one is resolved or refused is left open, and so is all that becomes of a
\* relative one, except that it stays relative.
ParsePath(text) ==
    IF ~Absolute(text) THEN {text, Err}
    ELSE {Normal(text)} \cup IF Normal(text) = text THEN {} ELSE {Err}

\* decode: what it may return.
Decode(raw) ==
    LET parts == Split(raw)
        decoded == [i \in 1..Len(parts) |-> DecodeComponent(parts[i])]
    IN IF \E i \in 1..Len(parts) : decoded[i] = Err THEN {Err} ELSE ParsePath(Joined(decoded))

(***************************************************************************)
(* Encoding.                                                               *)
(***************************************************************************)

IsUriPchar(scalar) == scalar \in Pchars

\* canonical_uri: escapes of the path text are kept, everything else that is
\* no pchar is escaped byte by byte.
UriScalar(scalar) ==
    IF scalar = Slash \/ IsUriPchar(scalar) THEN <<scalar>> ELSE Escapes(Utf8(scalar))

\* Mutant: an escape already in the path is escaped once more.
EscapedAgain ==
    Scan(Scalars, [t \in Seq(Scalars) |-> 1], [t \in Seq(Scalars) |-> UriScalar(t[1])])

CanonicalUri ==
    Scan(Scalars, [t \in Seq(Scalars) |-> IF EscapeAt(t) THEN 3 ELSE 1],
         [t \in Seq(Scalars) |-> IF EscapeAt(t) THEN SubSeq(t, 1, 3) ELSE UriScalar(t[1])])

\* Uri::parse, at the end of canonical_uri.  It takes what RFC 3986 allows: pchars,
\* slashes, and percent signs that two digits follow.
WellFormed(raw) ==
    \A i \in 1..Len(raw) : raw[i] = Percent =>
        i + 2 <= Len(raw) /\ raw[i + 1] \in DigitChars /\ raw[i + 2] \in DigitChars
ParseUri(raw) ==
    IF WellFormed(raw) /\ \A i \in 1..Len(raw) : raw[i] \in Pchars \cup {Slash, Percent}
    THEN raw ELSE Err

(***************************************************************************)
(* A client: it writes a URI token by token, resolves it, and later        *)
(* resolves the canonical URI it was given.                                *)
(***************************************************************************)

VARIABLES
    uri,     \* the raw path of the URI the client holds
    tokens,  \* its length in tokens
    path,    \* the logical path it last resolved to, or Err
    before,  \* the path and URI of the resolution before that
    round    \* how many times it has been resolved

uriVars == <<windows, uri, tokens, path, before, round>>

UriInit ==
    /\ windows \in BOOLEAN
    /\ uri \in {<<>>, <<Slash>>} /\ tokens = 0
    /\ path = <<>> /\ before = [path |-> <<>>, uri |-> <<>>]
    /\ round = 0

Write(token) ==
    /\ round = 0 /\ tokens < MaxTokens
    /\ uri' = uri \o token
    /\ tokens' = tokens + 1
    /\ UNCHANGED <<windows, path, before, round>>

\* The end of decode_config: the canonical URI of a parsed path, if it is absolute.
Spelling(parsed) ==
    IF parsed = Err THEN Err
    ELSE IF Absolute(parsed) THEN ParseUri(CanonicalUri[parsed]) ELSE Err

\* create_configured: the path of the URI is decoded, and its canonical URI
\* returned with the file system.
Resolution(raw, parsed) ==
    IF Spelling(parsed) = Err THEN [path |-> Err, uri |-> raw]
    ELSE [path |-> parsed, uri |-> Spelling(parsed)]
Resolve ==
    /\ round < 2 /\ path # Err
    /\ before' = [path |-> path, uri |-> uri]
    /\ \E parsed \in Decode(uri) :
          path' = Resolution(uri, parsed).path /\ uri' = Resolution(uri, parsed).uri
    /\ round' = round + 1
    /\ UNCHANGED <<windows, tokens>>

UriNext == Resolve \/ \E token \in Tokens : Write(token)

UriSpec == UriInit /\ [][UriNext]_uriVars

(***************************************************************************)
(* Properties.                                                             *)
(***************************************************************************)

\* The canonical URI stands for the path it was made from: resolving it again
\* succeeds and changes neither the path nor the URI (canonical_uri, decode).
RoundTrip == round = 2 => path = before.path /\ uri = before.uri

\* By the position of the percent signs alone, since no digit is one: a byte
\* begins wherever no escape goes on.
Starts(raw) == {i \in 1..Len(raw) : \A k \in 1..2 : k < i => raw[i - k] # Percent}
ByteAt(raw, i) ==
    IF raw[i] = Percent THEN <<HexValue[raw[i + 1]], HexValue[raw[i + 2]]>> ELSE raw[i]

\* raw spells these bytes: they are, in order, those that begin in it.
Spells(raw, bytes) ==
    /\ WellFormed(raw) /\ Len(bytes) = Cardinality(Starts(raw))
    /\ \A i \in Starts(raw) :
          bytes[Cardinality({k \in Starts(raw) : k <= i})] = ByteAt(raw, i)

Separators == IF windows THEN {Slash, Backslash} ELSE {Slash}

Acceptable(raw) ==
    WellFormed(raw) /\ \A i \in 1..Len(raw) : ByteAt(raw, i) \notin {NUL} \cup Separators

\* What the components of an absolute URI hold, behind the root.
AskedParts(raw) == Tail(Split(raw))
AskedBytes(raw) == [i \in 1..Len(AskedParts(raw)) |-> DecodeUriBytes(AskedParts(raw)[i])]

\* Nothing in it is for Path::parse to resolve.
Plain(contents) == contents = <<<<>>>> \/ \A i \in 1..Len(contents) : IsName(contents[i])

\* A URI that is relative is refused, and so is one where an escape is malformed
\* or a component would hold a NUL or a separator; unless Path::parse has to
\* resolve something, and may refuse that, no other is.  So the canonical URI of
\* a path is always one that Uri::parse takes (decode_component,
\* decode_uri_bytes, canonical_uri, decode_config).
RefusedExactly ==
    round = 1 =>
        LET legal == Absolute(before.uri) /\ \A i \in 1..Len(AskedParts(before.uri)) :
                                                Acceptable(AsBytes(AskedParts(before.uri)[i]))
        IN /\ path # Err => legal
           /\ legal /\ Plain(AskedBytes(before.uri)) => path # Err

\* What is left of the URI's components when Path::parse has resolved them are
\* the components of the path, one for one, and each spells the very bytes that
\* the URI spells, whether or not they are UTF-8: nothing is decoded twice,
\* nothing is lost, and an escaped dot is a dot.  The canonical URI depends on
\* nothing but these bytes: pchars as they are, everything else escaped in upper
\* case, so that two spellings of one path cannot look like two (decode,
\* canonicalize_uri_bytes, canonical_uri).
UriByte(byte) == IF byte \in Pchars THEN <<byte>> ELSE Escaped(byte)
UriOf(bytes) == FlattenSeq([j \in 1..Len(bytes) |-> UriByte(bytes[j])])
BytesKept ==
    round = 1 /\ path # Err =>
        LET asked == AskedParts(before.uri)
            contents == AskedBytes(before.uri)
            kept == Tail(Rooted(Resolved(contents)))
            given == Tail(Split(path))
            canonical == Tail(Split(uri))
        IN /\ \A i \in 1..Len(asked) : Spells(AsBytes(asked[i]), contents[i])
           /\ Absolute(path) /\ Absolute(uri)
           /\ Len(given) = Len(kept) /\ Len(canonical) = Len(kept)
           /\ \A i \in 1..Len(kept) :
                 Spells(AsBytes(given[i]), kept[i]) /\ canonical[i] = UriOf(kept[i])

(***************************************************************************)
(* The inductive strengthening.                                            *)
(***************************************************************************)

UriTypeOK ==
    /\ windows \in BOOLEAN /\ round \in 0..2 /\ tokens \in 0..MaxTokens
    /\ uri \in Seq(Scalars) /\ path \in Seq(Scalars) \cup {Err}
    /\ before.uri \in Seq(Scalars)

\* The client holds what a resolution of the URI before may give.
UriInv ==
    /\ round > 0 =>
          \E parsed \in Decode(before.uri) :
              path = Resolution(before.uri, parsed).path /\ uri = Resolution(before.uri, parsed).uri
    /\ RoundTrip
=============================================================================
