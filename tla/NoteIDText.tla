----------------------------- MODULE NoteIDText -----------------------------
(***************************************************************************)
(* Note ids and burn tokens as text (note_id.go, burn_token.go, and        *)
(* b64Decode of common.go): base64url without padding, in the one spelling *)
(* that the server itself prints.  The widths are parameters: 8 bits in a  *)
(* byte and 6 in a character, or any other pair with the same ratio.       *)
(***************************************************************************)
EXTENDS Naturals, Sequences, FiniteSets

CONSTANTS
    ByteBits, CharBits,
    IDLen,          \* noteIDLen, burnTokenLen
    Newline,        \* a line break, which the decoder skips
    Alien,          \* a character outside the alphabet
    Error

ASSUME WidthAssumption ==
    ByteBits \in Nat \ {0} /\ CharBits \in Nat \ {0} /\ 3 * ByteBits = 4 * CharBits

\* The bits of a byte, and of the number that a character of the alphabet stands
\* for, the most significant one first.
Byte == [1..ByteBits -> {0, 1}]
Char == [1..CharBits -> {0, 1}]

IDs  == [1..IDLen -> Byte]

ASSUME IDAssumption ==
    IDLen \in Nat \ {0} /\ Newline \notin Char /\ Alien \notin Char /\ Error \notin IDs

-----------------------------------------------------------------------------
EncodedLen(n) == (n * ByteBits + CharBits - 1) \div CharBits
DecodedLen(n) == (n * CharBits) \div ByteBits

\* Bit p, counted from 0, of a sequence whose elements have w bits each.
Bit(s, w, p) == s[(p \div w) + 1][(p % w) + 1]

\* EncodeToString: the bits in groups of CharBits, filled up with zeros.
B64Encode(bytes) ==
    [c \in 1..EncodedLen(Len(bytes)) |-> [b \in 1..CharBits |->
        LET p == (c - 1) * CharBits + b - 1
        IN IF p < Len(bytes) * ByteBits THEN Bit(bytes, ByteBits, p) ELSE 0]]

\* The n-th character that is no line break has n - 1 such characters before it.
SkipNewlines(value) ==
    LET kept == {i \in DOMAIN value : value[i] # Newline}
    IN [n \in 1..Cardinality(kept) |->
           value[CHOOSE i \in kept : Cardinality({j \in kept : j =< i}) = n]]

\* DecodeString: skips line breaks and drops the bits that fill no byte.
DecodeString(value) ==
    LET s == SkipNewlines(value)
    IN IF Len(s) % 4 = 1 \/ \E i \in DOMAIN s : s[i] = Alien THEN Error
       ELSE [c \in 1..DecodedLen(Len(s)) |-> [b \in 1..ByteBits |->
                Bit(s, CharBits, (c - 1) * ByteBits + b - 1)]]

\* Mutant: the text is not compared with the one the value has.
B64DecodeLax(value) ==
    IF value = <<>> \/ EncodedLen(DecodedLen(Len(value))) # Len(value) THEN Error
    ELSE DecodeString(value)

B64Decode(value) ==
    IF value = <<>> \/ EncodedLen(DecodedLen(Len(value))) # Len(value) THEN Error
    ELSE LET decoded == DecodeString(value)
         IN IF decoded = Error THEN Error
            ELSE IF B64Encode(decoded) # value THEN Error ELSE decoded

\* ParseNoteID and ParseBurnToken, by way of UnmarshalText.
ParseNoteID(value) ==
    LET decoded == B64Decode(value)
    IN IF decoded = Error THEN Error
       ELSE IF Len(decoded) # IDLen THEN Error ELSE decoded
=============================================================================
