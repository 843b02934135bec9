-------------------------- MODULE NoteRequestProofs --------------------------
(***************************************************************************)
(* That the limits of the page and of the server agree, for every length   *)
(* of text and every configured maximum, and that an id has one text, for  *)
(* ids of any length.                                                      *)
(***************************************************************************)
EXTENDS NoteRequest, FiniteSetTheorems, TLAPS

\* Where the lengths of a request come from.
SizeInv ==
    /\ stage \in {"page", "sent", "done"} /\ text \in Nat /\ maxSize \in Nat
    /\ \E iat, exp \in 20..35 : ticket = SignTicket(iat, exp)
    /\ stage # "done" => answer = 0
    /\ stage = "sent" => /\ text # 0 /\ EstimatedPayloadBytes(text) =< maxSize
                         /\ payload = EncryptString(text)
                         /\ body = CreateNoteBody(ticket, payload)

\* A ticket of signTicket is shorter than maxTicketLen, whatever its times are.
LEMMA TicketFits ==
    ASSUME NEW iat \in 20..35, NEW exp \in 20..35
    PROVE  SignTicket(iat, exp) \in 0..MaxTicketLen
BY DEF SignTicket, Base64urlEncodedLength, MaxTicketLen

\* encryptString makes no more of a text than estimatedPayloadBytes expects.
LEMMA EstimateCovers ==
    ASSUME NEW n \in Nat
    PROVE  EncryptString(n) \in 1..EstimatedPayloadBytes(n)
<1> DEFINE ct == (4 * (n + 16) + 2) \div 3
<1>1. ct \in Nat
  OBVIOUS
<1>2. EncryptString(n) = 32 + 31 + 16 + ct
  BY DEF EncryptString, Envelope, Base64urlEncodedLength
<1>3. EstimatedPayloadBytes(n) = 32 + 47 + 16 + ct
  BY DEF EstimatedPayloadBytes, Envelope, Base64urlEncodedLength
<1> HIDE DEF ct
<1> QED
  BY <1>1, <1>2, <1>3

\* A text that the page lets through meets none of the limits of decodeStrictJSON
\* and CreateNote, for every length of text and every configured maximum.
THEOREM TextFits == Spec => []AcceptedTextFits
<1> DEFINE Inv == SizeInv /\ AcceptedTextFits
<1>1. Init => Inv
  BY LengthsAssumption DEF Init, SizeInv, AcceptedTextFits
<1>2. ASSUME Inv, [Next]_vars
      PROVE  Inv'
  <2>1. CASE CreateNote
    <3>1. text \in Nat /\ maxSize \in Nat /\ text' = text /\ maxSize' = maxSize /\ ticket' = ticket
      BY <1>2, <2>1 DEF CreateNote, SizeInv
    <3>2. EstimatedPayloadBytes(text) \in Int
      BY <3>1 DEF EstimatedPayloadBytes, Envelope, Base64urlEncodedLength
    <3>3. CASE text = 0 \/ EstimatedPayloadBytes(text) > maxSize
      BY <1>2, <2>1, <3>1, <3>3 DEF CreateNote, SizeInv, AcceptedTextFits
    <3>4. CASE text # 0 /\ EstimatedPayloadBytes(text) =< maxSize
      <4>1. /\ stage' = "sent" /\ answer' = answer /\ payload' = EncryptString(text)
            /\ body' = CreateNoteBody(ticket, payload')
        BY <2>1, <3>1, <3>2, <3>4 DEF CreateNote
      <4> QED
        BY <1>2, <2>1, <3>1, <3>4, <4>1 DEF CreateNote, SizeInv, AcceptedTextFits
    <3> QED
      BY <3>1, <3>2, <3>3, <3>4
  <2>2. CASE HandleCreateNote
    <3>1. stage = "sent" /\ text \in Nat \ {0} /\ maxSize \in Nat
      BY <1>2, <2>2 DEF HandleCreateNote, SizeInv
    <3>2. payload \in 1..maxSize
      <4>1. payload = EncryptString(text) /\ EstimatedPayloadBytes(text) =< maxSize
        BY <1>2, <3>1 DEF SizeInv
      <4>2. EstimatedPayloadBytes(text) \in Int
        BY <3>1 DEF EstimatedPayloadBytes, Envelope, Base64urlEncodedLength
      <4> QED
        BY <3>1, <4>1, <4>2, EstimateCovers
    <3>3. ticket \in 0..MaxTicketLen
      BY <1>2, TicketFits DEF SizeInv
    <3>4. body =< MaxCreateNoteBodySize(maxSize)
      <4>1. body = CreateNoteBody(ticket, payload)
        BY <1>2, <3>1 DEF SizeInv
      <4> QED
        BY <3>1, <3>2, <3>3, <4>1
           DEF CreateNoteBody, MaxCreateNoteBodySize, MaxTicketLen, BurnTokenLen, ExpirationLen
    <3>5. body \in Int /\ MaxCreateNoteBodySize(maxSize) \in Int
      BY <1>2, <3>1, <3>2, <3>3
         DEF SizeInv, CreateNoteBody, MaxCreateNoteBodySize, MaxTicketLen, BurnTokenLen,
             ExpirationLen
    <3>6. answer' = 201 \/ noteID' = Error
      BY <2>2, <3>1, <3>2, <3>3, <3>4, <3>5 DEF HandleCreateNote, DecodeStrictJSON, MaxTicketLen
    <3> QED
      BY <1>2, <2>2, <3>6 DEF HandleCreateNote, SizeInv, AcceptedTextFits
  <2>3. CASE UNCHANGED vars
    BY <1>2, <2>3 DEF vars, SizeInv, AcceptedTextFits
  <2> QED
    BY <1>2, <2>1, <2>2, <2>3 DEF Next
<1>3. Inv => AcceptedTextFits
  OBVIOUS
<1> QED
  BY <1>1, <1>2, <1>3, PTL DEF Spec

-----------------------------------------------------------------------------
(* The text of an id *)

\* Division is the inverse of putting a group and a place in it together.
LEMMA DivUnique ==
    ASSUME NEW q \in Nat, NEW w \in Nat \ {0}, NEW r \in 0..(w - 1), NEW p \in Nat, p = q * w + r
    PROVE  p \div w = q /\ p % w = r
OBVIOUS

\* The group of a bit is one of the n groups of w bits, and its place one in it.
LEMMA PlaceOfBit ==
    ASSUME NEW w \in Nat \ {0}, NEW n \in Nat, NEW p \in 0..(n * w - 1)
    PROVE  /\ (p \div w) + 1 \in 1..n /\ (p % w) + 1 \in 1..w
           /\ (((p \div w) + 1) - 1) * w + ((p % w) + 1) - 1 = p
OBVIOUS

\* The bit at a place of a group.
LEMMA BitOfPlace ==
    ASSUME NEW w \in Nat \ {0}, NEW n \in Nat, NEW c \in 1..n, NEW b \in 1..w, NEW s
    PROVE  /\ (c - 1) * w + b - 1 \in 0..(n * w - 1)
           /\ Bit(s, w, (c - 1) * w + b - 1) = s[c][b]
<1> DEFINE q == c - 1
           r == b - 1
           p == q * w + b - 1
<1>1. q \in 0..(n - 1) /\ r \in 0..(w - 1) /\ q + 1 = c /\ r + 1 = b
  OBVIOUS
<1>2. q * w \in Nat
  <2> HIDE DEF q
  <2> QED
    BY <1>1
<1>3. q * w + w =< n * w
  <2>1. n - (q + 1) \in Nat
    BY <1>1
  <2>2. (n - (q + 1)) * w \in Nat
    <3> HIDE DEF q
    <3> QED
      BY <2>1
  <2>3. (n - (q + 1)) * w = n * w - (q * w + w)
    <3> HIDE DEF q
    <3> QED
      BY <1>1
  <2>4. n * w \in Nat
    OBVIOUS
  <2> HIDE DEF q
  <2> QED
    BY <1>1, <1>2, <2>2, <2>3, <2>4
<1>4. n * w \in Nat
  OBVIOUS
<1>5. p \in 0..(n * w - 1) /\ p = q * w + r
  <2>1. b \in Nat /\ r = b - 1 /\ b =< w /\ b >= 1
    OBVIOUS
  <2> HIDE DEF q, r
  <2> QED
    BY <1>2, <1>3, <1>4, <2>1
<1>6. p \div w = q /\ p % w = r
  <2>1. q \in Nat /\ r \in 0..(w - 1) /\ p \in Nat /\ p = q * w + r
    BY <1>1, <1>4, <1>5
  <2> HIDE DEF q, r, p
  <2> QED
    BY <2>1, DivUnique
<1>7. Bit(s, w, p) = s[c][b]
  <2> HIDE DEF q, r, p
  <2> QED
    BY <1>1, <1>6 DEF Bit
<1> QED
  BY <1>5, <1>7

\* EncodedLen gives just enough characters, and no number of them that
\* DecodeString refuses; DecodedLen is its inverse.
LEMMA Lengths ==
    ASSUME NEW n \in Nat
    PROVE  /\ EncodedLen(n) \in Nat /\ n * ByteBits =< EncodedLen(n) * CharBits
           /\ DecodedLen(EncodedLen(n)) = n
           /\ EncodedLen(n) % 4 # 1
           /\ n # 0 => EncodedLen(n) # 0
<1>1. PICK t \in Nat \ {0} : ByteBits = 4 * t /\ CharBits = 3 * t
  <2>1. ByteBits - CharBits \in Nat \ {0} /\ ByteBits = 4 * (ByteBits - CharBits)
        /\ CharBits = 3 * (ByteBits - CharBits)
    BY WidthAssumption
  <2> QED
    BY <2>1
<1>2. PICK q \in Nat : n = 3 * q \/ n = 3 * q + 1 \/ n = 3 * q + 2
  <2>1. n \div 3 \in Nat /\ (n = 3 * (n \div 3) \/ n = 3 * (n \div 3) + 1 \/ n = 3 * (n \div 3) + 2)
    OBVIOUS
  <2> QED
    BY <2>1
<1> DEFINE k == IF n = 3 * q THEN 4 * q ELSE IF n = 3 * q + 1 THEN 4 * q + 2 ELSE 4 * q + 3
           a == n * ByteBits
           z == k * CharBits
<1>3. k \in Nat /\ k % 4 # 1 /\ (n # 0 => k # 0)
  BY <1>2
<1>4. q * t \in Nat
  BY <1>1
<1>5. a \in Nat /\ z \in Nat /\ z - a \in 0..(CharBits - 1)
  <2>1. CASE n = 3 * q
    <3>1. a = 12 * (q * t) /\ z = 12 * (q * t)
      BY <1>1, <2>1
    <3> QED
      BY <1>1, <1>4, <3>1
  <2>2. CASE n = 3 * q + 1
    <3>1. k = 4 * q + 2
      BY <2>2
    <3>2. a = 12 * (q * t) + 4 * t /\ z = 12 * (q * t) + 6 * t
      BY <1>1, <2>2, <3>1
    <3> QED
      BY <1>1, <1>4, <3>2
  <2>3. CASE n = 3 * q + 2
    <3>1. k = 4 * q + 3
      BY <2>3
    <3>2. a = 12 * (q * t) + 8 * t /\ z = 12 * (q * t) + 9 * t
      BY <1>1, <2>3, <3>1
    <3> QED
      BY <1>1, <1>4, <3>2
  <2> QED
    BY <1>2, <2>1, <2>2, <2>3
<1> HIDE DEF k
<1>6. EncodedLen(n) = k
  <2>1. a + CharBits - 1 \in Nat /\ a + CharBits - 1 = k * CharBits + (CharBits - 1 - (z - a))
        /\ CharBits - 1 - (z - a) \in 0..(CharBits - 1)
    <3> HIDE DEF a
    <3>1. z = k * CharBits
      OBVIOUS
    <3> HIDE DEF z
    <3> QED
      BY <1>5, <3>1, WidthAssumption
  <2> DEFINE u == a + CharBits - 1
             v == CharBits - 1 - (z - a)
  <2>2. u \div CharBits = k
    <3>1. u \in Nat /\ u = k * CharBits + v /\ v \in 0..(CharBits - 1)
      BY <2>1
    <3> HIDE DEF u, v
    <3> QED
      BY <1>3, <3>1, DivUnique, WidthAssumption
  <2> QED
    BY <2>2 DEF EncodedLen
<1>7. DecodedLen(k) = n
  <2>1. z = n * ByteBits + (z - a) /\ z - a \in 0..(ByteBits - 1)
    <3>1. a = n * ByteBits /\ CharBits =< ByteBits
      BY WidthAssumption
    <3> HIDE DEF a, z
    <3> QED
      BY <1>5, <3>1, WidthAssumption
  <2>2. z \div ByteBits = n
    <3> HIDE DEF a, z
    <3> QED
      BY <1>5, <2>1, DivUnique, WidthAssumption
  <2> QED
    BY <2>2 DEF DecodedLen
<1>8. a =< z
  <2> HIDE DEF a, z
  <2> QED
    BY <1>5, WidthAssumption
<1> QED
  BY <1>3, <1>6, <1>7, <1>8

\* A text without line breaks is read as it is.
LEMMA NothingSkipped ==
    ASSUME NEW n \in Nat, NEW value, DOMAIN value = 1..n, value = [i \in 1..n |-> value[i]],
           \A i \in 1..n : value[i] # Newline
    PROVE  SkipNewlines(value) = value
<1> DEFINE kept == {i \in DOMAIN value : value[i] # Newline}
           at(m) == CHOOSE i \in kept : Cardinality({j \in kept : j =< i}) = m
<1>1. kept = 1..n
  OBVIOUS
<1>2. Cardinality(kept) = n
  <2>1. Cardinality(1..n) = IF 1 > n THEN 0 ELSE n - 1 + 1
    BY FS_Interval
  <2>2. Cardinality(1..n) = n
    BY <2>1
  <2> HIDE DEF kept
  <2> QED
    BY <1>1, <2>2
<1>3. ASSUME NEW i \in 1..n PROVE Cardinality({j \in kept : j =< i}) = i
  <2>1. {j \in kept : j =< i} = 1..i
    BY <1>1
  <2>2. Cardinality(1..i) = IF 1 > i THEN 0 ELSE i - 1 + 1
    BY FS_Interval
  <2>3. Cardinality(1..i) = i
    BY <2>2
  <2> QED
    BY <2>1, <2>3, Zenon
<1>4. ASSUME NEW m \in 1..n PROVE at(m) = m
  <2> HIDE DEF kept
  <2>1. m \in kept /\ Cardinality({j \in kept : j =< m}) = m
    BY <1>1, <1>3
  <2>2. \E i \in kept : Cardinality({j \in kept : j =< i}) = m
    BY <2>1
  <2>3. at(m) \in kept /\ Cardinality({j \in kept : j =< at(m)}) = m
    BY <2>2
  <2> HIDE DEF at
  <2>4. at(m) \in 1..n
    BY <2>3, <1>1
  <2> QED
    BY <1>3, <2>3, <2>4
<1>5. SkipNewlines(value) = [m \in 1..Cardinality(kept) |-> value[at(m)]]
  BY DEF SkipNewlines
<1> HIDE DEF kept, at
<1>6. SkipNewlines(value) = [m \in 1..n |-> value[m]]
  BY <1>2, <1>4, <1>5
<1> QED
  BY <1>6

\* What EncodeToString writes: as many characters as EncodedLen says, each of the
\* alphabet.
LEMMA EncodeType ==
    ASSUME NEW id \in IDs
    PROVE  /\ id \in Seq(Byte) /\ Len(id) = IDLen
           /\ B64Encode(id) \in [1..EncodedLen(IDLen) -> Char]
           /\ B64Encode(id) \in Seq(Char) /\ Len(B64Encode(id)) = EncodedLen(IDLen)
<1>1. id \in Seq(Byte) /\ Len(id) = IDLen
  BY IDAssumption DEF IDs
<1>2. EncodedLen(IDLen) \in Nat
  BY IDAssumption, Lengths
<1>3. ASSUME NEW p \in Nat, p < IDLen * ByteBits PROVE Bit(id, ByteBits, p) \in {0, 1}
  <2>1. p \in 0..(IDLen * ByteBits - 1)
    <3>1. IDLen * ByteBits \in Nat
      BY IDAssumption, WidthAssumption
    <3> QED
      BY <1>3, <3>1
  <2>2. (p \div ByteBits) + 1 \in 1..IDLen /\ (p % ByteBits) + 1 \in 1..ByteBits
    BY <2>1, PlaceOfBit, IDAssumption, WidthAssumption
  <2> DEFINE c == (p \div ByteBits) + 1
             b == (p % ByteBits) + 1
  <2>3. Bit(id, ByteBits, p) = id[c][b]
    BY DEF Bit
  <2>4. c \in 1..IDLen /\ b \in 1..ByteBits
    BY <2>2
  <2> HIDE DEF c, b
  <2>5. id[c] \in Byte
    BY <2>4 DEF IDs
  <2>6. id[c][b] \in {0, 1}
    BY <2>4, <2>5 DEF Byte
  <2> QED
    BY <2>3, <2>6
<1>4. ASSUME NEW c \in 1..EncodedLen(IDLen), NEW b \in 1..CharBits
      PROVE  (c - 1) * CharBits + b - 1 \in Nat
  <2>1. (c - 1) * CharBits + b - 1 \in 0..(EncodedLen(IDLen) * CharBits - 1)
    BY <1>2, <1>4, BitOfPlace, WidthAssumption
  <2> QED
    BY <2>1
<1>5. B64Encode(id) \in [1..EncodedLen(IDLen) -> Char]
  <2> DEFINE bit(c, b) == LET p == (c - 1) * CharBits + b - 1
                          IN IF p < IDLen * ByteBits THEN Bit(id, ByteBits, p) ELSE 0
  <2>1. ASSUME NEW c \in 1..EncodedLen(IDLen), NEW b \in 1..CharBits PROVE bit(c, b) \in {0, 1}
    <3> DEFINE p == (c - 1) * CharBits + b - 1
    <3>1. p \in Nat
      BY <1>4
    <3>2. bit(c, b) = IF p < IDLen * ByteBits THEN Bit(id, ByteBits, p) ELSE 0
      OBVIOUS
    <3> HIDE DEF p, bit
    <3> QED
      BY <1>3, <3>1, <3>2
  <2>2. B64Encode(id) = [c \in 1..EncodedLen(IDLen) |-> [b \in 1..CharBits |-> bit(c, b)]]
    BY <1>1 DEF B64Encode
  <2> HIDE DEF bit
  <2> QED
    BY <2>1, <2>2 DEF Char
<1>6. B64Encode(id) \in Seq(Char) /\ Len(B64Encode(id)) = EncodedLen(IDLen)
  BY <1>2, <1>5
<1> QED
  BY <1>1, <1>5, <1>6

\* What EncodeToString has written is what DecodeString reads.
LEMMA RoundTrip ==
    ASSUME NEW id \in IDs
    PROVE  DecodeString(B64Encode(id)) = id
<1> DEFINE s == B64Encode(id)
           k == EncodedLen(IDLen)
           at(c, b) == (c - 1) * ByteBits + b - 1
<1>1. /\ id \in Seq(Byte) /\ Len(id) = IDLen
      /\ s \in [1..k -> Char] /\ s \in Seq(Char) /\ Len(s) = k
  BY EncodeType
<1>2. /\ k \in Nat /\ IDLen * ByteBits =< k * CharBits /\ k % 4 # 1 /\ DecodedLen(k) = IDLen
  BY Lengths, IDAssumption
<1>3. SkipNewlines(s) = s
  <2> HIDE DEF s, k
  <2>1. DOMAIN s = 1..k /\ s = [i \in 1..k |-> s[i]]
    BY <1>1
  <2>2. \A i \in 1..k : s[i] # Newline
    BY <1>1, IDAssumption
  <2> QED
    BY <1>2, <2>1, <2>2, NothingSkipped
<1>4. ~ \E i \in DOMAIN s : s[i] = Alien
  <2> HIDE DEF s, k
  <2> QED
    BY <1>1, IDAssumption
<1>5. DecodeString(s) = [c \in 1..IDLen |-> [b \in 1..ByteBits |-> Bit(s, CharBits, at(c, b))]]
  <2> HIDE DEF s, k
  <2> QED
    BY <1>1, <1>2, <1>3, <1>4 DEF DecodeString
<1>6. ASSUME NEW c \in 1..IDLen, NEW b \in 1..ByteBits
      PROVE  Bit(s, CharBits, at(c, b)) = id[c][b]
  <2> DEFINE p == at(c, b)
             g == (p \div CharBits) + 1
             j == (p % CharBits) + 1
  <2>1. p \in 0..(IDLen * ByteBits - 1) /\ Bit(id, ByteBits, p) = id[c][b]
    <3>1. IDLen \in Nat /\ ByteBits \in Nat \ {0}
      BY IDAssumption, WidthAssumption
    <3>2. /\ (c - 1) * ByteBits + b - 1 \in 0..(IDLen * ByteBits - 1)
          /\ Bit(id, ByteBits, (c - 1) * ByteBits + b - 1) = id[c][b]
      <4> HIDE DEF s, k, at, p, g, j
      <4>1. c \in 1..IDLen /\ b \in 1..ByteBits
        OBVIOUS
      <4>2. (c - 1) * ByteBits + b - 1 \in 0..(IDLen * ByteBits - 1)
        BY <3>1, <4>1, BitOfPlace
      <4>3. Bit(id, ByteBits, (c - 1) * ByteBits + b - 1) = id[c][b]
        BY <3>1, <4>1, BitOfPlace
      <4> QED
        BY <4>2, <4>3, Zenon
    <3> QED
      BY <3>2
  <2>2. IDLen * ByteBits \in Nat /\ k * CharBits \in Nat
    <3> HIDE DEF k
    <3> QED
      BY <1>2, IDAssumption, WidthAssumption
  <2>3. p \in 0..(k * CharBits - 1) /\ p < IDLen * ByteBits
    <3> DEFINE x == IDLen * ByteBits
               y == k * CharBits
    <3>1. p \in 0..(x - 1) /\ x \in Nat /\ y \in Nat /\ x =< y
      BY <1>2, <2>1, <2>2
    <3> HIDE DEF p, x, y
    <3>2. p \in 0..(y - 1) /\ p < x
      BY <3>1
    <3> QED
      BY <3>2 DEF x, y
  <2>4. g \in 1..k /\ j \in 1..CharBits /\ (g - 1) * CharBits + j - 1 = p
    <3> HIDE DEF p, k
    <3> QED
      BY <1>2, <2>3, PlaceOfBit, WidthAssumption
  <2>5. Bit(s, CharBits, p) = s[g][j]
    <3> HIDE DEF s
    <3> QED
      BY DEF Bit
  <2>6. s[g][j] = IF (g - 1) * CharBits + j - 1 < IDLen * ByteBits
                  THEN Bit(id, ByteBits, (g - 1) * CharBits + j - 1) ELSE 0
    <3> HIDE DEF g, j
    <3> QED
      BY <1>1, <2>4 DEF B64Encode
  <2>7. s[g][j] = Bit(id, ByteBits, p)
    <3> HIDE DEF g, j, p, s
    <3> QED
      BY <2>3, <2>4, <2>6
  <2> QED
    BY <2>1, <2>5, <2>7
<1>7. id = [c \in 1..IDLen |-> [b \in 1..ByteBits |-> id[c][b]]]
  BY DEF IDs, Byte
<1> HIDE DEF s, at
<1>8. DecodeString(s) = [c \in 1..IDLen |-> [b \in 1..ByteBits |-> id[c][b]]]
  BY <1>5, <1>6
<1>9. DecodeString(s) = id
  BY <1>7, <1>8
<1> QED
  BY <1>9 DEF s

\* ParseNoteID takes the text that String prints of an id for that id, and no
\* other text, whatever it is: for ids of any length.
THEOREM CanonicalText ==
    \A id \in IDs : \A value : ParseNoteID(value) = id <=> value = B64Encode(id)
<1> SUFFICES ASSUME NEW id \in IDs, NEW value
             PROVE  ParseNoteID(value) = id <=> value = B64Encode(id)
  OBVIOUS
<1>1. id # Error
  BY IDAssumption
<1>2. ASSUME ParseNoteID(value) = id PROVE value = B64Encode(id)
  BY <1>1, <1>2 DEF ParseNoteID, B64Decode
<1>3. ASSUME value = B64Encode(id) PROVE ParseNoteID(value) = id
  <2>1. /\ Len(id) = IDLen /\ value \in Seq(Char) /\ Len(value) = EncodedLen(IDLen)
    BY <1>3, EncodeType
  <2>2. DecodedLen(Len(value)) = IDLen /\ EncodedLen(IDLen) = Len(value) /\ Len(value) # 0
    BY <2>1, Lengths, IDAssumption
  <2>3. value # <<>>
    BY <2>2
  <2>4. DecodeString(value) = id
    BY <1>3, RoundTrip
  <2>5. B64Decode(value) = id
    BY <1>1, <1>3, <2>2, <2>3, <2>4 DEF B64Decode
  <2> QED
    BY <1>1, <2>1, <2>5 DEF ParseNoteID
<1> QED
  BY <1>2, <1>3

\* A request is taken for an id exactly if its path has the text that the server
\* prints for the id, for every text that may stand in a path.
THEOREM OneText == Spec => []OneTextPerID
<1> DEFINE Inv == noteID = Nil \/ noteID = ParseNoteID(path)
<1>1. Init => Inv
  BY DEF Init
<1>2. ASSUME Inv, [Next]_vars
      PROVE  Inv'
  <2>1. CASE CreateNote
    BY <1>2, <2>1 DEF CreateNote
  <2>2. CASE HandleCreateNote
    BY <2>2 DEF HandleCreateNote
  <2>3. CASE UNCHANGED vars
    BY <1>2, <2>3 DEF vars
  <2> QED
    BY <1>2, <2>1, <2>2, <2>3 DEF Next
<1>3. Inv => OneTextPerID
  <2> SUFFICES ASSUME Inv, noteID # Nil, NEW id \in IDs
               PROVE  noteID = id <=> path = PrintedText[id]
    BY DEF OneTextPerID
  <2>1. PrintedText[id] = B64Encode(id)
    BY DEF PrintedText
  <2> QED
    BY <2>1, CanonicalText
<1> QED
  BY <1>1, <1>2, <1>3, PTL DEF Spec
==============================================================================
