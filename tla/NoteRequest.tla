----------------------------- MODULE NoteRequest -----------------------------
(***************************************************************************)
(* The request that stores a note, by its path and its lengths.  The path  *)
(* is any text; HandleCreateNote makes an id of it.  The size of a note is *)
(* reckoned by three parts of the code: the page estimates the payload     *)
(* from the text before it asks for a ticket, the limit of                 *)
(* decodeStrictJSON makes room for the JSON around the payload, and        *)
(* CreateNote measures the ticket and the payload.  Lengths are in bytes.  *)
(***************************************************************************)
EXTENDS Integers, NoteIDText

CONSTANTS
    Requests,   \* UTF-8 lengths of the texts written, legal values of
                \* NOTE_MAX_NOTE_SIZE, paths, and lengths of the ticket's two times
    Nil

\* A time in RFC 3339 has 20 to 35 characters, with and without fraction and zone.
ASSUME LengthsAssumption ==
    \A r \in Requests : /\ r.text \in Nat /\ r.maxSize \in Nat
                         /\ r.iat \in 20..35 /\ r.exp \in 20..35

VARIABLES
    stage,      \* "page", "sent" or "done"
    path,       \* what stands for the id in the path
    text, maxSize, ticket,
    body,       \* length of the request's body
    payload,    \* length of the string that is its payload
    noteID,     \* the id that the handler uses, Nil before
    answer      \* 0, or the status; 1 is the page's own "too large"

vars == <<stage, path, text, maxSize, ticket, body, payload, noteID, answer>>

MaxTicketLen == 512
BurnTokenLen == 43
\* The digits of expiresInSeconds, of 14 days at most.
ExpirationLen == 7

\* Unpadded base64url of n bytes.
Base64urlEncodedLength(n) == (4 * n + 2) \div 3

\* signTicket: "v1.", the encoded TicketData, which has 50 bytes of keys and
\* punctuation around a version, an id, two times and a verifier, and "." with the
\* encoded signature.
SignTicket(iat, exp) ==
    3 + Base64urlEncodedLength(50 + 1 + 43 + iat + exp + 43) + 1 + 43

\* {"protected":"","iv":"","ct":""} around its three values.
Envelope(header, text_) ==
    32 + Base64urlEncodedLength(header) + Base64urlEncodedLength(12)
       + Base64urlEncodedLength(text_)

\* Mutant: the authentication tag is forgotten.
EstimatedPayloadBytesNoTag(n) == Envelope(35, n)

\* estimatedPayloadBytes reckons with a protected header of 35 bytes ...
EstimatedPayloadBytes(n) == Envelope(35, n + 16)

\* ... and encryptString writes one of 23, {"v":1,"alg":"A256GCM"}.
EncryptString(n) == Envelope(23, n + 16)

\* The body: 61 bytes of keys and punctuation around the values, and a backslash
\* before each of the 12 quotes of the envelope.
CreateNoteBody(t, p) == 61 + t + BurnTokenLen + (p + 12) + ExpirationLen

\* maxCreateNoteBodySize, with jsonBodyOverhead.
MaxCreateNoteBodySize(max) == max + MaxTicketLen + BurnTokenLen + 256

-----------------------------------------------------------------------------
\* createNote: the page's checks, the encryption and the request.
CreateNote ==
    /\ stage = "page"
    /\ IF text = 0 \/ EstimatedPayloadBytes(text) > maxSize
       THEN /\ stage' = "done" /\ answer' = 1
            /\ UNCHANGED <<body, payload>>
       ELSE /\ stage' = "sent"
            /\ payload' = EncryptString(text)
            /\ body' = CreateNoteBody(ticket, payload')
            /\ UNCHANGED answer
    /\ UNCHANGED <<path, text, maxSize, ticket, noteID>>

\* decodeStrictJSON of a well-formed body: MaxBytesReader gives out the limit, and
\* the decoder reads on to the end of the body to see that nothing follows.
DecodeStrictJSON(length, limit) == IF length > limit THEN "errRequestTooLarge" ELSE "nil"

\* HandleCreateNote and the first checks of CreateNote, of
\* a request that is otherwise in order.
HandleCreateNote ==
    /\ stage = "sent"
    /\ stage' = "done"
    /\ noteID' = ParseNoteID(path)
    /\ answer' = IF noteID' = Error THEN 400
                 ELSE IF DecodeStrictJSON(body, MaxCreateNoteBodySize(maxSize)) # "nil" THEN 413
                 ELSE IF ticket > MaxTicketLen \/ payload = 0 THEN 400
                 ELSE IF payload > maxSize THEN 413
                 ELSE 201
    /\ UNCHANGED <<path, text, maxSize, ticket, body, payload>>

Init ==
    /\ stage = "page" /\ body = 0 /\ payload = 0 /\ noteID = Nil /\ answer = 0
    /\ \E r \in Requests : /\ path = r.path /\ text = r.text /\ maxSize = r.maxSize
                           /\ ticket = SignTicket(r.iat, r.exp)

Next == CreateNote \/ HandleCreateNote

Spec == Init /\ [][Next]_vars

-----------------------------------------------------------------------------
\* A text that the page accepts is never too large for the server, whose limits
\* are of other quantities, and neither is the ticket the server itself signed:
\* nobody writes a note, pays for a ticket and is then told that it does not fit.
AcceptedTextFits == answer \in {0, 1, 201} \/ noteID = Error

\* Every id has exactly one text, and it is the one the server prints: a request
\* for an id is taken for it if it was printed so, and no other text stands for
\* it, neither one with line breaks nor one that differs in the bits that fill no
\* byte.  (Two texts of one id would be one note to the service and two to
\* everybody else.)
PrintedText == [id \in IDs |-> B64Encode(id)]

OneTextPerID ==
    noteID # Nil => \A id \in IDs : noteID = id <=> path = PrintedText[id]
=============================================================================
