---------------------------- MODULE MCNoteRequest ----------------------------
(***************************************************************************)
(* Texts around the limits 256, the default of 1024, and 1500 bytes, the   *)
(* smallest limit, with a path that the server printed; and any path up to *)
(* a length, with a text that fits.                                        *)
(***************************************************************************)
EXTENDS NoteRequest

CONSTANT MaxLen     \* bound on the length of a path

TextBytes    == 0..40 \cup 90..130 \cup 640..720 \cup 1000..1080
MaxNoteSizes == {1} \cup 250..262 \cup 1018..1030 \cup 1495..1505

AnyPath == UNION {[1..n -> Char \cup {Newline, Alien}] : n \in 0..MaxLen}

AnID == [i \in 1..IDLen |-> [b \in 1..ByteBits |-> (i + b) % 2]]

MCRequests ==
    [text : TextBytes, maxSize : MaxNoteSizes, path : {B64Encode(AnID)},
     iat : {20, 30, 35}, exp : {20, 30, 35}]
    \cup [text : {100}, maxSize : {1024}, path : AnyPath, iat : {30}, exp : {30}]
=============================================================================
