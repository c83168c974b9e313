------------------------------ MODULE Messages ------------------------------
(***************************************************************************)
(* The payloads of src/protocol.c: what opty_send_* put into a frame and   *)
(* what opty_parse_* make of one.  A byte is a digit of base Base, and the *)
(* widths of the integer fields are parameters: the code has Base 256,     *)
(* SeqLen 8 (uint64_t) and SizeLen 2 (uint16_t).  A token is the sequence  *)
(* of its bytes, without the terminating NUL.                              *)
(***************************************************************************)
EXTENDS Naturals, Sequences

CONSTANTS
    Base,           \* the values of a byte
    SeqLen,         \* the bytes of a position
    SizeLen,        \* the bytes of a terminal size or of an input length
    MaxToken,       \* OPTY_MAX_TOKEN
    MaxGraceful,    \* OPTY_MAX_GRACEFUL_INPUT
    MaxFrame        \* OPTY_MAX_FRAME

\* The values of an unsigned integer of n bytes are those below Power[n].
Power[n \in Nat] == IF n = 0 THEN 1 ELSE Base * Power[n - 1]

\* Token and input lengths fit the fields that carry them; a WELCOME fits a
\* frame, and so does the longest CONTROL_SHUTDOWN, which is at least as long
\* as the longest RECONNECT.
ASSUME WidthAssumption ==
    /\ {Base, SeqLen, SizeLen, MaxToken, MaxGraceful, MaxFrame} \subseteq Nat
    /\ Base > 10 /\ MaxToken < Base /\ MaxGraceful < Power[SizeLen]
    /\ SeqLen + SizeLen <= MaxGraceful
    /\ 2 + MaxToken + SizeLen + MaxGraceful <= MaxFrame - 1
    /\ 2 * SeqLen <= MaxFrame - 1

Byte == 0 .. Base - 1

HELLO == 1
RECONNECT == 2
WELCOME == 3
STDIN == 4
STDOUT == 5
RESIZE == 6
ACK == 7
REPLAY == 8
ERROR == 9
CONTROL_SHUTDOWN == 10

Unsigned(n) == 0 .. Power[n] - 1
Size == Unsigned(SizeLen)
Position == Unsigned(SeqLen)

\* What opty_send_* are called with: the messages a connection may begin with,
\* and those that follow.  A HELLO asks for the output from position 0 on.
FirstMessage ==
    [type : {HELLO}, seq : {0}, cols : Size, rows : Size, token : Seq(Byte)]
        \cup [type : {RECONNECT}, seq : Position, cols : Size, rows : Size, token : Seq(Byte)]
        \cup [type : {CONTROL_SHUTDOWN}, token : Seq(Byte), data : Seq(Byte)]

LaterMessage ==
    [type : {RESIZE}, cols : Size, rows : Size]
        \cup [type : {ACK}, seq : Position]
        \cup [type : {STDIN, ERROR}, data : Seq(Byte)]
        \cup [type : {STDOUT, REPLAY}, seq : Position, data : Seq(Byte)]
        \cup [type : {WELCOME}, seq : Position, next_seq : Position]

\* The longest first frame: OPTY_MAX_UNAUTH_PAYLOAD.
MaxUnauth == 1 + 1 + MaxToken + SizeLen + MaxGraceful

-----------------------------------------------------------------------------
\* opty_put_u16, opty_put_u64 and the prefix: the most significant byte first.
Put(n, v) == [i \in 1 .. n |-> (v \div Power[n - i]) % Base]

\* opty_get_u16, opty_get_u64
Get(p) == LET value[i \in 0 .. Len(p)] ==
                  IF i = 0 THEN 0 ELSE value[i - 1] * Base + p[i]
          IN  value[Len(p)]

\* The n bytes of p from offset off on; all bytes from off on.
At(p, off, n) == SubSeq(p, off + 1, off + n)
From(p, off) == SubSeq(p, off + 1, Len(p))

\* A length byte, then the bytes.
TokenField(token) == <<Len(token)>> \o token

\* What opty_send_hello, ..., opty_send_control_shutdown put into the frame.
Payload(version, m) ==
    CASE m.type = HELLO -> <<version>> \o Put(SizeLen, m.cols) \o Put(SizeLen, m.rows)
                             \o TokenField(m.token)
      [] m.type = RECONNECT -> <<version>> \o Put(SeqLen, m.seq) \o Put(SizeLen, m.cols)
                                 \o Put(SizeLen, m.rows) \o TokenField(m.token)
      [] m.type = RESIZE -> Put(SizeLen, m.cols) \o Put(SizeLen, m.rows)
      [] m.type = ACK -> Put(SeqLen, m.seq)
      [] m.type \in {STDIN, ERROR} -> m.data
      [] m.type \in {STDOUT, REPLAY} -> Put(SeqLen, m.seq) \o m.data
      [] m.type = WELCOME -> Put(SeqLen, m.seq) \o Put(SeqLen, m.next_seq)
      [] m.type = CONTROL_SHUTDOWN -> <<version>> \o TokenField(m.token)
                                        \o Put(SizeLen, Len(m.data)) \o m.data

\* opty_token_payload and opty_send_control_shutdown refuse a field that is
\* too long, opty_send_frame a frame that is too long (EMSGSIZE).
FieldsFit(m) == /\ m.type \in {HELLO, RECONNECT, CONTROL_SHUTDOWN} => Len(m.token) <= MaxToken
                /\ m.type = CONTROL_SHUTDOWN => Len(m.data) <= MaxGraceful

\* Faulty variant: the type byte is forgotten.
Fits_NoTypeByte(len) == len <= MaxFrame

Fits(len) == len <= MaxFrame - 1

Sendable(version, m) == FieldsFit(m) /\ Fits(Len(Payload(version, m)))

-----------------------------------------------------------------------------
(***************************************************************************)
(* The parsers.  What they refuse (EPROTO) is Malformed.                   *)
(***************************************************************************)
Malformed == [type |-> 0]

\* opty_parse_intro_payload; off is the offset of the terminal size.
ParseIntro(type, version, p, seqlen) ==
    LET off   == 1 + seqlen
        sizes == 2 * SizeLen
        tok   == off + sizes + 1
    IN  IF \/ Len(p) < tok
           \/ p[1] # version
           \/ Len(p) # tok + p[tok]
        THEN Malformed
        ELSE [type |-> type, seq |-> Get(At(p, 1, seqlen)), cols |-> Get(At(p, off, SizeLen)),
              rows |-> Get(At(p, off + SizeLen, SizeLen)), token |-> From(p, tok)]

\* opty_parse_control_shutdown; off is the offset of the input's length.
ParseControl(version, p) ==
    IF Len(p) < 2 + SizeLen \/ p[1] # version THEN Malformed
    ELSE LET off == 2 + p[2]
         IN  IF p[2] > MaxToken \/ Len(p) < off + SizeLen THEN Malformed
             ELSE LET len == Get(At(p, off, SizeLen))
                  IN  IF len > MaxGraceful \/ Len(p) # off + SizeLen + len THEN Malformed
                      ELSE [type |-> CONTROL_SHUTDOWN, token |-> At(p, 2, p[2]),
                            data |-> From(p, off + SizeLen)]

\* opty_parse_resize, opty_parse_ack, opty_parse_stream, opty_parse_welcome.
ParseFixed(type, p) ==
    CASE type = RESIZE /\ Len(p) = 2 * SizeLen ->
            [type |-> RESIZE, cols |-> Get(At(p, 0, SizeLen)), rows |-> Get(At(p, SizeLen, SizeLen))]
      [] type = ACK /\ Len(p) = SeqLen -> [type |-> ACK, seq |-> Get(p)]
      [] type \in {STDOUT, REPLAY} /\ Len(p) >= SeqLen ->
            [type |-> type, seq |-> Get(At(p, 0, SeqLen)), data |-> From(p, SeqLen)]
      [] type = WELCOME /\ Len(p) = 2 * SeqLen ->
            [type |-> WELCOME, seq |-> Get(At(p, 0, SeqLen)), next_seq |-> Get(At(p, SeqLen, SeqLen))]
      [] type \in {STDIN, ERROR} -> [type |-> type, data |-> p]
      [] OTHER -> Malformed

\* What the receiver makes of a frame.
Parse(version, type, p) ==
    CASE type = HELLO -> ParseIntro(type, version, p, 0)
      [] type = RECONNECT -> ParseIntro(type, version, p, SeqLen)
      [] type = CONTROL_SHUTDOWN -> ParseControl(version, p)
      [] OTHER -> ParseFixed(type, p)
=============================================================================
