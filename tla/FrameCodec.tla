------------------------------ MODULE FrameCodec ------------------------------
(***************************************************************************)
(* The frames of the tunnel (src/tunnel/protocol.js): encodeFrame,         *)
(* decodeFrame, decodeFrames.                                              *)
(*                                                                         *)
(* A byte holds Byte values (256), so that lengths of one and of two bytes *)
(* wrap where they do in a Buffer.  What a name or a payload contains is   *)
(* never looked at: text is a sequence of any numbers.                     *)
(***************************************************************************)
EXTENDS Integers, Sequences, SequencesExt

CONSTANT Byte

\* A frame has room for more than the header of a DATA frame.
ASSUME ByteAssumption == Byte \in Nat \ {0, 1, 2}

\* FRAME_TYPES
CONNECT == 1
DATA == 2
CLOSE == 3
CONNECT_OK == 4
PING == 16
PONG == 17
AUTH == 32
AUTH_OK == 33
AUTH_FAIL == 34
ERROR == 35
CAPABILITIES == 36
PADDING == 48
CONNECT_FAILED == 129

\* ATYP
IPV4 == 1
DOMAIN_NAME == 3
IPV6 == 4

MaxFramePayload == Byte * Byte - 1
DataHeaderLen == 3

\* Faulty variant: the header is forgotten.
WholePayload == MaxFramePayload

MaxDataChunk == MaxFramePayload - DataHeaderLen

------------------------------------------------------------------------------
(* Encoding *)

\* Faulty variant: the low byte first.
Uint16Swapped(n) == <<n % Byte, n \div Byte>>

Uint16(n) == <<n \div Byte, n % Byte>>

\* A length byte and what it counts; too long a text only wraps the length.
Counted(s) == <<Len(s) % Byte>> \o s

EncodeCapabilities(caps) ==
  <<Len(caps) % Byte>> \o FlattenSeq([i \in DOMAIN caps |-> Counted(caps[i])])

EncodeAddress(atyp, addr) ==
  <<atyp>> \o (IF atyp = DOMAIN_NAME THEN Counted(addr) ELSE addr)

EncodeConnect(f) == Uint16(f.reqid) \o EncodeAddress(f.atyp, f.addr) \o Uint16(f.port)
EncodeData(f) == Uint16(f.reqid) \o f.data
EncodeAuth(f) ==
  Counted(f.username) \o Counted(f.password) \o EncodeCapabilities(f.capabilities)
    \o (IF f.clientId = <<>> THEN <<>> ELSE Counted(f.clientId))

\* The payload after the type.
Fields(f) ==
  CASE f.type = CONNECT -> EncodeConnect(f)
    [] f.type = DATA -> EncodeData(f)
    [] f.type \in {CLOSE, CONNECT_OK, CONNECT_FAILED} -> Uint16(f.reqid)
    [] f.type \in {PING, PONG, PADDING} -> f.data
    [] f.type \in {AUTH_OK, AUTH_FAIL} -> <<>>
    [] f.type = AUTH -> EncodeAuth(f)
    [] f.type = CAPABILITIES -> EncodeCapabilities(f.capabilities)
    [] f.type = ERROR -> Counted(f.message)

\* encodeFrame throws for the others.
Encodable(f) ==
  /\ Len(Fields(f)) < MaxFramePayload
  /\ f.type \in {AUTH, CAPABILITIES} => \A i \in DOMAIN f.capabilities : Len(f.capabilities[i]) < Byte
  /\ f.type = AUTH => Len(f.clientId) < Byte

EncodeFrame(f) == Uint16(Len(Fields(f)) + 1) \o <<f.type>> \o Fields(f)

\* What a stream carries when fs are written to it.
EncodeFrames(fs) == FlattenSeq([i \in DOMAIN fs |-> EncodeFrame(fs[i])])

\* The frames decodeFrame gives back.  Nothing in encodeFrame keeps it from
\* being called with others: numbers of 16 bits are cut, and the length
\* byte of a name, a password or a message wraps.
Numbers16 == 0 .. MaxFramePayload
ShortTexts == {s \in Seq(Nat) : Len(s) < Byte}
ShortLists == {s \in Seq(ShortTexts) : Len(s) < Byte}

ConnectFrames ==
  LET Frame(atyp, addresses) == [type : {CONNECT}, reqid : Numbers16, atyp : {atyp},
                                 addr : addresses, port : Numbers16]
  IN  Frame(IPV4, [1 .. 4 -> Nat]) \cup Frame(DOMAIN_NAME, ShortTexts)
        \cup Frame(IPV6, [1 .. 16 -> Nat])
RequestFrames == [type : {CLOSE, CONNECT_OK, CONNECT_FAILED}, reqid : Numbers16]
DataFrames == [type : {DATA}, reqid : Numbers16, data : Seq(Nat)]
OpaqueFrames == [type : {PING, PONG, PADDING}, data : Seq(Nat)]
EmptyFrames == [type : {AUTH_OK, AUTH_FAIL}]
AuthFrames == [type : {AUTH}, username : ShortTexts, password : ShortTexts,
               capabilities : ShortLists, clientId : ShortTexts]
ListFrames == [type : {CAPABILITIES}, capabilities : ShortLists]
ErrorFrames == [type : {ERROR}, message : ShortTexts]

Frames ==
  {f \in ConnectFrames \cup RequestFrames \cup DataFrames \cup OpaqueFrames \cup EmptyFrames
         \cup AuthFrames \cup ListFrames \cup ErrorFrames : Encodable(f)}

------------------------------------------------------------------------------
(* Decoding.  at counts from 0, as the offsets of the code do.             *)

Number16(b, at) == b[at + 1] * Byte + b[at + 2]

\* Buffer.slice stops at the end.
Slice(b, at, n) == SubSeq(b, at + 1, IF at + n < Len(b) THEN at + n ELSE Len(b))
Rest(b, at) == SubSeq(b, at + 1, Len(b))
Text(b, at) == Slice(b, at + 1, b[at + 1])
After(b, at) == at + 1 + b[at + 1]

\* Where the texts of a list begin; the last is where the list ends.
Offsets(b, at) ==
  LET begin[i \in 0 .. b[at + 1]] == IF i = 0 THEN at + 1 ELSE After(b, begin[i - 1])
  IN  begin

DecodeCapabilities(b, at) ==
  LET begin == Offsets(b, at) IN [i \in 1 .. b[at + 1] |-> Text(b, begin[i - 1])]

AddressLength(b, at) ==
  CASE b[at + 1] = IPV4 -> 5
    [] b[at + 1] = DOMAIN_NAME -> 2 + b[at + 2]
    [] b[at + 1] = IPV6 -> 17

\* What encodeFrame makes ends with the client id; decodeFrame throws for
\* bytes behind it.
DecodeAuth(b) ==
  LET word == After(b, 1)                       \* the password
      list == After(b, word)
      end == Offsets(b, list)[b[list + 1]] IN
  [type |-> AUTH, username |-> Text(b, 1), password |-> Text(b, word),
   capabilities |-> DecodeCapabilities(b, list),
   clientId |-> IF end < Len(b) THEN Text(b, end) ELSE <<>>]

DecodeConnect(b) ==
  LET n == AddressLength(b, 3)
      head == IF b[4] = DOMAIN_NAME THEN 2 ELSE 1 IN
  [type |-> CONNECT, reqid |-> Number16(b, 1), atyp |-> b[4],
   addr |-> Slice(b, 3 + head, n - head), port |-> Number16(b, 3 + n)]

\* decodeFrame, given the payload.
DecodePayload(b) ==
  CASE b[1] = CONNECT -> DecodeConnect(b)
    [] b[1] = DATA -> [type |-> DATA, reqid |-> Number16(b, 1), data |-> Rest(b, 3)]
    [] b[1] \in {CLOSE, CONNECT_OK, CONNECT_FAILED} ->
         [type |-> b[1], reqid |-> Number16(b, 1)]
    [] b[1] \in {AUTH_OK, AUTH_FAIL} -> [type |-> b[1]]
    [] b[1] = AUTH -> DecodeAuth(b)
    [] b[1] = CAPABILITIES -> [type |-> b[1], capabilities |-> DecodeCapabilities(b, 1)]
    [] b[1] = ERROR -> [type |-> b[1], message |-> Text(b, 1)]
    [] OTHER -> [type |-> b[1], data |-> Rest(b, 1)]

\* No whole length, or less than it says.
ReachesBeyond(b, at) ==
  Len(b) - at < 2 \/ at + 2 + Number16(b, at) > Len(b)

\* One turn of the loop of decodeFrames, which has come to offset at.
DecodeNext(b, s) ==
  IF ~s.ok \/ s.at = Len(b) THEN s
  ELSE IF ReachesBeyond(b, s.at) THEN [ok |-> FALSE, at |-> s.at, frames |-> s.frames]
  ELSE LET length == Number16(b, s.at) IN
       [ok |-> TRUE, at |-> s.at + 2 + length,
        frames |-> Append(s.frames, DecodePayload(Slice(b, s.at + 2, length)))]

\* decodeFrames throws if the bytes do not end where a frame does.  A frame
\* has two bytes or more, so that the turns suffice.
DecodeFrames(b) ==
  LET loop[turn \in 0 .. Len(b)] ==
        IF turn = 0 THEN [ok |-> TRUE, at |-> 0, frames |-> <<>>]
        ELSE DecodeNext(b, loop[turn - 1])
      end == loop[Len(b)] IN
  [ok |-> end.ok, frames |-> end.frames]
==============================================================================
