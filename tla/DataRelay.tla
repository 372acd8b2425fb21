------------------------------ MODULE DataRelay ------------------------------
(***************************************************************************)
(* How the bytes of one request become DATA frames (src/tunnel/manager.js, *)
(* _sendData and _sendDataToClient).                                       *)
(*                                                                         *)
(* A buffer is cut into pieces of at most MaxDataChunk = 65532 bytes;      *)
(* after each piece the function suspends until the next check phase of    *)
(* the event loop (setImmediate).  The pieces of a request are numbered in *)
(* the order of its bytes; a suspended call is the range it has still to   *)
(* send.                                                                   *)
(*                                                                         *)
(* The two directions call it differently.  A reverse stream is a Writable *)
(* whose _write reports back when the call is over, so the next buffer     *)
(* waits.  The socket of a forward request emits 'data' whenever bytes     *)
(* come, and its handler does not wait for the call it started.  libuv     *)
(* reads a socket again, up to 32 times in one poll phase, as long as the  *)
(* 65536 bytes of its buffer were filled; such a read is cut in two.       *)
(*                                                                         *)
(* Nobody looks at what sendEncodedFrame and sendFrame return: a frame     *)
(* sent while the session has no stream is gone, and the next one goes out *)
(* on the stream the client opens in its place.  A request the table no    *)
(* longer has sends nothing new, and no CLOSE.                             *)
(***************************************************************************)
EXTENDS FrameCodec

CONSTANTS
  ReversePieces,   \* pieces the largest buffer of a reverse stream is cut into
  ForwardPieces,   \* the same for one read of a forward socket
  MaxBytes,        \* bounds of the model: pieces in a behaviour
  Others           \* and frames of other kinds, one of which may be sent

Directions == {"reverse", "forward"}

ASSUME PiecesAssumption ==
  ReversePieces \in Nat \ {0} /\ ForwardPieces \in Nat \ {0} /\ MaxBytes \in Nat

IsOther(f) == f.type \notin {DATA, CLOSE}

ASSUME OthersAssumption == \A f \in Others : f \in Frames /\ IsOther(f)

VARIABLES
  direction,   \* of the request, never changes
  read,        \* pieces given to the relay so far
  calls,       \* suspended calls, each with the next and last piece to send
  wire,        \* frames sent, in order
  closed,      \* "no", or how the bytes ended: "ended" or "failed"
  stream,      \* whether the session has a stream that can be written
  entry,       \* whether the request is in the table
  dropped      \* history: pieces whose turn came and that were not written

link == <<direction, stream>>
vars == <<direction, read, calls, wire, closed, stream, entry, dropped>>

\* The request's reqid; Number16 of it has two digits.
Reqid == Byte + 1

\* Piece n of a buffer that ends with piece last: full, or the remainder.
Data(n, last) ==
  [type |-> DATA, reqid |-> Reqid,
   data |-> [i \in 1 .. (IF n = last THEN 1 ELSE MaxDataChunk) |-> n]]

Close == [type |-> CLOSE, reqid |-> Reqid]

Sent == {i \in DOMAIN wire : wire[i].type = DATA}
Carried == {wire[i].data[1] : i \in Sent}

\* The session a reverse request is given has a stream; a forward one may
\* have been asked for by a client that opens it again just then.
Init ==
  /\ direction \in Directions
  /\ read = 0
  /\ calls = <<>>
  /\ wire = <<>>
  /\ closed = "no"
  /\ stream \in BOOLEAN /\ (direction = "reverse" => stream)
  /\ entry = TRUE
  /\ dropped = {}

\* Frames go out at once, or not at all; pieces is what they carry.
Push(frames, pieces) ==
  /\ wire' = IF stream THEN wire \o frames ELSE wire
  /\ dropped' = IF stream THEN dropped ELSE dropped \cup pieces

\* Faulty variant: _write reports back at once.
MayAlwaysStart == TRUE

\* A Writable passes one buffer at a time to _write.
MayStart == direction = "reverse" => calls = <<>>

\* A buffer of n pieces: the first is sent before the call suspends.  For a
\* request that is not in the table nothing is sent, and _write reports back.
SendData(n) ==
  /\ closed = "no"
  /\ MayStart
  /\ read + n <= MaxBytes
  /\ read' = read + n
  /\ \/ /\ entry
        /\ Push(<<Data(read + 1, read + n)>>, {read + 1})
        /\ calls' = Append(calls, [next |-> read + 2, last |-> read + n])
     \/ /\ ~entry
        /\ dropped' = dropped \cup (read + 1 .. read + n)
        /\ UNCHANGED <<calls, wire>>
  /\ UNCHANGED <<link, closed, entry>>

Unfinished(c) == c.next <= c.last

\* The calls with something left to send, in their order.
Pending ==
  LET left == {i \in DOMAIN calls : Unfinished(calls[i])} IN
  CHOOSE at \in UNION {[1 .. n -> left] : n \in 0 .. Len(calls)} :
    /\ left = {at[k] : k \in DOMAIN at}
    /\ \A j, k \in DOMAIN at : j < k => at[j] < at[k]

\* The check phase resumes the calls suspended so far in their order: each
\* sends one more piece, or returns.
Resume(at) ==
  Push([k \in DOMAIN at |-> Data(calls[at[k]].next, calls[at[k]].last)],
       {calls[at[k]].next : k \in DOMAIN at})

\* Faulty variant: a call gives up after its second piece.
CheckPhaseOnce ==
  /\ calls # <<>>
  /\ Resume(Pending)
  /\ calls' = <<>>
  /\ UNCHANGED <<link, read, closed, entry>>

\* Faulty variant: the offset stays where it was.
CheckPhaseRepeats ==
  /\ calls # <<>>
  /\ Resume(Pending)
  /\ calls' = [k \in DOMAIN Pending |-> calls[Pending[k]]]
  /\ UNCHANGED <<link, read, closed, entry>>

CheckPhase ==
  /\ calls # <<>>
  /\ Resume(Pending)
  /\ calls' = [k \in DOMAIN Pending |-> [calls[Pending[k]] EXCEPT !.next = @ + 1]]
  /\ UNCHANGED <<link, read, closed, entry>>

\* Faulty variant: the request stays in the table.
SendCloseAgain ==
  /\ wire' = IF entry /\ stream THEN Append(wire, Close) ELSE wire
  /\ UNCHANGED entry

\* _sendClose, or what 'close' and 'error' do: the request is done with.
SendClose ==
  /\ wire' = IF entry /\ stream THEN Append(wire, Close) ELSE wire
  /\ entry' = FALSE

\* Faulty variant: CLOSE does not wait for the calls.
EndsEarly ==
  /\ closed = "no"
  /\ closed' = "ended"
  /\ SendClose
  /\ UNCHANGED <<link, read, calls, dropped>>

\* End of the byte stream.  reverse: _final runs when every _write reported
\* back.  forward: 'close' follows 'end' by a shutdown of the socket, which
\* takes the loop through a check phase.
Ends ==
  /\ closed = "no"
  /\ \A i \in DOMAIN calls : direction = "forward" /\ ~Unfinished(calls[i])
  /\ closed' = "ended"
  /\ SendClose
  /\ UNCHANGED <<link, read, calls, dropped>>

\* The stream is destroyed, for an error or as its end is over; the socket
\* fails.  A call that is suspended goes on all the same.
Fails ==
  /\ closed' = IF closed = "ended" THEN "ended" ELSE "failed"
  /\ SendClose
  /\ UNCHANGED <<link, read, calls, dropped>>

\* The client closes the request or a timer gives it up.  The socket of a
\* forward request is destroyed; a reverse stream can still be written.
RequestLost ==
  /\ entry
  /\ entry' = FALSE
  /\ closed' = IF direction = "forward" THEN "failed" ELSE closed
  /\ UNCHANGED <<link, read, calls, wire, dropped>>

\* The session loses its stream, and the client opens it again.
StreamLostOrOpened ==
  /\ stream' = ~stream
  /\ UNCHANGED <<direction, read, calls, wire, closed, entry, dropped>>

\* Frames of other requests and of the session share the stream.
SendsOther(f) ==
  /\ f \in Others
  /\ stream
  /\ ~\E i \in DOMAIN wire : IsOther(wire[i])
  /\ wire' = Append(wire, f)
  /\ UNCHANGED <<link, read, calls, closed, entry, dropped>>

MaxPieces == [reverse |-> ReversePieces, forward |-> ForwardPieces]

Next ==
  \/ \E n \in 1 .. MaxPieces[direction] : SendData(n)
  \/ CheckPhase \/ Ends \/ Fails \/ RequestLost \/ StreamLostOrOpened
  \/ \E f \in Others : SendsOther(f)

Spec == Init /\ [][Next]_vars

FairSpec == Spec /\ WF_vars(CheckPhase)

------------------------------------------------------------------------------
(* Properties *)

(* Types; every frame that is sent can be encoded, and is one that         *)
(* decodeFrame can give back.                                              *)
TypeOK ==
  /\ direction \in Directions /\ closed \in {"no", "ended", "failed"}
  /\ read \in 0 .. MaxBytes
  /\ calls \in Seq([next : Nat, last : 1 .. MaxBytes])
  /\ wire \in Seq(Frames)
  /\ stream \in BOOLEAN /\ entry \in BOOLEAN /\ dropped \subseteq 1 .. MaxBytes

Bytes == EncodeFrames(wire)

(* What was sent, taken apart where the lengths in it say, is the frames   *)
(* that were sent.  When the end of the bytes is missing, decodeFrames     *)
(* throws, or the bytes are those of the first frames and give these.      *)
StreamDecodes ==
  LET b == Bytes IN
  /\ TypeOK
  /\ DecodeFrames(b) = [ok |-> TRUE, frames |-> wire]
  /\ \A n \in DOMAIN b :
       LET c == SubSeq(b, 1, n)
           d == DecodeFrames(c) IN
       d.ok => IsPrefix(d.frames, wire) /\ EncodeFrames(d.frames) = c

(* No call is started while another has something left to send.            *)
OneAtATime == direction = "reverse" \/ ForwardPieces = 1

(* The client receives the bytes in the order the proxy produced them, and *)
(* what is missing between them is a piece whose turn came while there was *)
(* no stream to write it to.                                               *)
InOrder ==
  /\ \A i, j \in Sent : i < j => wire[i].data[1] < wire[j].data[1]
  /\ \A n \in Carried : 1 .. n \subseteq Carried \cup dropped

(* The pieces of one buffer, all but the last of which fill their frames,  *)
(* are sent once and in their order, whatever is sent between them.        *)
BuffersInOrder ==
  \A i, j \in Sent :
    /\ wire[i].data[1] = wire[j].data[1] => i = j
    /\ Len(wire[i].data) = MaxDataChunk /\ wire[j].data[1] = wire[i].data[1] + 1 => i < j

(* When the bytes have ended, the turn of every piece that was read has    *)
(* come, no piece follows CLOSE, and CLOSE is sent once however often the  *)
(* stream and the socket report their end.  Nothing tells the client that  *)
(* pieces before CLOSE were dropped.                                       *)
Whole ==
  /\ closed = "ended" =>
       /\ Carried \cup dropped = 1 .. read
       /\ \A i \in DOMAIN wire : wire[i].type = CLOSE => \A j \in Sent : j < i
  /\ \A i, j \in DOMAIN wire : wire[i].type = CLOSE /\ wire[j].type = CLOSE => i = j

(* The client receives the bytes of each buffer in their order and the     *)
(* buffers in the order the proxy produced them, unless reads of a forward *)
(* socket are cut; a CLOSE that ends the bytes comes behind all of them;   *)
(* and what is missing fell into a time without stream or without request. *)
WholeAndInOrder == BuffersInOrder /\ Whole /\ (OneAtATime => InOrder)

(* Nothing that was read is left behind in a suspended call: it is written,*)
(* or its turn comes while there is no stream.                             *)
NothingIsLeft == \A n \in 1 .. MaxBytes : read >= n ~> n \in Carried \cup dropped
==============================================================================
