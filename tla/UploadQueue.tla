----------------------------- MODULE UploadQueue -----------------------------
(***************************************************************************)
(* The reordering queue of one xhttp session (src/tunnel/uploadQueue.js)   *)
(* together with the consume loop that reads it (xhttpHandler.js,          *)
(* _startConsumeLoop).                                                     *)
(*                                                                         *)
(* The client sends every upload as an HTTP POST of its own, numbered from *)
(* 0.  The POSTs travel on several connections: they arrive in any order,  *)
(* some never arrive, and a POST the client re-sends after a transport     *)
(* error may arrive twice.  A POST is a member of Posts and SeqOf[p] is    *)
(* the number in its URL; two members with one number are the original and *)
(* its retry, which carry the same bytes, so a payload is its number.      *)
(*                                                                         *)
(* push(), read() and close() run without suspension.  The loop suspends   *)
(* at "await read()": a payload handed to a waiting read() is held until   *)
(* the loop runs again, and other events may come in between.              *)
(***************************************************************************)
EXTENDS Naturals, Sequences, FiniteSets

CONSTANTS
  Posts,         \* upload requests
  SeqOf,         \* the number each one carries
  MaxBuffered    \* capacity of the heap (64 in the code)

ASSUME PostsAssumption == IsFiniteSet(Posts) /\ SeqOf \in [Posts -> Nat]
ASSUME MaxBufferedAssumption == MaxBuffered \in Nat \ {0}

VARIABLES
  heap,       \* posts waiting for an earlier number (_heap)
  nextSeq,    \* next number to deliver (_nextSeq)
  ready,      \* numbers delivered and not read (_ready)
  closed,     \* _closed
  reader,     \* where the consume loop stands
  hand,       \* number the loop holds when reader = "holding"
  arrived,    \* posts whose body was read: push() was called
  acked,      \* posts answered 200: push() returned true
  out         \* numbers handed to onFrame, in order

queueVars == <<heap, nextSeq, ready, closed>>
vars == <<heap, nextSeq, ready, closed, reader, hand, arrived, acked, out>>

ReaderStates == {"running", "waiting", "holding", "stopped"}

Init ==
  /\ heap = {}
  /\ nextSeq = 0
  /\ ready = <<>>
  /\ closed = FALSE
  /\ reader = "running"
  /\ hand = 0
  /\ arrived = {}
  /\ acked = {}
  /\ out = <<>>

------------------------------------------------------------------------------
(* The heap *)

CarriedBy(h, n) == {p \in h : SeqOf[p] = n}

(* Where the drain loop stops when it starts at n on heap h: it takes one  *)
(* post per number as long as the SMALLEST number in the heap is the next  *)
(* one, so it never starts when an older number is left in the heap, and   *)
(* it stops behind a number that is there twice.                           *)
DrainStops(h, n, e) ==
  \/ CarriedBy(h, e) = {}
  \/ \E p \in h : SeqOf[p] < n
  \/ e > n /\ Cardinality(CarriedBy(h, e - 1)) > 1

DrainsTo(h, n, e) ==
  /\ DrainStops(h, n, e)
  /\ \A m \in n .. (e - 1) : ~DrainStops(h, n, m)

(* The posts one run of the drain loop removes: one for each number.       *)
IsDrained(T, h, n, e) ==
  /\ \A m \in n .. (e - 1) : Cardinality(CarriedBy(T, m)) = 1
  /\ \A p \in T : SeqOf[p] \in n .. (e - 1)

(* The numbers a .. b-1 in order.                                          *)
Run(a, b) == [i \in 1 .. (b - a) |-> a + i - 1]

------------------------------------------------------------------------------
(* push(seq, payload) *)

\* Faulty variant: a waiting read() is not resolved.
DeliverWithoutWaking(a, b) == ready' = ready \o Run(a, b) /\ UNCHANGED <<reader, hand>>

(* _deliver, for the numbers a .. b-1: a waiting read() gets the first.    *)
Deliver(a, b) ==
  IF reader = "waiting"
  THEN /\ reader' = "holding"
       /\ hand' = a
       /\ ready' = ready \o Run(a + 1, b)
  ELSE /\ ready' = ready \o Run(a, b)
       /\ UNCHANGED <<reader, hand>>

\* Faulty variant: the waiting read() is left suspended.
CloseWithoutWaking ==
  /\ closed' = TRUE
  /\ heap' = {}
  /\ UNCHANGED <<nextSeq, ready, reader, hand>>

(* close(): the waiting read() gets null, which ends the consume loop; the *)
(* heap is emptied, ready is kept.                                         *)
CloseQueue ==
  /\ closed' = TRUE
  /\ heap' = {}
  /\ reader' = IF reader = "waiting" THEN "stopped" ELSE reader
  /\ UNCHANGED <<nextSeq, ready, hand>>

PushClosed(p) ==
  /\ closed
  /\ arrived' = arrived \cup {p}
  /\ UNCHANGED <<heap, nextSeq, ready, closed, reader, hand, acked, out>>

\* Faulty variant: a number that was delivered is delivered again.
PushOldRedelivers(p) ==
  /\ ~closed
  /\ SeqOf[p] < nextSeq
  /\ Deliver(SeqOf[p], SeqOf[p] + 1)
  /\ arrived' = arrived \cup {p}
  /\ acked' = acked \cup {p}
  /\ UNCHANGED <<heap, nextSeq, closed, out>>

PushOld(p) ==
  /\ ~closed
  /\ SeqOf[p] < nextSeq
  /\ arrived' = arrived \cup {p}
  /\ acked' = acked \cup {p}
  /\ UNCHANGED <<heap, nextSeq, ready, closed, reader, hand, out>>

\* Faulty variant: the heap is not drained.
PushNextWithoutDrain(p) ==
  /\ ~closed
  /\ SeqOf[p] = nextSeq
  /\ nextSeq' = nextSeq + 1
  /\ Deliver(nextSeq, nextSeq + 1)
  /\ arrived' = arrived \cup {p}
  /\ acked' = acked \cup {p}
  /\ UNCHANGED <<heap, closed, out>>

PushNext(p) ==
  /\ ~closed
  /\ SeqOf[p] = nextSeq
  /\ \E e \in (nextSeq + 1) .. (nextSeq + 1 + Cardinality(heap)) :
       /\ DrainsTo(heap, nextSeq + 1, e)
       /\ \E T \in SUBSET heap :
            /\ IsDrained(T, heap, nextSeq + 1, e)
            /\ heap' = heap \ T
       /\ nextSeq' = e
       /\ Deliver(nextSeq, e)
  /\ arrived' = arrived \cup {p}
  /\ acked' = acked \cup {p}
  /\ UNCHANGED <<closed, out>>

\* Faulty variant: the limit is passed by one.
IsFullLate == Cardinality(heap) > MaxBuffered

IsFull == Cardinality(heap) >= MaxBuffered

PushEarly(p) ==
  /\ ~closed
  /\ SeqOf[p] > nextSeq
  /\ ~IsFull
  /\ heap' = heap \cup {p}
  /\ arrived' = arrived \cup {p}
  /\ acked' = acked \cup {p}
  /\ UNCHANGED <<nextSeq, ready, closed, reader, hand, out>>

\* Faulty variant: the payload is dropped and the answer is still 200.
PushOverflowDrops(p) ==
  /\ ~closed
  /\ SeqOf[p] > nextSeq
  /\ IsFull
  /\ arrived' = arrived \cup {p}
  /\ acked' = acked \cup {p}
  /\ UNCHANGED <<queueVars, reader, hand, out>>

PushOverflow(p) ==
  /\ ~closed
  /\ SeqOf[p] > nextSeq
  /\ IsFull
  /\ CloseQueue
  /\ arrived' = arrived \cup {p}
  /\ UNCHANGED <<acked, out>>

Push(p) ==
  /\ p \notin arrived
  /\ \/ PushClosed(p) \/ PushOld(p) \/ PushNext(p)
     \/ PushEarly(p) \/ PushOverflow(p)

------------------------------------------------------------------------------
(* The consume loop and the session's own close *)

\* Faulty variant: the loop reads on after the queue was closed.
ReadReadyWhenClosed ==
  /\ reader = "running"
  /\ ready # <<>>
  /\ hand' = Head(ready)
  /\ ready' = Tail(ready)
  /\ reader' = "holding"
  /\ UNCHANGED <<heap, nextSeq, closed, arrived, acked, out>>

ReadReady ==
  /\ reader = "running" /\ ~closed
  /\ ready # <<>>
  /\ hand' = Head(ready)
  /\ ready' = Tail(ready)
  /\ reader' = "holding"
  /\ UNCHANGED <<heap, nextSeq, closed, arrived, acked, out>>

ReadWait ==
  /\ reader = "running" /\ ~closed
  /\ ready = <<>>
  /\ reader' = "waiting"
  /\ UNCHANGED <<queueVars, hand, arrived, acked, out>>

LoopEnds ==
  /\ reader = "running" /\ closed
  /\ reader' = "stopped"
  /\ UNCHANGED <<queueVars, hand, arrived, acked, out>>

HandleFrames ==
  /\ reader = "holding"
  /\ out' = Append(out, hand)
  /\ reader' = "running"
  /\ UNCHANGED <<queueVars, hand, arrived, acked>>

(* _closeSession reaches the queue for any of its reasons.                 *)
CloseSession ==
  /\ ~closed
  /\ CloseQueue
  /\ UNCHANGED <<arrived, acked, out>>

Consume == ReadReady \/ ReadWait \/ LoopEnds \/ HandleFrames

Next == (\E p \in Posts : Push(p)) \/ Consume \/ CloseSession

Spec == Init /\ [][Next]_vars

(* The event loop runs every continuation that became ready; it owes       *)
(* nothing to POSTs the network may lose.                                  *)
FairSpec == Spec /\ WF_vars(Consume)

------------------------------------------------------------------------------
(* Properties *)

BufferBounded == Cardinality(heap) <= MaxBuffered

Types ==
  /\ heap \subseteq Posts
  /\ nextSeq \in Nat
  /\ ready \in Seq(Nat)
  /\ closed \in BOOLEAN
  /\ reader \in ReaderStates
  /\ hand \in Nat
  /\ arrived \subseteq Posts
  /\ acked \subseteq Posts
  /\ out \in Seq(Nat)

(* Types; and the reorder buffer never outgrows its limit, whatever drains *)
(* it or is stored twice.                                                  *)
TypeOK == Types /\ BufferBounded

(* What is on its way to onFrame, oldest first.                            *)
InHand == IF reader = "holding" THEN <<hand>> ELSE <<>>
Pipeline == out \o InHand \o ready

(* However POSTs are reordered, repeated or lost, the numbers handed over, *)
(* held and delivered are exactly 0 .. nextSeq-1 in order: nothing is      *)
(* skipped, nothing is given twice (push, _deliver, _drainHeap, read).     *)
InOrderOnce == Pipeline = Run(0, nextSeq)

(* A POST answered 200 is not forgotten while the queue is open: its       *)
(* number was delivered or the post still waits in the heap.               *)
AckedIsKept ==
  ~closed => \A p \in acked : SeqOf[p] < nextSeq \/ p \in heap

(* No lost wake-up: read() is suspended only while there is nothing to     *)
(* read and the queue can still deliver.                                   *)
WaitsForAReason == reader = "waiting" => ready = <<>> /\ ~closed

(* What was acknowledged is not forgotten, and no reader sleeps over it.   *)
NothingForgotten == AckedIsKept /\ WaitsForAReason

(* _drainHeap says it takes consecutive frames out of the heap and         *)
(* delivers them; push says it checks the heap for consecutive successors. *)
(* So the next expected number is never left in the heap.                  *)
NextIsNotBuffered == \A p \in heap : SeqOf[p] # nextSeq

NoneRepeated == \A p, q \in arrived : SeqOf[p] = SeqOf[q] => p = q

(* Only a re-sent POST can strand the stream: as long as no number came    *)
(* twice, reordering and loss never leave the next expected number behind  *)
(* in the heap (push, _drainHeap).                                         *)
OnlyRepeatsStrand == NoneRepeated => NextIsNotBuffered

Numbers == {SeqOf[p] : p \in Posts}

(* Everything delivered is processed, unless the session closes first.     *)
DeliveredIsProcessed ==
  \A n \in Numbers : nextSeq > n ~> Len(out) > n \/ closed

------------------------------------------------------------------------------
(* The queue implements the numbered stream of module UploadStream.        *)
Stream == INSTANCE UploadStream WITH
  accepted <- {SeqOf[p] : p \in acked},
  offered  <- reader = "holding"

StreamSpec == Stream!Spec
==============================================================================
