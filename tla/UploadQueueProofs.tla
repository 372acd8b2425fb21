-------------------------- MODULE UploadQueueProofs --------------------------
(***************************************************************************)
(* Proofs about UploadQueue for every set of POSTs, every numbering of     *)
(* them and every buffer limit.                                            *)
(***************************************************************************)
EXTENDS UploadQueue, SequenceTheorems, FiniteSetTheorems, TLAPS

(***************************************************************************)
(* InOrderOnce by positions: how many numbers are in each place, and which *)
(* number stands where.  This is the form in which the steps preserve it.  *)
(***************************************************************************)
Held == IF reader = "holding" THEN 1 ELSE 0

Positions ==
  /\ Len(out) + Held + Len(ready) = nextSeq
  /\ \A i \in 1 .. Len(out) : out[i] = i - 1
  /\ reader = "holding" => hand = Len(out)
  /\ \A i \in 1 .. Len(ready) : ready[i] = nextSeq - Len(ready) + i - 1

IInv ==
  /\ Types
  /\ Positions
  /\ WaitsForAReason
  /\ BufferBounded
  /\ AckedIsKept

------------------------------------------------------------------------------
(* Run(a, b) is a sequence of b - a numbers.                               *)
LEMMA RunIsSeq ==
  ASSUME NEW a \in Nat, NEW b \in Nat, a <= b
  PROVE  /\ Run(a, b) \in Seq(Nat)
         /\ Len(Run(a, b)) = b - a
         /\ \A i \in 1 .. (b - a) : Run(a, b)[i] = a + i - 1
<1>1. b - a \in Nat
  OBVIOUS
<1>2. \A i \in 1 .. (b - a) : a + i - 1 \in Nat
  OBVIOUS
<1>3. Run(a, b) \in [1 .. (b - a) -> Nat]
  BY <1>2 DEF Run
<1>4. Run(a, b) \in Seq(Nat)
  BY <1>1, <1>3, IsASeq DEF Run
<1>5. Len(Run(a, b)) = b - a
  BY <1>1, <1>4, <1>3, LenProperties
<1>6. QED
  BY <1>4, <1>5 DEF Run

(* _deliver of the numbers a .. b-1, at least one of them, puts the first  *)
(* in the hands of a waiting read() and the rest behind ready.             *)
LEMMA DeliverEffect ==
  ASSUME Types, WaitsForAReason, NEW b \in Nat, nextSeq < b,
         Deliver(nextSeq, b)
  PROVE  /\ ready' \in Seq(Nat)
         /\ reader' \in ReaderStates
         /\ hand' \in Nat
         /\ reader' # "waiting"
         /\ \/ /\ reader = "waiting" /\ reader' = "holding"
               /\ hand' = nextSeq
               /\ Len(ready') = b - nextSeq - 1
            \/ /\ reader # "waiting" /\ reader' = reader /\ hand' = hand
               /\ Len(ready') = Len(ready) + b - nextSeq
         /\ \A i \in 1 .. Len(ready') :
              ready'[i] = IF i <= Len(ready) THEN ready[i]
                          ELSE b - Len(ready') + i - 1
<1> USE DEF Types, ReaderStates
<1>1. CASE reader = "waiting"
  <2> DEFINE r == Run(nextSeq + 1, b)
  <2>1. /\ r \in Seq(Nat)
        /\ Len(r) = b - (nextSeq + 1)
        /\ \A i \in 1 .. (b - (nextSeq + 1)) : r[i] = nextSeq + 1 + i - 1
    <3>1. nextSeq + 1 \in Nat /\ nextSeq + 1 <= b
      OBVIOUS
    <3>2. QED
      BY <3>1, RunIsSeq
  <2>2. ready = <<>> /\ Len(ready) = 0
    BY <1>1 DEF WaitsForAReason
  <2>3. ready' = r /\ reader' = "holding" /\ hand' = nextSeq
    <3>1. ready \o r = r
      BY <2>1, <2>2, ConcatEmptySeq
    <3>2. QED
      BY <1>1, <3>1 DEF Deliver
  <2> HIDE DEF r
  <2>4. \A i \in 1 .. Len(r) : r[i] = b - Len(r) + i - 1
    BY <2>1
  <2>5. \A i \in 1 .. Len(r) : ~(i <= Len(ready))
    BY <2>1, <2>2
  <2>6. \A i \in 1 .. Len(ready') :
          ready'[i] = IF i <= Len(ready) THEN ready[i]
                      ELSE b - Len(ready') + i - 1
    BY <2>3, <2>4, <2>5
  <2>7. Len(ready') = b - nextSeq - 1
    BY <2>1, <2>3
  <2>8. QED
    BY <1>1, <2>1, <2>3, <2>6, <2>7
<1>2. CASE reader # "waiting"
  <2> DEFINE r == Run(nextSeq, b)
  <2>1. /\ r \in Seq(Nat)
        /\ Len(r) = b - nextSeq
        /\ \A i \in 1 .. (b - nextSeq) : r[i] = nextSeq + i - 1
    BY RunIsSeq
  <2>2. ready' = ready \o r /\ reader' = reader /\ hand' = hand
    BY <1>2 DEF Deliver
  <2> HIDE DEF r
  <2>3. /\ ready' \in Seq(Nat)
        /\ Len(ready') = Len(ready) + Len(r)
        /\ \A i \in 1 .. Len(ready) + Len(r) :
             ready'[i] = IF i <= Len(ready) THEN ready[i] ELSE r[i - Len(ready)]
    BY <2>1, <2>2, ConcatProperties
  <2>4. \A i \in 1 .. Len(ready') :
          ready'[i] = IF i <= Len(ready) THEN ready[i]
                      ELSE b - Len(ready') + i - 1
    <3> SUFFICES ASSUME NEW i \in 1 .. Len(ready'), ~(i <= Len(ready))
                 PROVE  ready'[i] = b - Len(ready') + i - 1
      BY <2>3
    <3>1. i - Len(ready) \in 1 .. (b - nextSeq)
      BY <2>1, <2>3
    <3>2. r[i - Len(ready)] = nextSeq + (i - Len(ready)) - 1
      BY <2>1, <3>1
    <3>3. QED
      BY <2>1, <2>3, <3>2
  <2>5. QED
    BY <1>2, <2>1, <2>2, <2>3, <2>4
<1>3. QED
  BY <1>1, <1>2

LEMMA InitIInv == Init => IInv
<1> SUFFICES ASSUME Init PROVE IInv
  OBVIOUS
<1> USE DEF Init
<1>1. Types
  BY EmptySeq DEF Types, ReaderStates
<1>2. Positions
  BY DEF Positions, Held
<1>3. WaitsForAReason /\ AckedIsKept
  BY DEF WaitsForAReason, AckedIsKept
<1>4. BufferBounded
  BY FS_EmptySet, MaxBufferedAssumption DEF BufferBounded, IsFull
<1>5. QED
  BY <1>1, <1>2, <1>3, <1>4 DEF IInv

(* push of the next number: it and the run behind it in the heap leave.    *)
LEMMA PushNextIInv ==
  ASSUME IInv, NEW p \in Posts, PushNext(p)
  PROVE  IInv'
<1>1. PICK e \in (nextSeq + 1) .. (nextSeq + 1 + Cardinality(heap)) :
        /\ \E T \in SUBSET heap :
             /\ IsDrained(T, heap, nextSeq + 1, e)
             /\ heap' = heap \ T
        /\ nextSeq' = e
        /\ Deliver(nextSeq, e)
  BY DEF PushNext
<1>2. PICK T \in SUBSET heap :
        /\ IsDrained(T, heap, nextSeq + 1, e)
        /\ heap' = heap \ T
  BY <1>1
<1>3. /\ IsFiniteSet(heap) /\ Cardinality(heap) \in Nat
      /\ IsFiniteSet(heap') /\ Cardinality(heap') <= Cardinality(heap)
      /\ Cardinality(heap') \in Nat
  <2>1. IsFiniteSet(heap)
    BY PostsAssumption, FS_Subset DEF IInv, Types
  <2>2. heap' \in SUBSET heap
    BY <1>2
  <2>3. IsFiniteSet(heap') /\ Cardinality(heap') <= Cardinality(heap)
    BY <2>1, <2>2, FS_Subset
  <2>4. QED
    BY <2>1, <2>3, FS_CardinalityType
<1>4. e \in Nat /\ nextSeq < e /\ nextSeq \in Nat
  BY <1>1, <1>3 DEF IInv, Types
<1>5. /\ ready' \in Seq(Nat) /\ reader' \in ReaderStates /\ hand' \in Nat
      /\ reader' # "waiting"
      /\ \/ /\ reader = "waiting" /\ reader' = "holding"
            /\ hand' = nextSeq
            /\ Len(ready') = e - nextSeq - 1
         \/ /\ reader # "waiting" /\ reader' = reader /\ hand' = hand
            /\ Len(ready') = Len(ready) + e - nextSeq
      /\ \A i \in 1 .. Len(ready') :
           ready'[i] = IF i <= Len(ready) THEN ready[i]
                       ELSE e - Len(ready') + i - 1
  <2>1. Types /\ WaitsForAReason
    BY DEF IInv
  <2>2. QED
    BY <1>1, <1>4, <2>1, DeliverEffect
<1>6. Types'
  BY <1>1, <1>2, <1>4, <1>5 DEF IInv, Types, PushNext
<1>7. Positions'
  <2>1. out' = out /\ nextSeq' = e
    BY <1>1 DEF PushNext
  <2>2. reader = "waiting" => Len(ready) = 0
    BY DEF IInv, WaitsForAReason
  <2>3. Len(ready) \in Nat /\ Len(ready') \in Nat /\ Len(out) \in Nat
    BY <1>5 DEF IInv, Types
  <2>4. /\ Len(out) + Held + Len(ready) = nextSeq
        /\ reader = "holding" => hand = Len(out)
        /\ \A i \in 1 .. Len(ready) : ready[i] = nextSeq - Len(ready) + i - 1
    BY DEF IInv, Positions
  <2>5. Len(out') + Held' + Len(ready') = nextSeq'
    <3>1. CASE reader = "waiting"
      <4>1. Held = 0 /\ Held' = 1 /\ Len(ready') = e - nextSeq - 1
        BY <3>1, <1>5 DEF Held
      <4>2. QED
        BY <3>1, <4>1, <1>4, <2>1, <2>2, <2>3, <2>4
    <3>2. CASE reader # "waiting"
      <4>1. Held' = Held /\ Held \in Nat /\ Len(ready') = Len(ready) + e - nextSeq
        BY <3>2, <1>5 DEF Held
      <4>2. QED
        BY <4>1, <1>4, <2>1, <2>3, <2>4
    <3>3. QED
      BY <3>1, <3>2
  <2>6. (reader = "holding" => hand = Len(out))'
    <3>1. CASE reader = "waiting"
      <4>1. Held = 0 /\ hand' = nextSeq
        BY <3>1, <1>5 DEF Held
      <4>2. QED
        BY <3>1, <4>1, <1>4, <2>1, <2>2, <2>3, <2>4
    <3>2. CASE reader # "waiting"
      BY <3>2, <1>5, <2>1, <2>4
    <3>3. QED
      BY <3>1, <3>2
  <2>7. \A i \in 1 .. Len(ready') : ready'[i] = e - Len(ready') + i - 1
    <3> SUFFICES ASSUME NEW i \in 1 .. Len(ready'), i <= Len(ready)
                 PROVE  ready'[i] = e - Len(ready') + i - 1
      BY <1>5
    <3>1. ready'[i] = ready[i] /\ reader # "waiting" /\ i \in 1 .. Len(ready)
      BY <1>5, <2>2, <2>3
    <3>2. ready[i] = nextSeq - Len(ready) + i - 1
      BY <2>4, <3>1
    <3>3. Len(ready') = Len(ready) + e - nextSeq
      BY <1>5, <3>1
    <3>4. QED
      BY <1>4, <2>3, <3>1, <3>2, <3>3
  <2>8. \A i \in 1 .. Len(out') : out'[i] = i - 1
    BY <2>1 DEF IInv, Positions
  <2>9. QED
    BY <2>1, <2>5, <2>6, <2>7, <2>8 DEF Positions
<1>8. WaitsForAReason'
  BY <1>5 DEF WaitsForAReason
<1>9. BufferBounded'
  BY <1>3, MaxBufferedAssumption DEF IInv, BufferBounded
<1>10. AckedIsKept'
  <2> SUFFICES ASSUME NEW q \in acked'
               PROVE  SeqOf[q] < e \/ q \in heap'
    BY <1>1 DEF AckedIsKept
  <2>1. ~closed /\ acked' = acked \cup {p} /\ SeqOf[p] = nextSeq
    BY DEF PushNext
  <2>2. CASE q = p
    BY <1>4, <2>1, <2>2
  <2>3. CASE q \in acked
    <3>1. SeqOf[q] \in Nat
      BY <2>3, PostsAssumption DEF IInv, Types
    <3>2. SeqOf[q] < nextSeq \/ q \in heap
      BY <2>1, <2>3 DEF IInv, AckedIsKept
    <3>3. q \in T => SeqOf[q] \in (nextSeq + 1) .. (e - 1)
      BY <1>2 DEF IsDrained
    <3>4. QED
      BY <1>2, <1>4, <3>1, <3>2, <3>3
  <2>4. QED
    BY <2>1, <2>2, <2>3
<1>11. QED
  BY <1>6, <1>7, <1>8, <1>9, <1>10 DEF IInv

(* The other outcomes of push, and close().                                *)
LEMMA PushOtherIInv ==
  ASSUME IInv, NEW p \in Posts,
         PushClosed(p) \/ PushOld(p) \/ PushEarly(p) \/ PushOverflow(p)
  PROVE  IInv'
<1> USE DEF IInv
<1>1. IsFiniteSet(heap)
  BY PostsAssumption, FS_Subset DEF Types
<1>2. CASE PushClosed(p)
  BY <1>2 DEF PushClosed, Types, Positions, Held, WaitsForAReason,
              BufferBounded, AckedIsKept
<1>3. CASE PushOld(p)
  BY <1>3 DEF PushOld, Types, Positions, Held, WaitsForAReason,
              BufferBounded, AckedIsKept
<1>4. CASE PushEarly(p)
  <2> USE <1>4 DEF PushEarly
  <2>1. Types' /\ Positions' /\ WaitsForAReason' /\ AckedIsKept'
    BY DEF Types, Positions, Held, WaitsForAReason, AckedIsKept
  <2>2. Cardinality(heap) \in Nat
    BY <1>1, FS_CardinalityType
  <2>3. \/ Cardinality(heap') = Cardinality(heap)
        \/ Cardinality(heap') = Cardinality(heap) + 1
    BY <1>1, FS_AddElement
  <2>4. BufferBounded'
    BY <2>2, <2>3, MaxBufferedAssumption DEF BufferBounded, IsFull
  <2>5. QED
    BY <2>1, <2>4
<1>5. CASE PushOverflow(p)
  <2> USE <1>5 DEF PushOverflow, CloseQueue
  <2>1. Types' /\ WaitsForAReason' /\ AckedIsKept'
    BY DEF Types, ReaderStates, WaitsForAReason, AckedIsKept
  <2>2. Positions'
    BY DEF Types, Positions, Held
  <2>3. BufferBounded'
    BY FS_EmptySet, MaxBufferedAssumption DEF BufferBounded, IsFull
  <2>4. QED
    BY <2>1, <2>2, <2>3
<1>6. QED
  BY <1>2, <1>3, <1>4, <1>5

(* The consume loop and the session's close.                               *)
LEMMA ReaderIInv ==
  ASSUME IInv, Consume \/ CloseSession
  PROVE  IInv'
<1>1. Types /\ Positions /\ WaitsForAReason /\ BufferBounded /\ AckedIsKept
  BY DEF IInv
<1>2. CASE ReadReady
  <2> USE <1>2 DEF ReadReady
  <2>1. /\ Head(ready) = ready[1]
        /\ Tail(ready) \in Seq(Nat)
        /\ Len(Tail(ready)) = Len(ready) - 1
        /\ \A i \in 1 .. Len(Tail(ready)) : Tail(ready)[i] = ready[i + 1]
        /\ Len(ready) \in Nat \ {0}
        /\ Head(ready) \in Nat
    <3>1. ready \in Seq(Nat) /\ ready # <<>>
      BY <1>1 DEF Types
    <3>2. QED
      BY <3>1, HeadTailProperties, EmptySeq
  <2>2. Types'
    BY <1>1, <2>1 DEF Types, ReaderStates
  <2>3. WaitsForAReason' /\ BufferBounded' /\ AckedIsKept'
    BY <1>1 DEF WaitsForAReason, BufferBounded, AckedIsKept
  <2>4. Positions'
    <3>1. Held = 0 /\ Held' = 1 /\ Len(out) \in Nat /\ nextSeq \in Nat
      BY <1>1 DEF Held, Types
    <3>2. ready[1] = nextSeq - Len(ready)
      BY <1>1, <2>1, <3>1 DEF Positions
    <3>3. hand' = Len(out)
      BY <1>1, <2>1, <3>1, <3>2 DEF Positions
    <3>4. \A i \in 1 .. Len(ready') : ready'[i] = nextSeq - Len(ready') + i - 1
      <4> SUFFICES ASSUME NEW i \in 1 .. Len(Tail(ready))
                   PROVE  Tail(ready)[i] = nextSeq - Len(Tail(ready)) + i - 1
        OBVIOUS
      <4>1. i + 1 \in 1 .. Len(ready)
        BY <2>1
      <4>2. ready[i + 1] = nextSeq - Len(ready) + (i + 1) - 1
        BY <1>1, <4>1 DEF Positions
      <4>3. QED
        BY <2>1, <3>1, <4>2
    <3>5. Len(out') + Held' + Len(ready') = nextSeq'
      BY <1>1, <2>1, <3>1 DEF Positions
    <3>6. QED
      BY <1>1, <3>3, <3>4, <3>5 DEF Positions
  <2>5. QED
    BY <2>2, <2>3, <2>4 DEF IInv
<1>3. CASE ReadWait
  BY <1>1, <1>3 DEF ReadWait, queueVars, IInv, Types, ReaderStates, Positions,
                    Held, WaitsForAReason, BufferBounded, AckedIsKept
<1>4. CASE LoopEnds
  BY <1>1, <1>4 DEF LoopEnds, queueVars, IInv, Types, ReaderStates, Positions,
                    Held, WaitsForAReason, BufferBounded, AckedIsKept
<1>5. CASE HandleFrames
  <2> USE <1>5 DEF HandleFrames, queueVars
  <2>1. /\ out' \in Seq(Nat)
        /\ Len(out') = Len(out) + 1
        /\ \A i \in 1 .. Len(out) : out'[i] = out[i]
        /\ out'[Len(out) + 1] = hand
        /\ Len(out) \in Nat
    <3>1. out \in Seq(Nat) /\ hand \in Nat
      BY <1>1 DEF Types
    <3>2. QED
      BY <3>1, AppendProperties, LenProperties
  <2>2. Types'
    BY <1>1, <2>1 DEF Types, ReaderStates
  <2>3. WaitsForAReason' /\ BufferBounded' /\ AckedIsKept'
    BY <1>1 DEF WaitsForAReason, BufferBounded, AckedIsKept
  <2>4. Positions'
    <3>1. /\ Len(out) + 1 + Len(ready) = nextSeq
          /\ hand = Len(out)
          /\ Len(ready) \in Nat
      BY <1>1 DEF Positions, Held, Types
    <3>2. \A i \in 1 .. Len(out') : out'[i] = i - 1
      BY <1>1, <2>1, <3>1 DEF Positions
    <3>3. QED
      BY <1>1, <2>1, <3>1, <3>2 DEF Positions, Held
  <2>5. QED
    BY <2>2, <2>3, <2>4 DEF IInv
<1>6. CASE CloseSession
  <2> USE <1>6 DEF CloseSession, CloseQueue
  <2>1. Types' /\ WaitsForAReason' /\ AckedIsKept'
    BY <1>1 DEF Types, ReaderStates, WaitsForAReason, AckedIsKept
  <2>2. Positions'
    BY <1>1 DEF Types, Positions, Held
  <2>3. BufferBounded'
    BY FS_EmptySet, MaxBufferedAssumption DEF BufferBounded, IsFull
  <2>4. QED
    BY <2>1, <2>2, <2>3 DEF IInv
<1>7. QED
  BY <1>2, <1>3, <1>4, <1>5, <1>6 DEF Consume

LEMMA NextIInv == IInv /\ [Next]_vars => IInv'
<1> SUFFICES ASSUME IInv, [Next]_vars PROVE IInv'
  OBVIOUS
<1>1. CASE \E p \in Posts : Push(p)
  <2>1. PICK p \in Posts : Push(p)
    BY <1>1
  <2>2. QED
    BY <2>1, PushNextIInv, PushOtherIInv DEF Push
<1>2. CASE Consume \/ CloseSession
  BY <1>2, ReaderIInv
<1>3. CASE UNCHANGED vars
  BY <1>3 DEF vars, IInv, Types, Positions, Held, WaitsForAReason,
              BufferBounded, AckedIsKept
<1>4. QED
  BY <1>1, <1>2, <1>3 DEF Next

LEMMA SpecIInv == Spec => []IInv
  BY InitIInv, NextIInv, PTL DEF Spec

(* The queue keeps the types of its fields (uploadQueue.js 19-32), and its *)
(* heap stays within the limit (59).                                       *)
THEOREM TypeCorrect == Spec => []TypeOK
<1>1. IInv => TypeOK
  BY DEF IInv, TypeOK
<1>2. QED
  BY <1>1, SpecIInv, PTL

(* A POST answered 200 is delivered or still buffered while the queue is   *)
(* open, and read() is suspended only when there is nothing to read.       *)
THEOREM AcknowledgedIsKept == Spec => []NothingForgotten
<1>1. IInv => NothingForgotten
  BY DEF IInv, NothingForgotten
<1>2. QED
  BY <1>1, SpecIInv, PTL

(* Counting on from where another sequence of numbers stops.               *)
LEMMA CountOn ==
  ASSUME NEW s \in Seq(Nat), NEW t \in Seq(Nat),
         \A i \in 1 .. Len(s) : s[i] = i - 1,
         \A i \in 1 .. Len(t) : t[i] = Len(s) + i - 1
  PROVE  /\ s \o t \in Seq(Nat)
         /\ Len(s \o t) = Len(s) + Len(t)
         /\ \A i \in 1 .. Len(s \o t) : (s \o t)[i] = i - 1
<1>1. /\ s \o t \in Seq(Nat)
      /\ Len(s \o t) = Len(s) + Len(t)
      /\ \A i \in 1 .. Len(s) + Len(t) :
           (s \o t)[i] = IF i <= Len(s) THEN s[i] ELSE t[i - Len(s)]
  BY ConcatProperties
<1>2. Len(s) \in Nat /\ Len(t) \in Nat
  OBVIOUS
<1>3. ASSUME NEW i \in 1 .. (Len(s) + Len(t))
      PROVE  (s \o t)[i] = i - 1
  <2>1. CASE i <= Len(s)
    <3>1. i \in 1 .. Len(s)
      BY <2>1, <1>2
    <3>2. QED
      BY <2>1, <3>1, <1>1
  <2>2. CASE ~(i <= Len(s))
    <3>1. i - Len(s) \in 1 .. Len(t)
      BY <2>2, <1>2
    <3>2. t[i - Len(s)] = Len(s) + (i - Len(s)) - 1
      BY <3>1
    <3>3. (s \o t)[i] = t[i - Len(s)]
      BY <2>2, <1>1
    <3>4. QED
      BY <3>2, <3>3, <1>2
  <2>3. QED
    BY <2>1, <2>2
<1>4. QED
  BY <1>1, <1>3

(* What is processed, held and ready is exactly 0 .. nextSeq-1 in order.   *)
THEOREM DeliveredInOrderOnce == Spec => []InOrderOnce
<1>1. IInv => InOrderOnce
  <2> SUFFICES ASSUME IInv PROVE InOrderOnce
    OBVIOUS
  <2>1. /\ out \in Seq(Nat) /\ ready \in Seq(Nat) /\ hand \in Nat
        /\ nextSeq \in Nat /\ Len(out) \in Nat /\ Len(ready) \in Nat
    BY DEF IInv, Types
  <2>2. /\ InHand \in Seq(Nat)
        /\ Len(InHand) = Held
        /\ Held \in Nat
        /\ \A i \in 1 .. Len(InHand) : InHand[i] = Len(out) + i - 1
    <3>1. CASE reader = "holding"
      <4>1. InHand = <<hand>> /\ Held = 1 /\ hand = Len(out)
        BY <3>1 DEF InHand, Held, IInv, Positions
      <4>2. QED
        BY <4>1, <2>1
    <3>2. CASE reader # "holding"
      BY <3>2, EmptySeq DEF InHand, Held
    <3>3. QED
      BY <3>1, <3>2
  <2>3. /\ out \o InHand \in Seq(Nat)
        /\ Len(out \o InHand) = Len(out) + Held
        /\ \A i \in 1 .. Len(out \o InHand) : (out \o InHand)[i] = i - 1
    <3>1. \A i \in 1 .. Len(out) : out[i] = i - 1
      BY DEF IInv, Positions
    <3>2. QED
      BY <3>1, <2>1, <2>2, CountOn
  <2>4. /\ Pipeline \in Seq(Nat)
        /\ Len(Pipeline) = nextSeq
        /\ \A i \in 1 .. Len(Pipeline) : Pipeline[i] = i - 1
    <3>1. Len(out) + Held + Len(ready) = nextSeq
      BY DEF IInv, Positions
    <3>2. \A i \in 1 .. Len(ready) : ready[i] = Len(out \o InHand) + i - 1
      <4>1. \A i \in 1 .. Len(ready) : ready[i] = nextSeq - Len(ready) + i - 1
        BY DEF IInv, Positions
      <4>2. nextSeq - Len(ready) = Len(out \o InHand)
        <5>1. Len(out \o InHand) = Len(out) + Held
          BY <2>3
        <5>2. QED
          BY <5>1, <3>1, <2>1, <2>2
      <4>3. QED
        BY <4>1, <4>2
    <3>3. /\ (out \o InHand) \o ready \in Seq(Nat)
          /\ Len((out \o InHand) \o ready) = Len(out \o InHand) + Len(ready)
          /\ \A i \in 1 .. Len((out \o InHand) \o ready) :
               ((out \o InHand) \o ready)[i] = i - 1
      BY <3>2, <2>1, <2>3, CountOn
    <3>4. QED
      BY <3>1, <3>3, <2>1, <2>2, <2>3 DEF Pipeline
  <2>5. /\ Run(0, nextSeq) \in Seq(Nat)
        /\ Len(Run(0, nextSeq)) = nextSeq
        /\ \A i \in 1 .. nextSeq : Run(0, nextSeq)[i] = i - 1
    <3>1. 0 \in Nat /\ 0 <= nextSeq /\ nextSeq - 0 = nextSeq
      BY <2>1
    <3>2. /\ Run(0, nextSeq) \in Seq(Nat)
          /\ Len(Run(0, nextSeq)) = nextSeq - 0
          /\ \A i \in 1 .. (nextSeq - 0) : Run(0, nextSeq)[i] = 0 + i - 1
      BY <3>1, <2>1, RunIsSeq
    <3>3. QED
      BY <3>1, <3>2
  <2>6. Pipeline = Run(0, nextSeq)
    BY <2>4, <2>5, SeqEqual
  <2>7. QED
    BY <2>6 DEF InOrderOnce
<1>2. QED
  BY <1>1, SpecIInv, PTL

------------------------------------------------------------------------------
(* Implementation of UploadStream *)

(* Every number delivered, and every post buffered, was acknowledged.      *)
Covered ==
  /\ heap \subseteq acked
  /\ \A n \in Nat : n < nextSeq => \E p \in acked : SeqOf[p] = n

LEMMA CoveredStep ==
  ASSUME IInv, Covered, [Next]_vars
  PROVE  Covered'
<1> USE DEF Covered
<1>1. Types
  BY DEF IInv
<1>2. ASSUME NEW p \in Posts, PushNext(p)
      PROVE  Covered'
  <2>1. PICK e \in (nextSeq + 1) .. (nextSeq + 1 + Cardinality(heap)),
             T \in SUBSET heap :
          /\ IsDrained(T, heap, nextSeq + 1, e)
          /\ heap' = heap \ T
          /\ nextSeq' = e
    BY <1>2 DEF PushNext
  <2>2. acked' = acked \cup {p} /\ SeqOf[p] = nextSeq
    BY <1>2 DEF PushNext
  <2>3. ASSUME NEW n \in Nat, n < e, n > nextSeq
        PROVE  \E q \in acked : SeqOf[q] = n
    <3>1. n \in (nextSeq + 1) .. (e - 1)
      <4>1. nextSeq \in Nat /\ IsFiniteSet(heap)
        BY <1>1, PostsAssumption, FS_Subset DEF Types
      <4>2. e \in Int
        BY <4>1, FS_CardinalityType
      <4>3. QED
        BY <2>3, <4>1, <4>2
    <3>2. Cardinality(CarriedBy(T, n)) = 1
      BY <2>1, <3>1 DEF IsDrained
    <3>3. CarriedBy(T, n) # {}
      BY <3>2, FS_EmptySet
    <3>4. QED
      BY <3>3 DEF CarriedBy
  <2>4. ASSUME NEW n \in Nat, n < e
        PROVE  \E q \in acked' : SeqOf[q] = n
    <3>1. n < nextSeq \/ n = nextSeq \/ n > nextSeq
      BY <1>1 DEF Types
    <3>2. QED
      BY <2>2, <2>3, <2>4, <3>1
  <2>5. heap' \subseteq acked'
    BY <2>1, <2>2
  <2>6. QED
    BY <2>1, <2>4, <2>5
<1>3. ASSUME NEW p \in Posts,
             PushClosed(p) \/ PushOld(p) \/ PushEarly(p) \/ PushOverflow(p)
      PROVE  Covered'
  BY <1>3 DEF PushClosed, PushOld, PushEarly, PushOverflow, CloseQueue
<1>4. CASE Consume \/ CloseSession
  BY <1>4 DEF Consume, CloseSession, CloseQueue, ReadReady, ReadWait, LoopEnds,
              HandleFrames, queueVars
<1>5. CASE UNCHANGED vars
  BY <1>5 DEF vars
<1>6. QED
  BY <1>2, <1>3, <1>4, <1>5 DEF Next, Push

LEMMA SpecCovered == Spec => []Covered
<1>1. Init => Covered
  BY DEF Init, Covered
<1>2. IInv /\ Covered /\ [Next]_vars => Covered'
  BY CoveredStep
<1>3. QED
  BY <1>1, <1>2, SpecIInv, PTL DEF Spec

(* One step of the queue is a step of the stream or leaves it alone.       *)
LEMMA StepSimulated ==
  ASSUME IInv, Covered, [Next]_vars
  PROVE  [Stream!Next]_Stream!vars
<1> DEFINE accepted == {SeqOf[p] : p \in acked}
           offered == reader = "holding"
<1>1. Types /\ Positions /\ WaitsForAReason
  BY DEF IInv
<1>2. /\ Len(out) \in Nat /\ nextSeq \in Nat /\ Len(ready) \in Nat
      /\ Held \in Nat
  BY <1>1 DEF Types, Held
<1>3. ASSUME NEW p \in Posts, acked' = acked \cup {p}
      PROVE  accepted' = accepted \cup {SeqOf[p]} /\ SeqOf[p] \in Numbers
  BY <1>3 DEF Numbers
<1>4. ASSUME NEW p \in Posts, PushNext(p)
      PROVE  Stream!Accept
  <2>1. ~closed /\ acked' = acked \cup {p} /\ SeqOf[p] = nextSeq
        /\ UNCHANGED <<closed, out>>
    BY <1>4 DEF PushNext
  <2>2. Stream!Offer(accepted') \/ UNCHANGED offered
    <3>1. PICK e : Deliver(nextSeq, e)
      BY <1>4 DEF PushNext
    <3>2. CASE reader = "waiting"
      <4>1. reader' = "holding"
        BY <3>1, <3>2 DEF Deliver
      <4>2. Len(ready) = 0 /\ Held = 0
        BY <3>2, <1>1 DEF WaitsForAReason, Held
      <4>3. Len(out) = nextSeq
        BY <4>2, <1>1, <1>2 DEF Positions
      <4>4. Len(out) \in accepted'
        BY <4>3, <2>1
      <4>5. QED
        BY <3>2, <4>1, <4>4, <2>1 DEF Stream!Offer
    <3>3. CASE reader # "waiting"
      BY <3>1, <3>3 DEF Deliver
    <3>4. QED
      BY <3>2, <3>3
  <2>3. QED
    BY <2>1, <2>2, <1>3 DEF Stream!Accept
<1>5. ASSUME NEW p \in Posts, PushOld(p) \/ PushEarly(p)
      PROVE  Stream!Accept
  <2>1. ~closed /\ acked' = acked \cup {p} /\ UNCHANGED <<closed, out, reader>>
    BY <1>5 DEF PushOld, PushEarly
  <2>2. QED
    BY <2>1, <1>3 DEF Stream!Accept
<1>6. ASSUME NEW p \in Posts, PushOverflow(p)
      PROVE  Stream!Close
  BY <1>6 DEF PushOverflow, CloseQueue, Stream!Close
<1>7. ASSUME CloseSession
      PROVE  Stream!Close
  BY <1>7 DEF CloseSession, CloseQueue, Stream!Close
<1>8. CASE ReadReady
  <2>1. Len(ready) # 0 /\ Held = 0
    BY <1>1, <1>8, EmptySeq DEF ReadReady, Types, Held
  <2>2. Len(out) < nextSeq
    BY <2>1, <1>1, <1>2 DEF Positions
  <2>3. Len(out) \in accepted
    BY <2>2, <1>2 DEF Covered
  <2>4. Stream!Give
    BY <1>8, <2>3 DEF ReadReady, Stream!Give, Stream!Offer
  <2>5. QED
    BY <2>4 DEF Stream!Next
<1>9. CASE HandleFrames
  <2>1. hand = Len(out)
    BY <1>1, <1>9 DEF HandleFrames, Positions
  <2>2. Stream!Consume
    BY <1>9, <2>1 DEF HandleFrames, queueVars, Stream!Consume
  <2>3. QED
    BY <2>2 DEF Stream!Next
<1>10. ASSUME UNCHANGED <<acked, closed, out>>, UNCHANGED offered
       PROVE  UNCHANGED Stream!vars
  BY <1>10 DEF Stream!vars
<1>11. CASE ReadWait \/ LoopEnds \/ (\E p \in Posts : PushClosed(p)) \/ UNCHANGED vars
  BY <1>10, <1>11 DEF ReadWait, LoopEnds, PushClosed, queueVars, vars
<1>12. CASE \E p \in Posts : Push(p)
  <2>1. PICK p \in Posts : Push(p)
    BY <1>12
  <2>2. CASE PushClosed(p)
    BY <2>2, <1>11
  <2>3. CASE ~PushClosed(p)
    <3>1. Stream!Accept \/ Stream!Close
      BY <2>1, <2>3, <1>4, <1>5, <1>6 DEF Push
    <3>2. QED
      BY <3>1 DEF Stream!Next
  <2>4. QED
    BY <2>2, <2>3
<1>13. CASE CloseSession
  BY <1>7, <1>13 DEF Stream!Next
<1>14. QED
  BY <1>8, <1>9, <1>11, <1>12, <1>13 DEF Next, Consume

(* The queue and its loop implement the numbered stream.                   *)
THEOREM ImplementsStream == Spec => StreamSpec
<1>1. Init => Stream!Init
  BY DEF Init, Stream!Init
<1>2. IInv /\ Covered /\ [Next]_vars => [Stream!Next]_Stream!vars
  BY StepSimulated
<1>3. QED
  BY <1>1, <1>2, SpecIInv, SpecCovered, PTL DEF Spec, StreamSpec, Stream!Spec

------------------------------------------------------------------------------
(* Without retries the drain loop leaves nothing behind *)

HeapArrived == heap \subseteq arrived

AllEarly == \A p \in heap : SeqOf[p] > nextSeq

EarlyInv == HeapArrived /\ (NoneRepeated => AllEarly)

LEMMA HeapArrivedStep == HeapArrived /\ [Next]_vars => HeapArrived' /\ arrived \subseteq arrived'
<1> SUFFICES ASSUME HeapArrived, [Next]_vars
             PROVE  HeapArrived' /\ arrived \subseteq arrived'
  OBVIOUS
<1>1. ASSUME NEW p \in Posts, Push(p)
      PROVE  HeapArrived' /\ arrived \subseteq arrived'
  BY <1>1 DEF HeapArrived, Push, PushClosed, PushOld, PushNext, PushEarly,
              PushOverflow, CloseQueue
<1>2. CASE Consume \/ CloseSession
  BY <1>2 DEF HeapArrived, Consume, CloseSession, CloseQueue, ReadReady,
              ReadWait, LoopEnds, HandleFrames, queueVars
<1>3. CASE UNCHANGED vars
  BY <1>3 DEF vars, HeapArrived
<1>4. QED
  BY <1>1, <1>2, <1>3 DEF Next

LEMMA AllEarlyStep ==
  ASSUME NoneRepeated, HeapArrived, IInv, AllEarly, [Next]_vars
  PROVE  AllEarly'
<1> USE DEF AllEarly
<1>1. Types
  BY DEF IInv
<1>2. ASSUME NEW p \in Posts, PushNext(p)
      PROVE  AllEarly'
  <2>1. PICK e \in (nextSeq + 1) .. (nextSeq + 1 + Cardinality(heap)),
             T \in SUBSET heap :
          /\ DrainsTo(heap, nextSeq + 1, e)
          /\ IsDrained(T, heap, nextSeq + 1, e)
          /\ heap' = heap \ T
          /\ nextSeq' = e
    BY <1>2 DEF PushNext
  <2>2. nextSeq \in Nat /\ e \in Nat /\ e > nextSeq
    <3>1. nextSeq \in Nat /\ IsFiniteSet(heap)
      BY <1>1, PostsAssumption, FS_Subset DEF Types
    <3>2. Cardinality(heap) \in Nat
      BY <3>1, FS_CardinalityType
    <3>3. QED
      BY <2>1, <3>1, <3>2
  <2>3. \A q \in heap : SeqOf[q] \in Nat /\ q \in Posts
    BY <1>1, PostsAssumption DEF Types
  <2>4. \A m : ~(Cardinality(CarriedBy(heap, m)) > 1)
    <3> SUFFICES ASSUME NEW m PROVE ~(Cardinality(CarriedBy(heap, m)) > 1)
      OBVIOUS
    <3>1. CASE CarriedBy(heap, m) = {}
      BY <3>1, FS_EmptySet
    <3>2. CASE CarriedBy(heap, m) # {}
      <4>1. PICK q \in heap : SeqOf[q] = m
        BY <3>2 DEF CarriedBy
      <4>2. CarriedBy(heap, m) = {q}
        BY <4>1, <2>3 DEF CarriedBy, HeapArrived, NoneRepeated
      <4>3. Cardinality({q}) = 1
        BY FS_Singleton
      <4>4. QED
        BY <4>2, <4>3
    <3>3. QED
      BY <3>1, <3>2
  <2>5. \A q \in heap : ~(SeqOf[q] < nextSeq + 1)
    BY <2>2, <2>3
  <2>6. CarriedBy(heap, e) = {}
    BY <2>1, <2>4, <2>5 DEF DrainsTo, DrainStops
  <2>7. ASSUME NEW q \in heap', ~(SeqOf[q] > e)
        PROVE  FALSE
    <3>1. q \in heap /\ q \notin T
      BY <2>1
    <3>2. SeqOf[q] # e
      BY <2>6, <3>1 DEF CarriedBy
    <3>3. SeqOf[q] \in (nextSeq + 1) .. (e - 1)
      BY <2>2, <2>3, <2>7, <3>1, <3>2
    <3>4. Cardinality(CarriedBy(T, SeqOf[q])) = 1
      BY <2>1, <3>3 DEF IsDrained
    <3>5. CarriedBy(T, SeqOf[q]) # {}
      BY <3>4, FS_EmptySet
    <3>6. PICK r \in T : SeqOf[r] = SeqOf[q]
      BY <3>5 DEF CarriedBy
    <3>7. r = q
      BY <3>1, <3>6, <2>1, <2>3 DEF HeapArrived, NoneRepeated
    <3>8. QED
      BY <3>1, <3>7
  <2>8. QED
    BY <2>1, <2>7
<1>3. ASSUME NEW p \in Posts,
             PushClosed(p) \/ PushOld(p) \/ PushEarly(p) \/ PushOverflow(p)
      PROVE  AllEarly'
  BY <1>3 DEF PushClosed, PushOld, PushEarly, PushOverflow, CloseQueue
<1>4. CASE Consume \/ CloseSession
  BY <1>4 DEF Consume, CloseSession, CloseQueue, ReadReady, ReadWait, LoopEnds,
              HandleFrames, queueVars
<1>5. CASE UNCHANGED vars
  BY <1>5 DEF vars
<1>6. QED
  BY <1>2, <1>3, <1>4, <1>5 DEF Next, Push

LEMMA EarlyInvStep == IInv /\ EarlyInv /\ [Next]_vars => EarlyInv'
<1> SUFFICES ASSUME IInv, EarlyInv, [Next]_vars PROVE EarlyInv'
  OBVIOUS
<1>1. HeapArrived' /\ arrived \subseteq arrived'
  BY HeapArrivedStep DEF EarlyInv
<1>2. ASSUME NoneRepeated' PROVE AllEarly'
  <2>1. NoneRepeated
    BY <1>1, <1>2 DEF NoneRepeated
  <2>2. QED
    BY <2>1, AllEarlyStep DEF EarlyInv
<1>3. QED
  BY <1>1, <1>2 DEF EarlyInv

(* As long as no number came twice, a frame never stays in the heap once   *)
(* it is the next to deliver (push, _drainHeap).                           *)
THEOREM NothingStranded == Spec => []OnlyRepeatsStrand
<1>1. Init => EarlyInv
  BY DEF Init, EarlyInv, HeapArrived, AllEarly
<1>2. IInv /\ EarlyInv => OnlyRepeatsStrand
  BY PostsAssumption DEF IInv, Types, EarlyInv, AllEarly, OnlyRepeatsStrand,
                         NextIsNotBuffered
<1>3. QED
  BY <1>1, <1>2, EarlyInvStep, SpecIInv, PTL DEF Spec
==============================================================================
