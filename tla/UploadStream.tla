---------------------------- MODULE UploadStream ----------------------------
(***************************************************************************)
(* What the upload path of one xhttp session promises to the code behind   *)
(* it: a byte stream cut into numbered payloads.  Payload n is handed over *)
(* once, after payloads 0 .. n-1, and only if some POST carrying number n  *)
(* was accepted.  Once the stream is closed nothing new is offered; a      *)
(* payload already offered to the reader may still be consumed.            *)
(***************************************************************************)
EXTENDS Naturals, Sequences

CONSTANT Numbers   \* the numbers a POST may carry

VARIABLES
  accepted,   \* numbers of the POSTs answered with success
  offered,    \* TRUE while the reader holds a payload it has not consumed
  out,        \* the numbers consumed so far, in order
  closed

vars == <<accepted, offered, out, closed>>

Init ==
  /\ accepted = {}
  /\ offered = FALSE
  /\ out = <<>>
  /\ closed = FALSE

\* The payload the reader is given next is the one numbered Len(out).
Offer(acc) ==
  /\ ~offered /\ ~closed
  /\ Len(out) \in acc
  /\ offered' = TRUE

Accept ==
  /\ ~closed
  /\ \E n \in Numbers : accepted' = accepted \cup {n}
  /\ Offer(accepted') \/ UNCHANGED offered
  /\ UNCHANGED <<out, closed>>

Give ==
  /\ Offer(accepted)
  /\ UNCHANGED <<accepted, out, closed>>

Consume ==
  /\ offered
  /\ out' = Append(out, Len(out))
  /\ offered' = FALSE
  /\ UNCHANGED <<accepted, closed>>

Close ==
  /\ closed' = TRUE
  /\ UNCHANGED <<accepted, offered, out>>

Next == Accept \/ Give \/ Consume \/ Close

Spec == Init /\ [][Next]_vars
=============================================================================
