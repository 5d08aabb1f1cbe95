------------------------------ MODULE LossyStream ------------------------------
(***************************************************************************)
(* What a client of an event stream may rely on: it receives the events    *)
(* the stream holds, in the order it took them, each once, and the end of  *)
(* the stream only when it has received all of them.  Events are lost only *)
(* when another one comes: a stream that is full turns the new one away, or*)
(* gives up one it still holds.  Which of the two is its own affair.       *)
(***************************************************************************)
EXTENDS Integers, Sequences

CONSTANT Events

VARIABLES accepted,     \* the events the stream took and did not give up
          received,     \* the events the client got
          sealed,       \* no event is accepted any more
          client        \* "reading", "done" (it saw the end) or "gone"

vars == <<accepted, received, sealed, client>>

Init ==
    /\ accepted = <<>>
    /\ received = <<>>
    /\ sealed = FALSE
    /\ client = "reading"

Accept(e) ==
    /\ ~sealed
    /\ accepted' = Append(accepted, e)
    /\ UNCHANGED <<received, sealed, client>>

Without(s, i) == SubSeq(s, 1, i - 1) \o SubSeq(s, i + 1, Len(s))

\* An event that the client has not received makes room for the new one.
Displace(e) ==
    /\ ~sealed
    /\ \E i \in Len(received) + 1 .. Len(accepted) :
         accepted' = Append(Without(accepted, i), e)
    /\ UNCHANGED <<received, sealed, client>>

Seal ==
    /\ ~sealed
    /\ sealed' = TRUE
    /\ UNCHANGED <<accepted, received, client>>

Receive ==
    /\ client = "reading"
    /\ Len(received) < Len(accepted)
    /\ received' = Append(received, accepted[Len(received) + 1])
    /\ UNCHANGED <<accepted, sealed, client>>

End ==
    /\ client = "reading"
    /\ sealed
    /\ received = accepted
    /\ client' = "done"
    /\ UNCHANGED <<accepted, received, sealed>>

Leave ==
    /\ client = "reading"
    /\ client' = "gone"
    /\ UNCHANGED <<accepted, received, sealed>>

Next ==
    \/ \E e \in Events : Accept(e) \/ Displace(e)
    \/ Seal \/ Receive \/ End \/ Leave

Spec == Init /\ [][Next]_vars

================================================================================
