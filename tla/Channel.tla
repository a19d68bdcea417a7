------------------------------- MODULE Channel -------------------------------
(***************************************************************************)
(* What one direction of a connection promises to the two programs: the    *)
(* messages that were accepted for sending arrive one by one in that       *)
(* order, and as long as nothing has failed and neither side has left, the *)
(* next one arrives at last.                                               *)
(***************************************************************************)
EXTENDS Integers, Sequences

CONSTANT Messages

VARIABLES sent, arrived, healthy

vars == <<sent, arrived, healthy>>

Init == sent = <<>> /\ arrived = <<>> /\ healthy = TRUE

Send(m) == sent' = Append(sent, m) /\ UNCHANGED <<arrived, healthy>>

Arrive ==
    /\ Len(arrived) < Len(sent)
    /\ arrived' = Append(arrived, sent[Len(arrived) + 1])
    /\ UNCHANGED <<sent, healthy>>

Fail == healthy' = FALSE /\ UNCHANGED <<sent, arrived>>

Next == (\E m \in Messages : Send(m)) \/ Arrive \/ Fail

\* In that order, and nothing that was not sent.
SafeSpec == Init /\ [][Next]_vars

\* Arriving is only promised while the connection is healthy.
Spec == SafeSpec /\ WF_vars(healthy /\ Arrive)
=============================================================================
