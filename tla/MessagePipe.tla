---------------------------- MODULE MessagePipe ----------------------------
(***************************************************************************)
(* What the driver promises for the messages to one open descriptor: a     *)
(* first-in first-out pipe.  A message is accepted once or dropped, and    *)
(* the reader receives the accepted ones in their order, each once; what   *)
(* it has not received may be discarded only when the pipe has ended.      *)
(***************************************************************************)
EXTENDS Naturals, Sequences

CONSTANT Messages

VARIABLES
    queue,   \* accepted, not received
    got,     \* received by the reader
    ended    \* the descriptor was deactivated

pipeVars == <<queue, got, ended>>

Init == queue = <<>> /\ got = <<>> /\ ended = FALSE

Accept(m) == queue' = Append(queue, m) /\ UNCHANGED <<got, ended>>

\* A read returns as many messages as fit.
Receive(k) ==
    /\ got' = got \o SubSeq(queue, 1, k)
    /\ queue' = SubSeq(queue, k + 1, Len(queue))
    /\ UNCHANGED ended

\* A reader that waits at an empty queue is handed the message.
Hand(m) == queue = <<>> /\ got' = Append(got, m) /\ UNCHANGED <<queue, ended>>

End == ended' = TRUE /\ UNCHANGED <<queue, got>>

Discard == ended /\ queue' = <<>> /\ UNCHANGED <<got, ended>>

Next ==
    \/ \E m \in Messages : Accept(m) \/ Hand(m)
    \/ \E k \in 1..Len(queue) : Receive(k)
    \/ End
    \/ Discard

Spec == Init /\ [][Next]_pipeVars
=============================================================================
