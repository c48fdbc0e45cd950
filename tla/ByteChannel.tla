---------------------------- MODULE ByteChannel ----------------------------
(***************************************************************************)
(* What a pipe between two threads promises: bytes come out in the order   *)
(* in which they went in, none is lost, repeated or made up, never more    *)
(* than Capacity are under way, and nothing goes in once it is closed.     *)
(* Bytes are numbered in the order in which they are sent.                 *)
(***************************************************************************)
EXTENDS Naturals, Sequences

CONSTANT Capacity

VARIABLES sent, received, closed

channelVars == <<sent, received, closed>>

Init == sent = 0 /\ received = <<>> /\ closed = FALSE

UnderWay == sent - Len(received)

Send(n) ==
  /\ ~ closed /\ UnderWay + n <= Capacity
  /\ sent' = sent + n
  /\ UNCHANGED <<received, closed>>

Receive(n) ==
  /\ n <= UnderWay
  /\ received' = received \o [i \in 1..n |-> Len(received) + i]
  /\ UNCHANGED <<sent, closed>>

Close == closed' = TRUE /\ UNCHANGED <<sent, received>>

Next == \/ \E n \in 1..Capacity : Send(n) \/ Receive(n)
        \/ Close

Spec == Init /\ [][Next]_channelVars
=============================================================================
