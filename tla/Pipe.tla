---------------------------------- MODULE Pipe ---------------------------------
(***************************************************************************)
(* What a connection promises two programs, without its buffers: packets   *)
(* come out as they were put in, whole, once, and in order.                *)
(***************************************************************************)
EXTENDS Naturals, Sequences

VARIABLES sent,      \* packets written
          delivered  \* packets read

vars == <<sent, delivered>>

Init == sent = <<>> /\ delivered = <<>>

\* A packet, of any kind, is written.
Send ==
    /\ sent' # sent
    /\ sent' = Append(sent, sent'[Len(sent) + 1])
    /\ UNCHANGED delivered

\* The next packet is read.
Deliver ==
    /\ Len(delivered) < Len(sent)
    /\ delivered' = Append(delivered, sent[Len(delivered) + 1])
    /\ UNCHANGED sent

Next == Send \/ Deliver

Spec == Init /\ [][Next]_vars
=============================================================================
