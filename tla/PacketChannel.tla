------------------------------ MODULE PacketChannel ------------------------------
(***************************************************************************)
(* What the BcUdp transport promises the Baichuan connection above it: the *)
(* packets the camera sent come out in the order they went in, each once,  *)
(* until the channel ends; after the end nothing comes out.                *)
(***************************************************************************)
EXTENDS Naturals, Sequences

VARIABLES
    written,    \* how many packets have gone in
    read,       \* the packets that have come out
    ended       \* the reader has been told that the channel is over

vars == <<written, read, ended>>

Init == written = 0 /\ read = <<>> /\ ended = FALSE

Write == written' = written + 1 /\ UNCHANGED <<read, ended>>

\* The n-th packet to come out is the n-th that went in.
Read ==
    /\ ~ended /\ Len(read) < written
    /\ read' = Append(read, Len(read))
    /\ UNCHANGED <<written, ended>>

End == ended' = TRUE /\ UNCHANGED <<written, read>>

Next == Write \/ Read \/ End

Spec == Init /\ [][Next]_vars
==================================================================================
