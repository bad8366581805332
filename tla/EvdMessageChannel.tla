------------------------- MODULE EvdMessageChannel -------------------------
(***************************************************************************)
(* What a transport promises to the two applications that talk over it     *)
(* (evd-transport.h: send, receive and peer-closed): messages arrive       *)
(* whole, in order and once, and none arrives from a peer that was closed. *)
(* How much arrives is left open.                                          *)
(***************************************************************************)
EXTENDS Integers, Sequences

CONSTANTS Ends, Other(_)

VARIABLES sent,     \* messages taken from the application at each end
          got,      \* messages given to the application at each end
          closed    \* whether the application was told that its peer is closed

Init ==
  /\ sent = [e \in Ends |-> <<>>] /\ got = [e \in Ends |-> <<>>]
  /\ closed = [e \in Ends |-> FALSE]

\* One message more.
Send(e) ==
  /\ Len(sent'[e]) = Len(sent[e]) + 1
  /\ sent' = [sent EXCEPT ![e] = Append(@, sent'[e][Len(sent'[e])])]
  /\ UNCHANGED <<got, closed>>

\* The next messages of the other end, and perhaps the end of them.
Receive(e) ==
  /\ ~closed[e]
  /\ \E n \in Len(got[e])..Len(sent[Other(e)]) :
       got' = [got EXCEPT ![e] = SubSeq(sent[Other(e)], 1, n)]
  /\ \E shut \in BOOLEAN : closed' = [closed EXCEPT ![e] = shut]
  /\ UNCHANGED sent

Next == \E e \in Ends : Send(e) \/ Receive(e)

Spec == Init /\ [][Next]_<<sent, got, closed>>
=============================================================================
