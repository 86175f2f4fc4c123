----------------------------- MODULE ByteChannels -----------------------------
(***************************************************************************)
(* What a router promises the two ends it connects: two channels that      *)
(* neither reorder, repeat nor invent a byte, and that are closed only     *)
(* when one of the ends has left.  How the bytes travel is left out.       *)
(***************************************************************************)
EXTENDS Naturals, Sequences

CONSTANT Text  \* what each end would write, byte by byte

Ends == {"front", "back"}

Other(e) == IF e = "front" THEN "back" ELSE "front"

VARIABLES
    sent,   \* how many bytes of its text each end has written
    left,   \* the ends that have closed their connection
    got,    \* the bytes that were delivered to each end
    closed  \* the ends whose connection the router has closed

vars == <<sent, left, got, closed>>

Init ==
    /\ sent = [e \in Ends |-> 0]
    /\ left = {}
    /\ got = [e \in Ends |-> <<>>]
    /\ closed = {}

Send(e) ==
    /\ e \notin left \union closed
    /\ sent[e] < Len(Text[e])
    /\ sent' = [sent EXCEPT ![e] = @ + 1]
    /\ UNCHANGED <<left, got, closed>>

Leave(e) ==
    /\ left' = left \union {e}
    /\ UNCHANGED <<sent, got, closed>>

(* More of what e has written reaches the other end.                       *)
Deliver(e) ==
    /\ Other(e) \notin closed
    /\ \E n \in 1..sent[e] :
         /\ n > Len(got[Other(e)])
         /\ got' = [got EXCEPT ![Other(e)] = SubSeq(Text[e], 1, n)]
    /\ UNCHANGED <<sent, left, closed>>

Close(e) ==
    /\ left # {}
    /\ closed' = closed \union {e}
    /\ UNCHANGED <<sent, left, got>>

Next == \E e \in Ends : Send(e) \/ Leave(e) \/ Deliver(e) \/ Close(e)

Spec == Init /\ [][Next]_vars
=============================================================================
