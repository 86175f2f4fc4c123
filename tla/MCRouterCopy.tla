----------------------------- MODULE MCRouterCopy -----------------------------
(* A small instance of RouterCopy for TLC.                                  *)
EXTENDS RouterCopy

CONSTANTS x, y

(* A request of two bytes, and an answer that takes two reads.              *)
Conversation == [e \in Ends |-> IF e = "front" THEN <<y, x>> ELSE <<x, y, x>>]
=============================================================================
