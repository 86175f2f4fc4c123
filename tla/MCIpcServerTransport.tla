------------------------- MODULE MCIpcServerTransport -------------------------
(* Small instances of IpcServerTransport for TLC.                           *)
EXTENDS IpcServerTransport, TLC

(* Pipe instances are interchangeable. *)
Symmetry == Permutations(Streams)
=============================================================================
