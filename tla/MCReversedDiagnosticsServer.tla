---------------------- MODULE MCReversedDiagnosticsServer ----------------------
(* Small instances of ReversedDiagnosticsServer for TLC.                    *)
EXTENDS ReversedDiagnosticsServer, TLC

CONSTANT c1

(* Every stream and every call is about the one runtime c1. *)
OneCookie == [x \in Streams \union Clients \union Removers |-> c1]

(* The complete streams are interchangeable, and so are calls of one kind. *)
Symmetry ==
    Permutations(Streams \ Mute) \union Permutations(Clients \ Waits)
        \union Permutations(Disposers) \union Permutations(Removers)
=============================================================================
