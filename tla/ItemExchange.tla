----------------------------- MODULE ItemExchange -----------------------------
(***************************************************************************)
(* What HandleableCollection promises its callers: an exchange at which    *)
(* items meet handlers.  Every operation is one step; where the list and   *)
(* the queue are kept, and under which lock, is left out.                  *)
(***************************************************************************)
CONSTANTS Items, Handlers, WaitHandlers, None

VARIABLES
    where,    \* where each item is
    waiting,  \* the handlers that are queued and not completed
    outcome,  \* how each handler ended
    got,      \* the item each handler ended with
    open      \* the exchange has not been disposed

vars == <<where, waiting, outcome, got, open>>

Available(x) == where[x] \in {"outside", "stored"}

Init ==
    /\ where = [x \in Items |-> "outside"]
    /\ waiting = {}
    /\ outcome = [h \in Handlers |-> "none"]
    /\ got = [h \in Handlers |-> None]
    /\ open = TRUE

Begin(h) ==
    /\ outcome[h] = "none"
    /\ outcome' = [outcome EXCEPT ![h] = "pending"]
    /\ UNCHANGED <<where, waiting, got, open>>

(* A handler is queued only when there is nothing to offer it.             *)
Wait(h) ==
    /\ open
    /\ outcome[h] = "pending"
    /\ \A x \in Items : where[x] # "stored"
    /\ waiting' = waiting \union {h}
    /\ UNCHANGED <<where, outcome, got, open>>

(* An item is stored only when nobody waits for it.                        *)
Store(x) ==
    /\ open
    /\ where[x] = "outside"
    /\ waiting = {}
    /\ where' = [where EXCEPT ![x] = "stored"]
    /\ UNCHANGED <<waiting, outcome, got, open>>

Complete(h, x) ==
    /\ open
    /\ Available(x)
    /\ outcome[h] = "pending"
    /\ outcome' = [outcome EXCEPT ![h] = "result"]
    /\ got' = [got EXCEPT ![h] = x]
    /\ waiting' = waiting \ {h}
    /\ open' = open

Take(h, x) ==
    /\ h \notin WaitHandlers
    /\ Complete(h, x)
    /\ where' = [where EXCEPT ![x] = "taken"]

(* WaitForConnectionHandler looks at an item and leaves it.                *)
Observe(h, x) ==
    /\ h \in WaitHandlers
    /\ Complete(h, x)
    /\ where' = where

(* The gap in the promise: an item accepted for a call just cancelled.     *)
Lose(h, x) ==
    /\ open
    /\ h \notin WaitHandlers
    /\ outcome[h] = "cancelled"
    /\ Available(x)
    /\ where' = [where EXCEPT ![x] = "lost"]
    /\ UNCHANGED <<waiting, outcome, got, open>>

CloseDead(x) ==
    /\ open
    /\ Available(x)
    /\ where' = [where EXCEPT ![x] = "closed"]
    /\ UNCHANGED <<waiting, outcome, got, open>>

CloseStored ==
    /\ where' = [x \in Items |-> IF where[x] = "stored" THEN "closed" ELSE where[x]]
    /\ UNCHANGED <<waiting, outcome, got, open>>

Cancel(h) ==
    /\ outcome[h] = "pending"
    /\ outcome' = [outcome EXCEPT ![h] = "cancelled"]
    /\ waiting' = waiting \ {h}
    /\ UNCHANGED <<where, got, open>>

Shut ==
    /\ open
    /\ open' = FALSE
    /\ UNCHANGED <<where, waiting, outcome, got>>

Fail(h) ==
    /\ ~open
    /\ h \in waiting
    /\ outcome' = [outcome EXCEPT ![h] = "disposed"]
    /\ waiting' = waiting \ {h}
    /\ UNCHANGED <<where, got, open>>

Next ==
    \/ \E h \in Handlers : Begin(h) \/ Wait(h) \/ Cancel(h) \/ Fail(h)
    \/ \E x \in Items : Store(x) \/ CloseDead(x)
    \/ \E h \in Handlers, x \in Items : Take(h, x) \/ Observe(h, x) \/ Lose(h, x)
    \/ CloseStored
    \/ Shut

Spec == Init /\ [][Next]_vars
=============================================================================
