------------------------- MODULE HandleableCollection -------------------------
(***************************************************************************)
(* HandleableCollection<T>: the list of items and the list of waiting      *)
(* handlers that Add, Handle, HandleAsync, ClearItems and Dispose share.   *)
(* All but Dispose's sweep run under lock(_items); the cancellation of a   *)
(* call (token or timer) completes its TaskCompletionSource without the    *)
(* lock, so TryHandler is split at the points where it can get in between. *)
(*                                                                         *)
(* A call is a process.  An Add call is named by the item it adds, a       *)
(* Handle or HandleAsync call by its handler.                              *)
(***************************************************************************)
EXTENDS Naturals, Sequences, SequencesExt

CONSTANTS
    Items,         \* the items (streams), each added by one call of Add
    Handlers,      \* the calls of Handle and HandleAsync
    WaitHandlers,  \* those of them that pass WaitForConnectionHandler
    TimedHandlers, \* those of them made through Handle, with a timeout
    Clearers,      \* the calls of ClearItems
    Disposers,     \* the calls of Dispose
    None           \* no call, no item: the lock is free, nothing was taken

Calls == Items \union Handlers \union Clearers \union Disposers

ASSUME HandlerKinds == WaitHandlers \subseteq Handlers /\ TimedHandlers \subseteq Handlers

ASSUME CallsDisjoint ==
    /\ Items \intersect (Handlers \union Clearers \union Disposers) = {}
    /\ Handlers \intersect (Clearers \union Disposers) = {}
    /\ Clearers \intersect Disposers = {}
    /\ None \notin Calls

VARIABLES
    items,      \* _items
    handlers,   \* _handlers
    disposed,   \* _disposed
    lock,       \* the call inside lock(_items), or None
    tcs,        \* the state of each handler's TaskCompletionSource
    got,        \* the item each handler's TaskCompletionSource was completed with
    pc,         \* where each call is
    pos,        \* the loop index of the call inside the lock
    stage,      \* the step of the call inside the lock
    removeItem, \* TryHandler's out parameter, set by the handler it called
    swept,      \* how many handlers Dispose's loop has failed
    connected,  \* the items whose peer has not gone away
    closed,     \* the items on which Dispose was called
    taker       \* history: the handler for which an item was removed

lists    == <<items, handlers>>
outcomes == <<tcs, got, taker>>
frame    == <<lock, pos, stage, removeItem>>
streams  == <<connected, closed>>
vars     == <<lists, disposed, frame, outcomes, pc, swept, streams>>

Init ==
    /\ items = <<>>
    /\ handlers = <<>>
    /\ disposed = FALSE
    /\ lock = None
    /\ tcs = [h \in Handlers |-> "none"]
    /\ got = [h \in Handlers |-> None]
    /\ pc = [c \in Calls |-> "ready"]
    /\ pos = 1
    /\ stage = "check"
    /\ removeItem = FALSE
    /\ swept = 0
    /\ connected = Items
    /\ closed = {}
    /\ taker = [x \in Items |-> None]

-----------------------------------------------------------------------------
(* Entering the lock: lock (_items) { VerifyNotDisposed(); ...             *)

EnterOrThrow(c) ==
    /\ lock = None
    /\ \/ /\ disposed
          /\ pc' = [pc EXCEPT ![c] = "threw"]
          /\ UNCHANGED frame
       \/ /\ ~disposed
          /\ pc' = [pc EXCEPT ![c] = "inside"]
          /\ lock' = c
          /\ pos' = 1
          /\ stage' = "check"
          /\ removeItem' = FALSE
    /\ UNCHANGED <<lists, disposed, outcomes, swept, streams>>

\* Faulty variant: Add does not verify that the collection is not disposed.
AddEnterUnverified(x) ==
    /\ pc[x] = "ready"
    /\ lock = None
    /\ pc' = [pc EXCEPT ![x] = "inside"]
    /\ lock' = x
    /\ pos' = 1
    /\ stage' = "check"
    /\ removeItem' = FALSE
    /\ UNCHANGED <<lists, disposed, outcomes, swept, streams>>

AddEnter(x) == pc[x] = "ready" /\ EnterOrThrow(x)

\* Faulty variant: the handler is queued without being offered what is stored.
RunOrQueueEnterUnoffered(h) ==
    /\ pc[h] = "created"
    /\ lock = None /\ ~disposed
    /\ handlers' = Append(handlers, h)
    /\ pc' = [pc EXCEPT ![h] = "awaiting"]
    /\ UNCHANGED <<items, disposed, frame, outcomes, swept, streams>>

RunOrQueueEnter(h) == pc[h] = "created" /\ EnterOrThrow(h)

-----------------------------------------------------------------------------
(* TryHandler: the call inside the lock offers item x to handler h.        *)

Trying(x, h) ==
    \/ lock = x /\ pos <= Len(handlers) /\ handlers[pos] = h
    \/ lock = h /\ pos <= Len(items) /\ items[pos] = x

\* Faulty variant: an item a handler accepted stays in the list.
AfterTryKeepsItem(x, h, stop, remove) ==
    \/ /\ lock = x
       /\ handlers' = IF stop THEN RemoveAt(handlers, pos) ELSE handlers
       /\ pos' = IF stop THEN pos ELSE pos + 1
       /\ stage' = IF remove THEN "over" ELSE "check"
       /\ UNCHANGED items
    \/ /\ lock = h
       /\ items' = IF remove /\ ~stop THEN RemoveAt(items, pos) ELSE items
       /\ pos' = IF remove THEN pos ELSE pos + 1
       /\ stage' = IF stop THEN "over" ELSE "check"
       /\ UNCHANGED handlers

\* Faulty variant: the index steps back without the loop's own increment.
AfterTryStepsBack(x, h, stop, remove) ==
    \/ /\ lock = x
       /\ handlers' = IF stop THEN RemoveAt(handlers, pos) ELSE handlers
       /\ pos' = IF stop THEN pos - 1 ELSE pos
       /\ stage' = IF remove THEN "over" ELSE "check"
       /\ UNCHANGED items
    \/ /\ lock = h
       /\ items' = IF remove THEN RemoveAt(items, pos) ELSE items
       /\ pos' = IF remove THEN pos - 1 ELSE pos
       /\ stage' = IF stop THEN "over" ELSE "check"
       /\ UNCHANGED handlers

(* What the loop around TryHandler does with its two answers: Add drops a  *)
(* handler that stopped and ends when the item was removed, RunOrQueue-    *)
(* Handler drops a removed item and ends when the handler stopped.         *)
AfterTry(x, h, stop, remove) ==
    \/ /\ lock = x
       /\ handlers' = IF stop THEN RemoveAt(handlers, pos) ELSE handlers
       /\ pos' = IF stop THEN pos ELSE pos + 1
       /\ stage' = IF remove THEN "over" ELSE "check"
       /\ UNCHANGED items
    \/ /\ lock = h
       /\ items' = IF remove THEN RemoveAt(items, pos) ELSE items
       /\ pos' = IF remove THEN pos ELSE pos + 1
       /\ stage' = IF stop THEN "over" ELSE "check"
       /\ UNCHANGED handlers

TryCompleted(x, h) ==
    /\ Trying(x, h)
    /\ stage = "check"
    /\ tcs[h] # "pending"
    /\ AfterTry(x, h, TRUE, FALSE)
    /\ removeItem' = FALSE
    /\ UNCHANGED <<disposed, lock, outcomes, pc, swept, streams>>

\* Faulty variant: the handler is called whether its task is completed or not.
TryPendingCompleted(x, h) ==
    /\ Trying(x, h)
    /\ stage = "check"
    /\ stage' = "run"
    /\ removeItem' = FALSE
    /\ UNCHANGED <<lists, disposed, lock, pos, outcomes, pc, swept, streams>>

TryPending(x, h) ==
    /\ Trying(x, h)
    /\ stage = "check"
    /\ tcs[h] = "pending"
    /\ stage' = "run"
    /\ removeItem' = FALSE
    /\ UNCHANGED <<lists, disposed, lock, pos, outcomes, pc, swept, streams>>

RunDefaultHandler(x, h) ==
    /\ Trying(x, h)
    /\ stage = "run"
    /\ h \notin WaitHandlers
    /\ removeItem' = TRUE
    /\ stage' = "settle"
    /\ UNCHANGED <<lists, disposed, lock, pos, outcomes, pc, swept, streams>>

WaitHandlerLive(x, h) ==
    /\ Trying(x, h)
    /\ stage = "run"
    /\ h \in WaitHandlers
    /\ x \in connected
    /\ removeItem' = FALSE
    /\ stage' = "settle"
    /\ UNCHANGED <<lists, disposed, lock, pos, outcomes, pc, swept, streams>>

\* Faulty variant: a dead stream stops the handler that waits for a live one.
WaitHandlerDeadStops(x, h) ==
    /\ Trying(x, h)
    /\ stage = "run"
    /\ h \in WaitHandlers
    /\ x \notin connected
    /\ closed' = closed \union {x}
    /\ removeItem' = TRUE
    /\ AfterTry(x, h, TRUE, TRUE)
    /\ UNCHANGED <<disposed, lock, outcomes, pc, swept, connected>>

WaitHandlerDead(x, h) ==
    /\ Trying(x, h)
    /\ stage = "run"
    /\ h \in WaitHandlers
    /\ x \notin connected
    /\ closed' = closed \union {x}
    /\ removeItem' = TRUE
    /\ AfterTry(x, h, FALSE, TRUE)
    /\ UNCHANGED <<disposed, lock, outcomes, pc, swept, connected>>

\* Faulty variant: SetResult where the code has TrySetResult.
SetResult(x, h) ==
    /\ Trying(x, h)
    /\ stage = "settle"
    /\ tcs' = [tcs EXCEPT ![h] = "result"]
    /\ got' = [got EXCEPT ![h] = x]
    /\ taker' = IF removeItem THEN [taker EXCEPT ![x] = h] ELSE taker
    /\ AfterTry(x, h, TRUE, removeItem)
    /\ UNCHANGED <<disposed, lock, removeItem, pc, swept, streams>>

(* TrySetResult's answer is ignored: the item goes even when the call was  *)
(* cancelled since TryHandler looked.                                      *)
TrySetResult(x, h) ==
    /\ Trying(x, h)
    /\ stage = "settle"
    /\ tcs' = IF tcs[h] = "pending" THEN [tcs EXCEPT ![h] = "result"] ELSE tcs
    /\ got' = IF tcs[h] = "pending" THEN [got EXCEPT ![h] = x] ELSE got
    /\ taker' = IF removeItem THEN [taker EXCEPT ![x] = h] ELSE taker
    /\ AfterTry(x, h, TRUE, removeItem)
    /\ UNCHANGED <<disposed, lock, removeItem, pc, swept, streams>>

TryHandler(x, h) ==
    \/ TryCompleted(x, h)
    \/ TryPending(x, h)
    \/ RunDefaultHandler(x, h)
    \/ WaitHandlerLive(x, h)
    \/ WaitHandlerDead(x, h)
    \/ TrySetResult(x, h)

-----------------------------------------------------------------------------
(* Leaving the lock: what nobody took is stored, who got nothing is queued. *)

AddExit(x) ==
    /\ lock = x
    /\ \/ stage = "over" /\ UNCHANGED items
       \/ stage = "check" /\ pos > Len(handlers) /\ items' = Append(items, x)
    /\ lock' = None
    /\ pc' = [pc EXCEPT ![x] = "done"]
    /\ UNCHANGED <<handlers, disposed, pos, stage, removeItem, outcomes, swept, streams>>

\* Faulty variant: the newest handler goes to the front of the queue.
RunOrQueueExitInFront(h) ==
    /\ lock = h
    /\ \/ stage = "over" /\ UNCHANGED handlers
       \/ stage = "check" /\ pos > Len(items) /\ handlers' = <<h>> \o handlers
    /\ lock' = None
    /\ pc' = [pc EXCEPT ![h] = "awaiting"]
    /\ UNCHANGED <<items, disposed, pos, stage, removeItem, outcomes, swept, streams>>

RunOrQueueExit(h) ==
    /\ lock = h
    /\ \/ stage = "over" /\ UNCHANGED handlers
       \/ stage = "check" /\ pos > Len(items) /\ handlers' = Append(handlers, h)
    /\ lock' = None
    /\ pc' = [pc EXCEPT ![h] = "awaiting"]
    /\ UNCHANGED <<items, disposed, pos, stage, removeItem, outcomes, swept, streams>>

-----------------------------------------------------------------------------
(* The rest of Handle and HandleAsync, outside the lock.                   *)

CreateHandler(h) ==
    /\ pc[h] = "ready"
    /\ pc' = [pc EXCEPT ![h] = "created"]
    /\ tcs' = [tcs EXCEPT ![h] = "pending"]
    /\ UNCHANGED <<lists, disposed, frame, got, taker, swept, streams>>

\* Faulty variant: the registration is gone once the call awaits its task.
CancelHandlerBeforeAwait(h) ==
    /\ pc[h] \in {"created", "inside"}
    /\ tcs[h] = "pending"
    /\ tcs' = [tcs EXCEPT ![h] = "cancelled"]
    /\ UNCHANGED <<lists, disposed, frame, got, taker, pc, swept, streams>>

(* The token or the timer: TrySetCanceled or TrySetException(Timeout).     *)
CancelHandler(h) ==
    /\ pc[h] \in {"created", "inside", "awaiting"}
    /\ tcs[h] = "pending"
    /\ tcs' = [tcs EXCEPT ![h] = "cancelled"]
    /\ UNCHANGED <<lists, disposed, frame, got, taker, pc, swept, streams>>

HandleReturn(h) ==
    /\ pc[h] = "awaiting"
    /\ tcs[h] # "pending"
    /\ pc' = [pc EXCEPT ![h] = "done"]
    /\ UNCHANGED <<lists, disposed, frame, outcomes, swept, streams>>

-----------------------------------------------------------------------------
(* ClearItems, and the four parts of Dispose: the flag under the lock, then *)
(* the items, the handlers one by one, and the handler list without it.    *)

\* Faulty variant: the items are disposed and stay in the list.
ClearItemsKeeps(c) ==
    /\ pc[c] = "ready"
    /\ lock = None
    /\ pc' = [pc EXCEPT ![c] = IF disposed THEN "threw" ELSE "done"]
    /\ closed' = IF disposed THEN closed ELSE closed \union ToSet(items)
    /\ UNCHANGED <<lists, disposed, frame, outcomes, swept, connected>>

ClearItems(c) ==
    /\ pc[c] = "ready"
    /\ lock = None
    /\ \/ disposed /\ pc' = [pc EXCEPT ![c] = "threw"] /\ UNCHANGED <<items, closed>>
       \/ /\ ~disposed
          /\ pc' = [pc EXCEPT ![c] = "done"]
          /\ closed' = closed \union ToSet(items)
          /\ items' = <<>>
    /\ UNCHANGED <<handlers, disposed, frame, outcomes, swept, connected>>

DisposeBegin(d) ==
    /\ pc[d] = "ready"
    /\ lock = None
    /\ disposed' = TRUE
    /\ pc' = [pc EXCEPT ![d] = IF disposed THEN "done" ELSE "closing"]
    /\ UNCHANGED <<lists, frame, outcomes, swept, streams>>

\* Faulty variant: Dispose forgets the handlers.
DisposeItemsOnly(d) ==
    /\ pc[d] = "closing"
    /\ closed' = closed \union ToSet(items)
    /\ items' = <<>>
    /\ pc' = [pc EXCEPT ![d] = "done"]
    /\ UNCHANGED <<handlers, disposed, frame, outcomes, swept, connected>>

DisposeItems(d) ==
    /\ pc[d] = "closing"
    /\ closed' = closed \union ToSet(items)
    /\ items' = <<>>
    /\ pc' = [pc EXCEPT ![d] = "failing"]
    /\ UNCHANGED <<handlers, disposed, frame, outcomes, swept, connected>>

FailHandler(d) ==
    /\ pc[d] = "failing"
    /\ swept < Len(handlers)
    /\ LET h == handlers[swept + 1]
       IN  tcs' = IF tcs[h] = "pending" THEN [tcs EXCEPT ![h] = "disposed"] ELSE tcs
    /\ swept' = swept + 1
    /\ UNCHANGED <<lists, disposed, frame, got, taker, pc, streams>>

\* Faulty variant: the failed handlers stay in the queue.
DisposeEndKeeps(d) ==
    /\ pc[d] = "failing"
    /\ swept = Len(handlers)
    /\ swept' = 0
    /\ pc' = [pc EXCEPT ![d] = "done"]
    /\ UNCHANGED <<lists, disposed, frame, outcomes, streams>>

DisposeEnd(d) ==
    /\ pc[d] = "failing"
    /\ swept = Len(handlers)
    /\ handlers' = <<>>
    /\ swept' = 0
    /\ pc' = [pc EXCEPT ![d] = "done"]
    /\ UNCHANGED <<items, disposed, frame, outcomes, streams>>

Dispose(d) == DisposeBegin(d) \/ DisposeItems(d) \/ FailHandler(d) \/ DisposeEnd(d)

-----------------------------------------------------------------------------
(* The peer of a stream goes away: nothing in the collection notices.      *)
Disconnect(x) ==
    /\ x \in connected
    /\ connected' = connected \ {x}
    /\ UNCHANGED <<lists, disposed, frame, outcomes, pc, swept, closed>>

Add(x) == AddEnter(x) \/ AddExit(x)

Handle(h) == CreateHandler(h) \/ RunOrQueueEnter(h) \/ RunOrQueueExit(h) \/ HandleReturn(h)

(* Every call has returned: the only states in which nothing need happen.  *)
Returned(c) == pc[c] \in {"done", "threw"}

AllReturned == (\A c \in Calls : Returned(c)) /\ UNCHANGED vars

Next ==
    \/ \E x \in Items : Add(x) \/ Disconnect(x)
    \/ \E h \in Handlers : Handle(h) \/ CancelHandler(h)
    \/ \E x \in Items, h \in Handlers : TryHandler(x, h)
    \/ \E c \in Clearers : ClearItems(c)
    \/ \E d \in Disposers : Dispose(d)
    \/ AllReturned

Spec == Init /\ [][Next]_vars

(* A call that has begun is scheduled to its end, and a timer fires.  The  *)
(* number of calls is finite, so a call that waits for the lock cannot be  *)
(* overtaken for ever and weak fairness is enough.  Nothing obliges anyone *)
(* to make a call or to cancel a token, nor a peer to go away.             *)
Fairness ==
    /\ \A x \in Items : WF_vars(AddExit(x))
    /\ \A h \in Handlers : WF_vars(pc[h] # "ready" /\ Handle(h))
    /\ \A h \in TimedHandlers : WF_vars(CancelHandler(h))
    /\ \A x \in Items, h \in Handlers : WF_vars(TryHandler(x, h))
    /\ \A d \in Disposers : WF_vars(pc[d] # "ready" /\ Dispose(d))

FairSpec == Spec /\ Fairness

-----------------------------------------------------------------------------
(* Properties.                                                             *)

(* The Boolean variables are Boolean.                                      *)
FlagsOK == disposed \in BOOLEAN /\ removeItem \in BOOLEAN

(* Every variable keeps to the values its declaration names.               *)
TypeOK ==
    /\ FlagsOK
    /\ items \in Seq(Items)
    /\ handlers \in Seq(Handlers)
    /\ lock \in Items \union Handlers \union {None}
    /\ tcs \in [Handlers -> {"none", "pending", "result", "cancelled", "disposed"}]
    /\ got \in [Handlers -> Items \union {None}]
    /\ pc \in [Calls -> {"ready", "created", "inside", "awaiting", "closing", "failing",
                         "done", "threw"}]
    /\ pos \in Nat \ {0}
    /\ stage \in {"check", "run", "settle", "over"}
    /\ swept \in Nat
    /\ connected \subseteq Items
    /\ closed \subseteq Items
    /\ taker \in [Items -> Handlers \union {None}]

(* No lost wake-up: an item is never stored while a handler is queued, in  *)
(* no state, not even inside Add or RunOrQueueHandler or during Dispose.   *)
NobodyWaitsBesideItems == items = <<>> \/ handlers = <<>>

(* A caller that waits for its task can still be woken: its handler is in  *)
(* the queue, and Dispose's loop has not passed it.                        *)
WaiterIsQueued ==
    \A h \in Handlers :
        pc[h] = "awaiting" /\ tcs[h] = "pending"
            => \E i \in swept + 1 .. Len(handlers) : handlers[i] = h

(* An item whose Add has returned is in exactly one place: stored, taken   *)
(* out for a handler, or disposed.                                         *)
EveryItemHasOneOwner ==
    \A x \in Items : pc[x] = "done" =>
        \/ x \in ToSet(items) /\ taker[x] = None /\ x \notin closed
        \/ x \notin ToSet(items) /\ taker[x] # None /\ x \notin closed
        \/ x \notin ToSet(items) /\ taker[x] = None /\ x \in closed

(* When Dispose's sweep is over nothing is stored, nothing is queued and   *)
(* nobody waits.                                                           *)
DisposedIsDrained ==
    disposed /\ (\A d \in Disposers : pc[d] \notin {"closing", "failing"})
        => /\ items = <<>>
           /\ handlers = <<>>
           /\ \A h \in Handlers : pc[h] = "awaiting" => tcs[h] # "pending"

(* Dispose enumerates both lists without the lock: from the moment the     *)
(* flag is set no other call changes them under its feet.                  *)
DisposedListsOnlyShrink ==
    [][disposed => items' \in {items, <<>>} /\ handlers' \in {handlers, <<>>}]_vars

(* A completed task keeps its outcome, whatever cancels, takes or disposes *)
(* at the same time.                                                       *)
OutcomeIsFinal ==
    [][\A h \in Handlers : tcs[h] \notin {"none", "pending"}
            => tcs'[h] = tcs[h] /\ got'[h] = got[h]]_vars

(* Its task is complete, and nobody is past TryHandler's look at it.       *)
Ended(h) ==
    /\ tcs[h] \notin {"none", "pending"}
    /\ ~(stage \in {"run", "settle"} /\ \E x \in Items : Trying(x, h))

(* A handler that was cancelled while it waits in the queue, or before it  *)
(* gets there, is never called again: it neither takes an item nor         *)
(* disposes one.  Only a cancellation after the look loses an item.        *)
EndedHandlersTakeNothing ==
    [][\A h \in Handlers : Ended(h) =>
            /\ Ended(h)'
            /\ \A x \in Items : taker'[x] = h => taker[x] = h]_vars

(* First come, first served: a handler joins the queue at its end, and no  *)
(* handler gets a result while one that is before it in the queue waits.   *)
ServedInOrder ==
    [][/\ \A i, j \in DOMAIN handlers :
            i < j /\ tcs[handlers[i]] = "pending" /\ tcs[handlers[j]] = "pending"
                => tcs'[handlers[j]] # "result"
       /\ \A k \in DOMAIN handlers' :
            handlers'[k] \in ToSet(handlers) \/ k = Len(handlers')]_vars

(* A Handle with a timeout returns.                                        *)
TimedCallsReturn ==
    \A h \in TimedHandlers : pc[h] = "created" ~> Returned(h)

(* Dispose lets go of every caller that has begun, with or without timeout. *)
DisposeReleasesWaiters ==
    \A h \in Handlers : disposed /\ pc[h] # "ready" ~> Returned(h)

(* Handle's comment: it returns the first item offered to the handler.  An *)
(* item that was removed for a handler is that handler's result.           *)
FirstItemOfferedIsReturned ==
    \A x \in Items : taker[x] # None => got[taker[x]] = x

-----------------------------------------------------------------------------
(* The collection implements the exchange of items it promises.            *)

Whereabouts(x) ==
    CASE x \in closed -> "closed"
      [] x \notin closed /\ taker[x] # None ->
            IF got[taker[x]] = x THEN "taken" ELSE "lost"
      [] x \in ToSet(items) -> "stored"
      [] OTHER -> "outside"

Exchange == INSTANCE ItemExchange WITH
    where   <- [x \in Items |-> Whereabouts(x)],
    waiting <- {h \in ToSet(handlers) : tcs[h] = "pending"},
    outcome <- tcs,
    open    <- ~disposed

ImplementsExchange == Exchange!Spec
=============================================================================
