---------------------- MODULE HandleableCollectionProofs ----------------------
(* Theorems about HandleableCollection, for any items, handlers and calls. *)
EXTENDS HandleableCollection, SequenceTheorems, TLAPS

(* Removing an element of a sequence leaves a sequence over the same set.  *)
LEMMA RemoveAtType ==
  ASSUME NEW S, NEW s \in Seq(S), NEW i \in 1..Len(s)
  PROVE  RemoveAt(s, i) \in Seq(S)
  BY DEF RemoveAt

(* The elements of a sequence over a set belong to the set.                *)
LEMMA ToSetType ==
  ASSUME NEW S, NEW s \in Seq(S)
  PROVE  ToSet(s) \subseteq S
  BY DEF ToSet

(* The loop around TryHandler keeps the lists and its own state well typed. *)
LEMMA AfterTryType ==
  ASSUME TypeOK, NEW x \in Items, NEW h \in Handlers,
         NEW stop, NEW remove,
         Trying(x, h), AfterTry(x, h, stop, remove)
  PROVE  /\ items' \in Seq(Items)
         /\ handlers' \in Seq(Handlers)
         /\ pos' \in Nat \ {0}
         /\ stage' \in {"check", "run", "settle", "over"}
<1>1. x # h
  BY CallsDisjoint
<1>2. CASE lock = x
  <2>1. pos \in 1..Len(handlers)
    BY <1>1, <1>2 DEF Trying, TypeOK
  <2>2. RemoveAt(handlers, pos) \in Seq(Handlers)
    BY <2>1, RemoveAtType DEF TypeOK
  <2>3. QED
    BY <1>1, <1>2, <2>2 DEF AfterTry, TypeOK
<1>3. CASE lock = h
  <2>1. pos \in 1..Len(items)
    BY <1>1, <1>3 DEF Trying, TypeOK
  <2>2. RemoveAt(items, pos) \in Seq(Items)
    BY <2>1, RemoveAtType DEF TypeOK
  <2>3. QED
    BY <1>1, <1>3, <2>2 DEF AfterTry, TypeOK
<1>4. QED
  BY <1>2, <1>3 DEF AfterTry

LEMMA FlagsStep ==
  ASSUME FlagsOK, [Next]_vars
  PROVE  FlagsOK'
<1>1. ASSUME NEW x \in Items, Add(x) \/ Disconnect(x) PROVE FlagsOK'
  BY <1>1 DEF FlagsOK, Add, AddEnter, EnterOrThrow, AddExit, Disconnect, frame
<1>2. ASSUME NEW h \in Handlers, Handle(h) \/ CancelHandler(h) PROVE FlagsOK'
  BY <1>2 DEF FlagsOK, Handle, CreateHandler, RunOrQueueEnter, EnterOrThrow,
              RunOrQueueExit, HandleReturn, CancelHandler, frame
<1>3. ASSUME NEW x \in Items, NEW h \in Handlers, TryHandler(x, h) PROVE FlagsOK'
  BY <1>3 DEF FlagsOK, TryHandler, TryCompleted, TryPending, RunDefaultHandler,
              WaitHandlerLive, WaitHandlerDead, TrySetResult
<1>4. ASSUME NEW c \in Clearers, ClearItems(c) PROVE FlagsOK'
  BY <1>4 DEF FlagsOK, ClearItems, frame
<1>5. ASSUME NEW d \in Disposers, Dispose(d) PROVE FlagsOK'
  BY <1>5 DEF FlagsOK, Dispose, DisposeBegin, DisposeItems, FailHandler, DisposeEnd, frame
<1>6. CASE UNCHANGED vars
  BY <1>6 DEF FlagsOK, vars, frame
<1>7. QED
  BY <1>1, <1>2, <1>3, <1>4, <1>5, <1>6 DEF Next, AllReturned

LEMMA InitTypeOK == Init => TypeOK
<1>1. Init => FlagsOK
  BY DEF Init, FlagsOK
<1>2. QED
  BY <1>1 DEF Init, TypeOK

(* Every reachable state is well typed.                                    *)
THEOREM TypeCorrect == Spec => []TypeOK
<1>1. Init => TypeOK
  BY InitTypeOK
<1>2. TypeOK /\ [Next]_vars => TypeOK'
  <2> SUFFICES ASSUME TypeOK, [Next]_vars PROVE TypeOK'
    OBVIOUS
  <2>0. FlagsOK'
    BY FlagsStep DEF TypeOK
  <2>1. ASSUME NEW x \in Items, Add(x) PROVE TypeOK'
    <3>1. CASE AddEnter(x)
      BY <2>0, <3>1 DEF TypeOK, AddEnter, EnterOrThrow, lists, outcomes, frame, streams
    <3>2. CASE AddExit(x)
      <4>1. items' \in Seq(Items)
        <5>1. items \in Seq(Items)
          BY DEF TypeOK
        <5>2. items' = items \/ items' = Append(items, x)
          BY <3>2 DEF AddExit
        <5>3. QED
          BY <5>1, <5>2
      <4>2. pc' = [pc EXCEPT ![x] = "done"] /\ lock' = None
        BY <3>2 DEF AddExit
      <4>3. UNCHANGED <<handlers, disposed, pos, stage, removeItem, outcomes, swept, streams>>
        BY <3>2 DEF AddExit
      <4>4. QED
        BY <2>0, <4>1, <4>2, <4>3 DEF TypeOK, outcomes, streams
    <3>3. QED
      BY <2>1, <3>1, <3>2 DEF Add
  <2>2. ASSUME NEW x \in Items, Disconnect(x) PROVE TypeOK'
    BY <2>0, <2>2 DEF TypeOK, Disconnect, lists, outcomes, frame, streams
  <2>3. ASSUME NEW h \in Handlers, Handle(h) PROVE TypeOK'
    <3>1. CASE CreateHandler(h)
      BY <2>0, <3>1 DEF TypeOK, CreateHandler, Calls, lists, outcomes, frame, streams
    <3>2. CASE RunOrQueueEnter(h)
      BY <2>0, <3>2 DEF TypeOK, RunOrQueueEnter, EnterOrThrow, lists, outcomes, frame, streams
    <3>3. CASE RunOrQueueExit(h)
      <4>1. handlers' \in Seq(Handlers)
        <5>1. handlers \in Seq(Handlers)
          BY DEF TypeOK
        <5>2. handlers' = handlers \/ handlers' = Append(handlers, h)
          BY <3>3 DEF RunOrQueueExit
        <5>3. QED
          BY <5>1, <5>2
      <4>2. pc' = [pc EXCEPT ![h] = "awaiting"] /\ lock' = None
        BY <3>3 DEF RunOrQueueExit
      <4>3. UNCHANGED <<items, disposed, pos, stage, removeItem, outcomes, swept, streams>>
        BY <3>3 DEF RunOrQueueExit
      <4>4. QED
        BY <2>0, <4>1, <4>2, <4>3 DEF TypeOK, outcomes, streams
    <3>4. CASE HandleReturn(h)
      BY <2>0, <3>4 DEF TypeOK, HandleReturn, lists, outcomes, frame, streams
    <3>5. QED
      BY <2>3, <3>1, <3>2, <3>3, <3>4 DEF Handle
  <2>4. ASSUME NEW h \in Handlers, CancelHandler(h) PROVE TypeOK'
    BY <2>0, <2>4 DEF TypeOK, CancelHandler, lists, frame, streams
  <2>5. ASSUME NEW x \in Items, NEW h \in Handlers, TryHandler(x, h) PROVE TypeOK'
    <3>1. CASE TryCompleted(x, h)
      <4>1. Trying(x, h) /\ AfterTry(x, h, TRUE, FALSE)
        BY <3>1 DEF TryCompleted
      <4>2. QED
        BY <2>0, <3>1, <4>1, AfterTryType DEF TypeOK, TryCompleted, outcomes, streams
    <3>2. CASE TryPending(x, h)
      BY <2>0, <3>2 DEF TypeOK, TryPending, lists, outcomes, streams
    <3>3. CASE RunDefaultHandler(x, h)
      BY <2>0, <3>3 DEF TypeOK, RunDefaultHandler, lists, outcomes, streams
    <3>4. CASE WaitHandlerLive(x, h)
      BY <2>0, <3>4 DEF TypeOK, WaitHandlerLive, lists, outcomes, streams
    <3>5. CASE WaitHandlerDead(x, h)
      <4>1. Trying(x, h) /\ AfterTry(x, h, FALSE, TRUE)
        BY <3>5 DEF WaitHandlerDead
      <4>2. QED
        BY <2>0, <3>5, <4>1, AfterTryType DEF TypeOK, WaitHandlerDead, outcomes
    <3>6. CASE TrySetResult(x, h)
      <4>1. Trying(x, h) /\ AfterTry(x, h, TRUE, removeItem)
        BY <3>6 DEF TrySetResult
      <4>2. QED
        BY <2>0, <3>6, <4>1, AfterTryType DEF TypeOK, TrySetResult, streams
    <3>7. QED
      BY <2>5, <3>1, <3>2, <3>3, <3>4, <3>5, <3>6 DEF TryHandler
  <2>6. ASSUME NEW c \in Clearers, ClearItems(c) PROVE TypeOK'
    <3>1. ToSet(items) \subseteq Items
      BY ToSetType DEF TypeOK
    <3>2. items' \in Seq(Items)
      BY <2>6, EmptySeq DEF TypeOK, ClearItems
    <3>3. closed' \subseteq Items
      BY <2>6, <3>1 DEF TypeOK, ClearItems
    <3>4. pc' \in [Calls -> {"ready", "created", "inside", "awaiting", "closing", "failing",
                             "done", "threw"}]
      BY <2>6 DEF TypeOK, ClearItems
    <3>5. UNCHANGED <<handlers, disposed, frame, outcomes, swept, connected>>
      BY <2>6 DEF ClearItems
    <3>6. QED
      BY <2>0, <3>2, <3>3, <3>4, <3>5 DEF TypeOK, outcomes, frame
  <2>7. ASSUME NEW d \in Disposers, Dispose(d) PROVE TypeOK'
    <3>1. CASE DisposeBegin(d)
      BY <2>0, <3>1 DEF TypeOK, DisposeBegin, lists, outcomes, frame, streams
    <3>2. CASE DisposeItems(d)
      <4>1. ToSet(items) \subseteq Items
        BY ToSetType DEF TypeOK
      <4>2. items' \in Seq(Items)
        BY <3>2, EmptySeq DEF DisposeItems
      <4>3. QED
        BY <2>0, <3>2, <4>1, <4>2 DEF TypeOK, DisposeItems, outcomes, frame
    <3>3. CASE FailHandler(d)
      BY <2>0, <3>3 DEF TypeOK, FailHandler, lists, frame, streams
    <3>4. CASE DisposeEnd(d)
      <4>1. handlers' \in Seq(Handlers)
        BY <3>4, EmptySeq DEF DisposeEnd
      <4>2. QED
        BY <2>0, <3>4, <4>1 DEF TypeOK, DisposeEnd, outcomes, frame, streams
    <3>5. QED
      BY <2>7, <3>1, <3>2, <3>3, <3>4 DEF Dispose
  <2>8. CASE UNCHANGED vars
    BY <2>0, <2>8 DEF TypeOK, vars, lists, outcomes, frame, streams
  <2>9. QED
    BY <2>1, <2>2, <2>3, <2>4, <2>5, <2>6, <2>7, <2>8 DEF Next, AllReturned
<1>3. QED
  BY <1>1, <1>2, PTL DEF Spec

-----------------------------------------------------------------------------
(* TryHandler's loops.  Both handlers of the code answer an offer by        *)
(* stopping or by taking the item, so no loop ever gets past its first      *)
(* element: it stops, or the element it looked at is gone.                  *)
LoopAtHead == stage # "over" => pos = 1

(* A call inside the lock holds it, and it did not enter after Dispose.    *)
LockedIsOpen == lock # None => ~disposed

(* A handler whose call has not begun has no task.                         *)
ReadyHasNoTask == \A h \in Handlers : pc[h] = "ready" => tcs[h] = "none"

IInv == TypeOK /\ LoopAtHead /\ LockedIsOpen /\ ReadyHasNoTask /\ NobodyWaitsBesideItems

LEMMA RemoveAtEmpty ==
  ASSUME NEW S, NEW s \in Seq(S), NEW i \in 1..Len(s)
  PROVE  s # <<>>
  BY EmptySeq

(* An offer removes from one of the lists at most, and adds to neither.    *)
LEMMA AfterTryLists ==
  ASSUME TypeOK, LoopAtHead, stage # "over", NobodyWaitsBesideItems,
         NEW x \in Items, NEW h \in Handlers, NEW stop, NEW remove,
         Trying(x, h), AfterTry(x, h, stop, remove),
         stop = TRUE \/ remove = TRUE
  PROVE  NobodyWaitsBesideItems' /\ LoopAtHead'
<1>1. x # h
  BY CallsDisjoint
<1>2. CASE lock = x
  <2>1. pos \in 1..Len(handlers) /\ handlers \in Seq(Handlers)
    BY <1>1, <1>2 DEF Trying, TypeOK
  <2>2. handlers # <<>>
    BY <2>1, RemoveAtEmpty
  <2>3. items' = <<>>
    BY <1>1, <1>2, <2>2 DEF AfterTry, NobodyWaitsBesideItems
  <2>4. LoopAtHead'
    BY <1>1, <1>2 DEF AfterTry, LoopAtHead
  <2>5. QED
    BY <2>3, <2>4 DEF NobodyWaitsBesideItems
<1>3. CASE lock = h
  <2>1. pos \in 1..Len(items) /\ items \in Seq(Items)
    BY <1>1, <1>3 DEF Trying, TypeOK
  <2>2. items # <<>>
    BY <2>1, RemoveAtEmpty
  <2>3. handlers' = <<>>
    BY <1>1, <1>3, <2>2 DEF AfterTry, NobodyWaitsBesideItems
  <2>4. LoopAtHead'
    BY <1>1, <1>3 DEF AfterTry, LoopAtHead
  <2>5. QED
    BY <2>3, <2>4 DEF NobodyWaitsBesideItems
<1>4. QED
  BY <1>2, <1>3 DEF AfterTry

(* The invariant is inductive, one action at a time.                       *)
LEMMA IInvStep ==
  ASSUME IInv, TypeOK', [Next]_vars
  PROVE  IInv'
<1> USE DEF IInv
<1>1. ASSUME NEW x \in Items, AddEnter(x) PROVE IInv'
  BY <1>1, CallsDisjoint DEF AddEnter, EnterOrThrow, TypeOK, Calls, LoopAtHead, LockedIsOpen,
     ReadyHasNoTask, NobodyWaitsBesideItems, lists, outcomes, frame
<1>2. ASSUME NEW x \in Items, AddExit(x) PROVE IInv'
  <2>1. LoopAtHead' /\ LockedIsOpen'
    BY <1>2 DEF AddExit, LoopAtHead, LockedIsOpen
  <2>2. ReadyHasNoTask'
    BY <1>2, CallsDisjoint DEF AddExit, ReadyHasNoTask, TypeOK, Calls, outcomes
  <2>3. NobodyWaitsBesideItems'
    <3>1. CASE stage = "over"
      BY <1>2, <3>1 DEF AddExit, NobodyWaitsBesideItems
    <3>2. CASE stage = "check" /\ pos > Len(handlers)
      <4>1. handlers \in Seq(Handlers) /\ 1 > Len(handlers)
        BY <3>2 DEF LoopAtHead, TypeOK
      <4>2. handlers = <<>>
        BY <4>1, EmptySeq
      <4>3. QED
        BY <1>2, <4>2 DEF AddExit, NobodyWaitsBesideItems
    <3>3. QED
      BY <1>2, <3>1, <3>2 DEF AddExit
  <2>4. QED
    BY <2>1, <2>2, <2>3
<1>3. ASSUME NEW x \in Items, Disconnect(x) PROVE IInv'
  BY <1>3 DEF Disconnect, LoopAtHead, LockedIsOpen, ReadyHasNoTask, NobodyWaitsBesideItems,
     lists, outcomes, frame
<1>4. ASSUME NEW h \in Handlers, CreateHandler(h) \/ CancelHandler(h) \/ HandleReturn(h)
      PROVE  IInv'
  <2>1. LoopAtHead' /\ LockedIsOpen' /\ NobodyWaitsBesideItems'
    BY <1>4 DEF CreateHandler, CancelHandler, HandleReturn, LoopAtHead, LockedIsOpen,
       NobodyWaitsBesideItems, lists, frame
  <2>2. ReadyHasNoTask'
    BY <1>4 DEF CreateHandler, CancelHandler, HandleReturn, ReadyHasNoTask, TypeOK, Calls, outcomes
  <2>3. QED
    BY <2>1, <2>2
<1>5. ASSUME NEW h \in Handlers, RunOrQueueEnter(h) PROVE IInv'
  BY <1>5 DEF RunOrQueueEnter, EnterOrThrow, TypeOK, Calls, LoopAtHead, LockedIsOpen,
     ReadyHasNoTask, NobodyWaitsBesideItems, lists, outcomes, frame
<1>6. ASSUME NEW h \in Handlers, RunOrQueueExit(h) PROVE IInv'
  <2>1. LoopAtHead' /\ LockedIsOpen'
    BY <1>6 DEF RunOrQueueExit, LoopAtHead, LockedIsOpen
  <2>2. ReadyHasNoTask'
    BY <1>6 DEF RunOrQueueExit, ReadyHasNoTask, TypeOK, Calls, outcomes
  <2>3. NobodyWaitsBesideItems'
    <3>1. CASE stage = "over"
      BY <1>6, <3>1 DEF RunOrQueueExit, NobodyWaitsBesideItems
    <3>2. CASE stage = "check" /\ pos > Len(items)
      <4>1. items \in Seq(Items) /\ 1 > Len(items)
        BY <3>2 DEF LoopAtHead, TypeOK
      <4>2. items = <<>>
        BY <4>1, EmptySeq
      <4>3. QED
        BY <1>6, <4>2 DEF RunOrQueueExit, NobodyWaitsBesideItems
    <3>3. QED
      BY <1>6, <3>1, <3>2 DEF RunOrQueueExit
  <2>4. QED
    BY <2>1, <2>2, <2>3
<1>7. ASSUME NEW x \in Items, NEW h \in Handlers, TryHandler(x, h) PROVE IInv'
  <2>1. LockedIsOpen'
    BY <1>7 DEF TryHandler, TryCompleted, TryPending, RunDefaultHandler, WaitHandlerLive,
       WaitHandlerDead, TrySetResult, LockedIsOpen
  <2>2. ReadyHasNoTask'
    BY <1>7 DEF TryHandler, TryCompleted, TryPending, RunDefaultHandler, WaitHandlerLive,
       WaitHandlerDead, TrySetResult, ReadyHasNoTask, TypeOK, Calls, outcomes
  <2>3. CASE TryPending(x, h) \/ RunDefaultHandler(x, h) \/ WaitHandlerLive(x, h)
    <3>1. LoopAtHead' /\ NobodyWaitsBesideItems'
      BY <2>3 DEF TryPending, RunDefaultHandler, WaitHandlerLive, LoopAtHead,
         NobodyWaitsBesideItems, lists
    <3>2. QED
      BY <2>1, <2>2, <3>1
  <2>4. CASE TryCompleted(x, h)
    BY <2>1, <2>2, <2>4, AfterTryLists DEF TryCompleted
  <2>5. CASE WaitHandlerDead(x, h)
    BY <2>1, <2>2, <2>5, AfterTryLists DEF WaitHandlerDead
  <2>6. CASE TrySetResult(x, h)
    BY <2>1, <2>2, <2>6, AfterTryLists DEF TrySetResult
  <2>7. QED
    BY <1>7, <2>3, <2>4, <2>5, <2>6 DEF TryHandler
<1>8. ASSUME NEW c \in Clearers, ClearItems(c) PROVE IInv'
  <2>1. LoopAtHead' /\ LockedIsOpen' /\ NobodyWaitsBesideItems'
    BY <1>8 DEF ClearItems, LoopAtHead, LockedIsOpen, NobodyWaitsBesideItems, frame
  <2>2. ReadyHasNoTask'
    BY <1>8, CallsDisjoint DEF ClearItems, ReadyHasNoTask, TypeOK, Calls, outcomes
  <2>3. QED
    BY <2>1, <2>2
<1>9. ASSUME NEW d \in Disposers, Dispose(d) PROVE IInv'
  <2>1. LoopAtHead' /\ NobodyWaitsBesideItems'
    BY <1>9 DEF Dispose, DisposeBegin, DisposeItems, FailHandler, DisposeEnd, LoopAtHead,
       NobodyWaitsBesideItems, lists, frame
  <2>2. LockedIsOpen'
    BY <1>9 DEF Dispose, DisposeBegin, DisposeItems, FailHandler, DisposeEnd, LockedIsOpen, frame
  <2>3. ReadyHasNoTask'
    <3>1. CASE FailHandler(d)
      BY <3>1 DEF FailHandler, ReadyHasNoTask, TypeOK
    <3>2. CASE DisposeBegin(d) \/ DisposeItems(d) \/ DisposeEnd(d)
      BY <3>2, CallsDisjoint DEF DisposeBegin, DisposeItems, DisposeEnd, ReadyHasNoTask, TypeOK,
         Calls, outcomes
    <3>3. QED
      BY <1>9, <3>1, <3>2 DEF Dispose
  <2>4. QED
    BY <2>1, <2>2, <2>3
<1>10. CASE UNCHANGED vars
  BY <1>10 DEF vars, LoopAtHead, LockedIsOpen, ReadyHasNoTask, NobodyWaitsBesideItems,
     lists, outcomes, frame
<1>11. QED
  BY <1>1, <1>2, <1>3, <1>4, <1>5, <1>6, <1>7, <1>8, <1>9, <1>10
     DEF Next, Add, Handle, AllReturned

THEOREM IInvHolds == Spec => []IInv
<1>1. Init => IInv
  <2>1. Init => TypeOK
    BY InitTypeOK
  <2>2. Init => LoopAtHead /\ LockedIsOpen /\ ReadyHasNoTask /\ NobodyWaitsBesideItems
    BY DEF Init, LoopAtHead, LockedIsOpen, ReadyHasNoTask, NobodyWaitsBesideItems, Calls
  <2>3. QED
    BY <2>1, <2>2 DEF IInv
<1>2. IInv /\ TypeOK' /\ [Next]_vars => IInv'
  BY IInvStep
<1>3. QED
  BY <1>1, <1>2, TypeCorrect, PTL DEF Spec

(* No lost wake-up: whatever the calls and their interleaving, an item is  *)
(* never stored while a handler is queued.                                 *)
THEOREM NoLostWakeup == Spec => []NobodyWaitsBesideItems
<1>1. IInv => NobodyWaitsBesideItems
  BY DEF IInv
<1>2. QED
  BY <1>1, IInvHolds, PTL

(* Once the collection is disposed its lists only get emptied, and by      *)
(* nobody but Dispose: its loops run over lists no other call touches.     *)
THEOREM DisposeRunsAlone == Spec => DisposedListsOnlyShrink
<1> DEFINE Shrink == disposed => items' \in {items, <<>>} /\ handlers' \in {handlers, <<>>}
<1>1. ASSUME IInv, [Next]_vars, disposed
      PROVE  items' \in {items, <<>>} /\ handlers' \in {handlers, <<>>}
  <2>1. lock = None
    BY <1>1 DEF IInv, LockedIsOpen
  <2>2. ASSUME NEW x \in Items, Add(x) \/ Disconnect(x) PROVE UNCHANGED lists
    <3>1. lock # x
      BY <2>1, CallsDisjoint DEF Calls
    <3>2. QED
      BY <1>1, <2>2, <3>1 DEF Add, AddEnter, EnterOrThrow, AddExit, Disconnect
  <2>3. ASSUME NEW h \in Handlers, Handle(h) \/ CancelHandler(h) PROVE UNCHANGED lists
    <3>1. lock # h
      BY <2>1, CallsDisjoint DEF Calls
    <3>2. QED
      BY <1>1, <2>3, <3>1 DEF Handle, CreateHandler, RunOrQueueEnter, EnterOrThrow,
         RunOrQueueExit, HandleReturn, CancelHandler
  <2>4. ASSUME NEW x \in Items, NEW h \in Handlers, TryHandler(x, h) PROVE FALSE
    <3>1. lock # x /\ lock # h
      BY <2>1, CallsDisjoint DEF Calls
    <3>2. QED
      BY <2>4, <3>1 DEF TryHandler, TryCompleted, TryPending, RunDefaultHandler,
         WaitHandlerLive, WaitHandlerDead, TrySetResult, Trying
  <2>5. ASSUME NEW c \in Clearers, ClearItems(c) PROVE UNCHANGED lists
    BY <1>1, <2>5 DEF ClearItems, lists
  <2>6. ASSUME NEW d \in Disposers, Dispose(d)
        PROVE  items' \in {items, <<>>} /\ handlers' \in {handlers, <<>>}
    BY <2>6 DEF Dispose, DisposeBegin, DisposeItems, FailHandler, DisposeEnd, lists
  <2>7. CASE UNCHANGED vars
    BY <2>7 DEF vars, lists
  <2>8. QED
    BY <1>1, <2>2, <2>3, <2>4, <2>5, <2>6, <2>7 DEF Next, AllReturned, lists
<1>2. IInv /\ [Next]_vars => [Shrink]_vars
  BY <1>1
<1>3. QED
  BY <1>2, IInvHolds, PTL DEF Spec, DisposedListsOnlyShrink

LEMMA OutcomeStays ==
  ASSUME IInv, [Next]_vars, NEW g \in Handlers, tcs[g] \notin {"none", "pending"}
  PROVE  tcs'[g] = tcs[g] /\ got'[g] = got[g]
<1>1. pc[g] # "ready" /\ tcs \in [Handlers -> {"none", "pending", "result", "cancelled", "disposed"}]
      /\ got \in [Handlers -> Items \union {None}]
  BY DEF IInv, ReadyHasNoTask, TypeOK
<1>2. ASSUME NEW x \in Items, Add(x) \/ Disconnect(x) PROVE UNCHANGED <<tcs, got>>
  BY <1>2 DEF Add, AddEnter, EnterOrThrow, AddExit, Disconnect, outcomes
<1>3. ASSUME NEW h \in Handlers, Handle(h) \/ CancelHandler(h)
      PROVE  tcs'[g] = tcs[g] /\ got'[g] = got[g]
  BY <1>1, <1>3 DEF Handle, CreateHandler, RunOrQueueEnter, EnterOrThrow,
     RunOrQueueExit, HandleReturn, CancelHandler, outcomes
<1>4. ASSUME NEW x \in Items, NEW h \in Handlers, TryHandler(x, h)
      PROVE  tcs'[g] = tcs[g] /\ got'[g] = got[g]
  BY <1>1, <1>4 DEF TryHandler, TryCompleted, TryPending, RunDefaultHandler,
     WaitHandlerLive, WaitHandlerDead, TrySetResult, outcomes
<1>5. ASSUME NEW c \in Clearers, ClearItems(c) PROVE UNCHANGED <<tcs, got>>
  BY <1>5 DEF ClearItems, outcomes
<1>6. ASSUME NEW d \in Disposers, Dispose(d) PROVE tcs'[g] = tcs[g] /\ got'[g] = got[g]
  <2>1. CASE FailHandler(d)
    BY <1>1, <2>1 DEF FailHandler
  <2>2. CASE DisposeBegin(d) \/ DisposeItems(d) \/ DisposeEnd(d)
    BY <2>2 DEF DisposeBegin, DisposeItems, DisposeEnd, outcomes
  <2>3. QED
    BY <1>6, <2>1, <2>2 DEF Dispose
<1>7. CASE UNCHANGED vars
  BY <1>7 DEF vars, outcomes
<1>8. QED
  BY <1>2, <1>3, <1>4, <1>5, <1>6, <1>7 DEF Next, AllReturned

(* A task that has an outcome keeps it: of a result, a cancellation and a  *)
(* disposal that race for a handler exactly one wins.                      *)
THEOREM OutcomesAreFinal == Spec => OutcomeIsFinal
<1> DEFINE Final == \A h \in Handlers : tcs[h] \notin {"none", "pending"}
                        => tcs'[h] = tcs[h] /\ got'[h] = got[h]
<1>2. IInv /\ [Next]_vars => [Final]_vars
  BY OutcomeStays
<1>3. QED
  BY <1>2, IInvHolds, PTL DEF Spec, OutcomeIsFinal

-----------------------------------------------------------------------------
(* Who waits, and what is left after Dispose: a caller that waits is in the *)
(* queue, and a disposed collection is empty.                              *)

(* The loop index of Dispose stays inside the queue; nobody sweeps before. *)
SweepInside == swept <= Len(handlers) /\ (~disposed => swept = 0)

LockedIsInside == lock # None => pc[lock] = "inside"

(* RunOrQueueHandler's loop ends early only when its task is completed.    *)
OverIsSettled == \A h \in Handlers : lock = h /\ stage = "over" => tcs[h] # "pending"

(* From the moment the flag is set a call of Dispose is at work until both *)
(* lists are empty.                                                        *)
Closing(d) == pc[d] \in {"closing", "failing"}

Draining ==
    /\ \A d \in Disposers : Closing(d) => disposed
    /\ \A d \in Disposers : pc[d] = "failing" => items = <<>>
    /\ disposed => (\E d \in Disposers : Closing(d)) \/ (items = <<>> /\ handlers = <<>>)

QInv == IInv /\ SweepInside /\ LockedIsInside /\ OverIsSettled /\ WaiterIsQueued /\ Draining

LEMMA RemoveAtHead ==
  ASSUME NEW S, NEW s \in Seq(S), 1 <= Len(s)
  PROVE  /\ RemoveAt(s, 1) \in Seq(S)
         /\ Len(RemoveAt(s, 1)) = Len(s) - 1
         /\ \A i \in 1..(Len(s) - 1) : RemoveAt(s, 1)[i] = s[i + 1]
<1>1. Len(s) \in Nat /\ s \in Seq(S)
  OBVIOUS
<1>2. SubSeq(s, 1, 0) = <<>>
  BY <1>1
<1>3. /\ SubSeq(s, 2, Len(s)) \in Seq(S)
      /\ Len(SubSeq(s, 2, Len(s))) = Len(s) - 1
      /\ \A i \in 1..(Len(s) - 1) : SubSeq(s, 2, Len(s))[i] = s[i + 1]
  <2>1. \A i \in 2..Len(s) : s[i] \in S
    BY <1>1
  <2>2. /\ SubSeq(s, 2, Len(s)) \in Seq(S)
        /\ Len(SubSeq(s, 2, Len(s))) = (IF 2 <= Len(s) THEN Len(s) - 2 + 1 ELSE 0)
        /\ \A i \in 1..(Len(s) - 2 + 1) : SubSeq(s, 2, Len(s))[i] = s[2 + i - 1]
    BY <1>1, <2>1, SubSeqProperties
  <2>3. /\ Len(s) - 2 + 1 = Len(s) - 1
        /\ (IF 2 <= Len(s) THEN Len(s) - 2 + 1 ELSE 0) = Len(s) - 1
        /\ \A i \in Nat : 2 + i - 1 = i + 1
    <3>1. \A n \in Nat : 1 <= n => /\ n - 2 + 1 = n - 1
                                 /\ (IF 2 <= n THEN n - 2 + 1 ELSE 0) = n - 1
      OBVIOUS
    <3>2. \A i \in Nat : 2 + i - 1 = i + 1
      OBVIOUS
    <3>3. QED
      BY <1>1, <3>1, <3>2
  <2>4. 1..(Len(s) - 1) \subseteq Nat
    BY <1>1
  <2>5. QED
    BY <2>2, <2>3, <2>4
<1>4. RemoveAt(s, 1) = <<>> \o SubSeq(s, 2, Len(s))
  BY <1>2 DEF RemoveAt
<1>5. RemoveAt(s, 1) = SubSeq(s, 2, Len(s))
  BY <1>3, <1>4, ConcatEmptySeq
<1>6. QED
  BY <1>3, <1>5

(* An offer by Add to the first handler: a handler that is dropped from    *)
(* the queue has a completed task, and those behind it move up.            *)
LEMMA OfferKeepsQueue ==
  ASSUME QInv, TypeOK', NEW x \in Items, NEW h \in Handlers, NEW stop \in BOOLEAN, NEW remove \in BOOLEAN,
         Trying(x, h), AfterTry(x, h, stop, remove), stage # "over",
         stop => tcs'[h] # "pending",
         \A g \in Handlers : tcs'[g] = "pending" => tcs[g] = "pending",
         UNCHANGED <<disposed, lock, pc, swept>>
  PROVE  SweepInside' /\ WaiterIsQueued' /\ OverIsSettled' /\ LockedIsInside' /\ Draining'
<1>1. /\ swept = 0 /\ swept' = 0 /\ ~disposed /\ x # h /\ x # None /\ h # None /\ lock # None /\ x \notin Handlers
      /\ pos = 1
  BY CallsDisjoint DEF QInv, IInv, LockedIsOpen, SweepInside, Trying, Calls, LoopAtHead
<1>2. LockedIsInside' /\ Draining'
  BY <1>1 DEF QInv, LockedIsInside, Draining, Closing
<1>3. SweepInside'
  BY <1>1 DEF SweepInside, TypeOK
<1>4. OverIsSettled'
  BY <1>1 DEF OverIsSettled, AfterTry, Trying
<1>5. ASSUME NEW g \in Handlers, pc'[g] = "awaiting", tcs'[g] = "pending"
      PROVE  \E i \in swept' + 1 .. Len(handlers') : handlers'[i] = g
  <2>1. PICK i \in 1..Len(handlers) : handlers[i] = g
    BY <1>1, <1>5 DEF QInv, WaiterIsQueued
  <2>2. CASE handlers' = handlers
    BY <1>1, <2>1, <2>2
  <2>3. CASE lock = x /\ stop /\ handlers' = RemoveAt(handlers, 1)
    <3>1. handlers \in Seq(Handlers) /\ 1 <= Len(handlers)
      BY <2>1 DEF QInv, IInv, TypeOK
    <3>2. handlers[1] = h
      BY <1>1, <2>3 DEF Trying
    <3>3. i # 1
      BY <1>5, <2>1, <2>3, <3>2
    <3>4. i - 1 \in 1..(Len(handlers) - 1) /\ (i - 1) + 1 = i
      BY <2>1, <3>1, <3>3
    <3>5. Len(handlers') = Len(handlers) - 1 /\ handlers'[i - 1] = g
      BY <2>1, <2>3, <3>1, <3>4, RemoveAtHead
    <3>6. QED
      BY <1>1, <3>4, <3>5
  <2>4. QED
    BY <1>1, <2>2, <2>3 DEF AfterTry
<1>6. QED
  BY <1>2, <1>3, <1>4, <1>5 DEF WaiterIsQueued

LEMMA TryKeepsQueue ==
  ASSUME QInv, TypeOK', NEW x \in Items, NEW h \in Handlers, TryHandler(x, h)
  PROVE  SweepInside' /\ WaiterIsQueued' /\ OverIsSettled' /\ LockedIsInside' /\ Draining'
<1>0. /\ tcs \in [Handlers -> {"none", "pending", "result", "cancelled", "disposed"}]
      /\ removeItem \in BOOLEAN
  BY DEF QInv, IInv, TypeOK, FlagsOK
<1>1. CASE TryPending(x, h) \/ RunDefaultHandler(x, h) \/ WaitHandlerLive(x, h)
  BY <1>1 DEF TryPending, RunDefaultHandler, WaitHandlerLive, QInv, SweepInside, WaiterIsQueued,
     OverIsSettled, LockedIsInside, Draining, Closing, lists, outcomes
<1>2. CASE TryCompleted(x, h)
  <2>1. /\ Trying(x, h) /\ stage # "over" /\ AfterTry(x, h, TRUE, FALSE)
        /\ tcs' = tcs /\ tcs[h] # "pending"
        /\ UNCHANGED <<disposed, lock, pc, swept>>
    BY <1>2 DEF TryCompleted, outcomes
  <2>2. QED
    BY <2>1, OfferKeepsQueue
<1>3. CASE WaitHandlerDead(x, h)
  <2>1. /\ Trying(x, h) /\ stage # "over" /\ AfterTry(x, h, FALSE, TRUE)
        /\ tcs' = tcs
        /\ UNCHANGED <<disposed, lock, pc, swept>>
    BY <1>3 DEF WaitHandlerDead, outcomes
  <2>2. QED
    BY <2>1, OfferKeepsQueue
<1>4. CASE TrySetResult(x, h)
  <2>1. /\ Trying(x, h) /\ stage # "over" /\ AfterTry(x, h, TRUE, removeItem)
        /\ tcs'[h] # "pending"
        /\ \A g \in Handlers : tcs'[g] = "pending" => tcs[g] = "pending"
        /\ UNCHANGED <<disposed, lock, pc, swept>>
    BY <1>0, <1>4 DEF TrySetResult
  <2>2. QED
    BY <1>0, <2>1, OfferKeepsQueue
<1>5. QED
  BY <1>1, <1>2, <1>3, <1>4 DEF TryHandler

(* A step that leaves the calls of Dispose alone leaves Dispose's promise.  *)
LEMMA OthersKeepDraining ==
  ASSUME Draining, disposed' = disposed,
         \A d \in Disposers : pc'[d] = pc[d],
         ~disposed \/ (items' \in {items, <<>>} /\ handlers' = handlers)
  PROVE  Draining'
<1>1. \A d \in Disposers : Closing(d)' <=> Closing(d)
  BY DEF Closing
<1>2. \A d \in Disposers : Closing(d)' => disposed'
  BY <1>1 DEF Draining
<1>3. \A d \in Disposers : pc[d] = "failing" => disposed
  BY DEF Draining, Closing
<1>4. \A d \in Disposers : pc'[d] = "failing" => items' = <<>>
  BY <1>3 DEF Draining
<1>5. disposed' => (\E d \in Disposers : Closing(d)') \/ (items' = <<>> /\ handlers' = <<>>)
  BY <1>1 DEF Draining
<1>6. QED
  BY <1>2, <1>4, <1>5 DEF Draining, Closing

(* A step that leaves the queue alone and makes nobody wait leaves every   *)
(* waiting caller in the queue.                                            *)
LEMMA OthersKeepWaiters ==
  ASSUME WaiterIsQueued, handlers' = handlers, swept' = swept,
         \A h \in Handlers : pc'[h] = "awaiting" /\ tcs'[h] = "pending"
                             => pc[h] = "awaiting" /\ tcs[h] = "pending"
  PROVE  WaiterIsQueued'
  BY DEF WaiterIsQueued

(* The invariant is inductive, one action at a time.                       *)
LEMMA QInvStep ==
  ASSUME QInv, IInv', [Next]_vars
  PROVE  QInv'
<1> USE DEF QInv
<1>0. /\ TypeOK /\ TypeOK'
      /\ pc \in [Calls -> {"ready", "created", "inside", "awaiting", "closing", "failing", "done", "threw"}]
      /\ tcs \in [Handlers -> {"none", "pending", "result", "cancelled", "disposed"}]
      /\ handlers \in Seq(Handlers) /\ items \in Seq(Items) /\ swept \in Nat
      /\ lock # None => ~disposed
  BY DEF IInv, TypeOK, LockedIsOpen
<1>1. ASSUME NEW x \in Items, AddEnter(x) PROVE QInv'
  BY <1>0, <1>1, CallsDisjoint DEF AddEnter, EnterOrThrow, Calls, SweepInside, LockedIsInside,
     OverIsSettled, WaiterIsQueued, Draining, Closing, lists, outcomes, frame
<1>2. ASSUME NEW x \in Items, AddExit(x) PROVE QInv'
  <2>1. x \in Calls /\ x \notin Handlers /\ x \notin Disposers /\ x # None /\ ~disposed
    BY <1>0, <1>2, CallsDisjoint DEF AddExit, Calls
  <2>2. /\ pc' = [pc EXCEPT ![x] = "done"] /\ lock' = None
        /\ UNCHANGED <<handlers, disposed, stage, tcs, swept>>
    BY <1>2 DEF AddExit, outcomes
  <2>3. SweepInside' /\ LockedIsInside' /\ OverIsSettled'
    BY <2>2, CallsDisjoint DEF SweepInside, LockedIsInside, OverIsSettled, Calls
  <2>4. \A c \in Handlers \union Disposers : pc'[c] = pc[c]
    <3>1. \A c \in Handlers \union Disposers : c \in Calls /\ c # x
      BY <2>1 DEF Calls
    <3>2. \A c \in Calls : c # x => pc'[c] = pc[c]
      BY <1>0, <2>2
    <3>3. QED
      BY <3>1, <3>2
  <2>5. WaiterIsQueued'
    BY <2>2, <2>4, OthersKeepWaiters
  <2>6. Draining'
    BY <2>1, <2>2, <2>4, OthersKeepDraining
  <2>7. QED
    BY <2>3, <2>5, <2>6
<1>3. ASSUME NEW x \in Items, Disconnect(x) PROVE QInv'
  BY <1>3 DEF Disconnect, SweepInside, LockedIsInside,
     OverIsSettled, WaiterIsQueued, Draining, Closing, lists, outcomes, frame
<1>4. ASSUME NEW h \in Handlers, CreateHandler(h) \/ CancelHandler(h) \/ HandleReturn(h)
      PROVE  QInv'
  <2>1. h \in Calls /\ h \notin Disposers /\ h # None
    BY CallsDisjoint DEF Calls
  <2>2. UNCHANGED <<items, handlers, disposed, lock, stage, swept>>
    BY <1>4 DEF CreateHandler, CancelHandler, HandleReturn, lists, frame
  <2>3. /\ pc' = pc \/ pc' = [pc EXCEPT ![h] = "created"] \/ pc' = [pc EXCEPT ![h] = "done"]
        /\ pc[h] = "inside" => pc' = pc
    BY <1>4 DEF CreateHandler, CancelHandler, HandleReturn
  <2>4. /\ \A g \in Handlers : g # h => tcs'[g] = tcs[g]
        /\ tcs'[h] = "pending" /\ tcs[h] # "pending" => pc[h] = "ready" /\ pc'[h] = "created"
    BY <1>0, <1>4, <2>1 DEF CreateHandler, CancelHandler, HandleReturn, outcomes
  <2>5. /\ \A c \in Calls : c # h => pc'[c] = pc[c]
        /\ pc'[h] \in {pc[h], "created", "done"}
    BY <1>0, <2>1, <2>3
  <2>6. SweepInside'
    BY <2>2 DEF SweepInside
  <2>7. LockedIsInside'
    <3>1. lock # None => pc[lock] = "inside" /\ lock \in Calls
      BY <1>0 DEF LockedIsInside, TypeOK, Calls
    <3>2. lock # None => pc'[lock] = "inside"
      BY <2>3, <2>5, <3>1
    <3>3. QED
      BY <2>2, <3>2 DEF LockedIsInside
  <2>8. OverIsSettled'
    <3>1. lock = h => pc[h] = "inside"
      BY <2>1 DEF LockedIsInside
    <3>2. lock = h /\ stage = "over" => tcs'[h] # "pending"
      BY <2>4, <3>1 DEF OverIsSettled
    <3>3. \A g \in Handlers : lock = g /\ stage = "over" => tcs'[g] # "pending"
      BY <2>4, <3>2 DEF OverIsSettled
    <3>4. QED
      BY <2>2, <3>3 DEF OverIsSettled
  <2>9. WaiterIsQueued'
    <3>1. ASSUME NEW g \in Handlers, pc'[g] = "awaiting", tcs'[g] = "pending"
          PROVE  pc[g] = "awaiting" /\ tcs[g] = "pending"
      <4>1. CASE g = h
        BY <2>4, <2>5, <3>1, <4>1
      <4>2. CASE g # h
        BY <2>4, <2>5, <3>1, <4>2 DEF Calls
      <4>3. QED
        BY <4>1, <4>2
    <3>2. QED
      BY <2>2, <3>1, OthersKeepWaiters
  <2>10. Draining'
    <3>1. \A d \in Disposers : pc'[d] = pc[d]
      BY <2>1, <2>5 DEF Calls
    <3>2. QED
      BY <2>2, <3>1, OthersKeepDraining
  <2>11. QED
    BY <2>6, <2>7, <2>8, <2>9, <2>10
<1>5. ASSUME NEW h \in Handlers, RunOrQueueEnter(h) PROVE QInv'
  BY <1>0, <1>5, CallsDisjoint DEF RunOrQueueEnter, EnterOrThrow, Calls, SweepInside, LockedIsInside,
     OverIsSettled, WaiterIsQueued, Draining, Closing, lists, outcomes, frame
<1>6. ASSUME NEW h \in Handlers, RunOrQueueExit(h) PROVE QInv'
  <2>1. h \in Calls /\ h \notin Disposers /\ h # None /\ ~disposed /\ swept = 0 /\ swept' = 0
    BY <1>0, <1>6, CallsDisjoint DEF RunOrQueueExit, Calls, SweepInside
  <2>2. SweepInside' /\ LockedIsInside' /\ OverIsSettled' /\ Draining'
    <3>1. lock' = None /\ disposed' = disposed /\ pc' = [pc EXCEPT ![h] = "awaiting"]
      BY <1>6 DEF RunOrQueueExit
    <3>2. LockedIsInside' /\ OverIsSettled'
      BY <3>1, CallsDisjoint DEF LockedIsInside, OverIsSettled, Calls
    <3>3. Len(handlers') \in Nat
      BY <1>0 DEF TypeOK
    <3>4. SweepInside'
      BY <2>1, <3>1, <3>3 DEF SweepInside
    <3>5. \A d \in Disposers : pc'[d] = pc[d]
      BY <1>0, <2>1, <3>1
    <3>6. QED
      BY <2>1, <3>1, <3>2, <3>4, <3>5, OthersKeepDraining
  <2>3. ASSUME NEW g \in Handlers, pc'[g] = "awaiting", tcs'[g] = "pending"
        PROVE  \E i \in swept' + 1 .. Len(handlers') : handlers'[i] = g
    <3>1. tcs' = tcs
      BY <1>6 DEF RunOrQueueExit, outcomes
    <3>2. CASE g = h
      <4>1. handlers' = Append(handlers, h)
        BY <1>6, <2>3, <3>1, <3>2 DEF RunOrQueueExit, OverIsSettled
      <4>2. Len(handlers') = Len(handlers) + 1 /\ handlers'[Len(handlers) + 1] = h /\ Len(handlers) \in Nat
        BY <1>0, <4>1
      <4>3. QED
        BY <2>1, <3>2, <4>2
    <3>3. CASE g # h
      <4>1. pc[g] = "awaiting"
        BY <1>0, <1>6, <2>3, <3>3 DEF RunOrQueueExit
      <4>2. PICK i \in 1..Len(handlers) : handlers[i] = g
        BY <2>1, <2>3, <3>1, <4>1 DEF WaiterIsQueued
      <4>3. CASE handlers' = handlers
        BY <2>1, <4>2, <4>3
      <4>4. CASE handlers' = Append(handlers, h)
        <5>1. Len(handlers') = Len(handlers) + 1 /\ handlers'[i] = g /\ Len(handlers) \in Nat
          BY <1>0, <4>2, <4>4
        <5>2. QED
          BY <2>1, <4>2, <5>1
      <4>5. QED
        BY <1>6, <4>3, <4>4 DEF RunOrQueueExit
    <3>4. QED
      BY <3>2, <3>3
  <2>4. QED
    BY <2>2, <2>3 DEF WaiterIsQueued
<1>7. ASSUME NEW x \in Items, NEW h \in Handlers, TryHandler(x, h) PROVE QInv'
  BY <1>0, <1>7, TryKeepsQueue
<1>8. ASSUME NEW c \in Clearers, ClearItems(c) PROVE QInv'
  <2>1. c \in Calls /\ c \notin Disposers /\ c \notin Handlers /\ c # None /\ lock = None
    BY <1>8, CallsDisjoint DEF Calls, ClearItems
  <2>2. /\ pc' = [pc EXCEPT ![c] = "done"] \/ pc' = [pc EXCEPT ![c] = "threw"]
        /\ items' \in {items, <<>>}
        /\ UNCHANGED <<handlers, disposed, lock, stage, tcs, swept>>
    BY <1>8 DEF ClearItems, frame, outcomes
  <2>3. SweepInside' /\ LockedIsInside' /\ OverIsSettled'
    BY <2>1, <2>2, CallsDisjoint DEF SweepInside, LockedIsInside, OverIsSettled, Calls
  <2>4. \A k \in Handlers \union Disposers : pc'[k] = pc[k]
    <3>1. \A k \in Handlers \union Disposers : k \in Calls /\ k # c
      BY <2>1 DEF Calls
    <3>2. \A k \in Calls : k # c => pc'[k] = pc[k]
      BY <1>0, <2>2
    <3>3. QED
      BY <3>1, <3>2
  <2>5. WaiterIsQueued'
    BY <2>2, <2>4, OthersKeepWaiters
  <2>6. Draining'
    BY <2>2, <2>4, OthersKeepDraining
  <2>7. QED
    BY <2>3, <2>5, <2>6
<1>9. ASSUME NEW d \in Disposers, Dispose(d) PROVE QInv'
  <2>1. d \in Calls /\ d \notin Handlers /\ d # None
    BY CallsDisjoint DEF Calls
  <2>2. CASE DisposeBegin(d)
    BY <1>0, <2>1, <2>2 DEF DisposeBegin, SweepInside, LockedIsInside,
       OverIsSettled, WaiterIsQueued, Draining, Closing, lists, outcomes, frame
  <2>3. CASE DisposeItems(d)
    <3>1. disposed /\ lock = None
      BY <1>0, <2>3 DEF DisposeItems, Draining, Closing
    <3>2. QED
      BY <1>0, <2>1, <2>3, <3>1 DEF DisposeItems, SweepInside, LockedIsInside,
         OverIsSettled, WaiterIsQueued, Draining, Closing, outcomes, frame
  <2>4. CASE FailHandler(d)
    <3>1. disposed /\ lock = None
      BY <1>0, <2>4 DEF FailHandler, Draining, Closing
    <3>2. SweepInside' /\ LockedIsInside' /\ OverIsSettled' /\ Draining'
      BY <1>0, <2>4, <3>1 DEF FailHandler, SweepInside, LockedIsInside, OverIsSettled, Draining, Closing,
         lists, frame
    <3>3. ASSUME NEW g \in Handlers, pc'[g] = "awaiting", tcs'[g] = "pending"
          PROVE  \E i \in swept' + 1 .. Len(handlers') : handlers'[i] = g
      <4>1. handlers[swept + 1] \in Handlers /\ handlers' = handlers /\ swept' = swept + 1 /\ pc' = pc
        BY <1>0, <2>4 DEF FailHandler, lists
      <4>2. tcs[g] = "pending" /\ handlers[swept + 1] # g
        BY <1>0, <2>4, <3>3, <4>1 DEF FailHandler
      <4>3. PICK i \in swept + 1 .. Len(handlers) : handlers[i] = g
        BY <3>3, <4>1, <4>2 DEF WaiterIsQueued
      <4>4. i # swept + 1 /\ Len(handlers) \in Nat
        BY <1>0, <4>2, <4>3
      <4>5. QED
        BY <1>0, <4>1, <4>3, <4>4
    <3>4. QED
      BY <3>2, <3>3 DEF WaiterIsQueued
  <2>5. CASE DisposeEnd(d)
    <3>1. disposed /\ lock = None /\ items = <<>>
      BY <1>0, <2>5 DEF DisposeEnd, Draining, Closing
    <3>2. \A g \in Handlers : pc[g] = "awaiting" => tcs[g] # "pending"
      BY <1>0, <2>5 DEF DisposeEnd, WaiterIsQueued
    <3>3. QED
      BY <1>0, <2>1, <2>5, <3>1, <3>2, EmptySeq DEF DisposeEnd, SweepInside, LockedIsInside,
         OverIsSettled, WaiterIsQueued, Draining, Closing, outcomes, frame
  <2>6. QED
    BY <1>9, <2>2, <2>3, <2>4, <2>5 DEF Dispose
<1>10. CASE UNCHANGED vars
  BY <1>10 DEF vars, SweepInside, LockedIsInside, OverIsSettled, WaiterIsQueued, Draining, Closing,
     lists, outcomes, frame
<1>11. QED
  BY <1>1, <1>2, <1>3, <1>4, <1>5, <1>6, <1>7, <1>8, <1>9, <1>10
     DEF Next, Add, Handle, AllReturned

LEMMA QInvHolds == Spec => []QInv
<1>1. Init /\ IInv => QInv
  BY CallsDisjoint, EmptySeq DEF Init, QInv, SweepInside, LockedIsInside, OverIsSettled, WaiterIsQueued,
     Draining, Closing, Calls
<1>2. QInv /\ IInv' /\ [Next]_vars => QInv'
  BY QInvStep
<1>3. QED
  BY <1>1, <1>2, IInvHolds, PTL DEF Spec

(* A caller that waits for its task is in the queue, ahead of Dispose's    *)
(* loop: the next item, its cancellation or Dispose will wake it.          *)
THEOREM WaitersAreQueued == Spec => []WaiterIsQueued
<1>1. QInv => WaiterIsQueued
  BY DEF QInv
<1>2. QED
  BY <1>1, QInvHolds, PTL

(* When every Dispose that has begun has returned, nothing is stored,      *)
(* nothing is queued and nobody waits.                                     *)
THEOREM DisposedIsEmpty == Spec => []DisposedIsDrained
<1>1. QInv => DisposedIsDrained
  <2> SUFFICES ASSUME QInv, disposed, \A d \in Disposers : pc[d] \notin {"closing", "failing"}
               PROVE  /\ items = <<>> /\ handlers = <<>>
                      /\ \A h \in Handlers : pc[h] = "awaiting" => tcs[h] # "pending"
    BY DEF DisposedIsDrained
  <2>1. items = <<>> /\ handlers = <<>>
    BY DEF QInv, Draining, Closing
  <2>2. swept \in Nat /\ Len(handlers) = 0
    BY <2>1, EmptySeq DEF QInv, IInv, TypeOK
  <2>3. \A i \in swept + 1 .. Len(handlers) : FALSE
    BY <2>2
  <2>4. QED
    BY <2>1, <2>3 DEF QInv, WaiterIsQueued
<1>2. QED
  BY <1>1, QInvHolds, PTL
------------------------------------------------------------------------------
(* Where each item is.                                                     *)

(* Nobody has had the item yet; it was either taken or closed, not both.   *)
Free(x) == taker[x] = None /\ x \notin closed
Gone(x) == taker[x] = None <=> x \in closed

StoredOnce == \A i, j \in 1..Len(items) : items[i] = items[j] => i = j

(* The item of a call of Add, by where the call is.                        *)
Owned(x) ==
    /\ x \in ToSet(items) => Free(x) /\ pc[x] = "done"
    /\ pc[x] \in {"ready", "threw"} => Free(x)
    /\ pc[x] = "inside" => lock = x /\ (IF stage = "over" THEN Gone(x) ELSE Free(x))
    /\ pc[x] = "done" => x \in ToSet(items) \/ Gone(x)

OInv == QInv /\ StoredOnce /\ \A x \in Items : Owned(x)

LEMMA MemberOfSeq ==
  ASSUME NEW S, NEW s \in Seq(S), NEW x
  PROVE  x \in ToSet(s) <=> \E i \in 1..Len(s) : s[i] = x
  BY DEF ToSet

LEMMA AppendMembers ==
  ASSUME NEW S, NEW s \in Seq(S), NEW e \in S
  PROVE  \A x : x \in ToSet(Append(s, e)) <=> x \in ToSet(s) \/ x = e
<1> DEFINE t == Append(s, e)
<1>1. /\ t \in Seq(S) /\ Len(s) \in Nat /\ Len(t) = Len(s) + 1
      /\ t[Len(s) + 1] = e
      /\ \A i \in 1..Len(s) : t[i] = s[i]
  OBVIOUS
<1> HIDE DEF t
<1>2. ASSUME NEW x PROVE x \in ToSet(t) <=> x \in ToSet(s) \/ x = e
  <2>1. x \in ToSet(t) <=> \E i \in 1..(Len(s) + 1) : t[i] = x
    BY <1>1, MemberOfSeq
  <2>2. x \in ToSet(s) <=> \E i \in 1..Len(s) : s[i] = x
    BY MemberOfSeq
  <2>3. \A i : i \in 1..(Len(s) + 1) <=> i \in 1..Len(s) \/ i = Len(s) + 1
    BY <1>1
  <2>4. QED
    BY <1>1, <2>1, <2>2, <2>3
<1>3. QED
  BY <1>2 DEF t

(* Without its first element a list without repetitions is one without it. *)
LEMMA HeadIsGone ==
  ASSUME NEW S, NEW s \in Seq(S), 1 <= Len(s),
         \A i, j \in 1..Len(s) : s[i] = s[j] => i = j
  PROVE  /\ \A x : x \in ToSet(RemoveAt(s, 1)) <=> x \in ToSet(s) /\ x # s[1]
         /\ \A i, j \in 1..Len(RemoveAt(s, 1)) : RemoveAt(s, 1)[i] = RemoveAt(s, 1)[j] => i = j
<1> DEFINE t == RemoveAt(s, 1)
<1>1. /\ t \in Seq(S) /\ Len(t) = Len(s) - 1 /\ Len(s) \in Nat
      /\ \A i \in 1..(Len(s) - 1) : t[i] = s[i + 1]
  BY RemoveAtHead
<1> HIDE DEF t
<1>2. ASSUME NEW x PROVE x \in ToSet(t) <=> x \in ToSet(s) /\ x # s[1]
  <2>1. x \in ToSet(t) <=> \E i \in 1..(Len(s) - 1) : s[i + 1] = x
    BY <1>1, MemberOfSeq
  <2>2. x \in ToSet(s) <=> \E i \in 1..Len(s) : s[i] = x
    BY MemberOfSeq
  <2>3. ASSUME NEW i \in 1..(Len(s) - 1), s[i + 1] = x PROVE x \in ToSet(s) /\ x # s[1]
    <3>1. i + 1 \in 1..Len(s) /\ i + 1 # 1 /\ 1 \in 1..Len(s)
      BY <1>1
    <3>2. QED
      BY <2>2, <2>3, <3>1
  <2>4. ASSUME NEW i \in 1..Len(s), s[i] = x, x # s[1] PROVE x \in ToSet(t)
    <3>1. i # 1
      BY <2>4
    <3>2. i - 1 \in 1..(Len(s) - 1) /\ (i - 1) + 1 = i
      BY <1>1, <3>1
    <3>3. QED
      BY <2>1, <2>4, <3>2
  <2>5. QED
    BY <2>1, <2>2, <2>3, <2>4
<1>3. ASSUME NEW i \in 1..Len(t), NEW j \in 1..Len(t), t[i] = t[j] PROVE i = j
  <2>1. i + 1 \in 1..Len(s) /\ j + 1 \in 1..Len(s) /\ t[i] = s[i + 1] /\ t[j] = s[j + 1]
    BY <1>1
  <2>2. i + 1 = j + 1
    BY <1>3, <2>1
  <2>3. QED
    BY <1>1, <2>2
<1>4. QED
  BY <1>2, <1>3 DEF t

(* What is said of an item is unchanged by steps that are not about it.    *)
LEMMA UntouchedIsOwned ==
  ASSUME NEW x \in Items, Owned(x), pc'[x] = pc[x],
         pc[x] = "inside" => lock' = lock /\ (stage' = "over" <=> stage = "over"),
         x \in ToSet(items') <=> x \in ToSet(items),
         taker'[x] = taker[x], x \in closed' <=> x \in closed
  PROVE  Owned(x)'
<1>1. (Free(x)' <=> Free(x)) /\ (Gone(x)' <=> Gone(x))
  BY DEF Free, Gone
<1>2. QED
  BY <1>1 DEF Owned

(* An offer: the item a handler accepted, or found dead, is gone and in no *)
(* list; every other item is where it was.                                 *)
LEMMA OfferKeepsOwners ==
  ASSUME OInv, NEW x \in Items, NEW h \in Handlers, NEW stop \in BOOLEAN, NEW remove \in BOOLEAN,
         Trying(x, h), AfterTry(x, h, stop, remove), stage # "over",
         pc' = pc, lock' = lock,
         \A y \in Items : y # x \/ ~remove => taker'[y] = taker[y] /\ (y \in closed' <=> y \in closed),
         remove => Gone(x)'
  PROVE  StoredOnce' /\ \A y \in Items : Owned(y)'
<1>1. /\ items \in Seq(Items) /\ handlers \in Seq(Handlers)
      /\ x # h /\ x # None /\ h # None /\ pos = 1
      /\ \A y \in Items : y # h
  BY CallsDisjoint DEF OInv, QInv, IInv, TypeOK, LoopAtHead, Calls
<1>2. CASE lock = x
  <2>1. items' = items /\ stage' = (IF remove THEN "over" ELSE "check") /\ pc[x] = "inside"
    BY <1>1, <1>2 DEF AfterTry, OInv, QInv, LockedIsInside
  <2>2. ASSUME NEW y \in Items, y # x PROVE Owned(y)'
    <3>1. Owned(y) /\ pc[y] # "inside"
      BY <1>2, <2>2 DEF OInv, Owned
    <3>2. QED
      BY <2>1, <2>2, <3>1, UntouchedIsOwned
  <2>3. Owned(x)'
    <3>1. CASE remove
      <4>1. Owned(x) /\ x \notin ToSet(items')
        BY <2>1 DEF OInv, Owned
      <4>2. QED
        BY <1>2, <2>1, <3>1, <4>1 DEF Owned
    <3>2. CASE ~remove
      <4>1. stage' # "over" /\ Owned(x)
        BY <2>1, <3>2 DEF OInv
      <4>2. QED
        BY <2>1, <3>2, <4>1, UntouchedIsOwned
    <3>3. QED
      BY <3>1, <3>2
  <2>4. QED
    BY <2>1, <2>2, <2>3 DEF OInv, StoredOnce
<1>3. CASE lock = h
  <2>1. 1 <= Len(items) /\ items[1] = x /\ items' = IF remove THEN RemoveAt(items, 1) ELSE items
    BY <1>1, <1>3 DEF Trying, AfterTry
  <2>2. \A y \in Items : Owned(y) /\ pc[y] # "inside"
    BY <1>1, <1>3 DEF OInv, Owned
  <2>3. CASE remove
    <3>1. /\ \A y : y \in ToSet(items') <=> y \in ToSet(items) /\ y # x
          /\ StoredOnce'
      BY <1>1, <2>1, <2>3, HeadIsGone DEF OInv, StoredOnce
    <3>2. ASSUME NEW y \in Items, y # x PROVE Owned(y)'
      BY <2>2, <3>1, <3>2, UntouchedIsOwned
    <3>3. pc[x] = "done"
      <4>1. Len(items) \in Nat
        BY <1>1
      <4>2. 1 \in 1..Len(items)
        BY <2>1, <4>1
      <4>3. x \in ToSet(items)
        BY <1>1, <2>1, <4>2, MemberOfSeq
      <4>4. QED
        BY <2>2, <4>3 DEF Owned
    <3>4. Owned(x)'
      BY <2>3, <3>1, <3>3 DEF Owned
    <3>5. QED
      BY <3>1, <3>2, <3>4
  <2>4. CASE ~remove
    <3>1. items' = items
      BY <2>1, <2>4
    <3>2. ASSUME NEW y \in Items PROVE Owned(y)'
      BY <2>2, <2>4, <3>1, UntouchedIsOwned
    <3>3. QED
      BY <3>1, <3>2 DEF OInv, StoredOnce
  <2>5. QED
    BY <2>3, <2>4
<1>4. QED
  BY <1>2, <1>3 DEF AfterTry

LEMMA OInvStep ==
  ASSUME OInv, QInv', [Next]_vars
  PROVE  OInv'
<1>0. /\ pc \in [Calls -> {"ready", "created", "inside", "awaiting", "closing", "failing", "done", "threw"}]
      /\ tcs \in [Handlers -> {"none", "pending", "result", "cancelled", "disposed"}]
      /\ taker \in [Items -> Handlers \union {None}]
      /\ handlers \in Seq(Handlers) /\ items \in Seq(Items)
      /\ QInv /\ removeItem \in BOOLEAN
  BY DEF OInv, QInv, IInv, TypeOK, FlagsOK
<1>00. SUFFICES StoredOnce' /\ \A y \in Items : Owned(y)'
  BY DEF OInv
<1>1. ASSUME NEW x \in Items, AddEnter(x) PROVE StoredOnce' /\ \A y \in Items : Owned(y)'
  <2>1. /\ UNCHANGED <<items, taker, closed>> /\ lock = None /\ pc[x] = "ready"
        /\ x \in Calls /\ x # None
    BY <1>1, CallsDisjoint DEF AddEnter, EnterOrThrow, lists, outcomes, streams, Calls
  <2>2. ASSUME NEW y \in Items, y # x PROVE Owned(y)'
    <3>0. pc' = [pc EXCEPT ![x] = "threw"] \/ pc' = [pc EXCEPT ![x] = "inside"]
      BY <1>1 DEF AddEnter, EnterOrThrow
    <3>1. pc'[y] = pc[y]
      <4>1. y \in Calls
        BY DEF Calls
      <4>2. QED
        BY <1>0, <2>2, <3>0, <4>1
    <3>2. y # None
      BY CallsDisjoint DEF Calls
    <3>3. Owned(y) /\ pc[y] # "inside"
      BY <2>1, <3>2 DEF OInv, Owned
    <3>4. QED
      BY <2>1, <3>1, <3>3, UntouchedIsOwned
  <2>3. Owned(x)'
    <3>1. Free(x) /\ x \notin ToSet(items)
      BY <2>1 DEF OInv, Owned
    <3>2. \/ pc'[x] = "threw"
          \/ pc'[x] = "inside" /\ lock' = x /\ stage' = "check"
      BY <1>0, <1>1, <2>1 DEF AddEnter, EnterOrThrow
    <3>3. Free(x)' /\ x \notin ToSet(items')
      BY <2>1, <3>1 DEF Free
    <3>4. QED
      BY <3>2, <3>3 DEF Owned
  <2>4. QED
    BY <2>1, <2>2, <2>3 DEF OInv, StoredOnce
<1>2. ASSUME NEW x \in Items, AddExit(x) PROVE StoredOnce' /\ \A y \in Items : Owned(y)'
  <2>1. /\ lock = x /\ x \in Calls /\ x # None /\ UNCHANGED <<taker, closed>>
        /\ pc' = [pc EXCEPT ![x] = "done"]
        /\ \/ stage = "over" /\ items' = items
           \/ stage = "check" /\ items' = Append(items, x)
    BY <1>2, CallsDisjoint DEF AddExit, outcomes, streams, Calls
  <2>2. pc'[x] = "done" /\ pc[x] = "inside" /\ Owned(x)
    BY <1>0, <2>1 DEF OInv, QInv, LockedIsInside
  <2>3. x \notin ToSet(items) /\ (Gone(x)' <=> Gone(x)) /\ (Free(x)' <=> Free(x))
    BY <2>1, <2>2 DEF Owned, Gone, Free
  <2>4. \A y : y \in ToSet(items') <=> y \in ToSet(items) \/ (y = x /\ items' = Append(items, x))
    <3>1. x \in ToSet(Append(items, x)) /\ \A y : y # x => (y \in ToSet(Append(items, x)) <=> y \in ToSet(items))
      BY <1>0, AppendMembers
    <3>2. CASE items' = items
      BY <2>3, <3>1, <3>2
    <3>3. CASE items' = Append(items, x)
      BY <1>0, <3>3, AppendMembers
    <3>4. QED
      BY <2>1, <3>2, <3>3
  <2>5. Owned(x)'
    <3>1. CASE stage = "over" /\ items' = items
      BY <2>2, <2>3, <3>1 DEF Owned
    <3>2. CASE stage = "check" /\ items' = Append(items, x)
      BY <2>2, <2>3, <2>4, <3>2 DEF Owned
    <3>3. QED
      BY <2>1, <3>1, <3>2
  <2>6. ASSUME NEW y \in Items, y # x PROVE Owned(y)'
    <3>1. Owned(y) /\ pc[y] # "inside" /\ pc'[y] = pc[y]
      BY <1>0, <2>1, <2>6 DEF OInv, Owned, Calls
    <3>2. QED
      BY <2>1, <2>4, <2>6, <3>1, UntouchedIsOwned
  <2>7. StoredOnce'
    <3>1. CASE items' = items
      BY <3>1 DEF OInv, StoredOnce
    <3>2. CASE items' = Append(items, x)
      <4>1. /\ Len(items') = Len(items) + 1 /\ Len(items) \in Nat /\ items'[Len(items) + 1] = x
            /\ \A i \in 1..Len(items) : items'[i] = items[i]
        BY <1>0, <3>2
      <4>2. \A i \in 1..Len(items) : items[i] # x
        BY <1>0, <2>3, MemberOfSeq
      <4>3. \A i : i \in 1..Len(items') <=> i \in 1..Len(items) \/ i = Len(items) + 1
        BY <4>1
      <4>4. ASSUME NEW i \in 1..Len(items'), NEW j \in 1..Len(items'), items'[i] = items'[j] PROVE i = j
        BY <4>1, <4>2, <4>3, <4>4 DEF OInv, StoredOnce
      <4>5. QED
        BY <4>4 DEF StoredOnce
    <3>3. QED
      BY <2>1, <3>1, <3>2
  <2>8. QED
    BY <2>5, <2>6, <2>7
<1>3. ASSUME NEW x \in Items, Disconnect(x) PROVE StoredOnce' /\ \A y \in Items : Owned(y)'
  <2>1. UNCHANGED <<items, taker, closed, pc, lock, stage>>
    BY <1>3 DEF Disconnect, lists, frame, outcomes
  <2>2. QED
    BY <2>1, UntouchedIsOwned DEF OInv, StoredOnce
<1>4. ASSUME NEW h \in Handlers, CreateHandler(h) \/ CancelHandler(h) \/ HandleReturn(h)
      PROVE  StoredOnce' /\ \A y \in Items : Owned(y)'
  <2>1. UNCHANGED <<items, taker, closed, lock, stage>>
    BY <1>4 DEF CreateHandler, CancelHandler, HandleReturn, lists, frame, outcomes, streams
  <2>2. \A y \in Items : y \in Calls /\ y # h
    BY CallsDisjoint DEF Calls
  <2>3. pc' = pc \/ pc' = [pc EXCEPT ![h] = "created"] \/ pc' = [pc EXCEPT ![h] = "done"]
    BY <1>4 DEF CreateHandler, CancelHandler, HandleReturn
  <2>4. \A y \in Items : pc'[y] = pc[y]
    BY <1>0, <2>2, <2>3
  <2>5. QED
    BY <2>1, <2>4, UntouchedIsOwned DEF OInv, StoredOnce
<1>5. ASSUME NEW h \in Handlers, RunOrQueueEnter(h) \/ RunOrQueueExit(h)
      PROVE  StoredOnce' /\ \A y \in Items : Owned(y)'
  <2>1. UNCHANGED <<items, taker, closed>> /\ lock \in {None, h}
    BY <1>5 DEF RunOrQueueEnter, RunOrQueueExit, EnterOrThrow, lists, outcomes, streams
  <2>2. \A y \in Items : y \in Calls /\ y # h /\ y # None
    BY CallsDisjoint DEF Calls
  <2>3. pc' = [pc EXCEPT ![h] = "threw"] \/ pc' = [pc EXCEPT ![h] = "inside"] \/ pc' = [pc EXCEPT ![h] = "awaiting"]
    BY <1>5 DEF RunOrQueueEnter, RunOrQueueExit, EnterOrThrow
  <2>4. \A y \in Items : pc'[y] = pc[y]
    BY <1>0, <2>2, <2>3
  <2>5. \A y \in Items : Owned(y) /\ pc[y] # "inside"
    BY <2>1, <2>2 DEF OInv, Owned
  <2>6. QED
    BY <2>1, <2>4, <2>5, UntouchedIsOwned DEF OInv, StoredOnce
<1>6. ASSUME NEW x \in Items, NEW h \in Handlers, TryHandler(x, h) PROVE StoredOnce' /\ \A y \in Items : Owned(y)'
  <2>0. h # None
    BY CallsDisjoint DEF Calls
  <2>1. CASE TryPending(x, h) \/ RunDefaultHandler(x, h) \/ WaitHandlerLive(x, h)
    <3>1. UNCHANGED <<items, taker, closed, pc, lock>> /\ stage # "over" /\ stage' # "over"
      BY <2>1 DEF TryPending, RunDefaultHandler, WaitHandlerLive, lists, outcomes, streams
    <3>2. QED
      BY <3>1, UntouchedIsOwned DEF OInv, StoredOnce
  <2>2. CASE TryCompleted(x, h)
    <3>1. /\ Trying(x, h) /\ AfterTry(x, h, TRUE, FALSE) /\ stage # "over"
          /\ UNCHANGED <<taker, closed, pc, lock>>
      BY <2>2 DEF TryCompleted, outcomes, streams
    <3>2. QED
      BY <3>1, OfferKeepsOwners
  <2>3. CASE WaitHandlerDead(x, h)
    <3>1. /\ Trying(x, h) /\ AfterTry(x, h, FALSE, TRUE) /\ stage # "over"
          /\ UNCHANGED <<taker, pc, lock>> /\ closed' = closed \union {x}
      BY <2>3 DEF WaitHandlerDead, outcomes
    <3>2. Owned(x) /\ (lock = x \/ x \in ToSet(items))
      <4>1. pos = 1 /\ (lock = h => 1 <= Len(items) /\ items[1] = x) /\ Len(items) \in Nat
        BY <1>0, <2>0, <3>1, CallsDisjoint DEF OInv, QInv, IInv, LoopAtHead, Trying, Calls
      <4>2. lock = h => x \in ToSet(items)
        BY <1>0, <4>1, MemberOfSeq
      <4>3. QED
        BY <3>1, <4>2 DEF OInv, Trying
    <3>3. lock = x => pc[x] = "inside"
      BY CallsDisjoint DEF OInv, QInv, LockedIsInside, Calls
    <3>4. Free(x)
      BY <3>1, <3>2, <3>3 DEF Owned
    <3>5. Gone(x)'
      BY <3>1, <3>4 DEF Free, Gone
    <3>6. QED
      BY <3>1, <3>5, OfferKeepsOwners
  <2>4. CASE TrySetResult(x, h)
    <3>1. /\ Trying(x, h) /\ AfterTry(x, h, TRUE, removeItem) /\ stage # "over"
          /\ UNCHANGED <<closed, pc, lock>>
          /\ taker' = IF removeItem THEN [taker EXCEPT ![x] = h] ELSE taker
      BY <2>4 DEF TrySetResult, streams
    <3>2. Owned(x) /\ (lock = x \/ x \in ToSet(items))
      <4>1. pos = 1 /\ (lock = h => 1 <= Len(items) /\ items[1] = x) /\ Len(items) \in Nat
        BY <1>0, <2>0, <3>1, CallsDisjoint DEF OInv, QInv, IInv, LoopAtHead, Trying, Calls
      <4>2. lock = h => x \in ToSet(items)
        BY <1>0, <4>1, MemberOfSeq
      <4>3. QED
        BY <3>1, <4>2 DEF OInv, Trying
    <3>3. lock = x => pc[x] = "inside"
      BY CallsDisjoint DEF OInv, QInv, LockedIsInside, Calls
    <3>4. Free(x)
      BY <3>1, <3>2, <3>3 DEF Owned
    <3>5. removeItem => Gone(x)'
      BY <1>0, <2>0, <3>1, <3>4 DEF Free, Gone
    <3>6. \A y \in Items : y # x \/ ~removeItem => taker'[y] = taker[y]
      BY <1>0, <3>1
    <3>7. QED
      BY <1>0, <3>1, <3>5, <3>6, OfferKeepsOwners
  <2>5. QED
    BY <1>6, <2>1, <2>2, <2>3, <2>4 DEF TryHandler
<1>7. ASSUME NEW c \in Clearers \union Disposers, ClearItems(c) \/ DisposeItems(c)
      PROVE  StoredOnce' /\ \A y \in Items : Owned(y)'
  <2>1. \/ items' = items /\ closed' = closed
        \/ items' = <<>> /\ closed' = closed \union ToSet(items)
    BY <1>7 DEF ClearItems, DisposeItems
  <2>2. UNCHANGED <<taker, lock, stage>>
    BY <1>7 DEF ClearItems, DisposeItems, frame, outcomes
  <2>3. \A y \in Items : y \in Calls /\ y # c
    BY CallsDisjoint DEF Calls
  <2>4. \A y \in Items : pc'[y] = pc[y]
    <3>1. \/ pc' = [pc EXCEPT ![c] = "threw"] \/ pc' = [pc EXCEPT ![c] = "done"]
          \/ pc' = [pc EXCEPT ![c] = "failing"]
      BY <1>7 DEF ClearItems, DisposeItems
    <3>2. QED
      BY <1>0, <2>3, <3>1
  <2>5. CASE items' = items /\ closed' = closed
    BY <2>2, <2>4, <2>5, UntouchedIsOwned DEF OInv, StoredOnce
  <2>6. CASE items' = <<>> /\ closed' = closed \union ToSet(items)
    <3>1. \A y : y \notin ToSet(items')
      BY <2>6, EmptySeq DEF ToSet
    <3>2. StoredOnce'
      BY <2>6 DEF StoredOnce
    <3>3. ASSUME NEW y \in Items, y \notin ToSet(items) PROVE Owned(y)'
      BY <2>2, <2>4, <2>6, <3>1, <3>3, UntouchedIsOwned DEF OInv
    <3>4. ASSUME NEW y \in Items, y \in ToSet(items) PROVE Owned(y)'
      <4>1. Free(y) /\ pc[y] = "done"
        BY <3>4 DEF OInv, Owned
      <4>2. Gone(y)'
        BY <2>2, <2>6, <3>4, <4>1 DEF Free, Gone
      <4>3. QED
        BY <2>4, <3>1, <4>1, <4>2 DEF Owned
    <3>5. QED
      BY <3>2, <3>3, <3>4
  <2>7. QED
    BY <2>1, <2>5, <2>6
<1>8. ASSUME NEW d \in Disposers, DisposeBegin(d) \/ FailHandler(d) \/ DisposeEnd(d)
      PROVE  StoredOnce' /\ \A y \in Items : Owned(y)'
  <2>1. UNCHANGED <<items, taker, closed, lock, stage>>
    BY <1>8 DEF DisposeBegin, FailHandler, DisposeEnd, lists, frame, outcomes, streams
  <2>2. \A y \in Items : y \in Calls /\ y # d
    BY CallsDisjoint DEF Calls
  <2>3. \A y \in Items : pc'[y] = pc[y]
    <3>1. pc' = pc \/ pc' = [pc EXCEPT ![d] = IF disposed THEN "done" ELSE "closing"] \/ pc' = [pc EXCEPT ![d] = "done"]
      BY <1>8 DEF DisposeBegin, FailHandler, DisposeEnd
    <3>2. QED
      BY <1>0, <2>2, <3>1
  <2>4. QED
    BY <2>1, <2>3, UntouchedIsOwned DEF OInv, StoredOnce
<1>9. CASE UNCHANGED vars
  <2>1. UNCHANGED <<items, taker, closed, pc, lock, stage>>
    BY <1>9 DEF vars, lists, frame, outcomes, streams
  <2>2. QED
    BY <2>1, UntouchedIsOwned DEF OInv, StoredOnce
<1>10. QED
  BY <1>1, <1>2, <1>3, <1>4, <1>5, <1>6, <1>7, <1>8, <1>9
     DEF Next, Add, Handle, Dispose, AllReturned

LEMMA OInvHolds == Spec => []OInv
<1>1. Init /\ QInv => OInv
  <2> SUFFICES ASSUME Init, QInv PROVE OInv
    OBVIOUS
  <2>1. items = <<>> /\ \A x \in Items : x \in Calls /\ pc[x] = "ready" /\ taker[x] = None /\ x \notin closed
    BY DEF Init, Calls
  <2>2. \A x : x \notin ToSet(items)
    BY <2>1, EmptySeq DEF ToSet
  <2>3. QED
    BY <2>1, <2>2 DEF OInv, StoredOnce, Owned, Free
<1>2. OInv /\ QInv' /\ [Next]_vars => OInv'
  BY OInvStep
<1>3. QED
  BY <1>1, <1>2, QInvHolds, PTL DEF Spec

(* An item whose Add has returned is stored, was taken for one handler or  *)
(* was disposed, and only one of the three.                                *)
THEOREM ItemsHaveOneOwner == Spec => []EveryItemHasOneOwner
<1>1. OInv => EveryItemHasOneOwner
  BY DEF OInv, Owned, Free, Gone, EveryItemHasOneOwner
<1>2. QED
  BY <1>1, OInvHolds, PTL

-----------------------------------------------------------------------------
(* The order of the queue *)

(* Nobody is in the queue twice, and a call is in it only after it has     *)
(* left the lock, waiting or returned.                                     *)
QueueOrder ==
    /\ \A i, j \in 1..Len(handlers) : handlers[i] = handlers[j] => i = j
    /\ \A i \in 1..Len(handlers) : pc[handlers[i]] \in {"awaiting", "done"}

SInv == QInv /\ QueueOrder

(* The queue loses its first handler, all of them, or gets one more at its *)
(* end, whose call leaves the lock.                                        *)
LEMMA QueueMoves ==
  ASSUME QInv, [Next]_vars
  PROVE  \/ handlers' = handlers
         \/ handlers' = <<>>
         \/ 1 <= Len(handlers) /\ handlers' = RemoveAt(handlers, 1)
         \/ \E h \in Handlers : /\ pc[h] = "inside" /\ pc'[h] = "awaiting"
                                /\ handlers' = Append(handlers, h)
<1>0. /\ handlers \in Seq(Handlers) /\ Len(handlers) \in Nat
      /\ pc \in [Calls -> {"ready", "created", "inside", "awaiting", "closing", "failing", "done", "threw"}]
      /\ None \notin Handlers /\ Handlers \subseteq Calls
  BY CallsDisjoint DEF QInv, IInv, TypeOK, Calls
<1>1. ASSUME NEW x \in Items, Add(x) \/ Disconnect(x) PROVE handlers' = handlers
  BY <1>1 DEF Add, AddEnter, EnterOrThrow, AddExit, Disconnect, lists
<1>2. ASSUME NEW h \in Handlers, Handle(h) \/ CancelHandler(h)
      PROVE  \/ handlers' = handlers
             \/ pc[h] = "inside" /\ pc'[h] = "awaiting" /\ handlers' = Append(handlers, h)
  <2>1. CASE RunOrQueueExit(h)
    <3>1. lock # None /\ pc[h] = "inside"
      BY <1>0, <2>1 DEF RunOrQueueExit, QInv, LockedIsInside
    <3>2. pc'[h] = "awaiting" /\ (handlers' = handlers \/ handlers' = Append(handlers, h))
      BY <1>0, <2>1 DEF RunOrQueueExit
    <3>3. QED
      BY <3>1, <3>2
  <2>2. QED
    BY <1>2, <2>1 DEF Handle, CreateHandler, RunOrQueueEnter, EnterOrThrow, HandleReturn, CancelHandler, lists
<1>3. ASSUME NEW x \in Items, NEW h \in Handlers, TryHandler(x, h)
      PROVE  handlers' = handlers \/ (1 <= Len(handlers) /\ handlers' = RemoveAt(handlers, 1))
  <2>1. CASE TryPending(x, h) \/ RunDefaultHandler(x, h) \/ WaitHandlerLive(x, h)
    BY <2>1 DEF TryPending, RunDefaultHandler, WaitHandlerLive, lists
  <2>2. ASSUME NEW stop, NEW remove, Trying(x, h), AfterTry(x, h, stop, remove), stage # "over"
        PROVE  handlers' = handlers \/ (1 <= Len(handlers) /\ handlers' = RemoveAt(handlers, 1))
    <3>1. pos = 1 /\ x # h
      BY <2>2, CallsDisjoint DEF QInv, IInv, LoopAtHead
    <3>2. QED
      BY <2>2, <3>1 DEF AfterTry, Trying
  <2>3. QED
    BY <1>3, <2>1, <2>2 DEF TryHandler, TryCompleted, WaitHandlerDead, TrySetResult
<1>4. ASSUME NEW c \in Clearers, ClearItems(c) PROVE handlers' = handlers
  BY <1>4 DEF ClearItems
<1>5. ASSUME NEW d \in Disposers, Dispose(d) PROVE handlers' = handlers \/ handlers' = <<>>
  BY <1>5 DEF Dispose, DisposeBegin, DisposeItems, FailHandler, DisposeEnd, lists
<1>6. CASE UNCHANGED vars
  BY <1>6 DEF vars, lists
<1>7. QED
  BY <1>1, <1>2, <1>3, <1>4, <1>5, <1>6 DEF Next, AllReturned

(* A call that left the lock does not come back to it.                     *)
LEMMA LeftStaysOut ==
  ASSUME QInv, [Next]_vars, NEW h \in Handlers, pc[h] \in {"awaiting", "done"}
  PROVE  pc'[h] \in {"awaiting", "done"}
<1>0. /\ pc \in [Calls -> {"ready", "created", "inside", "awaiting", "closing", "failing", "done", "threw"}]
      /\ h \in Calls /\ h \notin Items /\ h \notin Clearers /\ h \notin Disposers /\ lock # h
      /\ pc[h] # "ready" /\ pc[h] # "created"
  <2>1. lock = h => pc[h] = "inside"
    BY CallsDisjoint DEF QInv, LockedIsInside, Calls
  <2>2. QED
    BY <2>1, CallsDisjoint DEF QInv, IInv, TypeOK, Calls
<1>1. ASSUME NEW c \in Calls, c # h, NEW v, pc' = [pc EXCEPT ![c] = v] PROVE pc'[h] = pc[h]
  BY <1>0, <1>1
<1>2. ASSUME NEW x \in Items, Add(x) \/ Disconnect(x) PROVE pc'[h] = pc[h]
  <2>1. x \in Calls /\ x # h
    BY <1>0 DEF Calls
  <2>2. pc' = pc \/ pc' = [pc EXCEPT ![x] = "threw"] \/ pc' = [pc EXCEPT ![x] = "inside"] \/ pc' = [pc EXCEPT ![x] = "done"]
    BY <1>2 DEF Add, AddEnter, EnterOrThrow, AddExit, Disconnect
  <2>3. QED
    BY <1>1, <2>1, <2>2
<1>3. ASSUME NEW g \in Handlers, Handle(g) \/ CancelHandler(g) PROVE pc'[h] \in {"awaiting", "done"}
  <2>1. CASE g = h
    <3>1. HandleReturn(h) \/ CancelHandler(h)
      BY <1>0, <1>3, <2>1 DEF Handle, CreateHandler, RunOrQueueEnter, RunOrQueueExit
    <3>2. QED
      BY <1>0, <3>1 DEF HandleReturn, CancelHandler
  <2>2. CASE g # h
    <3>1. \/ pc' = pc \/ pc' = [pc EXCEPT ![g] = "threw"] \/ pc' = [pc EXCEPT ![g] = "inside"]
          \/ pc' = [pc EXCEPT ![g] = "awaiting"] \/ pc' = [pc EXCEPT ![g] = "created"]
          \/ pc' = [pc EXCEPT ![g] = "done"]
      BY <1>3 DEF Handle, CreateHandler, RunOrQueueEnter, EnterOrThrow, RunOrQueueExit, HandleReturn, CancelHandler
    <3>2. g \in Calls
      BY DEF Calls
    <3>3. QED
      BY <1>1, <2>2, <3>1, <3>2
  <2>3. QED
    BY <2>1, <2>2
<1>4. ASSUME NEW x \in Items, NEW g \in Handlers, TryHandler(x, g) PROVE pc' = pc
  <2>1. TryCompleted(x, g) => pc' = pc
    BY DEF TryCompleted
  <2>2. TryPending(x, g) => pc' = pc
    BY DEF TryPending
  <2>3. RunDefaultHandler(x, g) \/ WaitHandlerLive(x, g) => pc' = pc
    BY DEF RunDefaultHandler, WaitHandlerLive
  <2>4. WaitHandlerDead(x, g) => pc' = pc
    BY DEF WaitHandlerDead
  <2>5. TrySetResult(x, g) => pc' = pc
    BY DEF TrySetResult
  <2>6. QED
    BY <1>4, <2>1, <2>2, <2>3, <2>4, <2>5 DEF TryHandler
<1>5. ASSUME NEW c \in Clearers, ClearItems(c) PROVE pc'[h] = pc[h]
  <2>1. c \in Calls /\ c # h
    BY <1>0 DEF Calls
  <2>2. pc' = [pc EXCEPT ![c] = "threw"] \/ pc' = [pc EXCEPT ![c] = "done"]
    BY <1>5 DEF ClearItems
  <2>3. QED
    BY <1>1, <2>1, <2>2
<1>6. ASSUME NEW d \in Disposers, Dispose(d) PROVE pc'[h] = pc[h]
  <2>1. d \in Calls /\ d # h
    BY <1>0 DEF Calls
  <2>2. \/ pc' = pc \/ pc' = [pc EXCEPT ![d] = "done"]
        \/ pc' = [pc EXCEPT ![d] = "closing"] \/ pc' = [pc EXCEPT ![d] = "failing"]
    BY <1>6 DEF Dispose, DisposeBegin, DisposeItems, FailHandler, DisposeEnd
  <2>3. QED
    BY <1>1, <2>1, <2>2
<1>7. CASE UNCHANGED vars
  BY <1>7 DEF vars
<1>8. QED
  BY <1>2, <1>3, <1>4, <1>5, <1>6, <1>7 DEF Next, AllReturned

LEMMA SInvStep ==
  ASSUME SInv, QInv', [Next]_vars
  PROVE  SInv'
<1> SUFFICES QueueOrder'
  BY DEF SInv
<1>0. /\ handlers \in Seq(Handlers) /\ Len(handlers) \in Nat
      /\ \A i \in 1..Len(handlers) : handlers[i] \in Handlers
      /\ QueueOrder
  BY DEF SInv, QInv, IInv, TypeOK
<1>1. \A i \in 1..Len(handlers) : pc'[handlers[i]] \in {"awaiting", "done"}
  BY <1>0, LeftStaysOut DEF SInv, QueueOrder
<1>2. CASE handlers' = handlers
  BY <1>0, <1>1, <1>2 DEF QueueOrder
<1>3. CASE handlers' = <<>>
  BY <1>3, EmptySeq DEF QueueOrder
<1>4. CASE 1 <= Len(handlers) /\ handlers' = RemoveAt(handlers, 1)
  <2>1. /\ Len(handlers') = Len(handlers) - 1
        /\ \A i \in 1..(Len(handlers) - 1) : handlers'[i] = handlers[i + 1]
    BY <1>0, <1>4, RemoveAtHead
  <2>2. \A i \in 1..Len(handlers') : i + 1 \in 1..Len(handlers) /\ handlers'[i] = handlers[i + 1]
    BY <1>0, <2>1
  <2>3. \A i, j \in 1..Len(handlers') : handlers'[i] = handlers'[j] => i = j
    <3> SUFFICES ASSUME NEW i \in 1..Len(handlers'), NEW j \in 1..Len(handlers'), handlers'[i] = handlers'[j]
                 PROVE  i = j
      OBVIOUS
    <3>1. i + 1 = j + 1
      BY <1>0, <2>2 DEF QueueOrder
    <3>2. QED
      BY <3>1
  <2>4. \A i \in 1..Len(handlers') : pc'[handlers'[i]] \in {"awaiting", "done"}
    BY <1>1, <2>2
  <2>5. QED
    BY <2>3, <2>4 DEF QueueOrder
<1>5. ASSUME NEW h \in Handlers, pc[h] = "inside", pc'[h] = "awaiting", handlers' = Append(handlers, h)
      PROVE  QueueOrder'
  <2>1. /\ Len(handlers') = Len(handlers) + 1 /\ handlers'[Len(handlers) + 1] = h
        /\ \A i \in 1..Len(handlers) : handlers'[i] = handlers[i]
    BY <1>0, <1>5
  <2>2. \A i \in 1..Len(handlers') : i \in 1..Len(handlers) \/ i = Len(handlers) + 1
    BY <1>0, <2>1
  <2>3. \A i \in 1..Len(handlers) : handlers[i] # h
    BY <1>0, <1>5 DEF QueueOrder
  <2>4. \A i, j \in 1..Len(handlers') : handlers'[i] = handlers'[j] => i = j
    BY <1>0, <2>1, <2>2, <2>3 DEF QueueOrder
  <2>5. \A i \in 1..Len(handlers') : pc'[handlers'[i]] \in {"awaiting", "done"}
    BY <1>1, <1>5, <2>1, <2>2
  <2>6. QED
    BY <2>4, <2>5 DEF QueueOrder
<1>6. QED
  BY <1>2, <1>3, <1>4, <1>5, QueueMoves DEF SInv

LEMMA SInvHolds == Spec => []SInv
<1>1. Init /\ QInv => SInv
  BY EmptySeq DEF Init, SInv, QueueOrder
<1>2. SInv /\ QInv' /\ [Next]_vars => SInv'
  BY SInvStep
<1>3. QED
  BY <1>1, <1>2, QInvHolds, PTL DEF Spec

(* A result is given by the Add inside the lock to the first handler of    *)
(* the queue, or to a call that is not queued yet.                         *)
LEMMA ResultsComeInOrder ==
  ASSUME SInv, [Next]_vars, NEW h \in Handlers, tcs[h] # "result", tcs'[h] = "result"
  PROVE  \/ pc[h] = "inside"
         \/ 1 <= Len(handlers) /\ handlers[1] = h
<1>0. /\ tcs \in [Handlers -> {"none", "pending", "result", "cancelled", "disposed"}]
      /\ handlers \in Seq(Handlers)
  BY DEF SInv, QInv, IInv, TypeOK
<1>1. PICK x \in Items, g \in Handlers : TrySetResult(x, g)
  <2>1. ASSUME NEW x \in Items, Add(x) \/ Disconnect(x) PROVE tcs' = tcs
    BY <2>1 DEF Add, AddEnter, EnterOrThrow, AddExit, Disconnect, outcomes
  <2>2. ASSUME NEW g \in Handlers, Handle(g) \/ CancelHandler(g)
        PROVE  tcs' = tcs \/ tcs' = [tcs EXCEPT ![g] = "pending"] \/ tcs' = [tcs EXCEPT ![g] = "cancelled"]
    BY <2>2 DEF Handle, CreateHandler, RunOrQueueEnter, EnterOrThrow, RunOrQueueExit, HandleReturn, CancelHandler, outcomes
  <2>3. ASSUME NEW x \in Items, NEW g \in Handlers, TryHandler(x, g)
        PROVE  tcs' = tcs \/ TrySetResult(x, g)
    BY <2>3 DEF TryHandler, TryCompleted, TryPending, RunDefaultHandler, WaitHandlerLive, WaitHandlerDead, outcomes
  <2>4. ASSUME NEW c \in Clearers, ClearItems(c) PROVE tcs' = tcs
    BY <2>4 DEF ClearItems, outcomes
  <2>5. ASSUME NEW d \in Disposers, Dispose(d)
        PROVE  tcs' = tcs \/ \E g : tcs' = [tcs EXCEPT ![g] = "disposed"]
    BY <2>5 DEF Dispose, DisposeBegin, DisposeItems, FailHandler, DisposeEnd, outcomes
  <2>6. CASE UNCHANGED vars
    BY <2>6 DEF vars, outcomes
  <2>7. tcs' # tcs
    OBVIOUS
  <2>8. ASSUME NEW g, NEW v, v # "result" PROVE tcs' # [tcs EXCEPT ![g] = v]
    BY <1>0, <2>8
  <2>9. QED
    BY <2>1, <2>2, <2>3, <2>4, <2>5, <2>6, <2>7, <2>8 DEF Next, AllReturned
<1>2. g = h
  BY <1>0, <1>1 DEF TrySetResult
<1>3. Trying(x, h) /\ stage # "over"
  BY <1>1, <1>2 DEF TrySetResult
<1>4. pos = 1
  BY <1>3 DEF SInv, QInv, IInv, LoopAtHead
<1>5. lock = h => pc[h] = "inside"
  BY CallsDisjoint DEF SInv, QInv, LockedIsInside, Calls
<1>6. QED
  BY <1>0, <1>3, <1>4, <1>5 DEF Trying

(* A handler whose task is complete is not called again: what is added or  *)
(* stored afterwards never goes to it.                                     *)
THEOREM EndedHandlersAreInert == Spec => EndedHandlersTakeNothing
<1> DEFINE Offered(h) == stage \in {"run", "settle"} /\ \E x \in Items : Trying(x, h)
           Inert == \A h \in Handlers : Ended(h) =>
                        /\ Ended(h)'
                        /\ \A x \in Items : taker'[x] = h => taker[x] = h
<1>1. ASSUME QInv, [Next]_vars, NEW g \in Handlers, Ended(g)
      PROVE  ~Offered(g)' /\ \A y \in Items : taker'[y] = g => taker[y] = g
  <2>0. /\ tcs[g] \notin {"none", "pending"} /\ ~Offered(g)
        /\ None \notin Items \union Handlers /\ g \notin Items
        /\ taker \in [Items -> Handlers \union {None}]
        /\ \A d \in Disposers : Closing(d) => lock = None
    BY <1>1, CallsDisjoint DEF Ended, Calls, QInv, IInv, TypeOK, Draining, LockedIsOpen
  <2>1. CASE UNCHANGED <<lists, frame, taker>>
    BY <2>0, <2>1 DEF lists, frame, Trying
  <2>2. ASSUME lock' = None, UNCHANGED taker
        PROVE  ~Offered(g)' /\ \A y \in Items : taker'[y] = g => taker[y] = g
    BY <2>0, <2>2 DEF Trying
  <2>3. ASSUME stage' \in {"check", "over"}, UNCHANGED taker
        PROVE  ~Offered(g)' /\ \A y \in Items : taker'[y] = g => taker[y] = g
    BY <2>3
  <2>4. ASSUME NEW x \in Items, Add(x) \/ Disconnect(x)
        PROVE  ~Offered(g)' /\ \A y \in Items : taker'[y] = g => taker[y] = g
    <3>1. CASE AddEnter(x)
      BY <2>1, <2>3, <3>1 DEF AddEnter, EnterOrThrow, outcomes
    <3>2. CASE AddExit(x)
      BY <2>2, <3>2 DEF AddExit, outcomes
    <3>3. CASE Disconnect(x)
      BY <2>1, <3>3 DEF Disconnect, outcomes
    <3>4. QED
      BY <2>4, <3>1, <3>2, <3>3 DEF Add
  <2>5. ASSUME NEW h \in Handlers, Handle(h) \/ CancelHandler(h)
        PROVE  ~Offered(g)' /\ \A y \in Items : taker'[y] = g => taker[y] = g
    <3>1. CASE RunOrQueueEnter(h)
      BY <2>1, <2>3, <3>1 DEF RunOrQueueEnter, EnterOrThrow, outcomes
    <3>2. CASE RunOrQueueExit(h)
      BY <2>2, <3>2 DEF RunOrQueueExit, outcomes
    <3>3. CASE CreateHandler(h) \/ HandleReturn(h) \/ CancelHandler(h)
      BY <2>1, <3>3 DEF CreateHandler, HandleReturn, CancelHandler, outcomes
    <3>4. QED
      BY <2>5, <3>1, <3>2, <3>3 DEF Handle
  <2>6. ASSUME NEW x \in Items, NEW h \in Handlers, TryHandler(x, h)
        PROVE  ~Offered(g)' /\ \A y \in Items : taker'[y] = g => taker[y] = g
    <3>1. CASE TryCompleted(x, h) \/ WaitHandlerDead(x, h)
      <4>1. stage' \in {"check", "over"} /\ UNCHANGED taker
        BY <3>1 DEF TryCompleted, WaitHandlerDead, AfterTry, outcomes
      <4>2. QED
        BY <2>3, <4>1
    <3>2. CASE TryPending(x, h)
      <4>1. Trying(x, h) /\ h # g /\ UNCHANGED <<items, handlers, lock, pos, taker>>
        BY <2>0, <3>2 DEF TryPending, lists, outcomes
      <4>2. \A y \in Items : ~Trying(y, g)
        BY <2>0, <4>1, CallsDisjoint DEF Trying, Calls
      <4>3. QED
        BY <4>1, <4>2 DEF Trying
    <3>3. CASE RunDefaultHandler(x, h) \/ WaitHandlerLive(x, h)
      <4>1. stage = "run" /\ UNCHANGED <<items, handlers, lock, pos, taker>>
        BY <3>3 DEF RunDefaultHandler, WaitHandlerLive, lists, outcomes
      <4>2. QED
        BY <2>0, <4>1 DEF Trying
    <3>4. CASE TrySetResult(x, h)
      <4>1. stage' \in {"check", "over"} /\ h # g
        BY <2>0, <3>4 DEF TrySetResult, AfterTry
      <4>2. \A y \in Items : taker'[y] = taker[y] \/ taker'[y] = h
        BY <2>0, <3>4 DEF TrySetResult
      <4>3. QED
        BY <4>1, <4>2
    <3>5. QED
      BY <2>6, <3>1, <3>2, <3>3, <3>4 DEF TryHandler
  <2>7. ASSUME NEW c \in Clearers, ClearItems(c)
        PROVE  ~Offered(g)' /\ \A y \in Items : taker'[y] = g => taker[y] = g
    BY <2>2, <2>7 DEF ClearItems, frame, outcomes
  <2>8. ASSUME NEW d \in Disposers, Dispose(d)
        PROVE  ~Offered(g)' /\ \A y \in Items : taker'[y] = g => taker[y] = g
    <3>1. CASE DisposeBegin(d) \/ FailHandler(d)
      BY <2>1, <3>1 DEF DisposeBegin, FailHandler, outcomes
    <3>2. CASE DisposeItems(d) \/ DisposeEnd(d)
      BY <2>0, <2>2, <3>2 DEF DisposeItems, DisposeEnd, Closing, frame, outcomes
    <3>3. QED
      BY <2>8, <3>1, <3>2 DEF Dispose
  <2>9. CASE UNCHANGED vars
    BY <2>1, <2>9 DEF vars, outcomes
  <2>10. QED
    BY <1>1, <2>4, <2>5, <2>6, <2>7, <2>8, <2>9 DEF Next, AllReturned
<1>2. ASSUME QInv, [Next]_vars, NEW g \in Handlers, tcs[g] \notin {"none", "pending"}
      PROVE  tcs'[g] = tcs[g]
  BY <1>2, OutcomeStays DEF QInv
<1>3. QInv /\ [Next]_vars => [Inert]_vars
  BY <1>1, <1>2 DEF Ended
<1>4. QED
  BY <1>3, QInvHolds, PTL DEF Spec, EndedHandlersTakeNothing

(* First come, first served: the queue grows at its end only, and while a  *)
(* caller waits nobody behind it gets an item.                             *)
THEOREM ServedAsTheyCame == Spec => ServedInOrder
<1> DEFINE Overtakes(i, j) == /\ i < j /\ tcs[handlers[i]] = "pending" /\ tcs[handlers[j]] = "pending"
                              /\ tcs'[handlers[j]] = "result"
<1>1. ASSUME SInv, [Next]_vars, NEW i \in DOMAIN handlers, NEW j \in DOMAIN handlers
      PROVE  ~Overtakes(i, j)
  <2> SUFFICES ASSUME Overtakes(i, j) PROVE FALSE
    OBVIOUS
  <2>0. /\ handlers \in Seq(Handlers) /\ i \in 1..Len(handlers) /\ j \in 1..Len(handlers)
        /\ handlers[j] \in Handlers /\ i < j /\ 1 \in 1..Len(handlers)
    BY <1>1 DEF SInv, QInv, IInv, TypeOK
  <2>1. pc[handlers[j]] # "inside"
    BY <1>1, <2>0 DEF SInv, QueueOrder
  <2>2. handlers[1] = handlers[j]
    BY <1>1, <2>0, <2>1, ResultsComeInOrder
  <2>3. j = 1
    BY <1>1, <2>0, <2>2 DEF SInv, QueueOrder
  <2>4. QED
    BY <2>0, <2>3
<1>2. ASSUME SInv, [Next]_vars, NEW k \in DOMAIN handlers'
      PROVE  handlers'[k] \in ToSet(handlers) \/ k = Len(handlers')
  <2>0. handlers \in Seq(Handlers) /\ Len(handlers) \in Nat
    BY <1>2 DEF SInv, QInv, IInv, TypeOK
  <2>1. \A i \in 1..Len(handlers) : handlers[i] \in ToSet(handlers)
    BY <2>0, MemberOfSeq
  <2>2. CASE handlers' = handlers
    BY <1>2, <2>0, <2>1, <2>2
  <2>3. CASE handlers' = <<>>
    BY <1>2, <2>3
  <2>4. CASE 1 <= Len(handlers) /\ handlers' = RemoveAt(handlers, 1)
    <3>1. /\ handlers' \in Seq(Handlers) /\ Len(handlers') = Len(handlers) - 1
          /\ \A i \in 1..(Len(handlers) - 1) : handlers'[i] = handlers[i + 1]
      BY <2>0, <2>4, RemoveAtHead
    <3>2. k \in 1..(Len(handlers) - 1)
      BY <1>2, <3>1
    <3>3. k + 1 \in 1..Len(handlers)
      BY <2>0, <3>2
    <3>4. QED
      BY <2>1, <3>1, <3>2, <3>3
  <2>5. ASSUME NEW h \in Handlers, handlers' = Append(handlers, h)
        PROVE  handlers'[k] \in ToSet(handlers) \/ k = Len(handlers')
    <3>1. /\ Len(handlers') = Len(handlers) + 1 /\ DOMAIN handlers' = 1..(Len(handlers) + 1)
          /\ \A i \in 1..Len(handlers) : handlers'[i] = handlers[i]
      BY <2>0, <2>5
    <3>2. k \in 1..Len(handlers) \/ k = Len(handlers')
      BY <1>2, <2>0, <3>1
    <3>3. QED
      BY <2>1, <3>1, <3>2
  <2>6. QED
    BY <1>2, <2>2, <2>3, <2>4, <2>5, QueueMoves DEF SInv
<1>3. SInv /\ [Next]_vars =>
        [/\ \A i, j \in DOMAIN handlers :
              i < j /\ tcs[handlers[i]] = "pending" /\ tcs[handlers[j]] = "pending"
                  => tcs'[handlers[j]] # "result"
         /\ \A k \in DOMAIN handlers' :
              handlers'[k] \in ToSet(handlers) \/ k = Len(handlers')]_vars
  BY <1>1, <1>2
<1>4. QED
  BY <1>3, SInvHolds, PTL DEF Spec, ServedInOrder
=============================================================================
