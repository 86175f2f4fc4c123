----------------- MODULE HandleableCollectionRefinementProofs -----------------
(* The collection implements ItemExchange, for any items, handlers, calls. *)
EXTENDS HandleableCollectionProofs

(* Between the test of its task and its completion a handler can only be   *)
(* cancelled, and the item is removed unless the handler just waits.       *)
Offered ==
    \A x \in Items, h \in Handlers : Trying(x, h) =>
        /\ stage \in {"run", "settle"} => tcs[h] \in {"pending", "cancelled"}
        /\ stage = "settle" => (removeItem <=> h \notin WaitHandlers)

(* What a task holds stays as it is: an item's taker is completed, and     *)
(* only a result holds an item.                                            *)
TakersAreSettled ==
    \A x \in Items : taker[x] # None => tcs[taker[x]] \notin {"none", "pending"}

NothingGot == \A h \in Handlers : tcs[h] # "result" => got[h] = None

(* A call that has begun has a task, and no other is in the queue.         *)
QueuedHasBegun ==
    /\ \A h \in Handlers : pc[h] # "ready" => tcs[h] # "none"
    /\ \A h \in ToSet(handlers) : pc[h] # "ready"

(* The handlers Dispose has passed are completed.                          *)
SweptAreSettled == \A i \in 1..swept : tcs[handlers[i]] # "pending"

RInv ==
    OInv /\ Offered /\ TakersAreSettled /\ NothingGot /\ QueuedHasBegun /\ SweptAreSettled

LEMMA HeadOrTail ==
  ASSUME NEW S, NEW s \in Seq(S), 1 <= Len(s)
  PROVE  /\ s[1] \in ToSet(s)
         /\ \A x : x \in ToSet(RemoveAt(s, 1)) => x \in ToSet(s)
         /\ \A x : x \in ToSet(s) /\ x # s[1] => x \in ToSet(RemoveAt(s, 1))
<1> DEFINE t == RemoveAt(s, 1)
<1>1. /\ t \in Seq(S) /\ Len(t) = Len(s) - 1 /\ Len(s) \in Nat
      /\ \A i \in 1..(Len(s) - 1) : t[i] = s[i + 1]
  BY RemoveAtHead
<1> HIDE DEF t
<1>2. s[1] \in ToSet(s)
  <2>1. 1 \in 1..Len(s)
    BY <1>1
  <2>2. QED
    BY <2>1, MemberOfSeq
<1>3. ASSUME NEW x, x \in ToSet(t) PROVE x \in ToSet(s)
  <2>1. PICK i \in 1..(Len(s) - 1) : s[i + 1] = x
    BY <1>1, <1>3, MemberOfSeq
  <2>2. i + 1 \in 1..Len(s)
    BY <1>1
  <2>3. QED
    BY <2>1, <2>2, MemberOfSeq
<1>4. ASSUME NEW x, x \in ToSet(s), x # s[1] PROVE x \in ToSet(t)
  <2>1. PICK i \in 1..Len(s) : s[i] = x
    BY <1>4, MemberOfSeq
  <2>2. i # 1
    BY <1>4, <2>1
  <2>3. i - 1 \in 1..Len(t) /\ (i - 1) + 1 = i
    BY <1>1, <2>2
  <2>4. t[i - 1] = x
    BY <1>1, <2>1, <2>3
  <2>5. QED
    BY <1>1, <2>3, <2>4, MemberOfSeq
<1>5. QED
  BY <1>2, <1>3, <1>4 DEF t

(* The call inside the lock offers one item to one handler at a time.      *)
LEMMA OneOffer ==
  ASSUME NEW x \in Items, NEW h \in Handlers, NEW y \in Items, NEW g \in Handlers,
         Trying(x, h), Trying(y, g)
  PROVE  x = y /\ h = g
  BY CallsDisjoint DEF Trying

(* What an offer does with the queue, and with the item when it is stored. *)
LEMMA OfferFacts ==
  ASSUME OInv, stage # "over", NEW x \in Items, NEW h \in Handlers, Trying(x, h)
  PROVE  /\ ~disposed /\ swept = 0 /\ lock \in {x, h} /\ x # h /\ lock # None /\ h # None /\ x # None
         /\ Free(x)
         /\ lock = x => x \notin ToSet(items) /\ 1 <= Len(handlers) /\ handlers[1] = h /\ pos = 1
         /\ lock = h => x \in ToSet(items) /\ 1 <= Len(items) /\ items[1] = x /\ pos = 1
<1>1. /\ lock \in {x, h} /\ x # h /\ lock # None /\ x # None /\ h # None
  BY CallsDisjoint DEF Trying, Calls
<1>2. ~disposed /\ swept = 0 /\ pos = 1 /\ pc[lock] = "inside" /\ items \in Seq(Items) /\ Owned(x)
  BY <1>1 DEF OInv, QInv, IInv, TypeOK, LockedIsOpen, SweepInside, LoopAtHead, LockedIsInside
<1>3. lock = x => x \notin ToSet(items) /\ 1 <= Len(handlers) /\ handlers[1] = h
  BY <1>1, <1>2 DEF Owned, Trying
<1>4. ASSUME lock = h PROVE x \in ToSet(items) /\ 1 <= Len(items) /\ items[1] = x
  <2>1. 1 <= Len(items) /\ items[1] = x
    BY <1>1, <1>2, <1>4 DEF Trying
  <2>2. QED
    BY <1>2, <2>1, HeadOrTail
<1>5. Free(x)
  BY <1>1, <1>2, <1>3, <1>4 DEF Owned
<1>6. QED
  BY <1>1, <1>2, <1>3, <1>4, <1>5

-----------------------------------------------------------------------------
(* RInv is inductive, conjunct by conjunct.                                *)

LEMMA TypesOf ==
  ASSUME OInv
  PROVE  /\ pc \in [Calls -> {"ready", "created", "inside", "awaiting", "closing", "failing", "done", "threw"}]
         /\ tcs \in [Handlers -> {"none", "pending", "result", "cancelled", "disposed"}]
         /\ got \in [Handlers -> Items \union {None}]
         /\ taker \in [Items -> Handlers \union {None}]
         /\ handlers \in Seq(Handlers) /\ items \in Seq(Items) /\ swept \in Nat
         /\ removeItem \in BOOLEAN /\ disposed \in BOOLEAN
         /\ disposed => lock = None
  BY DEF OInv, QInv, IInv, TypeOK, FlagsOK, LockedIsOpen

LEMMA NoOffer ==
  ASSUME lock' = None \/ stage' \in {"check", "over"}
  PROVE  Offered'
<1>1. CASE lock' = None
  BY <1>1, CallsDisjoint DEF Offered, Trying, Calls
<1>2. CASE stage' \in {"check", "over"}
  BY <1>2 DEF Offered
<1>3. QED
  BY <1>1, <1>2

LEMMA SameOffer ==
  ASSUME Offered, UNCHANGED <<lists, frame>>,
         \A h \in Handlers : tcs'[h] = tcs[h] \/ tcs'[h] \in {"pending", "cancelled"}
  PROVE  Offered'
  BY DEF Offered, Trying, lists, frame

LEMMA OfferedStep ==
  ASSUME RInv, OInv', [Next]_vars
  PROVE  Offered'
<1>0. Offered /\ (disposed => lock = None) /\ tcs \in [Handlers -> {"none", "pending", "result", "cancelled", "disposed"}]
  BY TypesOf DEF RInv
<1>1. ASSUME NEW c \in Calls, EnterOrThrow(c) \/ ClearItems(c) \/ DisposeBegin(c) PROVE Offered'
  <2>1. lock' = None \/ stage' = "check"
    BY <1>1 DEF EnterOrThrow, ClearItems, DisposeBegin, frame
  <2>2. QED
    BY <2>1, NoOffer
<1>2. ASSUME NEW c \in Calls, AddExit(c) \/ RunOrQueueExit(c) PROVE Offered'
  BY <1>2, NoOffer DEF AddExit, RunOrQueueExit
<1>3. ASSUME NEW d \in Disposers, DisposeItems(d) \/ FailHandler(d) \/ DisposeEnd(d) PROVE Offered'
  <2>1. disposed /\ lock' = lock
    BY <1>3 DEF DisposeItems, FailHandler, DisposeEnd, frame, RInv, OInv, QInv, Draining, Closing
  <2>2. QED
    BY <1>0, <2>1, NoOffer
<1>4. ASSUME NEW c \in Calls, Disconnect(c) \/ HandleReturn(c) PROVE Offered'
  <2>1. UNCHANGED <<lists, frame, tcs>>
    BY <1>4 DEF Disconnect, HandleReturn, outcomes
  <2>2. QED
    BY <1>0, <2>1, SameOffer
<1>5. ASSUME NEW h \in Handlers, CreateHandler(h) \/ CancelHandler(h) PROVE Offered'
  <2>1. UNCHANGED <<lists, frame>>
    BY <1>5 DEF CreateHandler, CancelHandler
  <2>2. \A g \in Handlers : tcs'[g] = tcs[g] \/ tcs'[g] \in {"pending", "cancelled"}
    BY <1>0, <1>5 DEF CreateHandler, CancelHandler
  <2>3. QED
    BY <1>0, <2>1, <2>2, SameOffer
<1>6. ASSUME NEW x \in Items, NEW h \in Handlers, TryHandler(x, h) PROVE Offered'
  <2>1. CASE TryPending(x, h) \/ RunDefaultHandler(x, h) \/ WaitHandlerLive(x, h)
    <3>1. /\ Trying(x, h) /\ UNCHANGED <<items, handlers, lock, pos, tcs>>
          /\ \/ stage' = "run" /\ tcs[h] = "pending"
             \/ stage = "run" /\ stage' = "settle" /\ (removeItem' <=> h \notin WaitHandlers)
      BY <2>1 DEF TryPending, RunDefaultHandler, WaitHandlerLive, lists, outcomes
    <3>2. ASSUME NEW y \in Items, NEW g \in Handlers, Trying(y, g)'
          PROVE  /\ stage' \in {"run", "settle"} => tcs'[g] \in {"pending", "cancelled"}
                 /\ stage' = "settle" => (removeItem' <=> g \notin WaitHandlers)
      <4>1. Trying(y, g)
        BY <3>1, <3>2 DEF Trying
      <4>2. g = h /\ y = x
        BY <3>1, <4>1, OneOffer
      <4>3. stage = "run" => tcs[h] \in {"pending", "cancelled"}
        BY <1>0, <3>1 DEF Offered
      <4>4. QED
        BY <3>1, <4>2, <4>3
    <3>3. QED
      BY <3>2 DEF Offered
  <2>2. CASE TryCompleted(x, h) \/ WaitHandlerDead(x, h) \/ TrySetResult(x, h)
    <3>1. stage' \in {"check", "over"}
      BY <2>2 DEF TryCompleted, WaitHandlerDead, TrySetResult, AfterTry
    <3>2. QED
      BY <3>1, NoOffer
  <2>3. QED
    BY <1>6, <2>1, <2>2 DEF TryHandler
<1>7. CASE UNCHANGED vars
  <2>1. UNCHANGED <<lists, frame, tcs>>
    BY <1>7 DEF vars, outcomes
  <2>2. QED
    BY <1>0, <2>1, SameOffer
<1>8. QED
  BY <1>1, <1>2, <1>3, <1>4, <1>5, <1>6, <1>7
     DEF Next, Add, Handle, Dispose, AllReturned, AddEnter, RunOrQueueEnter, Calls

(* What a step may do to a task, and to the history of an item.            *)
TaskMoves(h) ==
    \/ tcs'[h] = tcs[h] /\ got'[h] = got[h]
    \/ tcs[h] = "none" /\ tcs'[h] = "pending" /\ got'[h] = got[h]
    \/ tcs[h] = "pending" /\ tcs'[h] \in {"cancelled", "disposed"} /\ got'[h] = got[h]
    \/ tcs[h] = "pending" /\ tcs'[h] = "result"

TakerMoves(x) ==
    taker'[x] = taker[x] \/ (taker'[x] \in Handlers /\ tcs'[taker'[x]] \notin {"none", "pending"})

LEMMA EveryTaskMoves ==
  ASSUME RInv, [Next]_vars
  PROVE  (\A h \in Handlers : TaskMoves(h)) /\ (\A x \in Items : TakerMoves(x))
<1>0. /\ tcs \in [Handlers -> {"none", "pending", "result", "cancelled", "disposed"}]
      /\ got \in [Handlers -> Items \union {None}]
      /\ taker \in [Items -> Handlers \union {None}]
      /\ handlers \in Seq(Handlers) /\ swept \in Nat
      /\ Offered /\ QueuedHasBegun
      /\ \A h \in Handlers : pc[h] = "ready" => tcs[h] = "none"
  BY TypesOf DEF RInv, OInv, QInv, IInv, ReadyHasNoTask
<1>1. ASSUME NEW c \in Calls,
             \/ EnterOrThrow(c) \/ AddExit(c) \/ RunOrQueueExit(c) \/ HandleReturn(c) \/ Disconnect(c)
             \/ ClearItems(c) \/ DisposeBegin(c) \/ DisposeItems(c) \/ DisposeEnd(c)
      PROVE  UNCHANGED outcomes
  BY <1>1 DEF EnterOrThrow, AddExit, RunOrQueueExit, HandleReturn, Disconnect, ClearItems, DisposeBegin,
     DisposeItems, DisposeEnd
<1>2. CASE UNCHANGED outcomes
  BY <1>2 DEF outcomes, TaskMoves, TakerMoves
<1>3. ASSUME NEW h \in Handlers, CreateHandler(h) \/ CancelHandler(h)
      PROVE  (\A g \in Handlers : TaskMoves(g)) /\ (\A x \in Items : TakerMoves(x))
  <2>1. /\ UNCHANGED <<got, taker>>
        /\ \/ tcs[h] = "none" /\ tcs' = [tcs EXCEPT ![h] = "pending"]
           \/ tcs[h] = "pending" /\ tcs' = [tcs EXCEPT ![h] = "cancelled"]
    BY <1>0, <1>3 DEF CreateHandler, CancelHandler
  <2>2. QED
    BY <1>0, <2>1 DEF TaskMoves, TakerMoves
<1>4. ASSUME NEW d \in Disposers, FailHandler(d)
      PROVE  (\A g \in Handlers : TaskMoves(g)) /\ (\A x \in Items : TakerMoves(x))
  <2>1. handlers[swept + 1] \in Handlers
    BY <1>0, <1>4 DEF FailHandler
  <2>2. PICK h \in Handlers : tcs' = IF tcs[h] = "pending" THEN [tcs EXCEPT ![h] = "disposed"] ELSE tcs
    BY <1>4, <2>1 DEF FailHandler
  <2>3. UNCHANGED <<got, taker>>
    BY <1>4 DEF FailHandler
  <2>4. QED
    BY <1>0, <2>2, <2>3 DEF TaskMoves, TakerMoves
<1>5. ASSUME NEW x \in Items, NEW h \in Handlers, TryHandler(x, h)
      PROVE  (\A g \in Handlers : TaskMoves(g)) /\ (\A y \in Items : TakerMoves(y))
  <2>1. CASE TrySetResult(x, h)
    <3>1. /\ tcs' = IF tcs[h] = "pending" THEN [tcs EXCEPT ![h] = "result"] ELSE tcs
          /\ got' = IF tcs[h] = "pending" THEN [got EXCEPT ![h] = x] ELSE got
          /\ taker' = IF removeItem THEN [taker EXCEPT ![x] = h] ELSE taker
      BY <2>1 DEF TrySetResult
    <3>2. tcs[h] \in {"pending", "cancelled"}
      BY <1>0, <2>1 DEF TrySetResult, Offered
    <3>3. tcs'[h] \notin {"none", "pending"}
      BY <1>0, <3>1, <3>2
    <3>4. \A g \in Handlers : TaskMoves(g)
      BY <1>0, <3>1 DEF TaskMoves
    <3>5. \A y \in Items : TakerMoves(y)
      BY <1>0, <3>1, <3>3 DEF TakerMoves
    <3>6. QED
      BY <3>4, <3>5
  <2>2. CASE ~TrySetResult(x, h)
    <3>1. UNCHANGED outcomes
      BY <1>5, <2>2 DEF TryHandler, TryCompleted, TryPending, RunDefaultHandler, WaitHandlerLive, WaitHandlerDead
    <3>2. QED
      BY <1>2, <3>1
  <2>3. QED
    BY <2>1, <2>2
<1>6. CASE UNCHANGED vars
  BY <1>2, <1>6 DEF vars
<1>7. QED
  BY <1>1, <1>2, <1>3, <1>4, <1>5, <1>6
     DEF Next, Add, Handle, Dispose, AllReturned, AddEnter, RunOrQueueEnter, Calls

LEMMA TakersStep ==
  ASSUME RInv, [Next]_vars
  PROVE  TakersAreSettled' /\ NothingGot'
<1>1. (\A h \in Handlers : TaskMoves(h)) /\ (\A x \in Items : TakerMoves(x))
  BY EveryTaskMoves
<1>2. NothingGot'
  BY <1>1 DEF RInv, NothingGot, TaskMoves
<1>3. taker \in [Items -> Handlers \union {None}]
  BY TypesOf DEF RInv
<1>4. ASSUME NEW x \in Items, taker'[x] # None PROVE tcs'[taker'[x]] \notin {"none", "pending"}
  <2>1. CASE taker'[x] = taker[x]
    <3>1. taker[x] \in Handlers /\ tcs[taker[x]] \notin {"none", "pending"}
      BY <1>3, <1>4, <2>1 DEF RInv, TakersAreSettled
    <3>2. TaskMoves(taker[x])
      BY <1>1, <3>1
    <3>3. QED
      BY <2>1, <3>1, <3>2 DEF TaskMoves
  <2>2. QED
    BY <1>1, <2>1 DEF TakerMoves
<1>5. QED
  BY <1>2, <1>4 DEF TakersAreSettled

(* A call does not become one that has not begun, and has a task when it   *)
(* begins; only a call inside the lock joins the queue.                    *)
LEMMA CallsMove ==
  ASSUME RInv, [Next]_vars
  PROVE  /\ \A h \in Handlers : pc[h] # "ready" => pc'[h] # "ready"
         /\ \A h \in Handlers : pc[h] = "ready" /\ pc'[h] # "ready" => tcs'[h] = "pending"
         /\ \A h \in ToSet(handlers') : h \in ToSet(handlers) \/ (h \in Handlers /\ pc[h] = "inside")
<1> DEFINE Begun(h) == /\ pc[h] # "ready" => pc'[h] # "ready"
                       /\ pc[h] = "ready" /\ pc'[h] # "ready" => tcs'[h] = "pending"
<1> DEFINE Joined == \A h \in ToSet(handlers') : h \in ToSet(handlers) \/ (h \in Handlers /\ pc[h] = "inside")
<1>0. /\ pc \in [Calls -> {"ready", "created", "inside", "awaiting", "closing", "failing", "done", "threw"}]
      /\ tcs \in [Handlers -> {"none", "pending", "result", "cancelled", "disposed"}]
      /\ handlers \in Seq(Handlers)
      /\ \A h \in Handlers : h \in Calls
  BY TypesOf DEF RInv, Calls
<1>1. \A h \in Handlers : Begun(h)
  <2>1. ASSUME NEW c \in Calls, c \notin Handlers,
               \/ EnterOrThrow(c) \/ AddExit(c) \/ Disconnect(c) \/ ClearItems(c)
               \/ DisposeBegin(c) \/ DisposeItems(c) \/ FailHandler(c) \/ DisposeEnd(c)
        PROVE  \A h \in Handlers : Begun(h)
    <3>1. PICK v : pc' = pc \/ pc' = [pc EXCEPT ![c] = v]
      BY <2>1 DEF EnterOrThrow, AddExit, Disconnect, ClearItems, DisposeBegin, DisposeItems, FailHandler, DisposeEnd
    <3>2. QED
      BY <1>0, <2>1, <3>1
  <2>2. ASSUME NEW g \in Handlers, Handle(g) \/ CancelHandler(g) PROVE \A h \in Handlers : Begun(h)
    <3>1. CASE CreateHandler(g)
      <4>1. pc' = [pc EXCEPT ![g] = "created"] /\ tcs' = [tcs EXCEPT ![g] = "pending"]
        BY <3>1 DEF CreateHandler
      <4>2. QED
        BY <1>0, <4>1
    <3>2. CASE CancelHandler(g)
      BY <3>2 DEF CancelHandler
    <3>3. CASE RunOrQueueEnter(g) \/ RunOrQueueExit(g) \/ HandleReturn(g)
      <4>1. pc[g] # "ready"
        <5>1. g # None
          BY CallsDisjoint DEF Calls
        <5>2. lock = g => pc[g] = "inside"
          BY <5>1 DEF RInv, OInv, QInv, LockedIsInside
        <5>3. QED
          BY <3>3, <5>2 DEF RunOrQueueEnter, RunOrQueueExit, HandleReturn
      <4>2. \/ pc' = [pc EXCEPT ![g] = "threw"] \/ pc' = [pc EXCEPT ![g] = "inside"]
            \/ pc' = [pc EXCEPT ![g] = "awaiting"] \/ pc' = [pc EXCEPT ![g] = "done"]
        BY <3>3 DEF RunOrQueueEnter, EnterOrThrow, RunOrQueueExit, HandleReturn
      <4>3. QED
        BY <1>0, <4>1, <4>2
    <3>4. QED
      BY <2>2, <3>1, <3>2, <3>3 DEF Handle
  <2>3. ASSUME NEW x \in Items, NEW h \in Handlers, TryHandler(x, h) PROVE pc' = pc
    BY <2>3 DEF TryHandler, TryCompleted, TryPending, RunDefaultHandler, WaitHandlerLive, WaitHandlerDead,
       TrySetResult
  <2>4. CASE UNCHANGED vars
    BY <2>4 DEF vars
  <2>5. \A c \in Items \union Clearers \union Disposers : c \in Calls /\ c \notin Handlers
    BY CallsDisjoint DEF Calls
  <2>6. QED
    BY <2>1, <2>2, <2>3, <2>4, <2>5 DEF Next, Add, Dispose, AllReturned, AddEnter
<1>2. Joined
  <2>1. CASE handlers' = handlers
    BY <2>1
  <2>2. CASE handlers' = <<>>
    BY <2>2, EmptySeq DEF ToSet
  <2>3. ASSUME NEW h \in Handlers, RunOrQueueExit(h) PROVE Joined
    <3>1. pc[h] = "inside"
      BY <2>3, CallsDisjoint DEF RInv, OInv, QInv, LockedIsInside, RunOrQueueExit, Calls
    <3>2. handlers' = handlers \/ handlers' = Append(handlers, h)
      BY <2>3 DEF RunOrQueueExit
    <3>3. QED
      BY <1>0, <2>1, <3>1, <3>2, AppendMembers
  <2>4. ASSUME NEW x \in Items, NEW h \in Handlers, Trying(x, h), stage # "over",
               handlers' = handlers \/ (lock = x /\ handlers' = RemoveAt(handlers, pos))
        PROVE  Joined
    <3>1. lock = x => 1 <= Len(handlers) /\ pos = 1
      BY <2>4, OfferFacts DEF RInv
    <3>2. QED
      BY <1>0, <2>1, <2>4, <3>1, HeadOrTail
  <2>5. ASSUME NEW x \in Items, NEW h \in Handlers, TryHandler(x, h) PROVE Joined
    <3>1. /\ Trying(x, h) /\ stage # "over"
          /\ handlers' = handlers \/ (lock = x /\ handlers' = RemoveAt(handlers, pos))
      BY <2>5 DEF TryHandler, TryCompleted, TryPending, RunDefaultHandler, WaitHandlerLive, WaitHandlerDead,
         TrySetResult, AfterTry, lists
    <3>2. QED
      BY <2>4, <3>1
  <2>6. QED
    BY <2>1, <2>2, <2>3, <2>5
       DEF Next, Add, Handle, Dispose, AllReturned, AddEnter, RunOrQueueEnter, EnterOrThrow, AddExit, Disconnect,
           CreateHandler, CancelHandler, HandleReturn, ClearItems, DisposeBegin, DisposeItems, FailHandler,
           DisposeEnd, vars, lists
<1>3. QED
  BY <1>1, <1>2

LEMMA QueueStep ==
  ASSUME RInv, [Next]_vars
  PROVE  QueuedHasBegun' /\ SweptAreSettled'
<1>0. /\ \A h \in Handlers : TaskMoves(h)
      /\ handlers \in Seq(Handlers) /\ swept \in Nat /\ Len(handlers) \in Nat /\ swept <= Len(handlers)
  BY EveryTaskMoves, TypesOf DEF RInv, OInv, QInv, SweepInside
<1>1. \A h \in Handlers : pc'[h] # "ready" => tcs'[h] # "none"
  BY <1>0, CallsMove DEF RInv, QueuedHasBegun, TaskMoves
<1>2. \A h \in ToSet(handlers) : h \in Handlers
  BY <1>0, MemberOfSeq
<1>3. \A h \in ToSet(handlers') : pc'[h] # "ready"
  BY <1>2, CallsMove DEF RInv, QueuedHasBegun
<1>4. \A i \in 1..swept : handlers[i] \in Handlers /\ tcs'[handlers[i]] # "pending"
  <2>1. ASSUME NEW i \in 1..swept PROVE handlers[i] \in Handlers /\ tcs'[handlers[i]] # "pending"
    <3>1. i \in 1..Len(handlers) /\ tcs[handlers[i]] # "pending"
      BY <1>0 DEF RInv, SweptAreSettled
    <3>2. handlers[i] \in ToSet(handlers)
      BY <1>0, <3>1, MemberOfSeq
    <3>3. handlers[i] \in Handlers /\ tcs[handlers[i]] # "none"
      BY <1>2, <3>2 DEF RInv, QueuedHasBegun
    <3>4. QED
      BY <1>0, <3>1, <3>3 DEF TaskMoves
  <2>2. QED
    BY <2>1
<1>5. SweptAreSettled'
  <2>1. CASE swept' = 0
    BY <2>1 DEF SweptAreSettled
  <2>2. CASE swept' = swept /\ handlers' = handlers
    BY <1>4, <2>2 DEF SweptAreSettled
  <2>3. ASSUME NEW d \in Disposers, FailHandler(d) PROVE SweptAreSettled'
    <3>1. /\ handlers' = handlers /\ swept' = swept + 1 /\ swept + 1 \in 1..Len(handlers)
          /\ tcs' = IF tcs[handlers[swept + 1]] = "pending"
                    THEN [tcs EXCEPT ![handlers[swept + 1]] = "disposed"] ELSE tcs
      BY <1>0, <2>3 DEF FailHandler, lists
    <3>2. handlers[swept + 1] \in Handlers /\ tcs \in [Handlers -> {"none", "pending", "result", "cancelled", "disposed"}]
      BY <1>0, <3>1, TypesOf DEF RInv
    <3>3. tcs'[handlers[swept + 1]] # "pending"
      BY <3>1, <3>2
    <3>4. \A i \in 1..swept' : i \in 1..swept \/ i = swept + 1
      BY <1>0, <3>1
    <3>5. QED
      BY <1>4, <3>1, <3>3, <3>4 DEF SweptAreSettled
  <2>4. ASSUME NEW x \in Items, NEW h \in Handlers, TryHandler(x, h) PROVE swept' = 0
    <3>1. Trying(x, h) /\ stage # "over" /\ swept' = swept
      BY <2>4 DEF TryHandler, TryCompleted, TryPending, RunDefaultHandler, WaitHandlerLive, WaitHandlerDead,
         TrySetResult
    <3>2. QED
      BY <3>1, OfferFacts DEF RInv
  <2>5. ASSUME NEW h \in Handlers, RunOrQueueExit(h) PROVE swept' = 0
    BY <2>5, CallsDisjoint DEF RunOrQueueExit, RInv, OInv, QInv, IInv, LockedIsOpen, SweepInside, Calls
  <2>6. QED
    BY <2>1, <2>2, <2>3, <2>4, <2>5
       DEF Next, Add, Handle, Dispose, AllReturned, AddEnter, RunOrQueueEnter, EnterOrThrow, AddExit, Disconnect,
           CreateHandler, CancelHandler, HandleReturn, ClearItems, DisposeBegin, DisposeItems, DisposeEnd, vars,
           lists
<1>6. QED
  BY <1>1, <1>3, <1>5 DEF QueuedHasBegun

LEMMA RInvHolds == Spec => []RInv
<1>1. Init /\ OInv => RInv
  <2> SUFFICES ASSUME Init, OInv PROVE RInv
    OBVIOUS
  <2>1. lock = None /\ swept = 0 /\ handlers = <<>>
    BY DEF Init
  <2>2. Offered
    BY <2>1, CallsDisjoint DEF Offered, Trying, Calls
  <2>3. QueuedHasBegun
    <3>1. \A h : h \notin ToSet(handlers)
      BY <2>1, EmptySeq DEF ToSet
    <3>2. \A h \in Handlers : pc[h] = "ready"
      BY DEF Init, Calls
    <3>3. QED
      BY <3>1, <3>2 DEF QueuedHasBegun
  <2>4. TakersAreSettled /\ NothingGot /\ SweptAreSettled
    BY DEF Init, TakersAreSettled, NothingGot, SweptAreSettled
  <2>5. QED
    BY <2>2, <2>3, <2>4 DEF RInv
<1>2. RInv /\ OInv' /\ [Next]_vars => RInv'
  BY OfferedStep, TakersStep, QueueStep DEF RInv
<1>3. QED
  BY <1>1, <1>2, OInvHolds, PTL DEF Spec

-----------------------------------------------------------------------------
(* The refinement mapping, item by item and handler by handler.            *)

Where == [x \in Items |-> Whereabouts(x)]
Waiting == {h \in ToSet(handlers) : tcs[h] = "pending"}

LEMMA WhereIs ==
  ASSUME NEW x \in Items
  PROVE  /\ Free(x) /\ x \in ToSet(items) => Whereabouts(x) = "stored"
         /\ Free(x) /\ x \notin ToSet(items) => Whereabouts(x) = "outside"
         /\ x \in closed /\ x \notin ToSet(items) => Whereabouts(x) = "closed"
         /\ x \notin closed /\ x \notin ToSet(items) /\ taker[x] # None
              => Whereabouts(x) = IF got[taker[x]] = x THEN "taken" ELSE "lost"
  BY DEF Whereabouts, Free

LEMMA SameWhere ==
  ASSUME NEW x \in Items,
         x \in ToSet(items') <=> x \in ToSet(items),
         taker'[x] = taker[x],
         x \in closed' <=> x \in closed,
         taker[x] # None => got'[taker[x]] = got[taker[x]]
  PROVE  Whereabouts(x)' = Whereabouts(x)
  BY DEF Whereabouts

LEMMA SameWheres ==
  ASSUME UNCHANGED <<items, taker, closed, got>>
  PROVE  Where' = Where
<1>1. \A x \in Items : Whereabouts(x)' = Whereabouts(x)
  BY SameWhere
<1>2. QED
  BY <1>1 DEF Where

LEMMA StoredMeansFree ==
  ASSUME OInv, NEW x \in Items
  PROVE  /\ Whereabouts(x) = "stored" <=> x \in ToSet(items)
         /\ x \in ToSet(items) => Free(x)
<1>1. x \in ToSet(items) => Free(x)
  BY DEF OInv, Owned
<1>2. x \in ToSet(items) => Whereabouts(x) = "stored"
  BY <1>1, WhereIs
<1>3. x \notin ToSet(items) => Whereabouts(x) # "stored"
  BY WhereIs DEF Free
<1>4. QED
  BY <1>1, <1>2, <1>3

(* Emptying the list and closing its items is one step of the exchange.    *)
LEMMA ClosingStored ==
  ASSUME RInv, items' = <<>>, closed' = closed \union ToSet(items),
         UNCHANGED <<handlers, tcs, taker, got, disposed>>
  PROVE  Exchange!CloseStored
<1>1. \A x : x \notin ToSet(items')
  BY EmptySeq DEF ToSet
<1>2. ASSUME NEW x \in Items
      PROVE  Whereabouts(x)' = IF Whereabouts(x) = "stored" THEN "closed" ELSE Whereabouts(x)
  <2>1. CASE x \in ToSet(items)
    <3>1. x \in closed'
      BY <2>1
    <3>2. Whereabouts(x)' = "closed"
      BY <1>1, <3>1 DEF Whereabouts
    <3>3. QED
      BY <2>1, <3>2, StoredMeansFree DEF RInv
  <2>2. CASE x \notin ToSet(items)
    <3>1. Whereabouts(x)' = Whereabouts(x)
      BY <1>1, <2>2, SameWhere
    <3>2. QED
      BY <2>2, <3>1, StoredMeansFree DEF RInv
  <2>3. QED
    BY <2>1, <2>2
<1>3. QED
  BY <1>2 DEF Exchange!CloseStored

(* The queue of those who wait, after an offer to h.                       *)
LEMMA WaitingAfterOffer ==
  ASSUME RInv, stage # "over", NEW x \in Items, NEW h \in Handlers, Trying(x, h),
         handlers' = handlers \/ (lock = x /\ handlers' = RemoveAt(handlers, pos)),
         \A g \in Handlers : g # h => tcs'[g] = tcs[g],
         tcs'[h] # "pending"
  PROVE  Waiting' = Waiting \ {h}
<1>1. handlers \in Seq(Handlers) /\ \A g \in ToSet(handlers) : g \in Handlers
  BY TypesOf, MemberOfSeq DEF RInv
<1>2. lock = x => 1 <= Len(handlers) /\ handlers[1] = h /\ pos = 1
  BY OfferFacts DEF RInv
<1>3. /\ \A g : g \in ToSet(handlers') => g \in ToSet(handlers)
      /\ \A g : g \in ToSet(handlers) /\ g # h => g \in ToSet(handlers')
  BY <1>1, <1>2, HeadOrTail
<1>4. QED
  BY <1>1, <1>3 DEF Waiting

LEMMA OfferIsAvailable ==
  ASSUME RInv, stage # "over", NEW x \in Items, NEW h \in Handlers, Trying(x, h)
  PROVE  Where[x] \in {"outside", "stored"}
<1>1. Free(x)
  BY OfferFacts DEF RInv
<1>2. QED
  BY <1>1, WhereIs DEF Where

(* A step that changes neither an item, nor a task, nor the queue.         *)
LEMMA Stutters ==
  ASSUME UNCHANGED <<items, handlers, tcs, taker, got, closed, disposed>>
  PROVE  UNCHANGED Exchange!vars
<1>1. Where' = Where /\ Waiting' = Waiting
  BY SameWheres DEF Waiting
<1>2. QED
  BY <1>1 DEF Where, Waiting, Exchange!vars

(* Completing a task that was cancelled meanwhile loses a removed item.    *)
LEMMA TrySetResultMaps ==
  ASSUME RInv, NEW x \in Items, NEW h \in Handlers, TrySetResult(x, h)
  PROVE  Exchange!Take(h, x) \/ Exchange!Observe(h, x) \/ Exchange!Lose(h, x) \/ UNCHANGED Exchange!vars
<1>0. /\ tcs \in [Handlers -> {"none", "pending", "result", "cancelled", "disposed"}]
      /\ got \in [Handlers -> Items \union {None}]
      /\ taker \in [Items -> Handlers \union {None}]
      /\ items \in Seq(Items) /\ handlers \in Seq(Handlers) /\ removeItem \in BOOLEAN
  BY TypesOf DEF RInv
<1>1. /\ Trying(x, h) /\ stage = "settle" /\ AfterTry(x, h, TRUE, removeItem)
      /\ tcs' = IF tcs[h] = "pending" THEN [tcs EXCEPT ![h] = "result"] ELSE tcs
      /\ got' = IF tcs[h] = "pending" THEN [got EXCEPT ![h] = x] ELSE got
      /\ taker' = IF removeItem THEN [taker EXCEPT ![x] = h] ELSE taker
      /\ UNCHANGED <<disposed, closed>>
  BY DEF TrySetResult, streams
<1>2. /\ ~disposed /\ x # None /\ h # None /\ x # h /\ Free(x) /\ lock \in {x, h}
      /\ lock = x => x \notin ToSet(items)
      /\ lock = h => x \in ToSet(items) /\ 1 <= Len(items) /\ items[1] = x /\ pos = 1
  BY <1>1, OfferFacts DEF RInv
<1>3. tcs[h] \in {"pending", "cancelled"} /\ (removeItem <=> h \notin WaitHandlers)
  BY <1>1 DEF RInv, Offered
<1>4. Waiting' = Waiting \ {h} /\ (tcs[h] # "pending" => Waiting' = Waiting)
  <2>1. handlers' = handlers \/ (lock = x /\ handlers' = RemoveAt(handlers, pos))
    BY <1>1 DEF AfterTry
  <2>2. tcs'[h] # "pending" /\ \A g \in Handlers : g # h => tcs'[g] = tcs[g]
    BY <1>0, <1>1, <1>3
  <2>3. Waiting' = Waiting \ {h}
    BY <1>1, <2>1, <2>2, WaitingAfterOffer
  <2>4. QED
    BY <2>3 DEF Waiting
<1>5. ASSUME NEW y \in Items, y # x \/ ~removeItem PROVE Whereabouts(y)' = Whereabouts(y)
  <2>1. taker'[y] = taker[y]
    BY <1>0, <1>1, <1>5
  <2>2. y \in ToSet(items') <=> y \in ToSet(items)
    <3>1. CASE lock = h /\ removeItem
      <4>1. items' = RemoveAt(items, 1) /\ y # items[1]
        BY <1>1, <1>2, <1>5, <3>1 DEF AfterTry
      <4>2. QED
        BY <1>0, <1>2, <3>1, <4>1, HeadOrTail
    <3>2. CASE ~(lock = h /\ removeItem)
      <4>1. items' = items
        BY <1>1, <1>2, <3>2 DEF AfterTry
      <4>2. QED
        BY <4>1
    <3>3. QED
      BY <3>1, <3>2
  <2>3. ASSUME taker[y] # None PROVE got'[taker[y]] = got[taker[y]]
    <3>1. taker[y] \in Handlers /\ tcs[taker[y]] # "pending"
      BY <1>0, <2>3 DEF RInv, TakersAreSettled
    <3>2. QED
      BY <1>0, <1>1, <3>1
  <2>4. QED
    BY <1>1, <2>1, <2>2, <2>3, SameWhere
<1>6. ASSUME removeItem
      PROVE  Where' = [Where EXCEPT ![x] = IF tcs[h] = "pending" THEN "taken" ELSE "lost"]
  <2>1. x \notin ToSet(items')
    <3>1. CASE lock = h
      <4>1. items' = RemoveAt(items, 1)
        BY <1>1, <1>2, <1>6, <3>1 DEF AfterTry
      <4>2. QED
        BY <1>0, <1>2, <3>1, <4>1, HeadIsGone DEF RInv, OInv, StoredOnce
    <3>2. CASE lock = x
      BY <1>1, <1>2, <3>2 DEF AfterTry
    <3>3. QED
      BY <1>2, <3>1, <3>2
  <2>2. x \notin closed' /\ taker'[x] = h
    BY <1>0, <1>1, <1>2, <1>6 DEF Free
  <2>3. got'[h] = x <=> tcs[h] = "pending"
    BY <1>0, <1>1, <1>2, <1>3 DEF RInv, NothingGot
  <2>4. Whereabouts(x)' = IF tcs[h] = "pending" THEN "taken" ELSE "lost"
    BY <1>2, <2>1, <2>2, <2>3 DEF Whereabouts
  <2>5. QED
    BY <1>5, <2>4 DEF Where
<1>7. ASSUME ~removeItem PROVE Where' = Where
  BY <1>5, <1>7 DEF Where
<1>8. Where[x] \in {"outside", "stored"}
  BY <1>1, OfferIsAvailable
<1>9. CASE tcs[h] = "pending" /\ removeItem
  <2>1. Exchange!Complete(h, x)
    BY <1>1, <1>2, <1>4, <1>8, <1>9 DEF Exchange!Complete, Exchange!Available, Where, Waiting
  <2>2. QED
    BY <1>3, <1>6, <1>9, <2>1 DEF Exchange!Take, Where
<1>10. CASE tcs[h] = "pending" /\ ~removeItem
  <2>1. Exchange!Complete(h, x)
    BY <1>1, <1>2, <1>4, <1>8, <1>10 DEF Exchange!Complete, Exchange!Available, Where, Waiting
  <2>2. QED
    BY <1>3, <1>7, <1>10, <2>1 DEF Exchange!Observe, Where
<1>11. CASE tcs[h] = "cancelled" /\ removeItem
  BY <1>1, <1>2, <1>3, <1>4, <1>6, <1>8, <1>11 DEF Exchange!Lose, Exchange!Available, Where, Waiting
<1>12. CASE tcs[h] = "cancelled" /\ ~removeItem
  BY <1>1, <1>4, <1>7, <1>12 DEF Exchange!vars, Where, Waiting
<1>13. QED
  BY <1>0, <1>3, <1>9, <1>10, <1>11, <1>12

(* An offer that completes nothing is seen by nobody, but for a dead item. *)
LEMMA TryHandlerMaps ==
  ASSUME RInv, NEW x \in Items, NEW h \in Handlers, TryHandler(x, h)
  PROVE  \/ Exchange!Take(h, x) \/ Exchange!Observe(h, x) \/ Exchange!Lose(h, x)
         \/ Exchange!CloseDead(x) \/ UNCHANGED Exchange!vars
<1>1. CASE TryPending(x, h) \/ RunDefaultHandler(x, h) \/ WaitHandlerLive(x, h)
  BY <1>1, Stutters DEF TryPending, RunDefaultHandler, WaitHandlerLive, lists, outcomes, streams
<1>2. CASE TryCompleted(x, h)
  <2>1. /\ Trying(x, h) /\ stage # "over" /\ AfterTry(x, h, TRUE, FALSE) /\ tcs[h] # "pending"
        /\ UNCHANGED <<tcs, taker, got, closed, disposed>>
    BY <1>2 DEF TryCompleted, outcomes, streams
  <2>2. items' = items /\ (handlers' = handlers \/ (lock = x /\ handlers' = RemoveAt(handlers, pos)))
    BY <2>1 DEF AfterTry
  <2>3. Waiting' = Waiting \ {h}
    BY <2>1, <2>2, WaitingAfterOffer
  <2>4. Waiting' = Waiting
    BY <2>1, <2>3 DEF Waiting
  <2>5. Where' = Where
    BY <2>1, <2>2, SameWheres
  <2>6. QED
    BY <2>1, <2>4, <2>5 DEF Exchange!vars, Where, Waiting
<1>3. CASE WaitHandlerDead(x, h)
  <2>1. /\ Trying(x, h) /\ stage # "over" /\ AfterTry(x, h, FALSE, TRUE)
        /\ closed' = closed \union {x}
        /\ UNCHANGED <<tcs, taker, got, disposed>>
    BY <1>3 DEF WaitHandlerDead, outcomes
  <2>2. /\ ~disposed /\ x # h /\ lock \in {x, h}
        /\ lock = x => x \notin ToSet(items)
        /\ lock = h => 1 <= Len(items) /\ items[1] = x /\ pos = 1
    BY <2>1, OfferFacts DEF RInv
  <2>3. items \in Seq(Items)
    BY TypesOf DEF RInv
  <2>4. handlers' = handlers /\ items' = IF lock = h THEN RemoveAt(items, 1) ELSE items
    BY <2>1, <2>2 DEF AfterTry
  <2>5. x \notin ToSet(items')
    <3>1. CASE lock = h
      BY <2>2, <2>3, <2>4, <3>1, HeadIsGone DEF RInv, OInv, StoredOnce
    <3>2. CASE lock = x
      BY <2>2, <2>4, <3>2
    <3>3. QED
      BY <2>2, <3>1, <3>2
  <2>6. Whereabouts(x)' = "closed"
    BY <2>1, <2>5 DEF Whereabouts
  <2>7. ASSUME NEW y \in Items, y # x PROVE Whereabouts(y)' = Whereabouts(y)
    <3>1. y \in ToSet(items') <=> y \in ToSet(items)
      <4>1. CASE lock = h
        BY <2>2, <2>3, <2>4, <2>7, <4>1, HeadOrTail
      <4>2. CASE lock # h
        BY <2>4, <4>2
      <4>3. QED
        BY <4>1, <4>2
    <3>2. QED
      BY <2>1, <2>7, <3>1, SameWhere
  <2>8. Where' = [Where EXCEPT ![x] = "closed"]
    BY <2>6, <2>7 DEF Where
  <2>9. Where[x] \in {"outside", "stored"}
    BY <2>1, OfferIsAvailable
  <2>10. Waiting' = Waiting
    BY <2>1, <2>4 DEF Waiting
  <2>11. QED
    BY <2>1, <2>2, <2>8, <2>9, <2>10 DEF Exchange!CloseDead, Exchange!Available, Where, Waiting
<1>4. QED
  BY <1>1, <1>2, <1>3, TrySetResultMaps DEF TryHandler

(* Leaving the lock: the item is stored, or the handler waits.             *)
LEMMA AddExitMaps ==
  ASSUME RInv, NEW x \in Items, AddExit(x)
  PROVE  Exchange!Store(x) \/ UNCHANGED Exchange!vars
<1>0. items \in Seq(Items) /\ handlers \in Seq(Handlers) /\ x # None
  BY TypesOf, CallsDisjoint DEF RInv, Calls
<1>1. lock = x /\ UNCHANGED <<handlers, tcs, taker, got, closed, disposed>>
  BY DEF AddExit, outcomes, streams
<1>2. CASE items' = items
  BY <1>1, <1>2, Stutters
<1>3. CASE items' # items
  <2>1. stage = "check" /\ items' = Append(items, x) /\ pos > Len(handlers)
    BY <1>3 DEF AddExit
  <2>2. ~disposed /\ pos = 1 /\ pc[x] = "inside" /\ Owned(x)
    BY <1>0, <1>1, <2>1 DEF RInv, OInv, QInv, IInv, LockedIsOpen, LoopAtHead, LockedIsInside
  <2>3. Free(x) /\ x \notin ToSet(items)
    BY <2>1, <2>2 DEF Owned
  <2>4. handlers = <<>>
    BY <1>0, <2>1, <2>2, EmptySeq
  <2>5. Waiting = {} /\ Waiting' = Waiting
    BY <1>1, <2>4, EmptySeq DEF Waiting, ToSet
  <2>6. Where[x] = "outside"
    BY <2>3, WhereIs DEF Where
  <2>7. Whereabouts(x)' = "stored"
    <3>1. x \in ToSet(items') /\ taker'[x] = None /\ x \notin closed'
      BY <1>0, <1>1, <2>1, <2>3, AppendMembers DEF Free
    <3>2. QED
      BY <3>1 DEF Whereabouts
  <2>8. ASSUME NEW y \in Items, y # x PROVE Whereabouts(y)' = Whereabouts(y)
    <3>1. y \in ToSet(items') <=> y \in ToSet(items)
      BY <1>0, <2>1, <2>8, AppendMembers
    <3>2. QED
      BY <1>1, <3>1, SameWhere
  <2>9. Where' = [Where EXCEPT ![x] = "stored"]
    BY <2>7, <2>8 DEF Where
  <2>10. QED
    BY <1>1, <2>2, <2>5, <2>6, <2>9 DEF Exchange!Store, Where, Waiting
<1>4. QED
  BY <1>2, <1>3

LEMMA RunOrQueueExitMaps ==
  ASSUME RInv, NEW h \in Handlers, RunOrQueueExit(h)
  PROVE  Exchange!Wait(h) \/ UNCHANGED Exchange!vars
<1>0. items \in Seq(Items) /\ handlers \in Seq(Handlers) /\ h # None
  BY TypesOf, CallsDisjoint DEF RInv, Calls
<1>1. lock = h /\ UNCHANGED <<items, tcs, taker, got, closed, disposed>>
  BY DEF RunOrQueueExit, outcomes, streams
<1>2. Where' = Where
  BY <1>1, SameWheres
<1>3. CASE handlers' = handlers
  BY <1>1, <1>3, Stutters
<1>4. CASE handlers' # handlers
  <2>1. stage = "check" /\ handlers' = Append(handlers, h) /\ pos > Len(items)
    BY <1>4 DEF RunOrQueueExit
  <2>2. ~disposed /\ pos = 1
    BY <1>0, <1>1, <2>1 DEF RInv, OInv, QInv, IInv, LockedIsOpen, LoopAtHead
  <2>3. items = <<>>
    BY <1>0, <2>1, <2>2, EmptySeq
  <2>4. \A y \in Items : Where[y] # "stored"
    <3>1. \A y : y \notin ToSet(items)
      BY <2>3, EmptySeq DEF ToSet
    <3>2. QED
      BY <3>1, StoredMeansFree DEF RInv, Where
  <2>5. \A g : g \in ToSet(handlers') <=> g \in ToSet(handlers) \/ g = h
    BY <1>0, <2>1, AppendMembers
  <2>6. CASE tcs[h] = "pending"
    <3>1. Waiting' = Waiting \union {h}
      BY <1>1, <2>5, <2>6 DEF Waiting
    <3>2. QED
      BY <1>1, <1>2, <2>2, <2>4, <2>6, <3>1 DEF Exchange!Wait, Where, Waiting
  <2>7. CASE tcs[h] # "pending"
    <3>1. Waiting' = Waiting
      BY <1>1, <2>5, <2>7 DEF Waiting
    <3>2. QED
      BY <1>1, <1>2, <3>1 DEF Exchange!vars, Where, Waiting
  <2>8. QED
    BY <2>6, <2>7
<1>5. QED
  BY <1>3, <1>4

LEMMA TasksMap ==
  ASSUME RInv, NEW h \in Handlers
  PROVE  /\ CreateHandler(h) => Exchange!Begin(h)
         /\ CancelHandler(h) => Exchange!Cancel(h)
<1>0. /\ tcs \in [Handlers -> {"none", "pending", "result", "cancelled", "disposed"}]
      /\ \A g \in ToSet(handlers) : g \in Handlers
  BY TypesOf, MemberOfSeq DEF RInv
<1>1. ASSUME CreateHandler(h) PROVE Exchange!Begin(h)
  <2>1. /\ pc[h] = "ready" /\ tcs[h] = "none" /\ tcs' = [tcs EXCEPT ![h] = "pending"]
        /\ UNCHANGED <<items, handlers, got, taker, closed, disposed>>
    BY <1>1 DEF CreateHandler, lists, streams, RInv, OInv, QInv, IInv, ReadyHasNoTask
  <2>2. h \notin ToSet(handlers)
    BY <2>1 DEF RInv, QueuedHasBegun
  <2>3. Where' = Where /\ Waiting' = Waiting
    BY <1>0, <2>1, <2>2, SameWheres DEF Waiting
  <2>4. QED
    BY <2>1, <2>3 DEF Exchange!Begin, Where, Waiting
<1>2. ASSUME CancelHandler(h) PROVE Exchange!Cancel(h)
  <2>1. /\ tcs[h] = "pending" /\ tcs' = [tcs EXCEPT ![h] = "cancelled"]
        /\ UNCHANGED <<items, handlers, got, taker, closed, disposed>>
    BY <1>2 DEF CancelHandler, lists, streams
  <2>2. Where' = Where /\ Waiting' = Waiting \ {h}
    BY <1>0, <2>1, SameWheres DEF Waiting
  <2>3. QED
    BY <2>1, <2>2 DEF Exchange!Cancel, Where, Waiting
<1>3. QED
  BY <1>1, <1>2

LEMMA ClearItemsMaps ==
  ASSUME RInv, NEW c \in Clearers, ClearItems(c)
  PROVE  Exchange!CloseStored \/ UNCHANGED Exchange!vars
<1>1. UNCHANGED <<handlers, tcs, taker, got, disposed>>
  BY DEF ClearItems, outcomes
<1>2. (items' = items /\ closed' = closed) \/ (items' = <<>> /\ closed' = closed \union ToSet(items))
  BY DEF ClearItems
<1>3. QED
  BY <1>1, <1>2, Stutters, ClosingStored

LEMMA DisposeMaps ==
  ASSUME RInv, NEW d \in Disposers, Dispose(d)
  PROVE  \/ Exchange!Shut \/ Exchange!CloseStored \/ UNCHANGED Exchange!vars
         \/ \E h \in Handlers : Exchange!Fail(h)
<1>0. /\ tcs \in [Handlers -> {"none", "pending", "result", "cancelled", "disposed"}]
      /\ handlers \in Seq(Handlers) /\ swept \in Nat /\ Len(handlers) \in Nat /\ disposed \in BOOLEAN
      /\ \A g \in ToSet(handlers) : g \in Handlers
  BY TypesOf, MemberOfSeq DEF RInv
<1>1. CASE DisposeBegin(d)
  <2>1. disposed' = TRUE /\ UNCHANGED <<items, handlers, tcs, taker, got, closed>>
    BY <1>1 DEF DisposeBegin, lists, outcomes, streams
  <2>2. CASE disposed
    <3>1. disposed' = disposed
      BY <1>0, <2>1, <2>2
    <3>2. QED
      BY <2>1, <3>1, Stutters
  <2>3. CASE ~disposed
    <3>1. Where' = Where /\ Waiting' = Waiting
      BY <2>1, SameWheres DEF Waiting
    <3>2. QED
      BY <2>1, <2>3, <3>1 DEF Exchange!Shut, Where, Waiting
  <2>4. QED
    BY <2>2, <2>3
<1>2. CASE DisposeItems(d)
  BY <1>2, ClosingStored DEF DisposeItems, outcomes
<1>3. CASE FailHandler(d)
  <2>1. /\ disposed /\ swept + 1 \in 1..Len(handlers) /\ UNCHANGED <<items, handlers, got, taker, closed, disposed>>
    BY <1>0, <1>3 DEF FailHandler, lists, streams, RInv, OInv, QInv, Draining, Closing
  <2>2. PICK h : h = handlers[swept + 1]
    OBVIOUS
  <2>3. /\ h \in ToSet(handlers) /\ h \in Handlers
        /\ tcs' = IF tcs[h] = "pending" THEN [tcs EXCEPT ![h] = "disposed"] ELSE tcs
    BY <1>0, <1>3, <2>1, <2>2, MemberOfSeq DEF FailHandler
  <2>4. CASE tcs[h] = "pending"
    <3>1. h \in Waiting /\ Waiting' = Waiting \ {h} /\ Where' = Where
      BY <1>0, <2>1, <2>3, <2>4, SameWheres DEF Waiting
    <3>2. Exchange!Fail(h)
      BY <2>1, <2>3, <2>4, <3>1 DEF Exchange!Fail, Where, Waiting
    <3>3. QED
      BY <2>3, <3>2
  <2>5. CASE tcs[h] # "pending"
    BY <2>1, <2>3, <2>5, Stutters
  <2>6. QED
    BY <2>4, <2>5
<1>4. CASE DisposeEnd(d)
  <2>1. /\ swept = Len(handlers) /\ handlers' = <<>>
        /\ UNCHANGED <<items, tcs, got, taker, closed, disposed>>
    BY <1>4 DEF DisposeEnd, outcomes, streams
  <2>2. \A h \in ToSet(handlers) : tcs[h] # "pending"
    <3>1. \A i \in 1..Len(handlers) : tcs[handlers[i]] # "pending"
      BY <2>1 DEF RInv, SweptAreSettled
    <3>2. QED
      BY <1>0, <3>1, MemberOfSeq
  <2>3. \A h : h \notin ToSet(handlers')
    BY <2>1, EmptySeq DEF ToSet
  <2>4. Where' = Where /\ Waiting' = Waiting
    BY <2>1, <2>2, <2>3, SameWheres DEF Waiting
  <2>5. QED
    BY <2>1, <2>4 DEF Exchange!vars, Where, Waiting
<1>5. QED
  BY <1>1, <1>2, <1>3, <1>4 DEF Dispose

(* The collection implements the exchange of items: initial states map to  *)
(* its initial states, and every step of a call to a step of it or to none. *)
THEOREM CollectionIsExchange == Spec => ImplementsExchange
<1>1. Init => Exchange!Init
  <2> SUFFICES ASSUME Init PROVE Exchange!Init
    OBVIOUS
  <2>1. \A x : x \notin ToSet(items) /\ x \notin ToSet(handlers)
    BY EmptySeq DEF Init, ToSet
  <2>2. ASSUME NEW x \in Items PROVE Whereabouts(x) = "outside"
    BY <2>1, WhereIs DEF Init, Free
  <2>3. Where = [x \in Items |-> "outside"] /\ Waiting = {}
    BY <2>1, <2>2 DEF Where, Waiting
  <2>4. QED
    BY <2>3 DEF Init, Exchange!Init, Where, Waiting
<1>2. RInv /\ [Next]_vars => [Exchange!Next]_(Exchange!vars)
  <2> SUFFICES ASSUME RInv, [Next]_vars PROVE Exchange!Next \/ UNCHANGED Exchange!vars
    OBVIOUS
  <2>1. ASSUME NEW c \in Calls, EnterOrThrow(c) \/ Disconnect(c) \/ HandleReturn(c)
        PROVE  UNCHANGED Exchange!vars
    BY <2>1, Stutters DEF EnterOrThrow, Disconnect, HandleReturn, lists, outcomes, streams
  <2>2. CASE UNCHANGED vars
    BY <2>2, Stutters DEF vars, lists, outcomes, streams
  <2>3. ASSUME NEW x \in Items, Add(x) \/ Disconnect(x) PROVE Exchange!Next \/ UNCHANGED Exchange!vars
    BY <2>1, <2>3, AddExitMaps DEF Add, AddEnter, Calls, Exchange!Next
  <2>4. ASSUME NEW h \in Handlers, Handle(h) \/ CancelHandler(h) PROVE Exchange!Next \/ UNCHANGED Exchange!vars
    BY <2>1, <2>4, RunOrQueueExitMaps, TasksMap DEF Handle, RunOrQueueEnter, Calls, Exchange!Next
  <2>5. ASSUME NEW x \in Items, NEW h \in Handlers, TryHandler(x, h)
        PROVE  Exchange!Next \/ UNCHANGED Exchange!vars
    BY <2>5, TryHandlerMaps DEF Exchange!Next
  <2>6. ASSUME NEW c \in Clearers, ClearItems(c) PROVE Exchange!Next \/ UNCHANGED Exchange!vars
    BY <2>6, ClearItemsMaps DEF Exchange!Next
  <2>7. ASSUME NEW d \in Disposers, Dispose(d) PROVE Exchange!Next \/ UNCHANGED Exchange!vars
    BY <2>7, DisposeMaps DEF Exchange!Next
  <2>8. QED
    BY <2>2, <2>3, <2>4, <2>5, <2>6, <2>7 DEF Next, AllReturned
<1>3. QED
  BY <1>1, <1>2, RInvHolds, PTL DEF Spec, ImplementsExchange, Exchange!Spec
=============================================================================
