-------------------- MODULE ReversedDiagnosticsServerProofs --------------------
(* Theorems about ReversedDiagnosticsServer, for any number of runtimes,   *)
(* streams and calls.                                                      *)
EXTENDS ReversedDiagnosticsServer, TLAPS

PcValues ==
    {"ready", "waiting", "verified", "entering", "removed", "cancelling", "stopping", "listing",
     "sweeping", "ending", "done", "threw", "cancelled"}

(* What the proofs need of the types: the queues are left out.             *)
Types ==
    /\ dict \in [Cookies -> Collections \union {None}]
    /\ stored \in [Collections -> SUBSET Streams]
    /\ where \in [Streams -> {"runtime", "pending", "listener", "stored", "client", "closed", "lost"}]
    /\ listener \in {"idle", "top", "accept", "parse", "file", "clear", "add", "announce", "ended"}
    /\ at \in [Clients \union Removers -> Collections \union {None}]
    /\ snapshot \in [Disposers -> SUBSET Collections]
    /\ pc \in [Calls -> PcValues]
    /\ latest \in [Cookies -> Streams \union {None}]

(* The listener works on a stream and on a collection of the same runtime, *)
(* a call on a collection, and a cookie's collection is its own.           *)
Places ==
    /\ listener \in {"parse", "file", "clear", "add", "announce"} => current \in Streams
    /\ listener \in {"clear", "add"} => filing \in Collections /\ CookieOf[filing] = CookieOf[current]
    /\ \A c \in Clients : pc[c] = "entering" => at[c] \in Collections
    /\ \A r \in Removers : pc[r] = "removed" => at[r] \in Collections
    /\ \A c \in Cookies : dict[c] # None => CookieOf[dict[c]] = c

(* What Add of the listener's stream does, whoever waits in the collection: *)
(* it ends calls, and the stream gets one place.                           *)
LEMMA AddFacts ==
  ASSUME AddToQueue, Types
  PROVE  /\ \/ stored' = stored /\ \E p \in {"closed", "client", "lost"} : where' = [where EXCEPT ![current] = p]
            \/ /\ stored' = [stored EXCEPT ![filing] = @ \union {current}]
               /\ where' = [where EXCEPT ![current] = "stored"]
         /\ pc' \in [Calls -> PcValues]
         /\ \A c \in Calls : pc'[c] = pc[c] \/ pc'[c] \in {"done", "cancelled"}
<1>1. \/ stored' = stored /\ \E p \in {"closed", "client", "lost"} : where' = [where EXCEPT ![current] = p]
      \/ /\ stored' = [stored EXCEPT ![filing] = @ \union {current}]
         /\ where' = [where EXCEPT ![current] = "stored"]
  BY DEF AddToQueue
<1>2. \/ pc' = pc
      \/ \E cs : pc' = Ended(cs, "done")
      \/ \E cs, m : \E v \in {"done", "cancelled"} : pc' = [Ended(cs, "done") EXCEPT ![m] = v]
  BY DEF AddToQueue
<1> DEFINE Ends == /\ pc' \in [Calls -> PcValues]
                   /\ \A c \in Calls : pc'[c] = pc[c] \/ pc'[c] \in {"done", "cancelled"}
<1>3. pc \in [Calls -> PcValues] /\ "done" \in PcValues /\ "cancelled" \in PcValues
  BY DEF Types, PcValues
<1>4. ASSUME pc' = pc PROVE Ends
  BY <1>3, <1>4
<1>5. ASSUME NEW cs
      PROVE  /\ Ended(cs, "done") \in [Calls -> PcValues]
             /\ \A c \in Calls : Ended(cs, "done")[c] = pc[c] \/ Ended(cs, "done")[c] = "done"
  BY <1>3 DEF Ended
<1>6. ASSUME NEW cs, pc' = Ended(cs, "done") PROVE Ends
  BY <1>5, <1>6
<1>7. ASSUME NEW cs, NEW m, NEW v \in {"done", "cancelled"}, pc' = [Ended(cs, "done") EXCEPT ![m] = v] PROVE Ends
  <2>1. pc' \in [Calls -> PcValues]
    BY <1>3, <1>5, <1>7
  <2>2. \A c \in Calls : pc'[c] = Ended(cs, "done")[c] \/ pc'[c] = v
    BY <1>5, <1>7
  <2>3. QED
    BY <1>5, <2>1, <2>2
<1>8. Ends
  BY <1>2, <1>4, <1>6, <1>7
<1>9. QED
  BY <1>1, <1>8

-----------------------------------------------------------------------------
LEMMA TypesStep ==
  ASSUME Types, Places, [Next]_vars
  PROVE  Types'
<1> USE DEF PcValues
<1>0. /\ \A s \in Streams : s \in Collections /\ CookieOf[s] \in Cookies
      /\ \A c \in Clients : c \in Collections /\ CookieOf[c] \in Cookies
      /\ \A r \in Removers : CookieOf[r] \in Cookies
      /\ \A c \in Clients \union Accepters \union Removers \union Disposers : c \in Calls
  BY CookieOfType DEF Collections, Calls
<1>1. CASE Start
  BY <1>1 DEF Start, Types, collections, disposal, history
<1>2. CASE ListenTop \/ ListenAcceptThrows \/ ListenParse
  BY <1>2 DEF ListenTop, ListenAcceptThrows, ListenParse, Types, collections, disposal, history
<1>3. CASE ListenParseThrows
  BY <1>3 DEF ListenParseThrows, Types, collections, disposal, history
<1>4. CASE ListenFile
  BY <1>0, <1>4 DEF ListenFile, Types, Places, disposal, history
<1>5. CASE ListenShut
  BY <1>5 DEF ListenShut, Types, collections, disposal, history
<1>6. CASE ListenClear
  BY <1>6 DEF ListenClear, Types, Moved, disposal, history
<1>7. CASE ListenAdd
  <2>1. /\ where' \in [Streams -> {"runtime", "pending", "listener", "stored", "client", "closed", "lost"}]
        /\ stored' \in [Collections -> SUBSET Streams]
        /\ pc' \in [Calls -> PcValues]
    <3>1. AddToQueue /\ current \in Streams
      BY <1>7 DEF ListenAdd, Places
    <3>2. pc' \in [Calls -> PcValues]
      BY <3>1, AddFacts
    <3>3. /\ where' \in [Streams -> {"runtime", "pending", "listener", "stored", "client", "closed", "lost"}]
          /\ stored' \in [Collections -> SUBSET Streams]
      BY <3>1, AddFacts DEF Types
    <3>4. QED
      BY <3>2, <3>3
  <2>2. latest' \in [Cookies -> Streams \union {None}]
    BY <1>7 DEF ListenAdd, Types, Places
  <2>3. UNCHANGED <<dict, at, snapshot>> /\ listener' \in {"announce", "top"}
    BY <1>7 DEF ListenAdd, disposal
  <2>4. QED
    BY <2>1, <2>2, <2>3 DEF Types
<1>8. CASE ListenAnnounce
  BY <1>8 DEF ListenAnnounce, Types, collections, disposal
<1>9. ASSUME NEW s \in Streams, RuntimeConnects(s) \/ ListenAccept(s) \/ Disconnect(s) PROVE Types'
  BY <1>9 DEF RuntimeConnects, ListenAccept, Disconnect, Types, collections, listening, disposal, history
<1>10. ASSUME NEW a \in Accepters, Accept(a) \/ AcceptThrows(a) \/ AcceptCancel(a) PROVE Types'
  <2>1. UNCHANGED <<dict, stored, where, listener, at, snapshot, latest>>
    BY <1>10 DEF Accept, AcceptThrows, AcceptCancel, collections, listening, disposal, history
  <2>2. PICK v \in {"waiting", "done", "threw", "cancelled"} : pc' = [pc EXCEPT ![a] = v]
    BY <1>10 DEF Accept, AcceptThrows, AcceptCancel
  <2>3. QED
    BY <2>1, <2>2 DEF Types
<1>11. ASSUME NEW c \in Clients, Verify(c) \/ GetStreams(c) PROVE Types'
  BY <1>0, <1>11 DEF Verify, GetStreams, Types, collections, listening, disposal, history
<1>12. ASSUME NEW c \in Clients, ConnectHandle(c) PROVE Types'
  <2>1. UNCHANGED <<dict, listener, at, snapshot, latest>>
    BY <1>12 DEF ConnectHandle, listening, disposal, history
  <2>2. PICK v \in {"waiting", "done", "threw", "cancelled"} : pc' = [pc EXCEPT ![c] = v]
    BY <1>12 DEF ConnectHandle
  <2>3. stored' \in [Collections -> SUBSET Streams]
    BY <1>12 DEF ConnectHandle, Types
  <2>4. where' \in [Streams -> {"runtime", "pending", "listener", "stored", "client", "closed", "lost"}]
    BY <1>12 DEF ConnectHandle, Types, Moved
  <2>5. QED
    BY <2>1, <2>2, <2>3, <2>4 DEF Types
<1>13. ASSUME NEW c \in Clients, ConnectCancel(c) PROVE Types'
  <2>1. UNCHANGED <<dict, stored, where, listener, at, snapshot, latest>> /\ pc' = [pc EXCEPT ![c] = "cancelled"]
    BY <1>13 DEF ConnectCancel, listening, disposal, history
  <2>2. QED
    BY <2>1 DEF Types
<1>14. ASSUME NEW r \in Removers, Verify(r) \/ RemoveTry(r) PROVE Types'
  BY <1>0, <1>14 DEF Verify, RemoveTry, Types, collections, listening, disposal, history
<1>15. ASSUME NEW r \in Removers, RemoveDispose(r) PROVE Types'
  BY <1>15 DEF RemoveDispose, DisposeCollections, Moved, Ended, Types, listening, disposal, history
<1>16. ASSUME NEW d \in Disposers, DisposeCheck(d) \/ DisposeCancel(d) \/ DisposeEnd(d) PROVE Types'
  BY <1>16 DEF DisposeCheck, DisposeCancel, DisposeEnd, Types, collections, listening, disposal, history
<1>17. ASSUME NEW d \in Disposers, DisposeInfos(d) PROVE Types'
  BY <1>17 DEF DisposeInfos, Ended, Types, collections, listening, disposal, history
<1>18. ASSUME NEW d \in Disposers, DisposeList(d) PROVE Types'
  <2>1. {dict[c] : c \in Cookies} \ {None} \in SUBSET Collections
    BY DEF Types
  <2>2. /\ snapshot' = [snapshot EXCEPT ![d] = {dict[c] : c \in Cookies} \ {None}]
        /\ pc' = [pc EXCEPT ![d] = "sweeping"]
        /\ UNCHANGED <<dict, stored, where, listener, at, latest>>
    BY <1>18 DEF DisposeList, collections, listening, history
  <2>3. snapshot' \in [Disposers -> SUBSET Collections]
    BY <2>1, <2>2 DEF Types
  <2>4. QED
    BY <2>2, <2>3 DEF Types
<1>19. ASSUME NEW d \in Disposers, DisposeSweep(d) PROVE Types'
  BY <1>19 DEF DisposeSweep, DisposeCollections, Moved, Ended, Types, listening, history
<1>20. ASSUME NEW d \in Disposers, DisposeClear(d) PROVE Types'
  BY <1>20 DEF DisposeClear, Types, listening, history
<1>21. CASE UNCHANGED vars
  BY <1>21 DEF vars, Types, collections, listening, disposal, history
<1>22. QED
  BY <1>1, <1>2, <1>3, <1>4, <1>5, <1>6, <1>7, <1>8, <1>9, <1>10, <1>11, <1>12, <1>13, <1>14, <1>15, <1>16,
     <1>17, <1>18, <1>19, <1>20, <1>21 DEF Next, Listen, DisposeAsync

-----------------------------------------------------------------------------
(* Where a call can be after a step: it stays, it ends, or it is the call  *)
(* that takes the step.                                                    *)
CallMoves(c) ==
    \/ pc'[c] = pc[c]
    \/ pc'[c] \in {"done", "threw", "cancelled"}
    \/ c \in Accepters /\ Accept(c) /\ pc'[c] = "waiting"
    \/ c \in Clients /\ ConnectHandle(c) /\ pc'[c] = "waiting"
    \/ c \in Clients \union Removers /\ Verify(c) /\ pc'[c] = "verified"
    \/ c \in Clients /\ GetStreams(c) /\ pc'[c] = "entering"
    \/ c \in Removers /\ RemoveTry(c) /\ pc'[c] = "removed"
    \/ c \in Disposers /\ DisposeCheck(c) /\ pc'[c] = "cancelling"
    \/ c \in Disposers /\ DisposeCancel(c) /\ pc'[c] = "stopping"
    \/ c \in Disposers /\ DisposeInfos(c) /\ pc'[c] = "listing"
    \/ c \in Disposers /\ DisposeList(c) /\ pc'[c] = "sweeping"
    \/ c \in Disposers /\ DisposeClear(c) /\ pc'[c] = "ending"

LEMMA EndedMoves ==
  ASSUME Types, NEW cs, NEW b \in Calls, NEW v,
         pc' = Ended(cs, "threw") \/ pc' = [Ended(cs, "threw") EXCEPT ![b] = v]
  PROVE  \A c \in Calls : pc'[c] = pc[c] \/ pc'[c] = "threw" \/ (c = b /\ pc'[c] = v)
<1>1. \A c \in Calls : Ended(cs, "threw")[c] = pc[c] \/ Ended(cs, "threw")[c] = "threw"
  BY DEF Ended
<1>2. Ended(cs, "threw") \in [Calls -> PcValues]
  BY DEF Ended, Types, PcValues
<1>3. QED
  BY <1>1, <1>2

LEMMA CallsMove ==
  ASSUME Types, [Next]_vars
  PROVE  \A c \in Calls : CallMoves(c)
<1>0. pc \in [Calls -> PcValues]
  BY DEF Types
<1>1. CASE UNCHANGED pc
  BY <1>1 DEF CallMoves
<1>2. CASE ListenAdd
  BY <1>2, AddFacts DEF ListenAdd, CallMoves
<1>3. ASSUME NEW b \in Calls, NEW v \in {"done", "threw", "cancelled"}, pc' = [pc EXCEPT ![b] = v]
      PROVE  \A c \in Calls : CallMoves(c)
  BY <1>0, <1>3 DEF CallMoves
<1>4. CASE ListenAnnounce
  <2>1. ASSUME NEW b, NEW v \in {"done", "cancelled"}, pc' = [pc EXCEPT ![b] = v]
        PROVE  \A c \in Calls : CallMoves(c)
    BY <1>0, <2>1 DEF CallMoves
  <2>2. QED
    BY <1>1, <1>4, <2>1 DEF ListenAnnounce
<1>5. ASSUME NEW a \in Accepters, Accept(a) \/ AcceptThrows(a) \/ AcceptCancel(a)
      PROVE  \A c \in Calls : CallMoves(c)
  <2>1. \/ Accept(a) /\ pc' = [pc EXCEPT ![a] = "waiting"]
        \/ \E v \in {"done", "threw", "cancelled"} : pc' = [pc EXCEPT ![a] = v]
    BY <1>5 DEF Accept, AcceptThrows, AcceptCancel
  <2>2. CASE Accept(a) /\ pc' = [pc EXCEPT ![a] = "waiting"]
    BY <1>0, <2>2 DEF CallMoves
  <2>3. QED
    BY <1>3, <2>1, <2>2 DEF Calls
<1>6. ASSUME NEW b \in Clients, ConnectHandle(b) \/ ConnectCancel(b) PROVE \A c \in Calls : CallMoves(c)
  <2>1. \/ ConnectHandle(b) /\ pc' = [pc EXCEPT ![b] = "waiting"]
        \/ \E v \in {"done", "threw", "cancelled"} : pc' = [pc EXCEPT ![b] = v]
    <3>1. CASE ConnectHandle(b)
      BY <3>1 DEF ConnectHandle
    <3>2. CASE ConnectCancel(b)
      BY <3>2 DEF ConnectCancel
    <3>3. QED
      BY <1>6, <3>1, <3>2
  <2>2. CASE ConnectHandle(b) /\ pc' = [pc EXCEPT ![b] = "waiting"]
    BY <1>0, <2>2 DEF CallMoves
  <2>3. QED
    BY <1>3, <2>1, <2>2 DEF Calls
<1>7. ASSUME NEW b \in Clients \union Removers, Verify(b) PROVE \A c \in Calls : CallMoves(c)
  <2>1. \E v \in {"verified", "threw"} : pc' = [pc EXCEPT ![b] = v]
    BY <1>7 DEF Verify
  <2>2. QED
    BY <1>0, <1>7, <2>1 DEF CallMoves
<1>14. ASSUME NEW b \in Clients, GetStreams(b) PROVE \A c \in Calls : CallMoves(c)
  <2>1. pc' = [pc EXCEPT ![b] = "entering"]
    BY <1>14 DEF GetStreams
  <2>2. QED
    BY <1>0, <1>14, <2>1 DEF CallMoves
<1>8. ASSUME NEW b \in Removers, RemoveTry(b) PROVE \A c \in Calls : CallMoves(c)
  <2>1. PICK v \in {"done", "removed"} : pc' = [pc EXCEPT ![b] = v]
    BY <1>8 DEF RemoveTry
  <2>2. QED
    BY <1>0, <1>8, <2>1 DEF CallMoves
<1>9. ASSUME NEW b \in Removers, RemoveDispose(b) PROVE \A c \in Calls : CallMoves(c)
  <2>1. b \in Calls /\ pc' = [Ended(WaitersOf({at[b]}), "threw") EXCEPT ![b] = "done"]
    BY <1>9 DEF RemoveDispose, Calls
  <2>2. PICK cs : pc' = [Ended(cs, "threw") EXCEPT ![b] = "done"]
    BY <2>1
  <2>3. \A c \in Calls : pc'[c] = pc[c] \/ pc'[c] = "threw" \/ (c = b /\ pc'[c] = "done")
    BY <2>1, <2>2, EndedMoves
  <2>4. QED
    BY <2>3 DEF CallMoves
<1>10. ASSUME NEW d \in Disposers, DisposeAsync(d) PROVE \A c \in Calls : CallMoves(c)
  <2>0. d \in Calls
    BY DEF Calls
  <2>1. CASE DisposeCheck(d) \/ DisposeCancel(d) \/ DisposeList(d) \/ DisposeClear(d) \/ DisposeEnd(d)
    <3>1. \/ DisposeCheck(d) /\ pc' = [pc EXCEPT ![d] = "cancelling"]
          \/ DisposeCancel(d) /\ pc' = [pc EXCEPT ![d] = "stopping"]
          \/ DisposeList(d) /\ pc' = [pc EXCEPT ![d] = "sweeping"]
          \/ DisposeClear(d) /\ pc' = [pc EXCEPT ![d] = "ending"]
          \/ \E v \in {"done", "threw"} : pc' = [pc EXCEPT ![d] = v]
      BY <2>1 DEF DisposeCheck, DisposeCancel, DisposeList, DisposeClear, DisposeEnd
    <3>2. QED
      BY <1>0, <3>1 DEF CallMoves
  <2>2. CASE DisposeInfos(d)
    <3>1. pc' = [Ended(ToSet(acceptQueue), "threw") EXCEPT ![d] = "listing"]
      BY <2>2 DEF DisposeInfos
    <3>2. PICK cs : pc' = [Ended(cs, "threw") EXCEPT ![d] = "listing"]
      BY <3>1
    <3>3. \A c \in Calls : pc'[c] = pc[c] \/ pc'[c] = "threw" \/ (c = d /\ pc'[c] = "listing")
      BY <2>0, <3>2, EndedMoves
    <3>4. QED
      BY <2>2, <3>3 DEF CallMoves
  <2>3. CASE DisposeSweep(d)
    <3>1. PICK cs : pc' = Ended(cs, "threw")
      BY <2>3 DEF DisposeSweep
    <3>2. \A c \in Calls : pc'[c] = pc[c] \/ pc'[c] = "threw"
      BY <2>0, <3>1, EndedMoves
    <3>3. QED
      BY <3>2 DEF CallMoves
  <2>4. QED
    BY <1>10, <2>1, <2>2, <2>3 DEF DisposeAsync
<1>11. CASE Listen /\ ~ListenAdd /\ ~ListenAnnounce
  <2>1. UNCHANGED pc
    BY <1>11 DEF Listen, ListenTop, ListenAcceptThrows, ListenParse, ListenParseThrows, ListenFile, ListenShut,
       ListenClear
  <2>2. QED
    BY <1>1, <2>1
<1>12. CASE Start \/ (\E s \in Streams : RuntimeConnects(s) \/ ListenAccept(s) \/ Disconnect(s)) \/ UNCHANGED vars
  <2>1. UNCHANGED pc
    BY <1>12 DEF Start, RuntimeConnects, ListenAccept, Disconnect, vars
  <2>2. QED
    BY <1>1, <2>1
<1>13. QED
  BY <1>2, <1>4, <1>5, <1>6, <1>7, <1>8, <1>9, <1>10, <1>11, <1>12, <1>14 DEF Next

-----------------------------------------------------------------------------
(* Which collection a call works on is settled when it gets there.         *)
LEMMA AtMoves ==
  ASSUME Types, [Next]_vars
  PROVE  \A c \in Clients \union Removers :
            \/ at'[c] = at[c]
            \/ c \in Clients /\ GetStreams(c)
            \/ c \in Removers /\ RemoveTry(c)
<1>0. at \in [Clients \union Removers -> Collections \union {None}]
  BY DEF Types
<1>1. ASSUME NEW b \in Clients, GetStreams(b)
      PROVE  \A c \in Clients \union Removers : at'[c] = at[c] \/ c = b
  BY <1>0, <1>1 DEF GetStreams
<1>2. ASSUME NEW b \in Removers, RemoveTry(b)
      PROVE  \A c \in Clients \union Removers : at'[c] = at[c] \/ c = b
  BY <1>0, <1>2 DEF RemoveTry
<1>3. ASSUME NEW b \in Clients, Verify(b) \/ ConnectHandle(b) \/ ConnectCancel(b)
      PROVE  UNCHANGED at
  <2>1. CASE ConnectCancel(b)
    BY <2>1 DEF ConnectCancel
  <2>2. QED
    BY <1>3, <2>1 DEF Verify, ConnectHandle
<1>4. ASSUME NEW a \in Accepters, Accept(a) \/ AcceptThrows(a) \/ AcceptCancel(a) PROVE UNCHANGED at
  BY <1>4 DEF Accept, AcceptThrows, AcceptCancel
<1>5. ASSUME NEW d \in Disposers, DisposeAsync(d) PROVE UNCHANGED at
  BY <1>5 DEF DisposeAsync, DisposeCheck, DisposeCancel, DisposeInfos, DisposeList, DisposeSweep, DisposeClear,
     DisposeEnd
<1>6. ASSUME NEW r \in Removers, Verify(r) \/ RemoveDispose(r) PROVE UNCHANGED at
  BY <1>6 DEF Verify, RemoveDispose
<1>7. CASE Listen
  BY <1>7 DEF Listen, ListenTop, ListenAcceptThrows, ListenParse, ListenParseThrows, ListenFile, ListenShut,
     ListenClear, ListenAdd, ListenAnnounce
<1>8. CASE Start \/ (\E s \in Streams : RuntimeConnects(s) \/ ListenAccept(s) \/ Disconnect(s)) \/ UNCHANGED vars
  BY <1>8 DEF Start, RuntimeConnects, ListenAccept, Disconnect, vars
<1>9. QED
  BY <1>1, <1>2, <1>3, <1>4, <1>5, <1>6, <1>7, <1>8 DEF Next

(* The listener's own variables change in its own steps.                   *)
LEMMA ListenerMoves ==
  ASSUME [Next]_vars
  PROVE  UNCHANGED listening \/ Start \/ Listen \/ \E s \in Streams : ListenAccept(s)
<1>1. ASSUME NEW b \in Clients, Verify(b) \/ GetStreams(b) \/ ConnectHandle(b) \/ ConnectCancel(b)
      PROVE  UNCHANGED listening
  <2>1. CASE ConnectCancel(b)
    BY <2>1 DEF ConnectCancel
  <2>2. QED
    BY <1>1, <2>1 DEF Verify, GetStreams, ConnectHandle
<1>2. ASSUME NEW a \in Accepters, Accept(a) \/ AcceptThrows(a) \/ AcceptCancel(a) PROVE UNCHANGED listening
  BY <1>2 DEF Accept, AcceptThrows, AcceptCancel
<1>3. ASSUME NEW d \in Disposers, DisposeAsync(d) PROVE UNCHANGED listening
  BY <1>3 DEF DisposeAsync, DisposeCheck, DisposeCancel, DisposeInfos, DisposeList, DisposeSweep, DisposeClear,
     DisposeEnd
<1>4. ASSUME NEW r \in Removers, Verify(r) \/ RemoveTry(r) \/ RemoveDispose(r) PROVE UNCHANGED listening
  BY <1>4 DEF Verify, RemoveTry, RemoveDispose
<1>5. ASSUME NEW s \in Streams, RuntimeConnects(s) \/ Disconnect(s) PROVE UNCHANGED listening
  BY <1>5 DEF RuntimeConnects, Disconnect
<1>6. CASE UNCHANGED vars
  BY <1>6 DEF vars
<1>7. QED
  BY <1>1, <1>2, <1>3, <1>4, <1>5, <1>6 DEF Next

(* A cookie gets a collection from the listener or from a client, and only *)
(* when it has none; it loses it to RemoveConnection or DisposeAsync.      *)
DictMoves(c) ==
    \/ dict'[c] = dict[c]
    \/ dict'[c] = None /\ \E r \in Removers : RemoveTry(r) /\ c = CookieOf[r]
    \/ dict'[c] = None /\ \E d \in Disposers : DisposeClear(d)
    \/ dict[c] = None /\ ListenFile /\ c = CookieOf[current] /\ dict'[c] = current
    \/ dict[c] = None /\ \E b \in Clients : GetStreams(b) /\ c = CookieOf[b] /\ dict'[c] = b

LEMMA DictionaryMoves ==
  ASSUME Types, [Next]_vars
  PROVE  \A c \in Cookies : DictMoves(c)
<1>0. dict \in [Cookies -> Collections \union {None}]
  BY DEF Types
<1>1. CASE UNCHANGED dict
  BY <1>1 DEF DictMoves
<1>2. CASE ListenFile
  BY <1>0, <1>2 DEF ListenFile, DictMoves
<1>3. ASSUME NEW b \in Clients, GetStreams(b) PROVE \A c \in Cookies : DictMoves(c)
  BY <1>0, <1>3 DEF GetStreams, DictMoves
<1>4. ASSUME NEW r \in Removers, RemoveTry(r) PROVE \A c \in Cookies : DictMoves(c)
  BY <1>0, <1>4 DEF RemoveTry, DictMoves
<1>5. ASSUME NEW d \in Disposers, DisposeAsync(d) PROVE \A c \in Cookies : DictMoves(c)
  BY <1>0, <1>5 DEF DisposeAsync, DisposeCheck, DisposeCancel, DisposeInfos, DisposeList, DisposeSweep,
     DisposeClear, DisposeEnd, collections, DictMoves
<1>6. ASSUME NEW b \in Clients, Verify(b) \/ ConnectHandle(b) \/ ConnectCancel(b) PROVE UNCHANGED dict
  <2>1. CASE ConnectCancel(b)
    BY <2>1 DEF ConnectCancel
  <2>2. QED
    BY <1>6, <2>1 DEF Verify, ConnectHandle, collections
<1>7. ASSUME NEW a \in Accepters, Accept(a) \/ AcceptThrows(a) \/ AcceptCancel(a) PROVE UNCHANGED dict
  BY <1>7 DEF Accept, AcceptThrows, AcceptCancel, collections
<1>8. ASSUME NEW r \in Removers, Verify(r) \/ RemoveDispose(r) PROVE UNCHANGED dict
  BY <1>8 DEF Verify, RemoveDispose, collections
<1>9. CASE Listen /\ ~ListenFile
  <2>1. UNCHANGED dict
    BY <1>9 DEF Listen, ListenTop, ListenAcceptThrows, ListenParse, ListenParseThrows, ListenShut, ListenClear,
       ListenAdd, ListenAnnounce, collections
  <2>2. QED
    BY <1>1, <2>1
<1>10. CASE Start \/ (\E s \in Streams : RuntimeConnects(s) \/ ListenAccept(s) \/ Disconnect(s)) \/ UNCHANGED vars
  <2>1. UNCHANGED dict
    BY <1>10 DEF Start, RuntimeConnects, ListenAccept, Disconnect, vars, collections
  <2>2. QED
    BY <1>1, <2>1
<1>11. QED
  BY <1>1, <1>2, <1>3, <1>4, <1>5, <1>6, <1>7, <1>8, <1>9, <1>10 DEF Next

LEMMA GetStreamsFacts ==
  ASSUME Types, NEW c \in Clients, GetStreams(c)
  PROVE  /\ pc[c] = "verified" /\ pc'[c] = "entering"
         /\ at'[c] = dict'[CookieOf[c]] /\ at'[c] \in Collections
         /\ dict'[CookieOf[c]] = IF dict[CookieOf[c]] = None THEN c ELSE dict[CookieOf[c]]
<1>1. c \in Collections /\ CookieOf[c] \in Cookies /\ c \in Calls
  BY CookieOfType DEF Collections, Calls
<1>2. QED
  BY <1>1 DEF GetStreams, Types

LEMMA RemoveTryFacts ==
  ASSUME Types, NEW r \in Removers, RemoveTry(r)
  PROVE  /\ pc[r] = "verified" /\ pc'[r] \in {"done", "removed"}
         /\ pc'[r] = "removed" => /\ at'[r] = dict[CookieOf[r]] /\ at'[r] \in Collections
                                  /\ dict'[CookieOf[r]] = None
         /\ dict'[CookieOf[r]] # dict[CookieOf[r]] => pc'[r] = "removed"
<1>1. CookieOf[r] \in Cookies /\ r \in Calls
  BY CookieOfType DEF Calls
<1>2. /\ pc[r] = "verified" /\ at' = [at EXCEPT ![r] = dict[CookieOf[r]]]
      /\ pc' = [pc EXCEPT ![r] = IF dict[CookieOf[r]] = None THEN "done" ELSE "removed"]
      /\ dict' = [dict EXCEPT ![CookieOf[r]] = None]
  BY DEF RemoveTry
<1>3. pc'[r] = "removed" => dict[CookieOf[r]] # None
  BY <1>1, <1>2 DEF Types
<1>4. QED
  BY <1>1, <1>2, <1>3 DEF Types

LEMMA ListenFileFacts ==
  ASSUME Types, Places, ListenFile
  PROVE  /\ listener = "file" /\ listener' = "clear" /\ current' = current /\ current \in Streams
         /\ CookieOf[current] \in Cookies
         /\ filing' = dict'[CookieOf[current]]
         /\ dict'[CookieOf[current]] = IF dict[CookieOf[current]] = None THEN current ELSE dict[CookieOf[current]]
         /\ UNCHANGED <<stored, shut, where, pc, at, snapshot, announced, latest, cancelled>>
<1>1. current \in Streams /\ CookieOf[current] \in Cookies
  BY CookieOfType DEF Places, ListenFile
<1>2. QED
  BY <1>1 DEF ListenFile, Types, disposal, history

LEMMA PlacesStep ==
  ASSUME Types, Types', Places, [Next]_vars
  PROVE  Places'
<1>0. /\ \A s \in Streams : s \in Collections /\ CookieOf[s] \in Cookies
      /\ \A c \in Clients : c \in Collections /\ CookieOf[c] \in Cookies
      /\ \A c \in Clients \union Removers : c \in Calls
  BY CookieOfType DEF Collections, Calls
<1>1. \A c \in Cookies : dict'[c] # None => CookieOf[dict'[c]] = c
  <2>1. ASSUME NEW c \in Cookies, dict'[c] # None PROVE CookieOf[dict'[c]] = c
    BY <2>1, DictionaryMoves DEF DictMoves, Places
  <2>2. QED
    BY <2>1
<1>2. listener' \in {"parse", "file", "clear", "add", "announce"} => current' \in Streams
  <2>1. CASE UNCHANGED listening
    BY <2>1 DEF listening, Places
  <2>2. CASE Start
    BY <2>2 DEF Start
  <2>3. CASE Listen
    BY <2>3 DEF Listen, ListenTop, ListenAcceptThrows, ListenParse, ListenParseThrows, ListenFile, ListenShut,
       ListenClear, ListenAdd, ListenAnnounce, Places
  <2>4. CASE \E s \in Streams : ListenAccept(s)
    BY <2>4 DEF ListenAccept
  <2>5. QED
    BY <2>1, <2>2, <2>3, <2>4, ListenerMoves
<1>3. listener' \in {"clear", "add"} => filing' \in Collections /\ CookieOf[filing'] = CookieOf[current']
  <2>1. CASE ListenFile
    <3>1. filing' \in Collections
      BY <1>0, <2>1, ListenFileFacts DEF Types
    <3>2. filing' # None
      BY <3>1, NamesDisjoint DEF Collections
    <3>3. QED
      BY <1>1, <2>1, <3>1, <3>2, ListenFileFacts
  <2>2. CASE UNCHANGED listening
    BY <2>2 DEF listening, Places
  <2>3. CASE Start
    BY <2>3 DEF Start
  <2>4. CASE Listen /\ ~ListenFile
    BY <2>4 DEF Listen, ListenTop, ListenAcceptThrows, ListenParse, ListenParseThrows, ListenShut,
       ListenClear, ListenAdd, ListenAnnounce, Places
  <2>5. CASE \E s \in Streams : ListenAccept(s)
    BY <2>5 DEF ListenAccept
  <2>6. QED
    BY <2>1, <2>2, <2>3, <2>4, <2>5, ListenerMoves
<1>4. ASSUME NEW c \in Clients, pc'[c] = "entering" PROVE at'[c] \in Collections
  <2>1. CASE GetStreams(c)
    BY <2>1, GetStreamsFacts
  <2>2. CASE ~GetStreams(c)
    <3>1. pc[c] = "entering"
      BY <1>0, <1>4, <2>2, CallsMove DEF CallMoves
    <3>2. at'[c] = at[c]
      BY <2>2, <3>1, AtMoves, RemoveTryFacts
    <3>3. QED
      BY <3>1, <3>2 DEF Places
  <2>3. QED
    BY <2>1, <2>2
<1>5. ASSUME NEW r \in Removers, pc'[r] = "removed" PROVE at'[r] \in Collections
  <2>1. CASE RemoveTry(r)
    BY <1>5, <2>1, RemoveTryFacts
  <2>2. CASE ~RemoveTry(r)
    <3>1. pc[r] = "removed"
      BY <1>0, <1>5, <2>2, CallsMove DEF CallMoves
    <3>2. at'[r] = at[r]
      BY <2>2, <3>1, AtMoves, GetStreamsFacts
    <3>3. QED
      BY <3>1, <3>2 DEF Places
  <2>3. QED
    BY <2>1, <2>2
<1>6. QED
  BY <1>1, <1>2, <1>3, <1>4, <1>5 DEF Places

-----------------------------------------------------------------------------
(* Who has a stream.                                                       *)

HasStream == listener \in {"parse", "file", "clear", "add"}

(* The streams of some collections are closed together.                    *)
LEMMA ClosingKeepsOwners ==
  ASSUME Types, StreamHasOneOwner, NEW ks \in SUBSET Collections,
         where' = Moved(UNION {stored[k] : k \in ks}, "closed"),
         stored' = [k \in Collections |-> IF k \in ks THEN {} ELSE stored[k]],
         current' = current, HasStream' <=> HasStream
  PROVE  StreamHasOneOwner'
<1>1. ASSUME NEW s \in Streams
      PROVE  where'[s] = "stored" <=> \E k \in Collections : s \in stored'[k]
  <2>1. where'[s] = IF \E k \in ks : s \in stored[k] THEN "closed" ELSE where[s]
    BY DEF Moved
  <2>2. \A k \in Collections : s \in stored'[k] <=> k \notin ks /\ s \in stored[k]
    OBVIOUS
  <2>3. CASE \E k \in ks : s \in stored[k]
    <3>1. PICK k \in ks : s \in stored[k]
      BY <2>3
    <3>2. \A j \in Collections : s \in stored[j] => j = k
      BY <3>1 DEF StreamHasOneOwner
    <3>3. QED
      BY <2>1, <2>2, <3>1, <3>2
  <2>4. CASE ~\E k \in ks : s \in stored[k]
    BY <2>1, <2>2, <2>4 DEF StreamHasOneOwner
  <2>5. QED
    BY <2>3, <2>4
<1>2. \A j, k \in Collections : j # k => stored'[j] \intersect stored'[k] = {}
  BY DEF StreamHasOneOwner
<1>3. ASSUME NEW s \in Streams PROVE where'[s] = "listener" <=> current' = s /\ HasStream'
  <2>1. where'[s] = "listener" <=> where[s] = "listener" /\ ~\E k \in ks : s \in stored[k]
    BY DEF Moved
  <2>2. where[s] = "listener" => ~\E k \in ks : s \in stored[k]
    BY DEF StreamHasOneOwner
  <2>3. where[s] = "listener" <=> current = s /\ HasStream
    BY DEF StreamHasOneOwner, HasStream
  <2>4. QED
    BY <2>1, <2>2, <2>3
<1>4. QED
  BY <1>1, <1>2, <1>3 DEF StreamHasOneOwner, HasStream

(* A stream leaves its collection for a client.                            *)
LEMMA TakingKeepsOwners ==
  ASSUME Types, StreamHasOneOwner, NEW k \in Collections, NEW s \in stored[k], NEW p \in {"client", "lost"},
         stored' = [stored EXCEPT ![k] = @ \ {s}], where' = [where EXCEPT ![s] = p],
         UNCHANGED listening
  PROVE  StreamHasOneOwner'
<1>0. s \in Streams /\ where[s] = "stored"
  BY DEF Types, StreamHasOneOwner
<1>1. \A j \in Collections : stored'[j] = stored[j] \ {s}
  BY DEF Types, StreamHasOneOwner
<1>2. \A t \in Streams : where'[t] = IF t = s THEN p ELSE where[t]
  BY <1>0 DEF Types
<1>3. \A t \in Streams : where'[t] = "stored" <=> \E j \in Collections : t \in stored'[j]
  BY <1>1, <1>2 DEF StreamHasOneOwner
<1>4. \A i, j \in Collections : i # j => stored'[i] \intersect stored'[j] = {}
  BY <1>1 DEF StreamHasOneOwner
<1>5. \A t \in Streams : where'[t] = "listener" <=> current' = t /\ HasStream'
  BY <1>0, <1>2 DEF StreamHasOneOwner, HasStream, listening
<1>6. QED
  BY <1>3, <1>4, <1>5 DEF StreamHasOneOwner, HasStream

(* The listener's stream gets a place.                                     *)
LEMMA LeavingKeepsOwners ==
  ASSUME Types, Places, StreamHasOneOwner, HasStream, ~HasStream',
         \/ stored' = stored /\ \E p \in {"closed", "client", "lost"} : where' = [where EXCEPT ![current] = p]
         \/ /\ filing \in Collections
            /\ stored' = [stored EXCEPT ![filing] = @ \union {current}]
            /\ where' = [where EXCEPT ![current] = "stored"]
  PROVE  StreamHasOneOwner'
<1>1. current \in Streams /\ where[current] = "listener" /\ \A k \in Collections : current \notin stored[k]
  BY DEF Places, StreamHasOneOwner, HasStream
<1>2. \A t \in Streams : t # current => where'[t] = where[t] /\ where[t] # "listener"
  BY <1>1 DEF Types, StreamHasOneOwner
<1>3. where'[current] # "listener" /\ where'[current] \in {"closed", "client", "lost", "stored"}
  BY <1>1 DEF Types
<1>4. \A t \in Streams : where'[t] = "listener" <=> current' = t /\ HasStream'
  BY <1>2, <1>3
<1>5. CASE stored' = stored /\ \E p \in {"closed", "client", "lost"} : where' = [where EXCEPT ![current] = p]
  <2>1. where'[current] # "stored"
    BY <1>1, <1>5 DEF Types
  <2>2. \A t \in Streams : where'[t] = "stored" <=> \E k \in Collections : t \in stored'[k]
    BY <1>1, <1>2, <1>5, <2>1 DEF StreamHasOneOwner
  <2>3. QED
    BY <1>4, <1>5, <2>2 DEF StreamHasOneOwner, HasStream
<1>6. CASE /\ filing \in Collections
           /\ stored' = [stored EXCEPT ![filing] = @ \union {current}]
           /\ where' = [where EXCEPT ![current] = "stored"]
  <2>1. \A k \in Collections : stored'[k] = IF k = filing THEN stored[k] \union {current} ELSE stored[k]
    BY <1>6 DEF Types
  <2>2. where'[current] = "stored"
    BY <1>1, <1>6 DEF Types
  <2>3. \A t \in Streams : where'[t] = "stored" <=> \E k \in Collections : t \in stored'[k]
    <3>1. current \in stored'[filing]
      BY <1>6, <2>1
    <3>2. \A t \in Streams : t # current => \A k \in Collections : t \in stored'[k] <=> t \in stored[k]
      BY <2>1
    <3>3. \A t \in Streams : t # current => (where'[t] = "stored" <=> where[t] = "stored")
      BY <1>2
    <3>4. \A t \in Streams : where[t] = "stored" <=> \E k \in Collections : t \in stored[k]
      BY DEF StreamHasOneOwner
    <3>5. \A t \in Streams : t # current => (where'[t] = "stored" <=> \E k \in Collections : t \in stored'[k])
      BY <3>2, <3>3, <3>4
    <3>6. QED
      BY <1>6, <2>2, <3>1, <3>5
  <2>4. \A j, k \in Collections : j # k => stored'[j] \intersect stored'[k] = {}
    <3>1. \A j, k \in Collections : j # k => stored[j] \intersect stored[k] = {}
      BY DEF StreamHasOneOwner
    <3>2. SUFFICES ASSUME NEW j \in Collections, NEW k \in Collections, j # k,
                          NEW t, t \in stored'[j], t \in stored'[k]
                   PROVE  FALSE
      OBVIOUS
    <3>3. t \in stored[j] \/ (j = filing /\ t = current)
      BY <2>1, <3>2
    <3>4. t \in stored[k] \/ (k = filing /\ t = current)
      BY <2>1, <3>2
    <3>5. QED
      BY <1>1, <3>1, <3>2, <3>3, <3>4
  <2>5. QED
    BY <1>4, <2>3, <2>4 DEF StreamHasOneOwner, HasStream
<1>7. QED
  BY <1>5, <1>6

LEMMA OwnersStep ==
  ASSUME Types, Places, StreamHasOneOwner, [Next]_vars
  PROVE  StreamHasOneOwner'
<1>1. ASSUME UNCHANGED <<stored, where>>, HasStream' => HasStream /\ current' = current, HasStream => HasStream'
      PROVE  StreamHasOneOwner'
  BY <1>1 DEF StreamHasOneOwner, HasStream
<1>2. CASE Start \/ ListenTop \/ ListenAcceptThrows \/ ListenParse \/ ListenFile \/ ListenAnnounce
  BY <1>1, <1>2 DEF Start, ListenTop, ListenAcceptThrows, ListenParse, ListenFile, ListenAnnounce, collections,
     HasStream
<1>3. CASE ListenParseThrows \/ ListenShut
  <2>1. /\ stored' = stored /\ where' = [where EXCEPT ![current] = "closed"]
        /\ HasStream /\ ~HasStream'
    BY <1>3 DEF ListenParseThrows, ListenShut, HasStream, collections
  <2>2. QED
    BY <2>1, LeavingKeepsOwners
<1>4. CASE ListenClear
  <2>1. /\ filing \in Collections /\ where' = Moved(stored[filing], "closed")
        /\ stored' = [stored EXCEPT ![filing] = {}] /\ current' = current /\ HasStream /\ HasStream'
    BY <1>4 DEF ListenClear, HasStream, Places
  <2>2. stored[filing] = UNION {stored[k] : k \in {filing}}
    OBVIOUS
  <2>3. stored' = [k \in Collections |-> IF k \in {filing} THEN {} ELSE stored[k]]
    BY <2>1 DEF Types
  <2>4. QED
    BY <2>1, <2>2, <2>3, ClosingKeepsOwners
<1>5. CASE ListenAdd
  <2>1. HasStream /\ ~HasStream' /\ AddToQueue /\ filing \in Collections
    BY <1>5 DEF ListenAdd, HasStream, Places
  <2>2. QED
    BY <2>1, AddFacts, LeavingKeepsOwners
<1>6. ASSUME NEW s \in Streams, RuntimeConnects(s) PROVE StreamHasOneOwner'
  <2>1. UNCHANGED <<stored, listening>> /\ where[s] = "runtime" /\ where' = [where EXCEPT ![s] = "pending"]
    BY <1>6 DEF RuntimeConnects, collections
  <2>2. \A t \in Streams : where'[t] = where[t] \/ (where[t] = "runtime" /\ where'[t] = "pending")
    BY <2>1 DEF Types
  <2>3. \A t \in Streams : (where'[t] = "stored" <=> where[t] = "stored")
                        /\ (where'[t] = "listener" <=> where[t] = "listener")
    BY <2>2
  <2>4. QED
    BY <2>1, <2>3 DEF StreamHasOneOwner, listening
<1>7. ASSUME NEW s \in Streams, ListenAccept(s) PROVE StreamHasOneOwner'
  <2>1. /\ stored' = stored /\ where[s] = "pending" /\ where' = [where EXCEPT ![s] = "listener"]
        /\ listener = "accept" /\ listener' = "parse" /\ current' = s
    BY <1>7 DEF ListenAccept, collections
  <2>2. \A t \in Streams : where'[t] = IF t = s THEN "listener" ELSE where[t]
    BY <2>1 DEF Types
  <2>3. \A t \in Streams : where[t] # "listener"
    BY <2>1 DEF StreamHasOneOwner
  <2>4. \A t \in Streams : where'[t] = "stored" <=> \E k \in Collections : t \in stored'[k]
    BY <2>1, <2>2 DEF StreamHasOneOwner
  <2>5. QED
    BY <2>1, <2>2, <2>3, <2>4 DEF StreamHasOneOwner
<1>8. ASSUME NEW s \in Streams, Disconnect(s) PROVE StreamHasOneOwner'
  BY <1>1, <1>8 DEF Disconnect, collections, listening, HasStream
<1>9. ASSUME NEW a \in Accepters, Accept(a) \/ AcceptThrows(a) \/ AcceptCancel(a) PROVE StreamHasOneOwner'
  <2>1. UNCHANGED <<stored, where, listening>>
    BY <1>9 DEF Accept, AcceptThrows, AcceptCancel, collections
  <2>2. QED
    BY <1>1, <2>1 DEF listening, HasStream
<1>10. ASSUME NEW c \in Clients, Verify(c) \/ GetStreams(c) \/ ConnectCancel(c) PROVE StreamHasOneOwner'
  <2>1. CASE ConnectCancel(c)
    <3>1. UNCHANGED <<stored, where, listening>>
      BY <2>1 DEF ConnectCancel
    <3>2. QED
      BY <1>1, <3>1 DEF listening, HasStream
  <2>2. CASE Verify(c) \/ GetStreams(c)
    <3>1. UNCHANGED <<stored, where, listening>>
      BY <2>2 DEF Verify, GetStreams, collections
    <3>2. QED
      BY <1>1, <3>1 DEF listening, HasStream
  <2>3. QED
    BY <1>10, <2>1, <2>2
<1>11. ASSUME NEW c \in Clients, ConnectHandle(c) PROVE StreamHasOneOwner'
  <2>0. at[c] \in Collections /\ UNCHANGED listening
    BY <1>11 DEF ConnectHandle, Places
  <2>1. CASE UNCHANGED <<stored, where>>
    BY <1>1, <2>0, <2>1 DEF listening, HasStream
  <2>2. ASSUME NEW s \in stored[at[c]], NEW p \in {"client", "lost"},
               stored' = [stored EXCEPT ![at[c]] = @ \ {s}], where' = [where EXCEPT ![s] = p]
        PROVE  StreamHasOneOwner'
    BY <2>0, <2>2, TakingKeepsOwners
  <2>3. CASE where' = Moved(stored[at[c]], "closed") /\ stored' = [stored EXCEPT ![at[c]] = {}]
    <3>1. stored[at[c]] = UNION {stored[k] : k \in {at[c]}}
      OBVIOUS
    <3>2. stored' = [k \in Collections |-> IF k \in {at[c]} THEN {} ELSE stored[k]]
      BY <2>0, <2>3 DEF Types
    <3>3. QED
      BY <2>0, <2>3, <3>1, <3>2, ClosingKeepsOwners DEF listening, HasStream
  <2>4. QED
    BY <1>11, <2>1, <2>2, <2>3 DEF ConnectHandle
<1>12. ASSUME NEW r \in Removers, Verify(r) \/ RemoveTry(r) PROVE StreamHasOneOwner'
  BY <1>1, <1>12 DEF Verify, RemoveTry, collections, listening, HasStream
<1>13. ASSUME NEW r \in Removers, RemoveDispose(r) PROVE StreamHasOneOwner'
  <2>1. {at[r]} \in SUBSET Collections /\ DisposeCollections({at[r]}) /\ UNCHANGED listening
    BY <1>13 DEF RemoveDispose, Places
  <2>2. QED
    BY <2>1, ClosingKeepsOwners DEF DisposeCollections, listening, HasStream
<1>14. ASSUME NEW d \in Disposers, DisposeSweep(d) PROVE StreamHasOneOwner'
  <2>1. PICK k \in snapshot[d] : DisposeCollections({k})
    BY <1>14 DEF DisposeSweep
  <2>2. {k} \in SUBSET Collections /\ UNCHANGED listening
    BY <1>14 DEF DisposeSweep, Types
  <2>3. QED
    BY <2>1, <2>2, ClosingKeepsOwners DEF DisposeCollections, listening, HasStream
<1>15. ASSUME NEW d \in Disposers, DisposeAsync(d), ~DisposeSweep(d) PROVE StreamHasOneOwner'
  <2>1. UNCHANGED <<stored, where, listening>>
    BY <1>15 DEF DisposeAsync, DisposeCheck, DisposeCancel, DisposeInfos, DisposeList, DisposeClear, DisposeEnd,
       collections
  <2>2. QED
    BY <1>1, <2>1 DEF listening, HasStream
<1>16. CASE UNCHANGED vars
  BY <1>1, <1>16 DEF vars, collections, listening, HasStream
<1>17. QED
  BY <1>2, <1>3, <1>4, <1>5, <1>6, <1>7, <1>8, <1>9, <1>10, <1>11, <1>12, <1>13, <1>14, <1>15, <1>16
     DEF Next, Listen

OwnersInv == Types /\ Places /\ StreamHasOneOwner

LEMMA InitOwners ==
  ASSUME Init
  PROVE  OwnersInv
<1>1. Types
  BY DEF Init, Types, PcValues
<1>2. Places
  <2>1. \A c \in Clients \union Removers : c \in Calls
    BY DEF Calls
  <2>2. QED
    BY <2>1 DEF Init, Places
<1>3. StreamHasOneOwner
  BY DEF Init, StreamHasOneOwner
<1>4. QED
  BY <1>1, <1>2, <1>3 DEF OwnersInv

(* A stream, the places the listener and the calls work at, and the types  *)
(* of both fit together in every reachable state.                          *)
THEOREM OwnersAlways == Spec => []OwnersInv
<1>1. Init => OwnersInv
  BY InitOwners
<1>2. OwnersInv /\ [Next]_vars => OwnersInv'
  BY TypesStep, PlacesStep, OwnersStep DEF OwnersInv
<1>3. QED
  BY <1>1, <1>2, PTL DEF Spec

(* A stream is in a collection exactly when nobody else has it, and never  *)
(* in two, whatever runtimes reconnect and calls race with the listener.   *)
THEOREM StreamsHaveOneOwner == Spec => []StreamHasOneOwner
<1>1. OwnersInv => StreamHasOneOwner
  BY DEF OwnersInv
<1>2. QED
  BY <1>1, OwnersAlways, PTL

-----------------------------------------------------------------------------
(* A collection nobody has made yet is nowhere.                            *)
Fresh(k) ==
    IF k \in Streams
    THEN where[k] \in {"runtime", "pending"} \/ (current = k /\ listener \in {"parse", "file"})
    ELSE pc[k] \in {"ready", "verified"}

Unused(k) ==
    /\ stored[k] = {}
    /\ k \notin shut
    /\ \A c \in Cookies : dict[c] # k
    /\ listener \in {"clear", "add"} => filing # k
    /\ \A r \in Removers : pc[r] = "removed" => at[r] # k
    /\ \A d \in Disposers : k \notin snapshot[d]

FreshIsUnused == \A k \in Collections : Fresh(k) => Unused(k)

(* The listener goes from a connection to its collection in order.         *)
LEMMA FilingMoves ==
  ASSUME [Next]_vars
  PROVE  /\ listener' \in {"clear", "add"} =>
               \/ ListenFile
               \/ listener \in {"clear", "add"} /\ filing' = filing /\ current' = current
         /\ listener' \in {"parse", "file"} =>
               \/ \E s \in Streams : ListenAccept(s)
               \/ listener \in {"parse", "file"} /\ current' = current
         /\ listener' = "add" => listener = "add" \/ ListenClear
         /\ listener' = "announce" =>
               /\ listener = "announce" \/ filing = current
               /\ filing' = filing /\ current' = current
<1>1. CASE UNCHANGED listening
  BY <1>1 DEF listening
<1>2. CASE Start \/ Listen
  BY <1>2 DEF Start, Listen, ListenTop, ListenAcceptThrows, ListenParse, ListenParseThrows, ListenFile, ListenShut,
     ListenClear, ListenAdd, ListenAnnounce
<1>3. CASE \E s \in Streams : ListenAccept(s)
  BY <1>3 DEF ListenAccept
<1>4. QED
  BY <1>1, <1>2, <1>3, ListenerMoves

(* Where the streams can be: what happens to a stored stream or to the     *)
(* listener's, to one of a collection that is disposed.                    *)
StreamsMove ==
    /\ \A s \in Streams : where'[s] \in {"runtime", "pending"} => where[s] \in {"runtime", "pending"}
    /\ \A k \in Collections :
          \/ stored'[k] \subseteq stored[k]
          \/ ListenAdd /\ k = filing /\ stored'[k] = stored[k] \union {current}
    /\ shut \subseteq shut'
    /\ \A k \in Collections : k \in shut' /\ k \notin shut =>
          /\ stored'[k] = {}
          /\ \/ \E r \in Removers : pc[r] = "removed" /\ at[r] = k
             \/ \E d \in Disposers : DisposeSweep(d) /\ k \in snapshot[d]

LEMMA StreamsMoves ==
  ASSUME Types, Places, [Next]_vars
  PROVE  StreamsMove
<1>0. /\ where \in [Streams -> {"runtime", "pending", "listener", "stored", "client", "closed", "lost"}]
      /\ stored \in [Collections -> SUBSET Streams]
  BY DEF Types
<1>1. ASSUME UNCHANGED <<stored, shut>>,
             \/ where' = where
             \/ \E p \in {"listener", "closed"}, s \in Streams : where' = [where EXCEPT ![s] = p]
             \/ \E s \in Streams : where[s] = "runtime" /\ where' = [where EXCEPT ![s] = "pending"]
      PROVE  StreamsMove
  BY <1>0, <1>1 DEF StreamsMove
<1>2. CASE Start \/ ListenTop \/ ListenAcceptThrows \/ ListenParse \/ ListenFile \/ ListenAnnounce
  BY <1>1, <1>2 DEF Start, ListenTop, ListenAcceptThrows, ListenParse, ListenFile, ListenAnnounce, collections
<1>3. CASE ListenParseThrows \/ ListenShut
  BY <1>1, <1>3 DEF ListenParseThrows, ListenShut, Places, collections
<1>4. CASE ListenClear
  BY <1>0, <1>4 DEF ListenClear, Moved, StreamsMove
<1>5. CASE ListenAdd
  <2>1. shut' = shut /\ AddToQueue
    BY <1>5 DEF ListenAdd
  <2>2. \A s \in Streams : where'[s] = where[s] \/ where'[s] \in {"closed", "client", "lost", "stored"}
    BY <1>0, <2>1, AddFacts
  <2>3. \A k \in Collections : stored'[k] = stored[k] \/ (k = filing /\ stored'[k] = stored[k] \union {current})
    BY <1>0, <2>1, AddFacts
  <2>4. QED
    BY <1>5, <2>1, <2>2, <2>3 DEF StreamsMove
<1>6. ASSUME NEW s \in Streams, RuntimeConnects(s) \/ ListenAccept(s) \/ Disconnect(s) PROVE StreamsMove
  BY <1>1, <1>6 DEF RuntimeConnects, ListenAccept, Disconnect, collections
<1>7. ASSUME NEW a \in Accepters, Accept(a) \/ AcceptThrows(a) \/ AcceptCancel(a) PROVE StreamsMove
  BY <1>1, <1>7 DEF Accept, AcceptThrows, AcceptCancel, collections
<1>8. ASSUME NEW c \in Clients, Verify(c) \/ GetStreams(c) PROVE StreamsMove
  BY <1>1, <1>8 DEF Verify, GetStreams, collections
<1>9. ASSUME NEW c \in Clients, ConnectCancel(c) PROVE StreamsMove
  <2>1. UNCHANGED <<stored, shut, where>>
    BY <1>9 DEF ConnectCancel
  <2>2. QED
    BY <1>1, <2>1
<1>10. ASSUME NEW c \in Clients, ConnectHandle(c) PROVE StreamsMove
  <2>1. shut' = shut
    BY <1>10 DEF ConnectHandle
  <2>2. \A s \in Streams : where'[s] = where[s] \/ where'[s] \in {"closed", "client", "lost"}
    BY <1>0, <1>10 DEF ConnectHandle, Moved
  <2>3. \A k \in Collections : stored'[k] \subseteq stored[k]
    BY <1>0, <1>10 DEF ConnectHandle
  <2>4. QED
    BY <2>1, <2>2, <2>3 DEF StreamsMove
<1>11. ASSUME NEW r \in Removers, Verify(r) \/ RemoveTry(r) PROVE StreamsMove
  BY <1>1, <1>11 DEF Verify, RemoveTry, collections
<1>12. ASSUME NEW r \in Removers, RemoveDispose(r) PROVE StreamsMove
  <2>1. pc[r] = "removed" /\ DisposeCollections({at[r]})
    BY <1>12 DEF RemoveDispose
  <2>2. shut' = shut \union {at[r]}
    BY <2>1 DEF DisposeCollections
  <2>3. \A s \in Streams : where'[s] = where[s] \/ where'[s] = "closed"
    BY <2>1 DEF DisposeCollections, Moved
  <2>4. \A j \in Collections : stored'[j] \subseteq stored[j] /\ (j = at[r] => stored'[j] = {})
    BY <1>0, <2>1 DEF DisposeCollections
  <2>5. QED
    BY <2>1, <2>2, <2>3, <2>4 DEF StreamsMove
<1>13. ASSUME NEW d \in Disposers, DisposeSweep(d) PROVE StreamsMove
  <2>1. PICK k \in snapshot[d] : DisposeCollections({k})
    BY <1>13 DEF DisposeSweep
  <2>2. shut' = shut \union {k}
    BY <2>1 DEF DisposeCollections
  <2>3. \A s \in Streams : where'[s] = where[s] \/ where'[s] = "closed"
    BY <2>1 DEF DisposeCollections, Moved
  <2>4. \A j \in Collections : stored'[j] \subseteq stored[j] /\ (j = k => stored'[j] = {})
    BY <1>0, <2>1 DEF DisposeCollections
  <2>5. QED
    BY <1>13, <2>2, <2>3, <2>4 DEF StreamsMove
<1>14. ASSUME NEW d \in Disposers, DisposeAsync(d), ~DisposeSweep(d) PROVE StreamsMove
  <2>1. UNCHANGED <<stored, shut, where>>
    BY <1>14 DEF DisposeAsync, DisposeCheck, DisposeCancel, DisposeInfos, DisposeList, DisposeClear, DisposeEnd,
       collections
  <2>2. QED
    BY <1>1, <2>1
<1>15. CASE UNCHANGED vars
  BY <1>1, <1>15 DEF vars, collections
<1>16. QED
  BY <1>2, <1>3, <1>4, <1>5, <1>6, <1>7, <1>8, <1>9, <1>10, <1>11, <1>12, <1>13, <1>14, <1>15 DEF Next, Listen

(* DisposeAsync lists what is in the dictionary, and then disposes it.     *)
SnapshotMoves(d) ==
    /\ \A k \in snapshot'[d] : k \in snapshot[d] \/ \E c \in Cookies : k = dict[c]
    /\ pc[d] = "sweeping" => \A k \in snapshot[d] :
          k \in snapshot'[d] \/ (k \in Collections => k \in shut' /\ stored'[k] = {})

LEMMA DisposalMoves ==
  ASSUME Types, [Next]_vars
  PROVE  /\ \A d \in Disposers : SnapshotMoves(d)
         /\ cancelled => cancelled'
         /\ disposed' => disposed \/ \E d \in Disposers : DisposeEnd(d)
<1> DEFINE Moves ==
      /\ \A d \in Disposers : SnapshotMoves(d)
      /\ cancelled => cancelled'
      /\ disposed' => disposed \/ \E d \in Disposers : DisposeEnd(d)
<1>0. snapshot \in [Disposers -> SUBSET Collections]
  BY DEF Types
<1>1. ASSUME NEW d \in Disposers, DisposeAsync(d) PROVE Moves
  <2>1. CASE DisposeCheck(d) \/ DisposeCancel(d) \/ DisposeInfos(d) \/ DisposeClear(d) \/ DisposeEnd(d)
    <3>1. snapshot' = snapshot /\ (cancelled => cancelled') /\ (disposed' => disposed \/ DisposeEnd(d))
      BY <2>1 DEF DisposeCheck, DisposeCancel, DisposeInfos, DisposeClear, DisposeEnd, disposal
    <3>2. QED
      BY <3>1 DEF SnapshotMoves
  <2>2. CASE DisposeList(d)
    <3>1. /\ snapshot' = [snapshot EXCEPT ![d] = {dict[c] : c \in Cookies} \ {None}]
          /\ pc[d] # "sweeping" /\ UNCHANGED <<cancelled, disposed>>
      BY <2>2 DEF DisposeList
    <3>2. QED
      BY <1>0, <3>1 DEF SnapshotMoves
  <2>3. CASE DisposeSweep(d)
    <3>1. PICK j : DisposeCollections({j}) /\ snapshot' = [snapshot EXCEPT ![d] = @ \ {j}]
      BY <2>3 DEF DisposeSweep
    <3>2. \A k \in Collections : k = j => k \in shut' /\ stored'[k] = {}
      BY <3>1 DEF DisposeCollections
    <3>3. UNCHANGED <<cancelled, disposed>>
      BY <2>3 DEF DisposeSweep
    <3>4. \A e \in Disposers : snapshot'[e] = IF e = d THEN snapshot[d] \ {j} ELSE snapshot[e]
      BY <1>0, <3>1
    <3>5. \A e \in Disposers : SnapshotMoves(e)
      BY <3>2, <3>4 DEF SnapshotMoves
    <3>6. QED
      BY <3>3, <3>5
  <2>4. QED
    BY <1>1, <2>1, <2>2, <2>3 DEF DisposeAsync
<1>2. ASSUME ~\E d \in Disposers : DisposeAsync(d) PROVE UNCHANGED disposal
  <2>1. ASSUME NEW c \in Clients, ConnectCancel(c) PROVE UNCHANGED disposal
    BY <2>1 DEF ConnectCancel
  <2>2. ASSUME NEW c \in Clients, Verify(c) \/ GetStreams(c) \/ ConnectHandle(c) PROVE UNCHANGED disposal
    BY <2>2 DEF Verify, GetStreams, ConnectHandle
  <2>3. ASSUME NEW a \in Accepters, Accept(a) \/ AcceptThrows(a) \/ AcceptCancel(a) PROVE UNCHANGED disposal
    BY <2>3 DEF Accept, AcceptThrows, AcceptCancel
  <2>4. ASSUME NEW r \in Removers, Verify(r) \/ RemoveTry(r) \/ RemoveDispose(r) PROVE UNCHANGED disposal
    BY <2>4 DEF Verify, RemoveTry, RemoveDispose
  <2>5. CASE Listen
    BY <2>5 DEF Listen, ListenTop, ListenAcceptThrows, ListenParse, ListenParseThrows, ListenFile, ListenShut,
       ListenClear, ListenAdd, ListenAnnounce
  <2>6. CASE Start \/ (\E s \in Streams : RuntimeConnects(s) \/ ListenAccept(s) \/ Disconnect(s)) \/ UNCHANGED vars
    BY <2>6 DEF Start, RuntimeConnects, ListenAccept, Disconnect, vars
  <2>7. QED
    BY <1>2, <2>1, <2>2, <2>3, <2>4, <2>5, <2>6 DEF Next
<1>3. QED
  BY <1>1, <1>2 DEF disposal, SnapshotMoves

(* Only the end of a filing is history.                                    *)
LEMMA HistoryMoves ==
  ASSUME [Next]_vars
  PROVE  announced \subseteq announced' /\ (latest' = latest \/ ListenAdd)
<1> DEFINE Moves == announced \subseteq announced' /\ (latest' = latest \/ ListenAdd)
<1>1. CASE Listen
  BY <1>1 DEF Listen, ListenTop, ListenAcceptThrows, ListenParse, ListenParseThrows, ListenFile, ListenShut,
     ListenClear, ListenAdd, ListenAnnounce, history
<1>2. ASSUME NEW c \in Clients, ConnectCancel(c) PROVE Moves
  BY <1>2 DEF ConnectCancel, history
<1>3. ASSUME NEW c \in Clients, Verify(c) \/ GetStreams(c) \/ ConnectHandle(c) PROVE Moves
  BY <1>3 DEF Verify, GetStreams, ConnectHandle, history
<1>4. ASSUME NEW a \in Accepters, Accept(a) \/ AcceptThrows(a) \/ AcceptCancel(a) PROVE Moves
  BY <1>4 DEF Accept, AcceptThrows, AcceptCancel, history
<1>5. ASSUME NEW r \in Removers, Verify(r) \/ RemoveTry(r) \/ RemoveDispose(r) PROVE Moves
  BY <1>5 DEF Verify, RemoveTry, RemoveDispose, history
<1>6. ASSUME NEW d \in Disposers, DisposeAsync(d) PROVE Moves
  BY <1>6 DEF DisposeAsync, DisposeCheck, DisposeCancel, DisposeInfos, DisposeList, DisposeSweep, DisposeClear,
     DisposeEnd, history
<1>7. CASE Start \/ (\E s \in Streams : RuntimeConnects(s) \/ ListenAccept(s) \/ Disconnect(s)) \/ UNCHANGED vars
  BY <1>7 DEF Start, RuntimeConnects, ListenAccept, Disconnect, vars, history
<1>8. QED
  BY <1>1, <1>2, <1>3, <1>4, <1>5, <1>6, <1>7 DEF Next

LEMMA FreshMoves ==
  ASSUME Types, Places, [Next]_vars
  PROVE  \A k \in Collections : Fresh(k)' => Fresh(k)
<1>1. ASSUME NEW k \in Streams, Fresh(k)' PROVE Fresh(k)
  <2>1. CASE where'[k] \in {"runtime", "pending"}
    BY <1>1, <2>1, StreamsMoves DEF StreamsMove, Fresh
  <2>2. CASE current' = k /\ listener' \in {"parse", "file"}
    BY <1>1, <2>2, FilingMoves DEF ListenAccept, Fresh
  <2>3. QED
    BY <1>1, <2>1, <2>2 DEF Fresh
<1>2. ASSUME NEW k \in Clients, k \notin Streams, Fresh(k)' PROVE Fresh(k)
  <2>1. k \in Calls /\ pc'[k] \in {"ready", "verified"}
    BY <1>2 DEF Fresh, Calls
  <2>2. pc'[k] = pc[k] \/ Verify(k)
    BY <2>1, CallsMove DEF CallMoves
  <2>3. QED
    BY <1>2, <2>1, <2>2 DEF Fresh, Verify
<1>3. QED
  BY <1>1, <1>2 DEF Collections

(* A collection enters the dictionary when it is made.                     *)
LEMMA EnteringIsFresh ==
  ASSUME Types, Places, StreamHasOneOwner, [Next]_vars,
         NEW c \in Cookies, NEW k \in Collections, dict'[c] = k, dict[c] # k
  PROVE  /\ Fresh(k) /\ ~Fresh(k)'
         /\ k \in Streams => ListenFile /\ c = CookieOf[current] /\ k = current
<1>1. CASE ListenFile /\ c = CookieOf[current] /\ k = current
  <2>1. current \in Streams /\ listener = "file" /\ listener' = "clear" /\ where' = where
    BY <1>1, ListenFileFacts
  <2>2. where[current] = "listener"
    BY <2>1 DEF StreamHasOneOwner
  <2>3. QED
    BY <1>1, <2>1, <2>2 DEF Fresh
<1>2. CASE k \in Clients /\ GetStreams(k)
  <2>1. k \notin Streams
    BY <1>2, NamesDisjoint
  <2>2. pc[k] = "verified" /\ pc'[k] = "entering"
    BY <1>2, GetStreamsFacts
  <2>3. QED
    BY <2>1, <2>2 DEF Fresh
<1>3. k # None
  BY NamesDisjoint DEF Collections
<1>4. QED
  BY <1>1, <1>2, <1>3, DictionaryMoves DEF DictMoves

-----------------------------------------------------------------------------
LEMMA FreshStep ==
  ASSUME Types, Types', Places, StreamHasOneOwner, FreshIsUnused, [Next]_vars
  PROVE  FreshIsUnused'
<1> SUFFICES ASSUME NEW k \in Collections, Fresh(k)'
             PROVE  Unused(k)'
  BY DEF FreshIsUnused
<1>1. Unused(k) /\ k # None
  BY FreshMoves, NamesDisjoint DEF FreshIsUnused, Collections
<1>2. stored'[k] = {}
  <2>1. ListenAdd => filing # k
    BY <1>1 DEF ListenAdd, Unused
  <2>2. QED
    BY <1>1, <2>1, StreamsMoves DEF StreamsMove, Unused
<1>3. k \notin shut'
  BY <1>1, StreamsMoves DEF StreamsMove, Unused
<1>4. \A c \in Cookies : dict'[c] # k
  BY <1>1, EnteringIsFresh DEF Unused
<1>5. listener' \in {"clear", "add"} => filing' # k
  BY <1>1, <1>4, FilingMoves, ListenFileFacts DEF Unused
<1>6. ASSUME NEW r \in Removers, pc'[r] = "removed" PROVE at'[r] # k
  <2>1. CASE RemoveTry(r)
    <3>1. CookieOf[r] \in Cookies
      BY CookieOfType
    <3>2. QED
      BY <1>1, <1>6, <2>1, <3>1, RemoveTryFacts DEF Unused
  <2>2. CASE ~RemoveTry(r)
    <3>1. pc[r] = "removed"
      BY <1>6, <2>2, CallsMove DEF CallMoves, Calls
    <3>2. at'[r] = at[r]
      BY <2>2, <3>1, AtMoves, GetStreamsFacts
    <3>3. QED
      BY <1>1, <3>1, <3>2 DEF Unused
  <2>3. QED
    BY <2>1, <2>2
<1>7. \A d \in Disposers : k \notin snapshot'[d]
  <2>1. \A d \in Disposers : k \notin snapshot[d]
    BY <1>1 DEF Unused
  <2>2. \A c \in Cookies : dict[c] # k
    BY <1>1 DEF Unused
  <2>3. QED
    BY <2>1, <2>2, DisposalMoves DEF SnapshotMoves
<1>8. QED
  BY <1>2, <1>3, <1>4, <1>5, <1>6, <1>7 DEF Unused

-----------------------------------------------------------------------------
(* The collection the listener adds to is empty, and so is the one in the  *)
(* dictionary, if that is another by now.                                  *)
Newest ==
    /\ listener = "add" => stored[filing] = {}
    /\ listener \in {"clear", "add"} => \/ dict[CookieOf[current]] \in {None, filing}
                                        \/ stored[dict[CookieOf[current]]] = {}

(* What is in the dictionary after a step was there, or is empty.          *)
LEMMA OldOrEmpty ==
  ASSUME Types, Types', Places, StreamHasOneOwner, FreshIsUnused, [Next]_vars, ~ListenAdd,
         NEW c \in Cookies, dict'[c] # None
  PROVE  /\ dict'[c] = dict[c] \/ stored'[dict'[c]] = {}
         /\ stored'[dict'[c]] \subseteq stored[dict'[c]]
<1>1. dict'[c] \in Collections
  BY DEF Types
<1>2. stored'[dict'[c]] \subseteq stored[dict'[c]]
  BY <1>1, StreamsMoves DEF StreamsMove
<1>3. dict'[c] # dict[c] => stored[dict'[c]] = {}
  BY <1>1, EnteringIsFresh DEF FreshIsUnused, Unused
<1>4. QED
  BY <1>2, <1>3

LEMMA NewestStep ==
  ASSUME Types, Types', Places, Places', StreamHasOneOwner, FreshIsUnused, Newest, NewestStreamOnly, [Next]_vars
  PROVE  Newest' /\ NewestStreamOnly'
<1>1. CASE ListenAdd
  <2>1. /\ listener = "add" /\ listener' \in {"announce", "top"} /\ dict' = dict
        /\ current \in Streams /\ filing \in Collections /\ CookieOf[filing] = CookieOf[current]
        /\ latest' = [latest EXCEPT ![CookieOf[current]] = current]
    BY <1>1 DEF ListenAdd, Places
  <2>2. Newest'
    BY <2>1 DEF Newest
  <2>3. ASSUME NEW c \in Cookies, dict[c] # None PROVE stored'[dict[c]] \subseteq {latest'[c]} \ {None}
    <3>1. dict[c] \in Collections /\ CookieOf[dict[c]] = c
      BY <2>3 DEF Types, Places
    <3>2. stored'[dict[c]] \subseteq stored[dict[c]] \/ (dict[c] = filing /\ stored'[dict[c]] = stored[filing] \union {current})
      BY <3>1, StreamsMoves DEF StreamsMove
    <3>3. stored[filing] = {}
      BY <2>1 DEF Newest
    <3>4. CASE c = CookieOf[current]
      <4>1. latest'[c] = current /\ current # None
        BY <2>1, <3>4, NamesDisjoint DEF Types
      <4>2. dict[c] # filing => stored[dict[c]] = {}
        BY <2>1, <2>3, <3>4 DEF Newest
      <4>3. QED
        BY <3>2, <3>3, <4>1, <4>2
    <3>5. CASE c # CookieOf[current]
      <4>1. latest'[c] = latest[c]
        BY <2>1, <3>5 DEF Types
      <4>2. dict[c] # filing
        BY <2>1, <3>1, <3>5
      <4>3. stored[dict[c]] \subseteq {latest[c]} \ {None}
        BY <2>3 DEF NewestStreamOnly
      <4>4. QED
        BY <3>2, <4>1, <4>2, <4>3
    <3>6. QED
      BY <3>4, <3>5
  <2>4. QED
    BY <2>1, <2>2, <2>3 DEF NewestStreamOnly
<1>2. CASE ~ListenAdd
  <2>1. latest' = latest
    BY <1>2, HistoryMoves
  <2>2. ASSUME NEW c \in Cookies, dict'[c] # None PROVE stored'[dict'[c]] \subseteq {latest'[c]} \ {None}
    <3>1. dict'[c] = dict[c] => stored[dict'[c]] \subseteq {latest[c]} \ {None}
      BY <2>2 DEF NewestStreamOnly
    <3>2. QED
      BY <1>2, <2>1, <2>2, <3>1, OldOrEmpty
  <2>3. ASSUME listener' = "add" PROVE stored'[filing'] = {}
    <3>1. filing' \in Collections
      BY <2>3 DEF Places
    <3>2. CASE ListenClear
      BY <3>1, <3>2 DEF ListenClear, Types
    <3>3. CASE listener = "add" /\ filing' = filing
      <4>1. stored'[filing'] \subseteq stored[filing]
        BY <1>2, <3>1, <3>3, StreamsMoves DEF StreamsMove
      <4>2. QED
        BY <3>3, <4>1 DEF Newest
    <3>4. QED
      BY <2>3, <3>2, <3>3, FilingMoves DEF ListenFile, ListenClear
  <2>4. ASSUME listener' \in {"clear", "add"}
        PROVE  \/ dict'[CookieOf[current']] \in {None, filing'}
               \/ stored'[dict'[CookieOf[current']]] = {}
    <3>1. CASE ListenFile
      BY <3>1, ListenFileFacts
    <3>2. CASE listener \in {"clear", "add"} /\ filing' = filing /\ current' = current
      <4>1. CookieOf[current] \in Cookies
        BY <3>2, CookieOfType DEF Places
      <4>2. dict[CookieOf[current]] \in {None, filing} \/ stored[dict[CookieOf[current]]] = {}
        BY <3>2 DEF Newest
      <4>3. ASSUME dict'[CookieOf[current]] # None
            PROVE  \/ dict'[CookieOf[current]] = filing
                   \/ stored'[dict'[CookieOf[current]]] = {}
        BY <1>2, <4>1, <4>2, <4>3, OldOrEmpty
      <4>4. QED
        BY <3>2, <4>3
    <3>3. QED
      BY <2>4, <3>1, <3>2, FilingMoves
  <2>5. QED
    BY <2>2, <2>3, <2>4 DEF Newest, NewestStreamOnly
<1>3. QED
  BY <1>1, <1>2

-----------------------------------------------------------------------------
(* A removed collection is in the dictionary no more; the listener is done *)
(* before DisposeAsync disposes what the dictionary still holds.           *)
RemovedIsOut ==
    \A r \in Removers : pc[r] = "removed" => \A c \in Cookies : dict[c] # at[r]

Quiet == cancelled /\ listener \in {"idle", "top", "ended"}

Sweeps ==
    /\ \A d \in Disposers : pc[d] = "stopping" => cancelled
    /\ \A d \in Disposers : pc[d] \in {"listing", "sweeping", "ending"} => Quiet
    /\ \A c \in Cookies : dict[c] \in shut => dict[c] = None \/ Quiet

LEMMA RemovedStep ==
  ASSUME Types, Types', Places, Places', StreamHasOneOwner, FreshIsUnused, RemovedIsOut, [Next]_vars
  PROVE  RemovedIsOut'
<1> SUFFICES ASSUME NEW r \in Removers, pc'[r] = "removed", NEW c \in Cookies, dict'[c] = at'[r]
             PROVE  FALSE
  BY DEF RemovedIsOut
<1>1. at'[r] \in Collections /\ at'[r] # None /\ CookieOf[at'[r]] = c
  BY NamesDisjoint DEF Places, Collections
<1>2. CASE RemoveTry(r)
  <2>1. /\ CookieOf[r] \in Cookies /\ at'[r] = dict[CookieOf[r]] /\ dict'[CookieOf[r]] = None
    BY <1>2, CookieOfType, RemoveTryFacts
  <2>2. CookieOf[at'[r]] = CookieOf[r]
    BY <1>1, <2>1 DEF Places
  <2>3. QED
    BY <1>1, <2>1, <2>2
<1>3. CASE ~RemoveTry(r)
  <2>1. pc[r] = "removed"
    BY <1>3, CallsMove DEF CallMoves, Calls
  <2>2. at'[r] = at[r]
    BY <1>3, <2>1, AtMoves, GetStreamsFacts
  <2>3. dict[c] # at[r]
    BY <2>1 DEF RemovedIsOut
  <2>4. Fresh(at[r])
    BY <1>1, <2>2, <2>3, EnteringIsFresh
  <2>5. QED
    BY <1>1, <2>1, <2>2, <2>4 DEF FreshIsUnused, Unused
<1>4. QED
  BY <1>2, <1>3

LEMMA QuietStays ==
  ASSUME Types, Quiet, [Next]_vars
  PROVE  Quiet'
<1>1. cancelled'
  BY DisposalMoves DEF Quiet
<1>2. listener' \in {"idle", "top", "ended"}
  <2>1. CASE UNCHANGED listening
    BY <2>1 DEF listening, Quiet
  <2>2. CASE Start
    BY <2>2 DEF Start
  <2>3. CASE Listen
    BY <2>3 DEF Listen, ListenTop, ListenAcceptThrows, ListenParse, ListenParseThrows, ListenFile, ListenShut,
       ListenClear, ListenAdd, ListenAnnounce, Quiet
  <2>4. CASE \E s \in Streams : ListenAccept(s)
    BY <2>4 DEF ListenAccept, Quiet
  <2>5. QED
    BY <2>1, <2>2, <2>3, <2>4, ListenerMoves
<1>3. QED
  BY <1>1, <1>2 DEF Quiet

LEMMA SweepsStep ==
  ASSUME Types, Types', Places, StreamHasOneOwner, FreshIsUnused, RemovedIsOut, Sweeps, [Next]_vars
  PROVE  Sweeps'
<1>1. ASSUME NEW d \in Disposers, pc'[d] = "stopping" PROVE cancelled'
  <2>1. pc[d] = "stopping" \/ DisposeCancel(d)
    BY <1>1, CallsMove DEF CallMoves, Calls
  <2>2. QED
    BY <2>1, DisposalMoves DEF Sweeps, DisposeCancel
<1>2. ASSUME NEW d \in Disposers, pc'[d] \in {"listing", "sweeping", "ending"} PROVE Quiet'
  <2>1. \/ pc[d] \in {"listing", "sweeping", "ending"}
        \/ DisposeInfos(d) \/ DisposeList(d) \/ DisposeClear(d)
    BY <1>2, CallsMove DEF CallMoves, Calls
  <2>2. pc[d] \in {"listing", "sweeping", "ending"} \/ (pc[d] = "stopping" /\ listener \in {"idle", "ended"})
    BY <2>1 DEF DisposeInfos, DisposeList, DisposeClear
  <2>3. Quiet
    BY <2>2 DEF Sweeps, Quiet
  <2>4. QED
    BY <2>3, QuietStays
<1>3. ASSUME NEW c \in Cookies, dict'[c] \in shut', dict'[c] # None PROVE Quiet'
  <2>1. dict'[c] \in Collections
    BY <1>3 DEF Types
  <2>2. \/ dict'[c] \in shut
        \/ \E r \in Removers : pc[r] = "removed" /\ at[r] = dict'[c]
        \/ \E d \in Disposers : DisposeSweep(d) /\ dict'[c] \in snapshot[d]
    BY <1>3, <2>1, StreamsMoves DEF StreamsMove
  <2>3. dict'[c] = dict[c]
    BY <2>1, <2>2, EnteringIsFresh DEF FreshIsUnused, Unused
  <2>4. Quiet
    BY <1>3, <2>2, <2>3 DEF Sweeps, RemovedIsOut, DisposeSweep
  <2>5. QED
    BY <2>4, QuietStays
<1>4. QED
  BY <1>1, <1>2, <1>3 DEF Sweeps

-----------------------------------------------------------------------------
(* The listener announces the collection it made, and leaves out one that  *)
(* it made, and announced, before.                                         *)
Announced ==
    /\ listener = "announce" => filing = current
    /\ listener \in {"clear", "add"} /\ filing \in Streams /\ filing # current => filing \in announced

LEMMA AnnouncedStep ==
  ASSUME Types, Types', Places, StreamHasOneOwner, Sweeps, Announced, TrackedRuntimeIsAnnounced, [Next]_vars
  PROVE  Announced' /\ TrackedRuntimeIsAnnounced'
<1>1. listener' = "announce" => filing' = current'
  BY FilingMoves DEF Announced
<1>2. ASSUME listener' \in {"clear", "add"}, filing' \in Streams, filing' # current' PROVE filing' \in announced'
  <2>1. CASE ListenFile
    <3>1. /\ CookieOf[current] \in Cookies /\ filing' = dict[CookieOf[current]] /\ listener = "file"
          /\ announced' = announced
      BY <1>2, <2>1, ListenFileFacts
    <3>2. QED
      BY <1>2, <3>1 DEF TrackedRuntimeIsAnnounced
  <2>2. CASE listener \in {"clear", "add"} /\ filing' = filing /\ current' = current
    BY <1>2, <2>2, HistoryMoves DEF Announced
  <2>3. QED
    BY <1>2, <2>1, <2>2, FilingMoves
<1>3. ASSUME NEW c \in Cookies, dict'[c] \in Streams
      PROVE  \/ dict'[c] \in announced'
             \/ dict'[c] = filing' /\ listener' \in {"clear", "add", "announce"}
  <2>1. CASE dict'[c] # dict[c]
    <3>1. ListenFile /\ c = CookieOf[current] /\ dict'[c] = current
      BY <1>3, <2>1, EnteringIsFresh DEF Collections
    <3>2. QED
      BY <3>1, ListenFileFacts
  <2>2. CASE dict'[c] = dict[c] /\ dict[c] \in announced
    BY <2>2, HistoryMoves
  <2>3. CASE dict'[c] = dict[c] /\ dict[c] = filing /\ listener \in {"clear", "add", "announce"}
    <3>1. CASE UNCHANGED listening
      BY <2>3, <3>1 DEF listening
    <3>2. CASE ListenShut
      <4>1. dict[c] # None
        BY <1>3, <2>3, NamesDisjoint
      <4>2. QED
        BY <2>3, <3>2, <4>1 DEF ListenShut, Sweeps, Quiet
    <3>3. CASE ListenClear
      BY <2>3, <3>3 DEF ListenClear
    <3>4. CASE ListenAdd
      <4>1. filing = current \/ filing \in announced
        BY <1>3, <2>3, <3>4 DEF ListenAdd, Announced
      <4>2. listener' = IF filing = current THEN "announce" ELSE "top"
        BY <3>4 DEF ListenAdd
      <4>3. filing' = filing /\ announced' = announced
        BY <3>4 DEF ListenAdd
      <4>4. QED
        BY <2>3, <4>1, <4>2, <4>3
    <3>5. CASE ListenAnnounce
      BY <2>3, <3>5 DEF ListenAnnounce, Announced
    <3>6. QED
      BY <2>3, <3>1, <3>2, <3>3, <3>4, <3>5, ListenerMoves DEF Start, Listen, ListenAccept, ListenTop,
         ListenAcceptThrows, ListenParse, ListenParseThrows, ListenFile
  <2>4. QED
    BY <1>3, <2>1, <2>2, <2>3 DEF TrackedRuntimeIsAnnounced
<1>4. QED
  BY <1>1, <1>2, <1>3 DEF Announced, TrackedRuntimeIsAnnounced

-----------------------------------------------------------------------------
ServerInv ==
    /\ OwnersInv
    /\ FreshIsUnused
    /\ Newest /\ NewestStreamOnly
    /\ RemovedIsOut /\ Sweeps
    /\ Announced /\ TrackedRuntimeIsAnnounced

LEMMA InitServer ==
  ASSUME Init
  PROVE  ServerInv
<1>1. FreshIsUnused
  <2>1. \A k \in Collections : k # None
    BY NamesDisjoint DEF Collections
  <2>2. \A r \in Removers : r \in Calls
    BY DEF Calls
  <2>3. QED
    BY <2>1, <2>2 DEF Init, FreshIsUnused, Unused
<1>2. Newest /\ NewestStreamOnly
  BY DEF Init, Newest, NewestStreamOnly
<1>3. RemovedIsOut /\ Sweeps
  BY DEF Init, RemovedIsOut, Sweeps, Calls
<1>4. Announced /\ TrackedRuntimeIsAnnounced
  BY NamesDisjoint DEF Init, Announced, TrackedRuntimeIsAnnounced
<1>5. QED
  BY <1>1, <1>2, <1>3, <1>4, InitOwners DEF ServerInv

(* What the listener files, announces and finds while RemoveConnection and *)
(* DisposeAsync take collections away: the invariant of this module.       *)
THEOREM ServerAlways == Spec => []ServerInv
<1>1. Init => ServerInv
  BY InitServer
<1>2. ASSUME ServerInv, [Next]_vars PROVE ServerInv'
  <2>1. Types /\ Places /\ StreamHasOneOwner
    BY <1>2 DEF ServerInv, OwnersInv
  <2>2. Types'
    BY <1>2, <2>1, TypesStep
  <2>3. Places'
    BY <1>2, <2>1, <2>2, PlacesStep
  <2>4. StreamHasOneOwner'
    BY <1>2, <2>1, OwnersStep
  <2>5. FreshIsUnused'
    BY <1>2, <2>1, <2>2, FreshStep DEF ServerInv
  <2>6. Newest' /\ NewestStreamOnly'
    BY <1>2, <2>1, <2>2, <2>3, NewestStep DEF ServerInv
  <2>7. RemovedIsOut'
    BY <1>2, <2>1, <2>2, <2>3, RemovedStep DEF ServerInv
  <2>8. Sweeps'
    BY <1>2, <2>1, <2>2, SweepsStep DEF ServerInv
  <2>9. Announced' /\ TrackedRuntimeIsAnnounced'
    BY <1>2, <2>1, <2>2, AnnouncedStep DEF ServerInv
  <2>10. QED
    BY <2>2, <2>3, <2>4, <2>5, <2>6, <2>7, <2>8, <2>9 DEF ServerInv, OwnersInv
<1>3. QED
  BY <1>1, <1>2, PTL DEF Spec

(* A collection of the dictionary holds no stream but the last one that    *)
(* the listener filed for the runtime, however often it reconnects and     *)
(* whoever removes or makes the collection meanwhile.                      *)
THEOREM StreamsAreTheNewest == Spec => []NewestStreamOnly
<1>1. ServerInv => NewestStreamOnly
  BY DEF ServerInv
<1>2. QED
  BY <1>1, ServerAlways, PTL

(* The listener announces every runtime whose collection it made before it *)
(* turns to the next connection: RemoveConnection and DisposeAsync cannot  *)
(* make it forget one that the dictionary keeps.                           *)
THEOREM TrackedAreAnnounced == Spec => []TrackedRuntimeIsAnnounced
<1>1. ServerInv => TrackedRuntimeIsAnnounced
  BY DEF ServerInv
<1>2. QED
  BY <1>1, ServerAlways, PTL

=============================================================================
