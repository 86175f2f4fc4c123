------------------ MODULE ReversedDiagnosticsServerQueueProofs ------------------
(* What the server's queues hold, and what DisposeAsync leaves behind, for *)
(* any number of runtimes, streams and calls.                              *)
EXTENDS ReversedDiagnosticsServerProofs

(* Queues: what is left of one when elements leave it.                     *)
LEMMA MembersOf ==
  ASSUME NEW S, NEW s \in Seq(S)
  PROVE  /\ ToSet(s) \subseteq S
         /\ \A x : x \in ToSet(s) <=> \E i \in 1..Len(s) : s[i] = x
<1>1. DOMAIN s = 1..Len(s) /\ \A i \in 1..Len(s) : s[i] \in S
  OBVIOUS
<1>2. QED
  BY <1>1 DEF ToSet

LEMMA AppendFacts ==
  ASSUME NEW S, NEW s \in Seq(S), NEW x \in S
  PROVE  /\ Append(s, x) \in Seq(S)
         /\ x \in ToSet(Append(s, x))
         /\ \A y \in ToSet(s) : y \in ToSet(Append(s, x))
<1> DEFINE t == Append(s, x)
<1>1. /\ t \in Seq(S) /\ Len(t) = Len(s) + 1 /\ Len(s) \in Nat
      /\ t[Len(s) + 1] = x /\ \A i \in 1..Len(s) : t[i] = s[i]
  OBVIOUS
<1>2. \A y : y \in ToSet(t) <=> \E i \in 1..Len(t) : t[i] = y
  BY <1>1, MembersOf
<1>3. \A y : y \in ToSet(s) <=> \E i \in 1..Len(s) : s[i] = y
  BY MembersOf
<1>4. x \in ToSet(t)
  BY <1>1, <1>2
<1>5. \A i \in 1..Len(s) : i \in 1..Len(t)
  BY <1>1
<1>6. \A y \in ToSet(s) : y \in ToSet(t)
  BY <1>1, <1>2, <1>3, <1>5
<1>7. QED
  BY <1>1, <1>4, <1>6

LEMMA SuffixFacts ==
  ASSUME NEW S, NEW s \in Seq(S), NEW n \in 1..Len(s)
  PROVE  /\ SubSeq(s, n + 1, Len(s)) \in Seq(S)
         /\ SubSeq(s, 1, n - 1) \in Seq(S)
         /\ ToSet(SubSeq(s, 1, n - 1)) \subseteq S
         /\ \A x \in ToSet(s) : \/ x \in ToSet(SubSeq(s, 1, n - 1))
                                \/ x = s[n]
                                \/ x \in ToSet(SubSeq(s, n + 1, Len(s)))
<1> DEFINE a == SubSeq(s, 1, n - 1)
           b == SubSeq(s, n + 1, Len(s))
<1>1. /\ a \in Seq(S) /\ Len(a) = n - 1 /\ \A i \in 1..(n - 1) : a[i] = s[i]
  OBVIOUS
<1>2. /\ b \in Seq(S) /\ Len(b) = Len(s) - n /\ \A i \in 1..(Len(s) - n) : b[i] = s[n + i]
  OBVIOUS
<1>3. ASSUME NEW i \in 1..Len(s), i < n PROVE s[i] \in ToSet(a)
  <2>1. i \in 1..(n - 1) /\ i \in 1..Len(a)
    BY <1>1, <1>3
  <2>2. QED
    BY <1>1, <2>1, MembersOf
<1>4. ASSUME NEW i \in 1..Len(s), i > n PROVE s[i] \in ToSet(b)
  <2>1. i - n \in 1..(Len(s) - n) /\ i - n \in 1..Len(b) /\ n + (i - n) = i
    BY <1>2, <1>4
  <2>2. b[i - n] = s[i]
    BY <1>2, <2>1
  <2>3. QED
    BY <1>2, <2>1, <2>2, MembersOf
<1>5. \A i \in 1..Len(s) : i < n \/ i = n \/ i > n
  OBVIOUS
<1>6. \A x \in ToSet(s) : \E i \in 1..Len(s) : s[i] = x
  BY MembersOf
<1>7. ToSet(a) \subseteq S
  BY <1>1, MembersOf
<1>8. QED
  BY <1>1, <1>2, <1>3, <1>4, <1>5, <1>6, <1>7

LEMMA SplitFacts ==
  ASSUME NEW S, NEW s \in Seq(S), NEW n \in 1..Len(s)
  PROVE  /\ SubSeq(s, n, Len(s)) \in Seq(S)
         /\ \A x \in ToSet(s) : x \in ToSet(SubSeq(s, 1, n - 1)) \/ x \in ToSet(SubSeq(s, n, Len(s)))
<1> DEFINE b == SubSeq(s, n, Len(s))
<1>1. /\ b \in Seq(S) /\ Len(b) = Len(s) - n + 1 /\ \A i \in 1..(Len(s) - n + 1) : b[i] = s[n + i - 1]
  OBVIOUS
<1>2. ASSUME NEW i \in 1..Len(s), i >= n PROVE s[i] \in ToSet(b)
  <2>1. i - n + 1 \in 1..(Len(s) - n + 1) /\ n + (i - n + 1) - 1 = i
    BY <1>2
  <2>2. b[i - n + 1] = s[i] /\ i - n + 1 \in 1..Len(b)
    BY <1>1, <2>1
  <2>3. QED
    BY <1>1, <2>2, MembersOf
<1>3. SubSeq(s, 1, n - 1) \in Seq(S) /\ Len(SubSeq(s, 1, n - 1)) = n - 1
      /\ \A i \in 1..(n - 1) : SubSeq(s, 1, n - 1)[i] = s[i]
  OBVIOUS
<1>4. ASSUME NEW i \in 1..Len(s), i < n PROVE s[i] \in ToSet(SubSeq(s, 1, n - 1))
  <2>1. i \in 1..(n - 1)
    BY <1>4
  <2>2. QED
    BY <1>3, <2>1, MembersOf
<1>5. \A x \in ToSet(s) : \E i \in 1..Len(s) : s[i] = x
  BY MembersOf
<1>6. \A i \in 1..Len(s) : i < n \/ i >= n
  OBVIOUS
<1>7. QED
  BY <1>1, <1>2, <1>4, <1>5, <1>6

LEMMA RemoveAtFacts ==
  ASSUME NEW S, NEW s \in Seq(S), NEW n \in 1..Len(s)
  PROVE  /\ RemoveAt(s, n) \in Seq(S)
         /\ \A x \in ToSet(s) : x # s[n] => x \in ToSet(RemoveAt(s, n))
<1> DEFINE a == SubSeq(s, 1, n - 1)
           b == SubSeq(s, n + 1, Len(s))
           t == a \o b
<1>1. a \in Seq(S) /\ b \in Seq(S)
  BY SuffixFacts
<1> HIDE DEF a, b
<1>2. /\ t \in Seq(S) /\ Len(t) = Len(a) + Len(b) /\ Len(a) \in Nat /\ Len(b) \in Nat
      /\ \A i \in 1..Len(a) : t[i] = a[i]
      /\ \A i \in 1..Len(b) : t[Len(a) + i] = b[i]
  BY <1>1
<1>3. \A i \in 1..Len(a) : i \in 1..Len(t)
  BY <1>2
<1>4. \A i \in 1..Len(b) : Len(a) + i \in 1..Len(t)
  BY <1>2
<1> HIDE DEF t
<1>5. \A x : x \in ToSet(t) <=> \E i \in 1..Len(t) : t[i] = x
  BY <1>2, MembersOf
<1>6. \A x \in ToSet(a) : x \in ToSet(t)
  <2>1. \A x \in ToSet(a) : \E i \in 1..Len(a) : a[i] = x
    BY <1>1, MembersOf
  <2>2. QED
    BY <1>2, <1>3, <1>5, <2>1
<1>7. \A x \in ToSet(b) : x \in ToSet(t)
  <2>1. \A x \in ToSet(b) : \E i \in 1..Len(b) : b[i] = x
    BY <1>1, MembersOf
  <2>2. QED
    BY <1>2, <1>4, <1>5, <2>1
<1>8. t = RemoveAt(s, n)
  BY DEF t, a, b, RemoveAt
<1>9. \A x \in ToSet(s) : x \in ToSet(a) \/ x = s[n] \/ x \in ToSet(b)
  BY SuffixFacts DEF a, b
<1>10. QED
  BY <1>2, <1>6, <1>7, <1>8, <1>9

LEMMA TailFacts ==
  ASSUME NEW S, NEW s \in Seq(S), s # <<>>
  PROVE  /\ Head(s) \in S /\ Tail(s) \in Seq(S)
         /\ \A x \in ToSet(s) : x = Head(s) \/ x \in ToSet(Tail(s))
<1>1. /\ Head(s) = s[1] /\ Tail(s) \in Seq(S) /\ Len(s) \in Nat /\ Len(s) > 0 /\ Len(Tail(s)) = Len(s) - 1
      /\ \A i \in 1..(Len(s) - 1) : Tail(s)[i] = s[i + 1]
  OBVIOUS
<1>2. ASSUME NEW i \in 1..Len(s), i # 1 PROVE s[i] \in ToSet(Tail(s))
  <2>1. i - 1 \in 1..(Len(s) - 1) /\ i - 1 \in 1..Len(Tail(s)) /\ (i - 1) + 1 = i
    BY <1>1, <1>2
  <2>2. Tail(s)[i - 1] = s[i]
    BY <1>1, <2>1
  <2>3. QED
    BY <1>1, <2>1, <2>2, MembersOf
<1>3. \A x \in ToSet(s) : \E i \in 1..Len(s) : s[i] = x
  BY MembersOf
<1>4. Head(s) \in S
  BY <1>1
<1>5. QED
  BY <1>1, <1>2, <1>3, <1>4

-----------------------------------------------------------------------------
QueueTypes ==
    /\ queue \in [Collections -> Seq(Clients)]
    /\ infos \in Seq(Cookies)
    /\ acceptQueue \in Seq(Accepters)

(* Whoever waits is in the queue of the collection it waits at.            *)
WaitersAreQueued ==
    /\ \A c \in Clients : pc[c] = "waiting" => at[c] \in Collections /\ c \in ToSet(queue[at[c]])
    /\ \A a \in Accepters : pc[a] = "waiting" => a \in ToSet(acceptQueue)

(* Nobody waits at what was disposed.                                      *)
ShutIsQuiet ==
    /\ \A k \in Collections : k \in shut => queue[k] = <<>>
    /\ infosShut => acceptQueue = <<>>

QueueInv == QueueTypes /\ WaitersAreQueued /\ ShutIsQuiet

LEMMA WaitersStay ==
  ASSUME Types, [Next]_vars
  PROVE  \A c \in Clients : pc'[c] = "waiting" => at'[c] = at[c]
<1> SUFFICES ASSUME NEW c \in Clients, pc'[c] = "waiting" PROVE at'[c] = at[c]
  OBVIOUS
<1>1. ~GetStreams(c)
  BY GetStreamsFacts
<1>2. c \notin Removers
  BY CallsDisjoint
<1>3. QED
  BY <1>1, <1>2, AtMoves

(* Most steps end a call at most, and leave the queues as they are.        *)
LEMMA NobodyQueues ==
  ASSUME Types, QueueInv, [Next]_vars,
         UNCHANGED <<queue, infos, acceptQueue, infosShut, shut>>,
         \A c \in Clients \union Accepters : pc'[c] = "waiting" => pc[c] = "waiting"
  PROVE  QueueInv'
<1>1. QueueTypes' /\ ShutIsQuiet'
  BY DEF QueueInv, QueueTypes, ShutIsQuiet
<1>2. WaitersAreQueued'
  BY WaitersStay DEF QueueInv, WaitersAreQueued
<1>3. QED
  BY <1>1, <1>2 DEF QueueInv

(* A collection's queue changes: those that still wait there are in it.    *)
LEMMA OneQueueMoves ==
  ASSUME Types, QueueInv, [Next]_vars, NEW k \in Collections, k \notin shut, NEW q \in Seq(Clients),
         queue' = [queue EXCEPT ![k] = q],
         UNCHANGED <<infos, acceptQueue, infosShut, shut>>,
         \A a \in Accepters : pc'[a] = "waiting" => pc[a] = "waiting",
         \A c \in Clients : pc'[c] = "waiting" =>
            \/ pc[c] = "waiting" /\ at[c] # k
            \/ at[c] = k /\ c \in ToSet(q)
  PROVE  QueueInv'
<1>1. \A j \in Collections : queue'[j] = IF j = k THEN q ELSE queue[j]
  BY DEF QueueInv, QueueTypes
<1>2. QueueTypes'
  BY DEF QueueInv, QueueTypes
<1>3. WaitersAreQueued'
  BY <1>1, WaitersStay DEF QueueInv, WaitersAreQueued
<1>4. ShutIsQuiet'
  BY <1>1 DEF QueueInv, ShutIsQuiet
<1>5. QED
  BY <1>2, <1>3, <1>4 DEF QueueInv

(* Collections are disposed: all that waited there throw.                  *)
LEMMA DisposedQueues ==
  ASSUME Types, QueueInv, [Next]_vars, NEW ks \in SUBSET Collections, DisposeCollections(ks),
         UNCHANGED <<infos, acceptQueue, infosShut>>,
         \A c \in Clients \union Accepters : pc'[c] = "waiting" => pc[c] = "waiting" /\ c \notin WaitersOf(ks)
  PROVE  QueueInv'
<1>1. /\ queue' = [k \in Collections |-> IF k \in ks THEN <<>> ELSE queue[k]]
      /\ shut' = shut \union ks
  BY DEF DisposeCollections
<1>2. QueueTypes' /\ ShutIsQuiet'
  BY <1>1 DEF QueueInv, QueueTypes, ShutIsQuiet
<1>3. ASSUME NEW c \in Clients, pc'[c] = "waiting" PROVE at'[c] \in Collections /\ c \in ToSet(queue'[at'[c]])
  <2>1. at'[c] = at[c] /\ at[c] \in Collections /\ c \in ToSet(queue[at[c]])
    BY <1>3, WaitersStay DEF QueueInv, WaitersAreQueued
  <2>2. at[c] \notin ks
    BY <1>3, <2>1 DEF WaitersOf
  <2>3. QED
    BY <1>1, <2>1, <2>2
<1>4. WaitersAreQueued'
  BY <1>3 DEF QueueInv, WaitersAreQueued
<1>5. QED
  BY <1>2, <1>4 DEF QueueInv

LEMMA QueueStep ==
  ASSUME Types, Places, QueueInv, [Next]_vars
  PROVE  QueueInv'
<1>0. pc \in [Calls -> PcValues]
  BY DEF Types
<1>1. ASSUME UNCHANGED <<queue, infos, acceptQueue, infosShut, shut>>,
             \/ pc' = pc
             \/ \E b \in Calls : \E v : v # "waiting" /\ pc' = [pc EXCEPT ![b] = v]
      PROVE  QueueInv'
  <2>1. \A c \in Calls : pc'[c] = "waiting" => pc[c] = "waiting"
    BY <1>0, <1>1
  <2>2. QED
    BY <1>1, <2>1, NobodyQueues DEF Calls
<1>2. CASE Start \/ ListenTop \/ ListenAcceptThrows \/ ListenParse \/ ListenParseThrows
  BY <1>1, <1>2 DEF Start, ListenTop, ListenAcceptThrows, ListenParse, ListenParseThrows, collections, accepting
<1>3. CASE ListenFile \/ ListenShut \/ ListenClear
  BY <1>1, <1>3 DEF ListenFile, ListenShut, ListenClear, collections, accepting
<1>4. CASE (\E s \in Streams : RuntimeConnects(s) \/ ListenAccept(s) \/ Disconnect(s)) \/ UNCHANGED vars
  BY <1>1, <1>4 DEF RuntimeConnects, ListenAccept, Disconnect, vars, collections, accepting
<1>5. CASE ListenAdd
  <2>1. AddToQueue /\ filing \in Collections /\ filing \notin shut /\ UNCHANGED <<accepting, shut, at>>
    BY <1>5 DEF ListenAdd, Places
  <2>2. queue[filing] \in Seq(Clients) /\ queue \in [Collections -> Seq(Clients)]
    BY <2>1 DEF QueueInv, QueueTypes
  <2>3. ASSUME NEW n \in 1..Len(queue[filing]),
               pc' = Ended(ToSet(SubSeq(queue[filing], 1, n - 1)), "done"),
               queue' = [queue EXCEPT ![filing] = SubSeq(queue[filing], n, Len(queue[filing]))]
        PROVE  QueueInv'
    <3>1. PICK a : a = SubSeq(queue[filing], 1, n - 1)
      OBVIOUS
    <3>2. PICK b : b = SubSeq(queue[filing], n, Len(queue[filing]))
      OBVIOUS
    <3>3. b \in Seq(Clients) /\ \A x \in ToSet(queue[filing]) : x \in ToSet(a) \/ x \in ToSet(b)
      BY <2>2, <3>1, <3>2, SplitFacts
    <3>4. \A c \in Calls : pc'[c] = "waiting" => pc[c] = "waiting" /\ c \notin ToSet(a)
      BY <2>3, <3>1 DEF Ended
    <3>5. \A c \in Clients : pc[c] = "waiting" /\ at[c] = filing => c \in ToSet(queue[filing])
      BY DEF QueueInv, WaitersAreQueued
    <3>6. queue' = [queue EXCEPT ![filing] = b]
      BY <2>3, <3>2
    <3>7. \A c \in Clients : pc'[c] = "waiting" =>
             \/ pc[c] = "waiting" /\ at[c] # filing
             \/ at[c] = filing /\ c \in ToSet(b)
      BY <3>3, <3>4, <3>5 DEF Calls
    <3>8. \A c \in Accepters : pc'[c] = "waiting" => pc[c] = "waiting"
      BY <3>4 DEF Calls
    <3>9. UNCHANGED <<infos, acceptQueue, infosShut, shut>>
      BY <2>1 DEF accepting
    <3>10. QED
      BY <2>1, <3>3, <3>6, <3>7, <3>8, <3>9, OneQueueMoves
  <2>4. ASSUME NEW n \in FirstConnect(queue[filing]), NEW v \in {"done", "cancelled"},
               pc' = [Ended(ToSet(SubSeq(queue[filing], 1, n - 1)), "done") EXCEPT ![queue[filing][n]] = v],
               queue' = [queue EXCEPT ![filing] = SubSeq(queue[filing], n + 1, Len(queue[filing]))]
        PROVE  QueueInv'
    <3>1. n \in 1..Len(queue[filing]) /\ queue[filing][n] \in Clients
      BY <2>2, <2>4 DEF FirstConnect
    <3>2. PICK a : a = SubSeq(queue[filing], 1, n - 1)
      OBVIOUS
    <3>3. PICK b : b = SubSeq(queue[filing], n + 1, Len(queue[filing]))
      OBVIOUS
    <3>4. /\ b \in Seq(Clients)
          /\ \A x \in ToSet(queue[filing]) : x \in ToSet(a) \/ x = queue[filing][n] \/ x \in ToSet(b)
      BY <2>2, <3>1, <3>2, <3>3, SuffixFacts
    <3>5. \A c \in Calls : pc'[c] = "waiting" => pc[c] = "waiting" /\ c \notin ToSet(a) /\ c # queue[filing][n]
      BY <1>0, <2>4, <3>1, <3>2 DEF Ended, Calls
    <3>6. \A c \in Clients : pc[c] = "waiting" /\ at[c] = filing => c \in ToSet(queue[filing])
      BY DEF QueueInv, WaitersAreQueued
    <3>7. queue' = [queue EXCEPT ![filing] = b]
      BY <2>4, <3>3
    <3>8. \A c \in Clients : pc'[c] = "waiting" =>
             \/ pc[c] = "waiting" /\ at[c] # filing
             \/ at[c] = filing /\ c \in ToSet(b)
      BY <3>4, <3>5, <3>6 DEF Calls
    <3>9. \A c \in Accepters : pc'[c] = "waiting" => pc[c] = "waiting"
      BY <3>5 DEF Calls
    <3>10. UNCHANGED <<infos, acceptQueue, infosShut, shut>>
      BY <2>1 DEF accepting
    <3>11. QED
      BY <2>1, <3>4, <3>7, <3>8, <3>9, <3>10, OneQueueMoves
  <2>5. ASSUME pc' = Ended(ToSet(queue[filing]), "done"), queue' = [queue EXCEPT ![filing] = <<>>]
        PROVE  QueueInv'
    <3>1. \A c \in Calls : pc'[c] = "waiting" => pc[c] = "waiting" /\ c \notin ToSet(queue[filing])
      BY <2>5 DEF Ended
    <3>2. \A c \in Clients : pc[c] = "waiting" /\ at[c] = filing => c \in ToSet(queue[filing])
      BY DEF QueueInv, WaitersAreQueued
    <3>3. <<>> \in Seq(Clients)
      OBVIOUS
    <3>4. QED
      BY <2>1, <2>5, <3>1, <3>2, <3>3, OneQueueMoves DEF Calls, accepting
  <2>6. \/ \E n \in 1..Len(queue[filing]) :
              /\ pc' = Ended(ToSet(SubSeq(queue[filing], 1, n - 1)), "done")
              /\ queue' = [queue EXCEPT ![filing] = SubSeq(queue[filing], n, Len(queue[filing]))]
        \/ \E n \in FirstConnect(queue[filing]), v \in {"done", "cancelled"} :
              /\ pc' = [Ended(ToSet(SubSeq(queue[filing], 1, n - 1)), "done") EXCEPT ![queue[filing][n]] = v]
              /\ queue' = [queue EXCEPT ![filing] = SubSeq(queue[filing], n + 1, Len(queue[filing]))]
        \/ pc' = Ended(ToSet(queue[filing]), "done") /\ queue' = [queue EXCEPT ![filing] = <<>>]
    BY <2>1 DEF AddToQueue
  <2>7. QED
    BY <2>3, <2>4, <2>5, <2>6
<1>6. CASE ListenAnnounce
  <2>1. /\ UNCHANGED <<queue, shut, infosShut, at>> /\ ~infosShut /\ current \in Streams
        /\ CookieOf[current] \in Cookies
    BY <1>6, CookieOfType DEF ListenAnnounce, collections, Places
  <2>2. CASE acceptQueue' = acceptQueue /\ pc' = pc /\ infos' = Append(infos, CookieOf[current])
    <3>1. infos' \in Seq(Cookies)
      BY <2>1, <2>2 DEF QueueInv, QueueTypes
    <3>2. QED
      BY <2>1, <2>2, <3>1 DEF QueueInv, QueueTypes, WaitersAreQueued, ShutIsQuiet
  <2>3. ASSUME NEW v \in {"done", "cancelled"}, acceptQueue # <<>>, acceptQueue' = Tail(acceptQueue),
               pc' = [pc EXCEPT ![Head(acceptQueue)] = v], infos' = infos
        PROVE  QueueInv'
    <3>1. /\ Head(acceptQueue) \in Accepters /\ Tail(acceptQueue) \in Seq(Accepters)
          /\ \A x \in ToSet(acceptQueue) : x = Head(acceptQueue) \/ x \in ToSet(Tail(acceptQueue))
      BY <2>3, TailFacts DEF QueueInv, QueueTypes
    <3>2. \A c \in Calls : pc'[c] = "waiting" => pc[c] = "waiting" /\ c # Head(acceptQueue)
      BY <1>0, <2>3, <3>1 DEF Calls
    <3>3. QueueTypes' /\ ShutIsQuiet'
      BY <2>1, <2>3, <3>1 DEF QueueInv, QueueTypes, ShutIsQuiet
    <3>4. WaitersAreQueued'
      BY <2>1, <2>3, <3>1, <3>2 DEF QueueInv, WaitersAreQueued, Calls
    <3>5. QED
      BY <3>3, <3>4 DEF QueueInv
  <2>4. QED
    BY <1>6, <2>2, <2>3 DEF ListenAnnounce
<1>7. ASSUME NEW a \in Accepters, AcceptThrows(a) PROVE QueueInv'
  BY <1>1, <1>7 DEF AcceptThrows, collections, accepting, Calls
<1>8. ASSUME NEW a \in Accepters, Accept(a) PROVE QueueInv'
  <2>1. UNCHANGED <<queue, shut, infosShut, at>> /\ ~infosShut
    BY <1>8 DEF Accept, collections
  <2>2. CASE acceptQueue' = Append(acceptQueue, a) /\ pc' = [pc EXCEPT ![a] = "waiting"] /\ infos' = infos
    <3>1. /\ acceptQueue' \in Seq(Accepters) /\ a \in ToSet(acceptQueue')
          /\ \A x \in ToSet(acceptQueue) : x \in ToSet(acceptQueue')
      BY <2>2, AppendFacts DEF QueueInv, QueueTypes
    <3>2. \A c \in Calls : c # a => pc'[c] = pc[c]
      BY <1>0, <2>2
    <3>3. QueueTypes' /\ ShutIsQuiet'
      BY <2>1, <2>2, <3>1 DEF QueueInv, QueueTypes, ShutIsQuiet
    <3>4. a \notin Clients
      BY CallsDisjoint
    <3>5. WaitersAreQueued'
      BY <2>1, <3>1, <3>2, <3>4 DEF QueueInv, WaitersAreQueued, Calls
    <3>6. QED
      BY <3>3, <3>5 DEF QueueInv
  <2>3. ASSUME NEW v \in {"done", "cancelled"}, acceptQueue' = acceptQueue, pc' = [pc EXCEPT ![a] = v],
               infos # <<>>, infos' = Tail(infos)
        PROVE  QueueInv'
    <3>1. infos' \in Seq(Cookies)
      BY <2>3, TailFacts DEF QueueInv, QueueTypes
    <3>2. \A c \in Calls : pc'[c] = "waiting" => pc[c] = "waiting"
      BY <1>0, <2>3
    <3>3. QED
      BY <2>1, <2>3, <3>1, <3>2 DEF QueueInv, QueueTypes, WaitersAreQueued, ShutIsQuiet, Calls
  <2>4. QED
    BY <1>8, <2>2, <2>3 DEF Accept
<1>9. ASSUME NEW a \in Accepters, AcceptCancel(a) PROVE QueueInv'
  <2>1. UNCHANGED <<queue, shut, infos, infosShut, at>> /\ pc' = [pc EXCEPT ![a] = "cancelled"]
    BY <1>9 DEF AcceptCancel, collections
  <2>2. PICK i \in 1..Len(acceptQueue) : acceptQueue[i] = a /\ acceptQueue' = RemoveAt(acceptQueue, i)
    BY <1>9 DEF AcceptCancel
  <2>3. /\ acceptQueue' \in Seq(Accepters)
        /\ \A x \in ToSet(acceptQueue) : x # a => x \in ToSet(acceptQueue')
    BY <2>2, RemoveAtFacts DEF QueueInv, QueueTypes
  <2>4. \A c \in Calls : pc'[c] = "waiting" => pc[c] = "waiting" /\ c # a
    BY <1>0, <2>1 DEF Calls
  <2>5. infosShut => acceptQueue' = <<>>
    <3>1. Len(acceptQueue) # 0
      BY <2>2 DEF QueueInv, QueueTypes
    <3>2. QED
      BY <3>1 DEF QueueInv, ShutIsQuiet
  <2>6. QueueTypes' /\ ShutIsQuiet'
    BY <2>1, <2>3, <2>5 DEF QueueInv, QueueTypes, ShutIsQuiet
  <2>7. WaitersAreQueued'
    BY <2>1, <2>3, <2>4 DEF QueueInv, WaitersAreQueued, Calls
  <2>8. QED
    BY <2>6, <2>7 DEF QueueInv
<1>10. ASSUME NEW c \in Clients, Verify(c) \/ GetStreams(c) PROVE QueueInv'
  <2>1. UNCHANGED <<queue, shut, accepting>>
    BY <1>10 DEF Verify, GetStreams, collections
  <2>2. \E v \in {"verified", "threw", "entering"} : pc' = [pc EXCEPT ![c] = v]
    BY <1>10 DEF Verify, GetStreams
  <2>3. QED
    BY <1>1, <2>1, <2>2 DEF accepting, Calls
<1>11. ASSUME NEW c \in Clients, ConnectHandle(c) PROVE QueueInv'
  <2>1. at[c] \in Collections /\ UNCHANGED <<accepting, shut, at>>
    BY <1>11 DEF ConnectHandle, Places
  <2>2. ASSUME NEW v \in {"threw", "done", "cancelled"}, pc' = [pc EXCEPT ![c] = v], queue' = queue PROVE QueueInv'
    BY <1>1, <2>1, <2>2 DEF accepting, Calls
  <2>3. ASSUME at[c] \notin shut, queue' = [queue EXCEPT ![at[c]] = Append(@, c)], pc' = [pc EXCEPT ![c] = "waiting"]
        PROVE  QueueInv'
    <3>1. queue[at[c]] \in Seq(Clients)
      BY <2>1 DEF QueueInv, QueueTypes
    <3>2. PICK q : q = Append(queue[at[c]], c)
      OBVIOUS
    <3>3. q \in Seq(Clients) /\ c \in ToSet(q) /\ \A x \in ToSet(queue[at[c]]) : x \in ToSet(q)
      BY <3>1, <3>2, AppendFacts
    <3>4. queue' = [queue EXCEPT ![at[c]] = q]
      BY <2>3, <3>2
    <3>5. \A b \in Calls : b # c => pc'[b] = pc[b]
      BY <1>0, <2>3
    <3>6. \A b \in Clients : pc[b] = "waiting" => b \in ToSet(queue[at[b]])
      BY DEF QueueInv, WaitersAreQueued
    <3>7. \A b \in Clients : pc'[b] = "waiting" =>
             \/ pc[b] = "waiting" /\ at[b] # at[c]
             \/ at[b] = at[c] /\ b \in ToSet(q)
      BY <3>3, <3>5, <3>6 DEF Calls
    <3>8. \A a \in Accepters : a # c /\ a \in Calls
      BY CallsDisjoint DEF Calls
    <3>9. QED
      BY <2>1, <2>3, <3>3, <3>4, <3>5, <3>7, <3>8, OneQueueMoves DEF accepting
  <2>4. \/ \E v \in {"threw", "done", "cancelled"} : pc' = [pc EXCEPT ![c] = v] /\ queue' = queue
        \/ /\ at[c] \notin shut /\ queue' = [queue EXCEPT ![at[c]] = Append(@, c)]
           /\ pc' = [pc EXCEPT ![c] = "waiting"]
    BY <1>11 DEF ConnectHandle
  <2>5. QED
    BY <2>2, <2>3, <2>4
<1>12. ASSUME NEW c \in Clients, ConnectCancel(c) PROVE QueueInv'
  <2>1. UNCHANGED <<accepting, shut, at>> /\ pc[c] = "waiting" /\ pc' = [pc EXCEPT ![c] = "cancelled"]
    BY <1>12 DEF ConnectCancel
  <2>2. at[c] \in Collections /\ queue[at[c]] \in Seq(Clients)
    BY <2>1 DEF QueueInv, QueueTypes, WaitersAreQueued
  <2>3. PICK i \in 1..Len(queue[at[c]]) :
           queue[at[c]][i] = c /\ queue' = [queue EXCEPT ![at[c]] = RemoveAt(@, i)]
    BY <1>12 DEF ConnectCancel
  <2>4. PICK q : q = RemoveAt(queue[at[c]], i)
    OBVIOUS
  <2>5. q \in Seq(Clients) /\ \A x \in ToSet(queue[at[c]]) : x # c => x \in ToSet(q)
    BY <2>2, <2>3, <2>4, RemoveAtFacts
  <2>6. queue' = [queue EXCEPT ![at[c]] = q]
    BY <2>3, <2>4
  <2>7. at[c] \notin shut
    <3>1. Len(queue[at[c]]) # 0
      BY <2>2, <2>3
    <3>2. QED
      BY <2>2, <3>1 DEF QueueInv, ShutIsQuiet
  <2>8. \A b \in Calls : pc'[b] = "waiting" => pc[b] = "waiting" /\ b # c
    BY <1>0, <2>1 DEF Calls
  <2>9. \A b \in Clients : pc'[b] = "waiting" =>
             \/ pc[b] = "waiting" /\ at[b] # at[c]
             \/ at[b] = at[c] /\ b \in ToSet(q)
    BY <2>5, <2>8 DEF QueueInv, WaitersAreQueued, Calls
  <2>10. QED
    BY <2>1, <2>2, <2>5, <2>6, <2>7, <2>8, <2>9, OneQueueMoves DEF accepting, Calls
<1>13. ASSUME NEW r \in Removers, Verify(r) \/ RemoveTry(r) PROVE QueueInv'
  <2>1. UNCHANGED <<queue, shut, accepting>>
    BY <1>13 DEF Verify, RemoveTry, collections
  <2>2. \E v \in {"verified", "threw", "done", "removed"} : pc' = [pc EXCEPT ![r] = v]
    BY <1>13 DEF Verify, RemoveTry
  <2>3. QED
    BY <1>1, <2>1, <2>2 DEF accepting, Calls
<1>14. ASSUME NEW r \in Removers, RemoveDispose(r) PROVE QueueInv'
  <2>1. /\ at[r] \in Collections /\ DisposeCollections({at[r]}) /\ UNCHANGED accepting
        /\ pc' = [Ended(WaitersOf({at[r]}), "threw") EXCEPT ![r] = "done"]
    BY <1>14 DEF RemoveDispose, Places
  <2>2. r \in Calls
    BY DEF Calls
  <2>3. \A c \in Calls : pc'[c] = "waiting" => pc[c] = "waiting" /\ c \notin WaitersOf({at[r]})
    BY <2>1, <2>2 DEF Ended
  <2>4. {at[r]} \in SUBSET Collections
    BY <2>1
  <2>5. QED
    BY <2>1, <2>3, <2>4, DisposedQueues DEF accepting, Calls
<1>15. ASSUME NEW d \in Disposers, DisposeSweep(d) PROVE QueueInv'
  <2>1. PICK k \in snapshot[d] : DisposeCollections({k}) /\ pc' = Ended(WaitersOf({k}), "threw")
    BY <1>15 DEF DisposeSweep
  <2>2. UNCHANGED accepting /\ {k} \in SUBSET Collections
    BY <1>15 DEF DisposeSweep, Types
  <2>3. \A c \in Calls : pc'[c] = "waiting" => pc[c] = "waiting" /\ c \notin WaitersOf({k})
    BY <2>1 DEF Ended
  <2>4. QED
    BY <2>1, <2>2, <2>3, DisposedQueues DEF accepting, Calls
<1>16. ASSUME NEW d \in Disposers, DisposeInfos(d) PROVE QueueInv'
  <2>1. /\ UNCHANGED <<queue, shut, at>> /\ infos' = <<>> /\ acceptQueue' = <<>>
        /\ pc' = [Ended(ToSet(acceptQueue), "threw") EXCEPT ![d] = "listing"]
    BY <1>16 DEF DisposeInfos, collections
  <2>2. d \in Calls
    BY DEF Calls
  <2>3. \A c \in Calls : pc'[c] = "waiting" => pc[c] = "waiting" /\ c \notin ToSet(acceptQueue)
    BY <2>1, <2>2 DEF Ended
  <2>4. QueueTypes' /\ ShutIsQuiet'
    BY <2>1 DEF QueueInv, QueueTypes, ShutIsQuiet
  <2>5. WaitersAreQueued'
    BY <2>1, <2>3 DEF QueueInv, WaitersAreQueued, Calls
  <2>6. QED
    BY <2>4, <2>5 DEF QueueInv
<1>17. ASSUME NEW d \in Disposers, DisposeAsync(d), ~DisposeSweep(d), ~DisposeInfos(d) PROVE QueueInv'
  <2>1. UNCHANGED <<queue, shut, accepting>>
    BY <1>17 DEF DisposeAsync, DisposeCheck, DisposeCancel, DisposeList, DisposeClear, DisposeEnd, collections
  <2>2. \E v \in PcValues \ {"waiting"} : pc' = [pc EXCEPT ![d] = v]
    BY <1>17 DEF DisposeAsync, DisposeCheck, DisposeCancel, DisposeList, DisposeClear, DisposeEnd, PcValues
  <2>3. QED
    BY <1>1, <2>1, <2>2 DEF accepting, Calls
<1>18. QED
  BY <1>2, <1>3, <1>4, <1>5, <1>6, <1>7, <1>8, <1>9, <1>10, <1>11, <1>12, <1>13, <1>14, <1>15, <1>16, <1>17
     DEF Next, Listen

-----------------------------------------------------------------------------
RestTypes ==
    /\ shut \subseteq Collections
    /\ {infosShut, cancelled, sourceGone, disposed} \subseteq BOOLEAN
    /\ connected \subseteq Streams
    /\ current \in Streams \union {None}
    /\ filing \in Collections \union {None}
    /\ announced \subseteq Streams
    /\ known \subseteq Cookies

LEMMA RestStep ==
  ASSUME Types, Places, QueueTypes, RestTypes, [Next]_vars
  PROVE  RestTypes'
<1>1. CASE Start \/ ListenTop \/ ListenAcceptThrows \/ ListenParse \/ ListenParseThrows \/ ListenShut \/ ListenClear
  BY <1>1 DEF Start, ListenTop, ListenAcceptThrows, ListenParse, ListenParseThrows, ListenShut, ListenClear,
     collections, accepting, disposal, history, RestTypes
<1>2. CASE ListenFile
  <2>1. filing' \in Collections \union {None}
    <3>1. current \in Collections /\ dict[CookieOf[current]] \in Collections \union {None}
      BY <1>2, ListenFileFacts DEF Types, Collections
    <3>2. QED
      BY <1>2, <3>1, ListenFileFacts
  <2>2. UNCHANGED <<shut, infosShut, cancelled, sourceGone, disposed, connected, current, announced, known>>
    BY <1>2 DEF ListenFile, accepting, disposal, history
  <2>3. QED
    BY <2>1, <2>2 DEF RestTypes
<1>3. CASE ListenAdd
  BY <1>3 DEF ListenAdd, accepting, disposal, RestTypes
<1>4. CASE ListenAnnounce
  <2>1. known' \subseteq Cookies
    BY <1>4, CookieOfType DEF ListenAnnounce, RestTypes, Places
  <2>2. announced' \subseteq Streams
    BY <1>4 DEF ListenAnnounce, RestTypes, Places
  <2>3. UNCHANGED <<shut, infosShut, cancelled, sourceGone, disposed, connected, current, filing>>
    BY <1>4 DEF ListenAnnounce, collections, disposal
  <2>4. QED
    BY <2>1, <2>2, <2>3 DEF RestTypes
<1>5. ASSUME NEW s \in Streams, RuntimeConnects(s) \/ ListenAccept(s) \/ Disconnect(s) PROVE RestTypes'
  BY <1>5 DEF RuntimeConnects, ListenAccept, Disconnect, collections, accepting, listening, disposal, history, RestTypes
<1>6. ASSUME NEW a \in Accepters, Accept(a) PROVE RestTypes'
  <2>1. known' \subseteq Cookies
    BY <1>6, TailFacts DEF Accept, RestTypes, QueueTypes
  <2>2. UNCHANGED <<shut, infosShut, cancelled, sourceGone, disposed, connected, current, filing, announced>>
    BY <1>6 DEF Accept, collections, disposal, listening
  <2>3. QED
    BY <2>1, <2>2 DEF RestTypes
<1>7. ASSUME NEW a \in Accepters, AcceptThrows(a) \/ AcceptCancel(a) PROVE RestTypes'
  <2>1. UNCHANGED <<shut, infosShut, connected, listening, disposal, history>>
    BY <1>7 DEF AcceptThrows, AcceptCancel, collections, accepting
  <2>2. QED
    BY <2>1 DEF listening, disposal, history, RestTypes
<1>8. ASSUME NEW c \in Clients, Verify(c) \/ GetStreams(c) \/ ConnectHandle(c) PROVE RestTypes'
  <2>1. UNCHANGED <<shut, infosShut, connected, listening, disposal, history>>
    BY <1>8 DEF Verify, GetStreams, ConnectHandle, collections, accepting
  <2>2. QED
    BY <2>1 DEF listening, disposal, history, RestTypes
<1>9. ASSUME NEW c \in Clients, ConnectCancel(c) PROVE RestTypes'
  <2>1. UNCHANGED <<shut, infosShut, connected, listening, disposal, history>>
    BY <1>9 DEF ConnectCancel, accepting
  <2>2. QED
    BY <2>1 DEF listening, disposal, history, RestTypes
<1>10. ASSUME NEW r \in Removers, Verify(r) \/ RemoveTry(r) PROVE RestTypes'
  BY <1>10 DEF Verify, RemoveTry, collections, accepting, listening, disposal, history, RestTypes
<1>11. ASSUME NEW r \in Removers, RemoveDispose(r) PROVE RestTypes'
  BY <1>11 DEF RemoveDispose, DisposeCollections, Places, accepting, listening, disposal, history, RestTypes
<1>12. ASSUME NEW d \in Disposers, DisposeSweep(d) PROVE RestTypes'
  BY <1>12 DEF DisposeSweep, DisposeCollections, Types, accepting, listening, disposal, history, RestTypes
<1>13. ASSUME NEW d \in Disposers, DisposeAsync(d), ~DisposeSweep(d) PROVE RestTypes'
  BY <1>13 DEF DisposeAsync, DisposeCheck, DisposeCancel, DisposeInfos, DisposeList, DisposeClear, DisposeEnd,
     collections, accepting, listening, disposal, history, RestTypes
<1>14. CASE UNCHANGED vars
  BY <1>14 DEF vars, collections, accepting, listening, disposal, history, RestTypes
<1>15. QED
  BY <1>1, <1>2, <1>3, <1>4, <1>5, <1>6, <1>7, <1>8, <1>9, <1>10, <1>11, <1>12, <1>13, <1>14 DEF Next, Listen

-----------------------------------------------------------------------------
(* A call of RemoveConnection goes its own way: the others end only those  *)
(* that wait in a queue.                                                   *)
LEMMA RemoversStay ==
  ASSUME Types, Places, QueueTypes, [Next]_vars
  PROVE  \A r \in Removers : pc'[r] = pc[r] \/ Verify(r) \/ RemoveTry(r) \/ RemoveDispose(r)
<1> DEFINE Stay == \A r \in Removers : pc'[r] = pc[r] \/ Verify(r) \/ RemoveTry(r) \/ RemoveDispose(r)
<1>0. /\ pc \in [Calls -> PcValues] /\ \A r \in Removers : r \in Calls /\ r \notin Clients
      /\ \A k \in Collections : ToSet(queue[k]) \subseteq Clients
      /\ ToSet(acceptQueue) \subseteq Accepters
  BY CallsDisjoint, MembersOf DEF Types, QueueTypes, Calls
<1>1. ASSUME \A r \in Removers : pc'[r] = pc[r] PROVE Stay
  BY <1>1
<1>2. ASSUME NEW b, b \notin Removers, NEW v, pc' = [pc EXCEPT ![b] = v] PROVE Stay
  BY <1>0, <1>2
<1>3. ASSUME NEW cs, cs \intersect Removers = {}, NEW b \in Calls, NEW v,
             \/ pc' = Ended(cs, "threw")
             \/ pc' = Ended(cs, "done")
             \/ pc' = [Ended(cs, "threw") EXCEPT ![b] = v]
             \/ pc' = [Ended(cs, "done") EXCEPT ![b] = v]
      PROVE  \A r \in Removers : pc'[r] = pc[r] \/ r = b
  <2>1. \A how : \A r \in Removers : Ended(cs, how)[r] = pc[r]
    BY <1>0, <1>3 DEF Ended
  <2>2. /\ Ended(cs, "threw") = [c \in Calls |-> IF c \in cs THEN "threw" ELSE pc[c]]
        /\ Ended(cs, "done") = [c \in Calls |-> IF c \in cs THEN "done" ELSE pc[c]]
    BY DEF Ended
  <2>3. QED
    BY <1>0, <1>3, <2>1, <2>2
<1>4. CASE Listen /\ ~ListenAdd /\ ~ListenAnnounce
  <2>1. UNCHANGED pc
    BY <1>4 DEF Listen, ListenTop, ListenAcceptThrows, ListenParse, ListenParseThrows, ListenFile, ListenShut,
       ListenClear
  <2>2. QED
    BY <1>1, <2>1
<1>5. CASE ListenAdd
  <2>1. AddToQueue /\ filing \in Collections /\ queue[filing] \in Seq(Clients)
    BY <1>5 DEF ListenAdd, Places, QueueTypes
  <2>2. ASSUME NEW n \in 1..Len(queue[filing]), pc' = Ended(ToSet(SubSeq(queue[filing], 1, n - 1)), "done")
        PROVE  Stay
    <3>1. ToSet(SubSeq(queue[filing], 1, n - 1)) \subseteq Clients
      BY <2>1, SuffixFacts
    <3>2. QED
      BY <1>0, <2>2, <3>1 DEF Ended
  <2>3. ASSUME NEW n \in FirstConnect(queue[filing]), NEW v \in {"done", "cancelled"},
               pc' = [Ended(ToSet(SubSeq(queue[filing], 1, n - 1)), "done") EXCEPT ![queue[filing][n]] = v]
        PROVE  Stay
    <3>1. n \in 1..Len(queue[filing]) /\ queue[filing][n] \in Clients
      BY <2>1, <2>3 DEF FirstConnect
    <3>2. ToSet(SubSeq(queue[filing], 1, n - 1)) \subseteq Clients
      BY <2>1, <3>1, SuffixFacts
    <3>3. PICK cs : cs = ToSet(SubSeq(queue[filing], 1, n - 1))
      OBVIOUS
    <3>4. PICK b : b = queue[filing][n]
      OBVIOUS
    <3>5. cs \intersect Removers = {} /\ b \in Calls /\ b \notin Removers
      BY <1>0, <3>1, <3>2, <3>3, <3>4 DEF Calls
    <3>6. pc' = [Ended(cs, "done") EXCEPT ![b] = v]
      BY <2>3, <3>3, <3>4
    <3>7. QED
      BY <1>3, <3>5, <3>6
  <2>4. ASSUME pc' = Ended(ToSet(queue[filing]), "done") PROVE Stay
    BY <1>0, <2>1, <2>4 DEF Ended
  <2>5. \/ \E n \in 1..Len(queue[filing]) : pc' = Ended(ToSet(SubSeq(queue[filing], 1, n - 1)), "done")
        \/ \E n \in FirstConnect(queue[filing]), v \in {"done", "cancelled"} :
              pc' = [Ended(ToSet(SubSeq(queue[filing], 1, n - 1)), "done") EXCEPT ![queue[filing][n]] = v]
        \/ pc' = Ended(ToSet(queue[filing]), "done")
    BY <2>1 DEF AddToQueue
  <2>6. QED
    BY <2>2, <2>3, <2>4, <2>5
<1>6. CASE ListenAnnounce
  <2>1. acceptQueue # <<>> => Head(acceptQueue) \notin Removers
    BY CallsDisjoint, TailFacts DEF QueueTypes
  <2>2. QED
    BY <1>1, <1>2, <1>6, <2>1 DEF ListenAnnounce
<1>7. ASSUME NEW a \in Accepters, Accept(a) \/ AcceptThrows(a) \/ AcceptCancel(a) PROVE Stay
  <2>1. \E v : pc' = [pc EXCEPT ![a] = v]
    BY <1>7 DEF Accept, AcceptThrows, AcceptCancel
  <2>2. QED
    BY <1>2, <2>1, CallsDisjoint
<1>8. ASSUME NEW c \in Clients, Verify(c) \/ GetStreams(c) \/ ConnectHandle(c) PROVE Stay
  <2>1. \E v : pc' = [pc EXCEPT ![c] = v]
    BY <1>8 DEF Verify, GetStreams, ConnectHandle
  <2>2. QED
    BY <1>2, <2>1, CallsDisjoint
<1>9. ASSUME NEW c \in Clients, ConnectCancel(c) PROVE Stay
  <2>1. \E v : pc' = [pc EXCEPT ![c] = v]
    BY <1>9 DEF ConnectCancel
  <2>2. QED
    BY <1>2, <2>1, CallsDisjoint
<1>10. ASSUME NEW b \in Removers, Verify(b) \/ RemoveTry(b) PROVE Stay
  <2>1. \E v : pc' = [pc EXCEPT ![b] = v]
    BY <1>10 DEF Verify, RemoveTry
  <2>2. QED
    BY <1>0, <1>10, <2>1
<1>11. ASSUME NEW b \in Removers, RemoveDispose(b) PROVE Stay
  <2>1. /\ at[b] \in Collections
        /\ pc' = [Ended(WaitersOf({at[b]}), "threw") EXCEPT ![b] = "done"]
    BY <1>11 DEF RemoveDispose, Places
  <2>2. WaitersOf({at[b]}) \intersect Removers = {}
    BY <1>0, <2>1 DEF WaitersOf
  <2>3. PICK cs : cs = WaitersOf({at[b]})
    OBVIOUS
  <2>4. \A r \in Removers : pc'[r] = pc[r] \/ r = b
    BY <1>0, <1>3, <2>1, <2>2, <2>3
  <2>5. QED
    BY <1>11, <2>4
<1>12. ASSUME NEW d \in Disposers, DisposeSweep(d) PROVE Stay
  <2>1. PICK k \in snapshot[d] : pc' = Ended(WaitersOf({k}), "threw")
    BY <1>12 DEF DisposeSweep
  <2>2. k \in Collections
    BY <2>1 DEF Types
  <2>3. WaitersOf({k}) \intersect Removers = {}
    BY <1>0, <2>2 DEF WaitersOf
  <2>4. QED
    BY <1>0, <2>1, <2>3 DEF Ended
<1>13. ASSUME NEW d \in Disposers, DisposeInfos(d) PROVE Stay
  <2>1. /\ d \in Calls /\ d \notin Removers
        /\ pc' = [Ended(ToSet(acceptQueue), "threw") EXCEPT ![d] = "listing"]
    BY <1>13, CallsDisjoint DEF DisposeInfos, Calls
  <2>2. ToSet(acceptQueue) \intersect Removers = {}
    BY <1>0, CallsDisjoint
  <2>3. PICK cs : cs = ToSet(acceptQueue)
    OBVIOUS
  <2>4. QED
    BY <1>0, <1>3, <2>1, <2>2, <2>3
<1>14. ASSUME NEW d \in Disposers, DisposeAsync(d), ~DisposeSweep(d), ~DisposeInfos(d) PROVE Stay
  <2>1. \E v : pc' = [pc EXCEPT ![d] = v]
    BY <1>14 DEF DisposeAsync, DisposeCheck, DisposeCancel, DisposeList, DisposeClear, DisposeEnd
  <2>2. QED
    BY <1>2, <2>1, CallsDisjoint
<1>15. CASE Start \/ (\E s \in Streams : RuntimeConnects(s) \/ ListenAccept(s) \/ Disconnect(s)) \/ UNCHANGED vars
  <2>1. UNCHANGED pc
    BY <1>15 DEF Start, RuntimeConnects, ListenAccept, Disconnect, vars
  <2>2. QED
    BY <1>1, <2>1
<1>16. QED
  BY <1>4, <1>5, <1>6, <1>7, <1>8, <1>9, <1>10, <1>11, <1>12, <1>13, <1>14, <1>15 DEF Next

-----------------------------------------------------------------------------
(* Who can get at a collection: the dictionary, or a RemoveConnection that *)
(* is about to dispose it.                                                 *)
Reachable(k) ==
    \/ \E c \in Cookies : dict[c] = k
    \/ \E r \in Removers : pc[r] = "removed" /\ at[r] = k

StoredIsOpen == \A k \in Collections : k \in shut => stored[k] = {}

UsedIsReachable ==
    /\ listener \in {"clear", "add"} => filing \in shut \/ Reachable(filing)
    /\ \A k \in Collections : stored[k] # {} => Reachable(k)
    /\ \A c \in Clients : pc[c] \in {"entering", "waiting"} /\ at[c] \in Streams =>
          at[c] \in shut \/ Reachable(at[c])

(* What DisposeAsync has to dispose: a stored stream, or a collection the  *)
(* listener made.                                                          *)
Holds(k) == k \in Collections /\ (stored[k] # {} \/ (k \in Streams /\ k \notin shut))

SweepIsComplete ==
    /\ \A d \in Disposers : pc[d] = "sweeping" => \A c \in Cookies : Holds(dict[c]) => dict[c] \in snapshot[d]
    /\ \A d \in Disposers : pc[d] = "ending" => \A c \in Cookies : ~Holds(dict[c])
    /\ disposed => \A c \in Cookies : ~Holds(dict[c])

InOrder ==
    /\ \A d \in Disposers : pc[d] \in {"listing", "sweeping", "ending"} => infosShut
    /\ disposed => infosShut /\ Quiet

LEMMA StoredIsOpenStep ==
  ASSUME Types, Places, StoredIsOpen, [Next]_vars
  PROVE  StoredIsOpen'
<1> SUFFICES ASSUME NEW k \in Collections, k \in shut' PROVE stored'[k] = {}
  BY DEF StoredIsOpen
<1>1. CASE k \in shut
  <2>1. stored[k] = {} /\ (ListenAdd => k # filing)
    BY <1>1 DEF StoredIsOpen, ListenAdd
  <2>2. QED
    BY <2>1, StreamsMoves DEF StreamsMove
<1>2. CASE k \notin shut
  BY <1>2, StreamsMoves DEF StreamsMove
<1>3. QED
  BY <1>1, <1>2

LEMMA ReachableStays ==
  ASSUME Types, Types', Places, QueueTypes, [Next]_vars, NEW k \in Collections, k \notin shut', Reachable(k)
  PROVE  \/ Reachable(k)'
         \/ (\E d \in Disposers : DisposeClear(d)) /\ \E c \in Cookies : dict[c] = k
<1>0. k # None
  BY NamesDisjoint DEF Collections
<1>1. ASSUME NEW c \in Cookies, dict[c] = k, ~\E d \in Disposers : DisposeClear(d) PROVE Reachable(k)'
  <2>1. CASE dict'[c] = k
    BY <2>1 DEF Reachable
  <2>2. ASSUME NEW r \in Removers, RemoveTry(r), c = CookieOf[r], dict'[c] = None PROVE Reachable(k)'
    <3>1. pc'[r] = "removed" /\ at'[r] = k
      BY <1>0, <1>1, <2>2, RemoveTryFacts
    <3>2. QED
      BY <3>1 DEF Reachable
  <2>3. QED
    BY <1>0, <1>1, <2>1, <2>2, DictionaryMoves DEF DictMoves
<1>2. ASSUME NEW r \in Removers, pc[r] = "removed", at[r] = k PROVE Reachable(k)'
  <2>1. ~RemoveDispose(r)
    BY <1>2 DEF RemoveDispose, DisposeCollections
  <2>2. ~Verify(r) /\ ~RemoveTry(r)
    BY <1>2 DEF Verify, RemoveTry
  <2>3. pc'[r] = "removed"
    BY <1>2, <2>1, <2>2, RemoversStay
  <2>4. at'[r] = at[r]
    BY <2>2, AtMoves, CallsDisjoint
  <2>5. QED
    BY <1>2, <2>3, <2>4 DEF Reachable
<1>3. QED
  BY <1>1, <1>2 DEF Reachable

LEMMA ReachableStep ==
  ASSUME Types, Types', Places, QueueTypes, StoredIsOpen, StoredIsOpen', Sweeps, SweepIsComplete,
         UsedIsReachable, [Next]_vars
  PROVE  UsedIsReachable'
<1>1. ASSUME NEW d \in Disposers, DisposeClear(d)
      PROVE  /\ Quiet /\ UNCHANGED <<listening, stored, shut, at>>
             /\ \A c \in Cookies : ~Holds(dict[c])
  BY <1>1 DEF DisposeClear, Sweeps, SweepIsComplete
<1>2. ASSUME listener' \in {"clear", "add"} PROVE filing' \in shut' \/ Reachable(filing)'
  <2>1. CASE ListenFile
    BY <2>1, ListenFileFacts DEF Reachable
  <2>2. CASE listener \in {"clear", "add"} /\ filing' = filing /\ filing \in shut
    BY <2>2, StreamsMoves DEF StreamsMove
  <2>3. CASE listener \in {"clear", "add"} /\ filing' = filing /\ Reachable(filing)
    <3>1. filing \in Collections /\ ~\E d \in Disposers : DisposeClear(d)
      BY <1>1, <2>3 DEF Quiet, Places
    <3>2. filing \in shut' \/ Reachable(filing)'
      <4>1. PICK k \in Collections : k = filing
        BY <3>1
      <4>2. k \in shut' \/ Reachable(k)'
        BY <2>3, <3>1, <4>1, ReachableStays
      <4>3. QED
        BY <2>3, <4>1, <4>2 DEF Reachable
    <3>3. QED
      BY <2>3, <3>2
  <2>4. QED
    BY <1>2, <2>1, <2>2, <2>3, FilingMoves DEF UsedIsReachable
<1>3. ASSUME NEW k \in Collections, stored'[k] # {} PROVE Reachable(k)'
  <2>1. k \notin shut'
    BY <1>3 DEF StoredIsOpen
  <2>2. Reachable(k)
    <3>1. stored[k] # {} \/ (listener = "add" /\ k = filing /\ filing \notin shut)
      BY <1>3, StreamsMoves DEF StreamsMove, ListenAdd
    <3>2. QED
      BY <3>1 DEF UsedIsReachable
  <2>3. ASSUME NEW d \in Disposers, DisposeClear(d) PROVE ~\E c \in Cookies : dict[c] = k
    BY <1>1, <1>3, <2>3 DEF Holds
  <2>4. QED
    BY <2>1, <2>2, <2>3, ReachableStays
<1>4. ASSUME NEW c \in Clients, pc'[c] \in {"entering", "waiting"}, at'[c] \in Streams
      PROVE  at'[c] \in shut' \/ Reachable(at[c])' \/ GetStreams(c)
  <2>1. CASE ~GetStreams(c)
    <3>1. c \notin Removers /\ c \notin Accepters /\ c \in Calls
      BY CallsDisjoint DEF Calls
    <3>2. pc[c] \in {"entering", "waiting"}
      BY <1>4, <2>1, <3>1, CallsMove DEF CallMoves, ConnectHandle
    <3>3. at'[c] = at[c]
      BY <2>1, <3>1, AtMoves
    <3>4. PICK k \in Collections : k = at[c] /\ k \in Streams
      BY <1>4, <3>3 DEF Collections
    <3>5. k \in shut \/ Reachable(k)
      BY <3>2, <3>4 DEF UsedIsReachable
    <3>6. k \in shut' \/ Reachable(k)'
      <4>1. CASE k \in shut
        BY <4>1, StreamsMoves DEF StreamsMove
      <4>2. CASE Reachable(k) /\ k \notin shut
        <5>1. ASSUME NEW d \in Disposers, DisposeClear(d) PROVE ~\E x \in Cookies : dict[x] = k
          BY <1>1, <3>4, <4>2, <5>1 DEF Holds
        <5>2. QED
          BY <4>2, <5>1, ReachableStays
      <4>3. QED
        BY <3>5, <4>1, <4>2
    <3>7. QED
      BY <3>3, <3>4, <3>6 DEF Reachable
  <2>2. QED
    BY <2>1
<1>5. ASSUME NEW c \in Clients, pc'[c] \in {"entering", "waiting"}, at'[c] \in Streams
      PROVE  at'[c] \in shut' \/ (\E x \in Cookies : dict'[x] = at'[c])
                              \/ \E r \in Removers : pc'[r] = "removed" /\ at'[r] = at'[c]
  <2>1. CASE GetStreams(c)
    <3>1. CookieOf[c] \in Cookies
      BY CookieOfType
    <3>2. QED
      BY <2>1, <3>1, GetStreamsFacts
  <2>2. CASE ~GetStreams(c)
    <3>1. at'[c] = at[c]
      BY <2>2, CallsDisjoint, AtMoves
    <3>2. QED
      BY <1>4, <1>5, <2>2, <3>1 DEF Reachable
  <2>3. QED
    BY <2>1, <2>2
<1>6. QED
  BY <1>2, <1>3, <1>5 DEF UsedIsReachable, Reachable

-----------------------------------------------------------------------------
(* Once the listener is done, a collection that DisposeAsync has to        *)
(* dispose was there before.                                               *)
LEMMA OldHolds ==
  ASSUME Types, Places, StreamHasOneOwner, FreshIsUnused, Quiet, [Next]_vars,
         NEW c \in Cookies, NEW k \in Collections, dict'[c] = k, Holds(k)'
  PROVE  dict[c] = k /\ Holds(k)
<1>1. listener \notin {"add", "file"}
  BY DEF Quiet
<1>2. stored'[k] \subseteq stored[k] /\ (k \in shut => k \in shut')
  BY <1>1, StreamsMoves DEF StreamsMove, ListenAdd
<1>3. Holds(k)
  BY <1>2 DEF Holds
<1>4. ASSUME dict[c] # k PROVE FALSE
  <2>1. Fresh(k) /\ k \notin Streams
    BY <1>1, <1>4, EnteringIsFresh DEF ListenFile
  <2>2. stored[k] = {}
    BY <2>1 DEF FreshIsUnused, Unused
  <2>3. QED
    BY <1>2, <2>1, <2>2 DEF Holds
<1>5. QED
  BY <1>3, <1>4

LEMMA SweepStep ==
  ASSUME Types, Types', Places, StreamHasOneOwner, FreshIsUnused, Sweeps, InOrder, SweepIsComplete, [Next]_vars
  PROVE  SweepIsComplete'
<1>1. ASSUME NEW d \in Disposers, pc'[d] = "sweeping", NEW c \in Cookies, NEW k \in Collections,
             dict'[c] = k, Holds(k)'
      PROVE  k \in snapshot'[d]
  <2>1. pc[d] = "sweeping" \/ (DisposeList(d) /\ pc[d] = "listing")
    BY <1>1, CallsMove DEF CallMoves, Calls, DisposeList
  <2>2. Quiet
    BY <2>1 DEF Sweeps
  <2>3. dict[c] = k /\ Holds(k)
    BY <1>1, <2>2, OldHolds
  <2>4. CASE pc[d] = "sweeping"
    <3>1. k \in snapshot[d]
      BY <2>3, <2>4 DEF SweepIsComplete
    <3>2. ~(k \in shut' /\ stored'[k] = {})
      BY <1>1 DEF Holds
    <3>3. QED
      BY <2>4, <3>1, <3>2, DisposalMoves DEF SnapshotMoves
  <2>5. CASE DisposeList(d)
    <3>1. snapshot' = [snapshot EXCEPT ![d] = {dict[x] : x \in Cookies} \ {None}]
      BY <2>5 DEF DisposeList
    <3>2. k # None
      BY NamesDisjoint DEF Collections
    <3>3. QED
      BY <2>3, <3>1, <3>2 DEF Types
  <2>6. QED
    BY <2>1, <2>4, <2>5
<1>2. ASSUME NEW d \in Disposers, pc'[d] = "ending", NEW c \in Cookies, NEW k \in Collections,
             dict'[c] = k, Holds(k)'
      PROVE  FALSE
  <2>1. pc[d] = "ending" \/ DisposeClear(d)
    BY <1>2, CallsMove DEF CallMoves, Calls
  <2>2. CASE pc[d] = "ending"
    <3>1. Quiet
      BY <2>2 DEF Sweeps
    <3>2. dict[c] = k /\ Holds(k)
      BY <1>2, <3>1, OldHolds
    <3>3. QED
      BY <2>2, <3>2 DEF SweepIsComplete
  <2>3. CASE DisposeClear(d)
    BY <1>2, <2>3, NamesDisjoint DEF DisposeClear, Collections
  <2>4. QED
    BY <2>1, <2>2, <2>3
<1>3. ASSUME disposed', NEW c \in Cookies, NEW k \in Collections, dict'[c] = k, Holds(k)'
      PROVE  FALSE
  <2>1. disposed \/ \E d \in Disposers : pc[d] = "ending"
    BY <1>3, DisposalMoves DEF DisposeEnd
  <2>2. Quiet
    BY <2>1 DEF Sweeps, InOrder
  <2>3. dict[c] = k /\ Holds(k)
    BY <1>3, <2>2, OldHolds
  <2>4. QED
    BY <2>1, <2>3 DEF SweepIsComplete
<1>4. \A c \in Cookies : Holds(dict[c])' => dict'[c] \in Collections
  BY DEF Holds
<1>5. \A c \in Cookies : \A k \in Collections : dict'[c] = k /\ Holds(dict[c])' => Holds(k)'
  BY DEF Holds
<1>6. QED
  BY <1>1, <1>2, <1>3, <1>4, <1>5 DEF SweepIsComplete

LEMMA InfosStayShut ==
  ASSUME infosShut, [Next]_vars
  PROVE  infosShut'
<1>1. ASSUME NEW c \in Clients, ConnectCancel(c) PROVE infosShut'
  BY <1>1 DEF ConnectCancel, accepting
<1>2. ASSUME NEW c \in Clients, Verify(c) \/ GetStreams(c) \/ ConnectHandle(c) PROVE infosShut'
  BY <1>2 DEF Verify, GetStreams, ConnectHandle, accepting
<1>3. ASSUME NEW a \in Accepters, Accept(a) \/ AcceptThrows(a) \/ AcceptCancel(a) PROVE infosShut'
  BY <1>3 DEF Accept, AcceptThrows, AcceptCancel, accepting
<1>4. ASSUME NEW r \in Removers, Verify(r) \/ RemoveTry(r) \/ RemoveDispose(r) PROVE infosShut'
  BY <1>4 DEF Verify, RemoveTry, RemoveDispose, accepting
<1>5. ASSUME NEW d \in Disposers, DisposeAsync(d) PROVE infosShut'
  BY <1>5 DEF DisposeAsync, DisposeCheck, DisposeCancel, DisposeInfos, DisposeList, DisposeSweep, DisposeClear,
     DisposeEnd, accepting
<1>6. CASE Listen
  BY <1>6 DEF Listen, ListenTop, ListenAcceptThrows, ListenParse, ListenParseThrows, ListenFile, ListenShut,
     ListenClear, ListenAdd, ListenAnnounce, accepting
<1>7. CASE Start \/ (\E s \in Streams : RuntimeConnects(s) \/ ListenAccept(s) \/ Disconnect(s)) \/ UNCHANGED vars
  BY <1>7 DEF Start, RuntimeConnects, ListenAccept, Disconnect, vars, accepting
<1>8. QED
  BY <1>1, <1>2, <1>3, <1>4, <1>5, <1>6, <1>7 DEF Next

LEMMA InOrderStep ==
  ASSUME Types, Sweeps, InOrder, [Next]_vars
  PROVE  InOrder'
<1>1. ASSUME NEW d \in Disposers, pc'[d] \in {"listing", "sweeping", "ending"} PROVE infosShut'
  <2>1. pc[d] = pc'[d] \/ DisposeInfos(d) \/ DisposeList(d) \/ DisposeClear(d)
    BY <1>1, CallsMove DEF CallMoves, Calls
  <2>2. DisposeInfos(d) \/ pc[d] \in {"listing", "sweeping", "ending"}
    BY <1>1, <2>1 DEF DisposeList, DisposeClear
  <2>3. QED
    BY <2>2, InfosStayShut DEF InOrder, DisposeInfos
<1>2. ASSUME disposed' PROVE infosShut' /\ Quiet'
  <2>1. disposed \/ \E d \in Disposers : pc[d] = "ending"
    BY <1>2, DisposalMoves DEF DisposeEnd
  <2>2. infosShut /\ Quiet
    BY <2>1 DEF InOrder, Sweeps
  <2>3. QED
    BY <2>2, InfosStayShut, QuietStays
<1>3. QED
  BY <1>1, <1>2 DEF InOrder

-----------------------------------------------------------------------------
WholeInv ==
    /\ ServerInv /\ RestTypes /\ QueueInv
    /\ StoredIsOpen /\ UsedIsReachable /\ SweepIsComplete /\ InOrder

LEMMA InitWhole ==
  ASSUME Init
  PROVE  WholeInv
<1>0. /\ \A c \in Clients : c \in Calls
      /\ \A a \in Accepters : a \in Calls
      /\ \A d \in Disposers : d \in Calls
      /\ <<>> \in Seq(Clients) /\ <<>> \in Seq(Accepters) /\ <<>> \in Seq(Cookies)
  BY DEF Calls
<1>1. RestTypes
  BY DEF Init, RestTypes
<1>2. QueueInv
  BY <1>0 DEF Init, QueueInv, QueueTypes, WaitersAreQueued, ShutIsQuiet
<1>3. StoredIsOpen /\ UsedIsReachable
  BY <1>0 DEF Init, StoredIsOpen, UsedIsReachable
<1>4. SweepIsComplete /\ InOrder
  BY <1>0 DEF Init, SweepIsComplete, InOrder
<1>5. QED
  BY <1>1, <1>2, <1>3, <1>4, InitServer DEF WholeInv

(* The queues, and what can still be reached or is still to be disposed:   *)
(* the invariant from which the theorems below follow.                     *)
THEOREM WholeAlways == Spec => []WholeInv
<1>1. Init => WholeInv
  BY InitWhole
<1>2. ASSUME WholeInv, ServerInv', [Next]_vars PROVE WholeInv'
  <2>1. /\ Types /\ Places /\ StreamHasOneOwner /\ FreshIsUnused /\ Sweeps /\ Types'
        /\ RestTypes /\ QueueInv /\ QueueTypes /\ StoredIsOpen /\ UsedIsReachable /\ SweepIsComplete /\ InOrder
    BY <1>2 DEF WholeInv, ServerInv, OwnersInv, QueueInv
  <2>2. RestTypes'
    BY <1>2, <2>1, RestStep
  <2>3. QueueInv'
    BY <1>2, <2>1, QueueStep
  <2>4. StoredIsOpen'
    BY <1>2, <2>1, StoredIsOpenStep
  <2>5. UsedIsReachable'
    BY <1>2, <2>1, <2>4, ReachableStep
  <2>6. SweepIsComplete'
    BY <1>2, <2>1, SweepStep
  <2>7. InOrder'
    BY <1>2, <2>1, InOrderStep
  <2>8. QED
    BY <1>2, <2>2, <2>3, <2>4, <2>5, <2>6, <2>7 DEF WholeInv
<1>3. QED
  BY <1>1, <1>2, ServerAlways, PTL DEF Spec

(* Every reachable state of the server is well typed.                      *)
THEOREM TypeCorrect == Spec => []TypeOK
<1>1. WholeInv => TypeOK
  <2> SUFFICES ASSUME WholeInv PROVE TypeOK
    OBVIOUS
  <2>1. /\ \A c \in Clients : pc[c] = "entering" => at[c] # None
        /\ \A r \in Removers : pc[r] = "removed" => at[r] # None
    BY NamesDisjoint DEF WholeInv, ServerInv, OwnersInv, Places, Collections
  <2>2. QED
    BY <2>1 DEF WholeInv, ServerInv, OwnersInv, Types, RestTypes, QueueInv, QueueTypes, TypeOK
<1>2. QED
  BY <1>1, WholeAlways, PTL

(* No stream is left in a collection that nobody can get at, however       *)
(* RemoveConnection and DisposeAsync race with the listener.               *)
THEOREM StoredAreReachable == Spec => []StoredStreamIsReachable
<1>1. WholeInv => StoredStreamIsReachable
  BY DEF WholeInv, StoredIsOpen, UsedIsReachable, Reachable, StoredStreamIsReachable
<1>2. QED
  BY <1>1, WholeAlways, PTL

(* When DisposeAsync is over the server holds no stream and nobody waits,  *)
(* but for what a RemoveConnection is about to dispose and for clients in  *)
(* a collection that a client made.                                        *)
THEOREM DisposedIsQuiet == Spec => []DisposedServerIsQuiet
<1>1. ASSUME WholeInv, disposed PROVE DisposedServerIsQuiet
  <2>1. /\ Types /\ StreamHasOneOwner /\ Quiet /\ infosShut
        /\ \A c \in Cookies : ~Holds(dict[c])
    BY <1>1 DEF WholeInv, ServerInv, OwnersInv, InOrder, SweepIsComplete
  <2>2. listener \in {"idle", "top", "ended"}
    BY <2>1 DEF Quiet
  <2>3. ASSUME NEW s \in Streams, where[s] \in {"listener", "stored"}
        PROVE  \E r \in Removers : pc[r] = "removed" /\ s \in stored[at[r]]
    <3>1. where[s] # "listener"
      BY <2>1, <2>2 DEF StreamHasOneOwner
    <3>2. PICK k \in Collections : s \in stored[k]
      BY <2>1, <2>3, <3>1 DEF StreamHasOneOwner
    <3>3. Reachable(k)
      BY <1>1, <3>2 DEF WholeInv, UsedIsReachable
    <3>4. Holds(k)
      BY <3>2 DEF Holds
    <3>5. QED
      BY <2>1, <3>2, <3>3, <3>4 DEF Reachable
  <2>4. ASSUME NEW a \in Accepters, pc[a] = "waiting" PROVE FALSE
    <3>1. acceptQueue = <<>> /\ a \in ToSet(acceptQueue)
      BY <1>1, <2>1, <2>4 DEF WholeInv, QueueInv, WaitersAreQueued, ShutIsQuiet
    <3>2. QED
      BY <3>1 DEF ToSet
  <2>5. ASSUME NEW c \in Clients, pc[c] = "waiting", at[c] \notin Clients
        PROVE  \E r \in Removers : pc[r] = "removed" /\ at[r] = at[c]
    <3>1. at[c] \in Collections /\ at[c] \in Streams /\ c \in ToSet(queue[at[c]])
      BY <1>1, <2>5 DEF WholeInv, QueueInv, WaitersAreQueued, Collections
    <3>2. at[c] \notin shut
      <4>1. queue[at[c]] # <<>>
        BY <3>1 DEF ToSet
      <4>2. QED
        BY <1>1, <3>1, <4>1 DEF WholeInv, QueueInv, ShutIsQuiet
    <3>3. Reachable(at[c]) /\ Holds(at[c])
      BY <1>1, <2>5, <3>1, <3>2 DEF WholeInv, UsedIsReachable, Holds
    <3>4. QED
      BY <2>1, <3>3 DEF Reachable
  <2>6. QED
    BY <2>2, <2>3, <2>4, <2>5 DEF DisposedServerIsQuiet
<1>2. WholeInv => DisposedServerIsQuiet
  BY <1>1 DEF DisposedServerIsQuiet
<1>3. QED
  BY <1>2, WholeAlways, PTL
=============================================================================
