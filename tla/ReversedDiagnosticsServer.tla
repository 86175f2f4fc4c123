----------------------- MODULE ReversedDiagnosticsServer -----------------------
(***************************************************************************)
(* ReversedDiagnosticsServer: runtimes connect to it and advertise their   *)
(* cookie; it keeps their streams by cookie for the clients that Connect,  *)
(* and announces each new runtime to the callers of Accept.                *)
(*                                                                         *)
(* One listener, any number of concurrent calls of Connect, WaitFor-       *)
(* Connection, Accept, RemoveConnection and DisposeAsync.  The collections *)
(* they meet at are HandleableCollections and appear here as the exchange  *)
(* of module ItemExchange, one step per operation.  A collection is named  *)
(* by whoever made it: the stream the listener filed, or the client call.  *)
(***************************************************************************)
EXTENDS Naturals, Sequences, SequencesExt

CONSTANTS
    Cookies,    \* the runtime instances
    Streams,    \* the connections they make
    Mute,       \* those streams on which no complete advertise is written
    Clients,    \* the calls of Connect and WaitForConnection
    Waits,      \* those of them that are WaitForConnection
    Accepters,  \* the calls of Accept
    Removers,   \* the calls of RemoveConnection
    Disposers,  \* the calls of DisposeAsync
    CookieOf,   \* the cookie of a stream, a client or a remover
    None

Collections == Streams \union Clients

ASSUME Kinds == Mute \subseteq Streams /\ Waits \subseteq Clients

ASSUME CookieOfType == CookieOf \in [Streams \union Clients \union Removers -> Cookies]

ASSUME NamesDisjoint ==
    /\ Streams \intersect Clients = {}
    /\ None \notin Streams \union Clients \union Cookies

ASSUME CallsDisjoint ==
    /\ Clients \intersect (Accepters \union Removers \union Disposers) = {}
    /\ Accepters \intersect (Removers \union Disposers) = {}
    /\ Removers \intersect Disposers = {}

VARIABLES
    dict,         \* _streamCollections
    stored,       \* the streams in each collection
    queue,        \* the clients whose handler is queued in each collection
    shut,         \* the collections that were disposed
    infos,        \* _endpointInfos: the cookies announced and not accepted
    acceptQueue,  \* the Accept calls that wait for an announcement
    infosShut,    \* _endpointInfos was disposed
    where,        \* where each stream is
    connected,    \* the streams whose runtime is still there
    listener,     \* where ListenAsync is
    current,      \* its stream
    filing,       \* the collection it files the stream in
    cancelled,    \* _disposalSource was cancelled
    sourceGone,   \* _disposalSource was disposed
    disposed,     \* _disposed
    pc,           \* where each call is
    at,           \* the collection a client or a remover works on
    snapshot,     \* the collections DisposeAsync has still to dispose
    latest,       \* history: the stream last filed for each cookie
    announced,    \* history: the collections that were announced
    known         \* history: the cookies a caller of Accept has learnt

collections == <<dict, stored, queue, shut>>
accepting   == <<infos, acceptQueue, infosShut>>
listening   == <<listener, current, filing>>
disposal    == <<cancelled, sourceGone, disposed, snapshot>>
history     == <<latest, announced, known>>
vars == <<collections, accepting, where, connected, listening, disposal, pc, at, history>>

Calls == Clients \union Accepters \union Removers \union Disposers

Init ==
    /\ dict = [c \in Cookies |-> None]
    /\ stored = [k \in Collections |-> {}]
    /\ queue = [k \in Collections |-> <<>>]
    /\ shut = {}
    /\ infos = <<>>
    /\ acceptQueue = <<>>
    /\ infosShut = FALSE
    /\ where = [s \in Streams |-> "runtime"]
    /\ connected = Streams
    /\ listener = "idle"
    /\ current = None
    /\ filing = None
    /\ cancelled = FALSE
    /\ sourceGone = FALSE
    /\ disposed = FALSE
    /\ pc = [c \in Calls |-> "ready"]
    /\ at = [c \in Clients \union Removers |-> None]
    /\ snapshot = [d \in Disposers |-> {}]
    /\ latest = [c \in Cookies |-> None]
    /\ announced = {}
    /\ known = {}

-----------------------------------------------------------------------------
(* The collections.                                                        *)

(* Streams and calls that share one fate. *)
Moved(ss, place) == [s \in Streams |-> IF s \in ss THEN place ELSE where[s]]
Ended(cs, how)   == [c \in Calls |-> IF c \in cs THEN how ELSE pc[c]]

(* HandleableCollection.Dispose of the collections ks: their streams are   *)
(* disposed and their waiting handlers throw.                              *)
DisposeCollections(ks) ==
    /\ shut' = shut \union ks
    /\ where' = Moved(UNION {stored[k] : k \in ks}, "closed")
    /\ stored' = [k \in Collections |-> IF k \in ks THEN {} ELSE stored[k]]
    /\ queue' = [k \in Collections |-> IF k \in ks THEN <<>> ELSE queue[k]]

WaitersOf(ks) == UNION {ToSet(queue[k]) : k \in ks}

-----------------------------------------------------------------------------
(* ListenAsync.                                                            *)

(* Or no transport could be made: the task has faulted, and Start throws. *)
Start ==
    /\ ~disposed
    /\ ~sourceGone
    /\ listener = "idle"
    /\ listener' \in {"top", "ended"}
    /\ UNCHANGED <<collections, accepting, where, connected, current, filing, disposal, pc, at, history>>

(* while (!token.IsCancellationRequested) *)
ListenTop ==
    /\ listener = "top"
    /\ listener' = IF cancelled THEN "ended" ELSE "accept"
    /\ current' = None
    /\ filing' = None
    /\ UNCHANGED <<collections, accepting, where, connected, disposal, pc, at, history>>

RuntimeConnects(s) ==
    /\ where[s] = "runtime"
    /\ listener # "idle"
    /\ where' = [where EXCEPT ![s] = "pending"]
    /\ UNCHANGED <<collections, accepting, connected, listening, disposal, pc, at, history>>

ListenAccept(s) ==
    /\ listener = "accept"
    /\ where[s] = "pending"
    /\ where' = [where EXCEPT ![s] = "listener"]
    /\ current' = s
    /\ listener' = "parse"
    /\ UNCHANGED <<collections, accepting, connected, filing, disposal, pc, at, history>>

(* AcceptAsync threw: it was cancelled, or the transport failed. *)
ListenAcceptThrows ==
    /\ listener = "accept"
    /\ listener' = "top"
    /\ UNCHANGED <<collections, accepting, where, connected, current, filing, disposal, pc, at, history>>

ListenParse ==
    /\ listener = "parse"
    /\ current \notin Mute
    /\ listener' = "file"
    /\ UNCHANGED <<collections, accepting, where, connected, current, filing, disposal, pc, at, history>>

\* Faulty variant: no timeout, parsing ends only with the server.
ListenParseThrowsOnCancel ==
    /\ listener = "parse"
    /\ cancelled
    /\ where' = [where EXCEPT ![current] = "closed"]
    /\ listener' = "top"
    /\ UNCHANGED <<collections, accepting, connected, current, filing, disposal, pc, at, history>>

(* The advertise was incomplete, came too late, or the server is disposed. *)
ListenParseThrows ==
    /\ listener = "parse"
    /\ where' = [where EXCEPT ![current] = "closed"]
    /\ listener' = "top"
    /\ UNCHANGED <<collections, accepting, connected, current, filing, disposal, pc, at, history>>

(* GetOrAdd(runtimeCookie, newStreamCollection) *)
ListenFile ==
    /\ listener = "file"
    /\ LET c == CookieOf[current]
       IN  /\ dict' = IF dict[c] = None THEN [dict EXCEPT ![c] = current] ELSE dict
           /\ filing' = dict'[c]
    /\ listener' = "clear"
    /\ UNCHANGED <<stored, queue, shut, accepting, where, connected, current, disposal, pc, at, history>>

(* ClearItems or Add found the collection disposed by RemoveConnection. *)
ListenShut ==
    /\ listener \in {"clear", "add"}
    /\ filing \in shut
    /\ where' = [where EXCEPT ![current] = "closed"]
    /\ listener' = "top"
    /\ UNCHANGED <<collections, accepting, connected, current, filing, disposal, pc, at, history>>

\* Faulty variant: the old stream is taken out of the list and not disposed.
ListenClearOnly ==
    /\ listener = "clear"
    /\ filing \notin shut
    /\ stored' = [stored EXCEPT ![filing] = {}]
    /\ listener' = "add"
    /\ UNCHANGED <<dict, queue, shut, accepting, where, connected, current, filing, disposal, pc, at, history>>

\* Faulty variant: the new stream is added to the old one.
ListenClearNothing ==
    /\ listener = "clear"
    /\ filing \notin shut
    /\ listener' = "add"
    /\ UNCHANGED <<collections, accepting, where, connected, current, filing, disposal, pc, at, history>>

ListenClear ==
    /\ listener = "clear"
    /\ filing \notin shut
    /\ where' = Moved(stored[filing], "closed")
    /\ stored' = [stored EXCEPT ![filing] = {}]
    /\ listener' = "add"
    /\ UNCHANGED <<dict, queue, shut, accepting, connected, current, filing, disposal, pc, at, history>>

(* Add offers the stream to the queued handlers.  A live one satisfies the *)
(* WaitForConnection calls up to the first Connect, which takes it; a dead *)
(* one is disposed by a WaitForConnection and not noticed by a Connect.    *)
(* Each of them tests it: it may die after the first n - 1.                *)
FirstConnect(q) ==
    {n \in 1..Len(q) : q[n] \notin Waits /\ \A i \in 1..(n - 1) : q[i] \in Waits}

\* Faulty variant: a WaitForConnection that is satisfied ends the search, and
\* the stream is not stored.
AddToQueueHandled ==
    LET q == queue[filing]
    IN  \/ /\ q # <<>> /\ current \in connected
           /\ pc' = [pc EXCEPT ![Head(q)] = "done"]
           /\ queue' = [queue EXCEPT ![filing] = Tail(q)]
           /\ where' = IF Head(q) \in Waits THEN where ELSE [where EXCEPT ![current] = "client"]
           /\ UNCHANGED stored
        \/ /\ q = <<>> \/ current \notin connected
           /\ where' = [where EXCEPT ![current] = "stored"]
           /\ stored' = [stored EXCEPT ![filing] = @ \union {current}]
           /\ UNCHANGED <<queue, pc>>

AddToQueue ==
    LET q == queue[filing]
    IN  \/ \E n \in 1..Len(q) :
              /\ \A i \in 1..n : q[i] \in Waits
              /\ current \in connected <=> n > 1
              /\ where' = [where EXCEPT ![current] = "closed"]
              /\ pc' = Ended(ToSet(SubSeq(q, 1, n - 1)), "done")
              /\ queue' = [queue EXCEPT ![filing] = SubSeq(q, n, Len(q))]
              /\ UNCHANGED stored
        \/ \E n \in FirstConnect(q) :
              /\ current \in connected \/ n = 1
              /\ \/ /\ where' = [where EXCEPT ![current] = "client"]
                    /\ pc' = [Ended(ToSet(SubSeq(q, 1, n - 1)), "done") EXCEPT ![q[n]] = "done"]
                 \/ /\ where' = [where EXCEPT ![current] = "lost"]
                    /\ pc' = [Ended(ToSet(SubSeq(q, 1, n - 1)), "done") EXCEPT ![q[n]] = "cancelled"]
              /\ queue' = [queue EXCEPT ![filing] = SubSeq(q, n + 1, Len(q))]
              /\ UNCHANGED stored
        \/ /\ FirstConnect(q) = {}
           /\ q = <<>> \/ current \in connected
           /\ where' = [where EXCEPT ![current] = "stored"]
           /\ stored' = [stored EXCEPT ![filing] = @ \union {current}]
           /\ pc' = Ended(ToSet(q), "done")
           /\ queue' = [queue EXCEPT ![filing] = <<>>]

\* Faulty variant: a runtime whose stream was taken at once is not announced.
ListenAddTaken ==
    /\ listener = "add"
    /\ filing \notin shut
    /\ AddToQueue
    /\ latest' = [latest EXCEPT ![CookieOf[current]] = current]
    /\ listener' = IF filing = current /\ where'[current] = "stored" THEN "announce" ELSE "top"
    /\ UNCHANGED <<dict, shut, accepting, connected, current, filing, disposal, at, announced, known>>

ListenAdd ==
    /\ listener = "add"
    /\ filing \notin shut
    /\ AddToQueue
    /\ latest' = [latest EXCEPT ![CookieOf[current]] = current]
    /\ listener' = IF filing = current THEN "announce" ELSE "top"
    /\ UNCHANGED <<dict, shut, accepting, connected, current, filing, disposal, at, announced, known>>

(* _endpointInfos.Add: the first waiting Accept gets it, unless it is lost *)
(* on a call cancelled at this moment.                                     *)
ListenAnnounce ==
    /\ listener = "announce"
    /\ ~infosShut
    /\ announced' = announced \union {current}
    /\ \/ /\ acceptQueue = <<>>
          /\ infos' = Append(infos, CookieOf[current])
          /\ UNCHANGED <<acceptQueue, pc, known>>
       \/ /\ acceptQueue # <<>>
          /\ acceptQueue' = Tail(acceptQueue)
          /\ \/ /\ pc' = [pc EXCEPT ![Head(acceptQueue)] = "done"]
                /\ known' = known \union {CookieOf[current]}
             \/ /\ pc' = [pc EXCEPT ![Head(acceptQueue)] = "cancelled"]
                /\ known' = known
          /\ UNCHANGED infos
    /\ listener' = "top"
    /\ UNCHANGED <<collections, infosShut, where, connected, current, filing, disposal, at, latest>>

Listen ==
    \/ ListenTop \/ ListenAcceptThrows \/ ListenParse \/ ListenParseThrows
    \/ ListenFile \/ ListenShut \/ ListenClear \/ ListenAdd \/ ListenAnnounce

-----------------------------------------------------------------------------
(* Accept and AcceptAsync.                                                 *)

VerifyStarted == ~disposed /\ listener # "idle"

AcceptThrows(a) ==
    /\ pc[a] = "ready"
    /\ listener # "idle"
    /\ disposed \/ infosShut
    /\ pc' = [pc EXCEPT ![a] = "threw"]
    /\ UNCHANGED <<collections, accepting, where, connected, listening, disposal, at, history>>

Accept(a) ==
    /\ pc[a] = "ready"
    /\ VerifyStarted
    /\ ~infosShut
    /\ \/ /\ infos = <<>>
          /\ acceptQueue' = Append(acceptQueue, a)
          /\ pc' = [pc EXCEPT ![a] = "waiting"]
          /\ UNCHANGED <<infos, known>>
       \/ /\ infos # <<>>
          /\ infos' = Tail(infos)
          /\ \/ /\ pc' = [pc EXCEPT ![a] = "done"]
                /\ known' = known \union {Head(infos)}
             \/ /\ pc' = [pc EXCEPT ![a] = "cancelled"]
                /\ known' = known
          /\ UNCHANGED acceptQueue
    /\ UNCHANGED <<collections, infosShut, where, connected, listening, disposal, at, latest, announced>>

AcceptCancel(a) ==
    /\ pc[a] = "waiting"
    /\ pc' = [pc EXCEPT ![a] = "cancelled"]
    /\ \E i \in 1..Len(acceptQueue) : acceptQueue[i] = a /\ acceptQueue' = RemoveAt(acceptQueue, i)
    /\ UNCHANGED <<collections, infos, infosShut, where, connected, listening, disposal, at, history>>

-----------------------------------------------------------------------------
(* Connect and WaitForConnection, through an endpoint got from Accept.     *)

(* VerifyNotDisposed and VerifyIsStarted, here and in RemoveConnection. *)
Verify(c) ==
    /\ pc[c] = "ready"
    /\ CookieOf[c] \in known
    /\ pc' = [pc EXCEPT ![c] = IF VerifyStarted THEN "verified" ELSE "threw"]
    /\ UNCHANGED <<collections, accepting, where, connected, listening, disposal, at, history>>

(* GetStreams: GetOrAdd(runtimeCookie, _ => new ...) *)
GetStreams(c) ==
    /\ pc[c] = "verified"
    /\ dict' = IF dict[CookieOf[c]] = None THEN [dict EXCEPT ![CookieOf[c]] = c] ELSE dict
    /\ at' = [at EXCEPT ![c] = dict'[CookieOf[c]]]
    /\ pc' = [pc EXCEPT ![c] = "entering"]
    /\ UNCHANGED <<stored, queue, shut, accepting, where, connected, listening, disposal, history>>

(* Handle: the client takes (or looks at) the stored stream, or waits. *)
ConnectHandle(c) ==
    /\ pc[c] = "entering"
    /\ LET k == at[c]
       IN  \/ /\ k \in shut
              /\ pc' = [pc EXCEPT ![c] = "threw"]
              /\ UNCHANGED <<stored, queue, where>>
           \/ /\ k \notin shut
              /\ c \notin Waits
              /\ \E s \in stored[k] :
                    /\ stored' = [stored EXCEPT ![k] = @ \ {s}]
                    /\ \/ /\ where' = [where EXCEPT ![s] = "client"]
                          /\ pc' = [pc EXCEPT ![c] = "done"]
                       \/ /\ where' = [where EXCEPT ![s] = "lost"]
                          /\ pc' = [pc EXCEPT ![c] = "cancelled"]
              /\ UNCHANGED queue
           \/ /\ k \notin shut
              /\ c \in Waits
              /\ stored[k] \intersect connected # {}
              /\ pc' = [pc EXCEPT ![c] = "done"]
              /\ UNCHANGED <<stored, queue, where>>
           \/ /\ k \notin shut
              /\ stored[k] = {} \/ (c \in Waits /\ stored[k] \intersect connected = {})
              /\ where' = Moved(stored[k], "closed")
              /\ stored' = [stored EXCEPT ![k] = {}]
              /\ queue' = [queue EXCEPT ![k] = Append(@, c)]
              /\ pc' = [pc EXCEPT ![c] = "waiting"]
    /\ UNCHANGED <<dict, shut, accepting, connected, listening, disposal, at, history>>

ConnectCancel(c) ==
    /\ pc[c] = "waiting"
    /\ pc' = [pc EXCEPT ![c] = "cancelled"]
    /\ \E i \in 1..Len(queue[at[c]]) :
          queue[at[c]][i] = c /\ queue' = [queue EXCEPT ![at[c]] = RemoveAt(@, i)]
    /\ UNCHANGED <<dict, stored, shut, accepting, where, connected, listening, disposal, at, history>>

-----------------------------------------------------------------------------
(* RemoveConnection: TryRemove, then Dispose of what it removed.           *)

\* Faulty variant: the collection is removed and not disposed.
RemoveTryOnly(r) ==
    /\ pc[r] = "verified"
    /\ dict' = [dict EXCEPT ![CookieOf[r]] = None]
    /\ pc' = [pc EXCEPT ![r] = "done"]
    /\ UNCHANGED <<stored, queue, shut, accepting, where, connected, listening, disposal, at, history>>

\* Faulty variant: what TryRemove answers is not looked at.
RemoveTryUnchecked(r) ==
    /\ pc[r] = "verified"
    /\ at' = [at EXCEPT ![r] = dict[CookieOf[r]]]
    /\ dict' = [dict EXCEPT ![CookieOf[r]] = None]
    /\ pc' = [pc EXCEPT ![r] = "removed"]
    /\ UNCHANGED <<stored, queue, shut, accepting, where, connected, listening, disposal, history>>

RemoveTry(r) ==
    /\ pc[r] = "verified"
    /\ at' = [at EXCEPT ![r] = dict[CookieOf[r]]]
    /\ dict' = [dict EXCEPT ![CookieOf[r]] = None]
    /\ pc' = [pc EXCEPT ![r] = IF dict[CookieOf[r]] = None THEN "done" ELSE "removed"]
    /\ UNCHANGED <<stored, queue, shut, accepting, where, connected, listening, disposal, history>>

RemoveDispose(r) ==
    /\ pc[r] = "removed"
    /\ DisposeCollections({at[r]})
    /\ pc' = [Ended(WaitersOf({at[r]}), "threw") EXCEPT ![r] = "done"]
    /\ UNCHANGED <<dict, accepting, connected, listening, disposal, at, history>>

-----------------------------------------------------------------------------
(* DisposeAsync.                                                           *)

DisposeCheck(d) ==
    /\ pc[d] = "ready"
    /\ pc' = [pc EXCEPT ![d] = IF disposed THEN "done" ELSE "cancelling"]
    /\ UNCHANGED <<collections, accepting, where, connected, listening, disposal, at, history>>

\* Faulty variant: the listener is awaited and not told to stop.
DisposeCancelNothing(d) ==
    /\ pc[d] = "cancelling"
    /\ pc' = [pc EXCEPT ![d] = "stopping"]
    /\ UNCHANGED <<collections, accepting, where, connected, listening, disposal, at, history>>

(* Cancel of a source that another DisposeAsync has disposed throws. *)
DisposeCancel(d) ==
    /\ pc[d] = "cancelling"
    /\ cancelled' = TRUE
    /\ pc' = [pc EXCEPT ![d] = IF sourceGone THEN "threw" ELSE "stopping"]
    /\ UNCHANGED <<collections, accepting, where, connected, listening, sourceGone, disposed, snapshot, at, history>>

\* Faulty variant: the listener is told to stop and not awaited.
DisposeInfosAtOnce(d) ==
    /\ pc[d] = "stopping"
    /\ infosShut' = TRUE
    /\ infos' = <<>>
    /\ acceptQueue' = <<>>
    /\ pc' = [Ended(ToSet(acceptQueue), "threw") EXCEPT ![d] = "listing"]
    /\ UNCHANGED <<collections, where, connected, listening, disposal, at, history>>

(* await _listenTask, if there is one; then _endpointInfos.Dispose(). *)
DisposeInfos(d) ==
    /\ pc[d] = "stopping"
    /\ listener \in {"idle", "ended"}
    /\ infosShut' = TRUE
    /\ infos' = <<>>
    /\ acceptQueue' = <<>>
    /\ pc' = [Ended(ToSet(acceptQueue), "threw") EXCEPT ![d] = "listing"]
    /\ UNCHANGED <<collections, where, connected, listening, disposal, at, history>>

(* _streamCollections.Values is a copy. *)
DisposeList(d) ==
    /\ pc[d] = "listing"
    /\ snapshot' = [snapshot EXCEPT ![d] = {dict[c] : c \in Cookies} \ {None}]
    /\ pc' = [pc EXCEPT ![d] = "sweeping"]
    /\ UNCHANGED <<collections, accepting, where, connected, listening, cancelled, sourceGone, disposed, at, history>>

DisposeSweep(d) ==
    /\ pc[d] = "sweeping"
    /\ \E k \in snapshot[d] :
          /\ DisposeCollections({k})
          /\ pc' = Ended(WaitersOf({k}), "threw")
          /\ snapshot' = [snapshot EXCEPT ![d] = @ \ {k}]
    /\ UNCHANGED <<dict, accepting, connected, listening, cancelled, sourceGone, disposed, at, history>>

DisposeClear(d) ==
    /\ pc[d] = "sweeping"
    /\ snapshot[d] = {}
    /\ dict' = [c \in Cookies |-> None]
    /\ sourceGone' = TRUE
    /\ pc' = [pc EXCEPT ![d] = "ending"]
    /\ UNCHANGED <<stored, queue, shut, accepting, where, connected, listening, cancelled, disposed, snapshot, at, history>>

DisposeEnd(d) ==
    /\ pc[d] = "ending"
    /\ disposed' = TRUE
    /\ pc' = [pc EXCEPT ![d] = "done"]
    /\ UNCHANGED <<collections, accepting, where, connected, listening, cancelled, sourceGone, snapshot, at, history>>

DisposeAsync(d) ==
    \/ DisposeCheck(d) \/ DisposeCancel(d) \/ DisposeInfos(d) \/ DisposeList(d)
    \/ DisposeSweep(d) \/ DisposeClear(d) \/ DisposeEnd(d)

-----------------------------------------------------------------------------
(* The runtime at the other end of a stream goes away. *)
Disconnect(s) ==
    /\ s \in connected
    /\ where[s] # "runtime"
    /\ connected' = connected \ {s}
    /\ UNCHANGED <<collections, accepting, where, listening, disposal, pc, at, history>>

Next ==
    \/ Start
    \/ Listen
    \/ \E s \in Streams : RuntimeConnects(s) \/ ListenAccept(s) \/ Disconnect(s)
    \/ \E a \in Accepters : Accept(a) \/ AcceptThrows(a) \/ AcceptCancel(a)
    \/ \E c \in Clients : Verify(c) \/ GetStreams(c) \/ ConnectHandle(c) \/ ConnectCancel(c)
    \/ \E r \in Removers : Verify(r) \/ RemoveTry(r) \/ RemoveDispose(r)
    \/ \E d \in Disposers : DisposeAsync(d)

Spec == Init /\ [][Next]_vars

(* What has begun goes on: the listener's task, a call past its checks, a  *)
(* DisposeAsync.  ListenParseThrows is the 250 ms timeout.  Weak fairness  *)
(* of a step, not of its success: AcceptAsync may keep throwing.           *)
Fairness ==
    /\ WF_vars(ListenTop \/ ListenFile \/ ListenShut \/ ListenClear \/ ListenAdd \/ ListenAnnounce)
    /\ WF_vars(ListenParse \/ ListenParseThrows)
    /\ WF_vars(cancelled /\ ListenAcceptThrows)
    /\ \A r \in Removers : WF_vars(RemoveTry(r) \/ RemoveDispose(r))
    /\ \A c \in Clients : WF_vars(GetStreams(c)) /\ WF_vars(ConnectHandle(c))
    /\ \A d \in Disposers : WF_vars(pc[d] # "ready" /\ DisposeAsync(d))

FairSpec == Spec /\ Fairness

-----------------------------------------------------------------------------
(* Properties.                                                             *)

(* Every variable keeps to the values its declaration names; in particular *)
(* a call past its look into the dictionary has a collection to work on.   *)
TypeOK ==
    /\ dict \in [Cookies -> Collections \union {None}]
    /\ stored \in [Collections -> SUBSET Streams]
    /\ \A k \in Collections : queue[k] \in Seq(Clients)
    /\ shut \subseteq Collections
    /\ infos \in Seq(Cookies)
    /\ acceptQueue \in Seq(Accepters)
    /\ {infosShut, cancelled, sourceGone, disposed} \subseteq BOOLEAN
    /\ where \in [Streams -> {"runtime", "pending", "listener", "stored", "client", "closed", "lost"}]
    /\ connected \subseteq Streams
    /\ listener \in {"idle", "top", "accept", "parse", "file", "clear", "add", "announce", "ended"}
    /\ current \in Streams \union {None}
    /\ filing \in Collections \union {None}
    /\ at \in [Clients \union Removers -> Collections \union {None}]
    /\ \A c \in Clients : pc[c] = "entering" => at[c] # None
    /\ \A r \in Removers : pc[r] = "removed" => at[r] # None
    /\ snapshot \in [Disposers -> SUBSET Collections]
    /\ announced \subseteq Streams
    /\ known \subseteq Cookies

(* A stream has one owner: it is in a collection exactly when nobody else  *)
(* has it, and it is never in two.                                         *)
StreamHasOneOwner ==
    /\ \A s \in Streams : where[s] = "stored" <=> \E k \in Collections : s \in stored[k]
    /\ \A j, k \in Collections : j # k => stored[j] \intersect stored[k] = {}
    /\ \A s \in Streams : where[s] = "listener" <=>
            current = s /\ listener \in {"parse", "file", "clear", "add"}

(* No stream is left where nobody can get or dispose it: its collection is *)
(* not disposed, and is in the dictionary or about to be disposed by the   *)
(* RemoveConnection that took it out.                                      *)
StoredStreamIsReachable ==
    \A k \in Collections : stored[k] # {} =>
        /\ k \notin shut
        /\ \/ \E c \in Cookies : dict[c] = k
           \/ \E r \in Removers : pc[r] = "removed" /\ at[r] = k

(* A runtime that reconnects replaces its stream: a collection of the      *)
(* dictionary holds no stream but the last one the runtime made.           *)
NewestStreamOnly ==
    \A c \in Cookies : dict[c] # None =>
        stored[dict[c]] \subseteq {latest[c]} \ {None}

(* The listener announces every runtime whose collection it made, before   *)
(* it turns to the next connection.                                        *)
TrackedRuntimeIsAnnounced ==
    \A c \in Cookies : dict[c] \in Streams =>
        \/ dict[c] \in announced
        \/ dict[c] = filing /\ listener \in {"clear", "add", "announce"}

(* When DisposeAsync is over, no stream is stored or with the listener, no *)
(* Accept waits, and a Connect that still waits does so in a collection it *)
(* or another client made behind the back of DisposeAsync.                 *)
DisposedServerIsQuiet ==
    disposed =>
        /\ listener \in {"idle", "top", "ended"}
        /\ \A s \in Streams : where[s] \notin {"listener", "stored"}
                \/ \E r \in Removers : pc[r] = "removed" /\ s \in stored[at[r]]
        /\ \A a \in Accepters : pc[a] # "waiting"
        /\ \A c \in Clients : pc[c] = "waiting" =>
                at[c] \in Clients \/ \E r \in Removers : pc[r] = "removed" /\ at[r] = at[c]

(* A runtime that connects and says nothing does not hold up the listener. *)
SilentRuntimeIsDropped ==
    \A s \in Streams : where[s] = "listener" ~> where[s] # "listener"

(* DisposeAsync ends.                                                      *)
DisposeAsyncEnds ==
    \A d \in Disposers : pc[d] = "cancelling" ~> pc[d] \in {"done", "threw"}

(* RemoveConnection's comment: the endpoint "is no longer tracked".  Only  *)
(* a runtime that connects brings a cookie into the dictionary.            *)
OnlyRuntimesAreTracked ==
    [][\A c \in Cookies : dict[c] = None /\ dict'[c] # None => dict'[c] \in Streams]_vars
=============================================================================
