--------------------------- MODULE IpcServerTransport ---------------------------
(***************************************************************************)
(* IpcWindowsNamedPipeServerTransport: the transport by which a server     *)
(* takes clients.  One caller asks for them in a loop with AcceptAsync,    *)
(* and Dispose comes at any time from another thread: ListenAsync          *)
(* registers it with the token that stops the server.  The two share       *)
(* _stream, the pipe that listens for the next client, without a lock.     *)
(***************************************************************************)
EXTENDS Naturals, FiniteSets

CONSTANTS
    Streams,       \* the pipe instances; a closed one stands for a new one
    MaxInstances,  \* _maxInstances, which the system enforces
    CreateMayFail  \* whether a creation may fail for another reason too

ASSUME InstanceLimit == MaxInstances \in Nat \ {0}

ASSUME CreateMayFailType == CreateMayFail \in BOOLEAN

VARIABLES
    stream,     \* _stream
    state,      \* the state of each pipe instance
    handed,     \* the connections AcceptAsync has returned, not yet closed
    cancelled,  \* _cancellation was cancelled
    disposed,   \* _disposed
    accept,     \* where AcceptAsync is
    caller,     \* the token of this AcceptAsync was cancelled
    dispose,    \* where Dispose is
    created     \* history: the last creation succeeded

pipes    == <<stream, state, handed>>
disposal == <<cancelled, disposed, dispose>>
vars == <<pipes, disposal, accept, caller, created>>

(* "connected": a client has come; "served": WaitForConnectionAsync told    *)
(* the server so; "broken": the client left before that.                    *)
StreamState == {"closed", "listening", "connected", "served", "broken"}

Open == {s \in Streams : state[s] # "closed"}
Unused == {s \in Streams : state[s] = "closed" /\ s # stream /\ s \notin handed}
Linked == caller \/ cancelled

Init ==
    /\ stream \in Streams
    /\ state = [s \in Streams |-> IF s = stream THEN "listening" ELSE "closed"]
    /\ handed = {}
    /\ cancelled = FALSE
    /\ disposed = FALSE
    /\ accept = "idle"
    /\ caller = FALSE
    /\ dispose = "ready"
    /\ created = TRUE

-----------------------------------------------------------------------------
(* CreateNewNamedPipeServer, and the assignment of what it returns.         *)

CreateNewServer(s) ==
    /\ s \in Unused
    /\ Cardinality(Open) < MaxInstances
    /\ stream' = s
    /\ state' = [state EXCEPT ![s] = "listening"]
    /\ created' = TRUE

CreateFails ==
    /\ CreateMayFail \/ Cardinality(Open) >= MaxInstances
    /\ created' = FALSE
    /\ UNCHANGED <<stream, state>>

-----------------------------------------------------------------------------
(* AcceptAsync.                                                             *)

(* Once disposed it throws, and changes nothing. *)
AcceptCall ==
    /\ ~disposed
    /\ accept = "idle"
    /\ accept' = "wait"
    /\ caller' = FALSE
    /\ UNCHANGED <<pipes, disposal, created>>

WaitForConnection ==
    /\ accept = "wait"
    /\ state[stream] = "connected"
    /\ ~Linked
    /\ state' = [state EXCEPT ![stream] = "served"]
    /\ accept' = "connected"
    /\ UNCHANGED <<stream, handed, disposal, caller, created>>

(* Faulty variant: catch (IOException), which misses a stream that was      *)
(* served or closed.                                                        *)
WaitThrowsIO ==
    /\ accept = "wait"
    /\ Linked \/ state[stream] \in {"broken", "closed", "served"}
    /\ accept' = IF state[stream] \in {"closed", "served"} THEN "idle" ELSE "catch"
    /\ UNCHANGED <<pipes, disposal, caller, created>>

(* A pipe that was served once cannot wait again. *)
WaitThrows ==
    /\ accept = "wait"
    /\ Linked \/ state[stream] \in {"broken", "closed", "served"}
    /\ accept' = "catch"
    /\ UNCHANGED <<pipes, disposal, caller, created>>

(* Faulty variant: the connection is returned and not replaced. *)
ReplaceStreamNot(s) ==
    /\ accept = "connected"
    /\ s = stream
    /\ handed' = handed \union {stream}
    /\ accept' = "idle"
    /\ UNCHANGED <<stream, state, disposal, caller, created>>

(* _stream is connectedStream until the assignment. *)
ReplaceStream(s) ==
    /\ accept = "connected"
    /\ CreateNewServer(s)
    /\ handed' = handed \union {stream}
    /\ accept' = "idle"
    /\ UNCHANGED <<disposal, caller>>

ReplaceFails ==
    /\ accept = "connected"
    /\ CreateFails
    /\ accept' = "catch"
    /\ UNCHANGED <<handed, disposal, caller>>

(* Faulty variant: the stream that failed is only forgotten. *)
CatchForgets ==
    /\ accept = "catch"
    /\ accept' = IF Linked THEN "idle" ELSE "recreate"
    /\ UNCHANGED <<pipes, disposal, caller, created>>

(* Faulty variant: the stream is closed and never made again. *)
CatchCloses ==
    /\ accept = "catch"
    /\ accept' = "idle"
    /\ state' = IF Linked THEN state ELSE [state EXCEPT ![stream] = "closed"]
    /\ UNCHANGED <<stream, handed, disposal, caller, created>>

(* if (!linkedSource.IsCancellationRequested) _stream.Dispose() *)
Catch ==
    /\ accept = "catch"
    /\ accept' = IF Linked THEN "idle" ELSE "recreate"
    /\ state' = IF Linked THEN state ELSE [state EXCEPT ![stream] = "closed"]
    /\ UNCHANGED <<stream, handed, disposal, caller, created>>

Recreate(s) ==
    /\ accept = "recreate"
    /\ CreateNewServer(s)
    /\ accept' = "idle"
    /\ UNCHANGED <<handed, disposal, caller>>

(* Faulty variant: _stream was set to null before it is made again. *)
RecreateFailsNull ==
    /\ accept = "recreate"
    /\ CreateMayFail
    /\ stream' = "null"
    /\ accept' = "idle"
    /\ UNCHANGED <<state, handed, disposal, caller, created>>

RecreateFails ==
    /\ accept = "recreate"
    /\ CreateFails
    /\ accept' = "idle"
    /\ UNCHANGED <<handed, disposal, caller>>

CallerCancels ==
    /\ accept # "idle"
    /\ ~caller
    /\ caller' = TRUE
    /\ UNCHANGED <<pipes, disposal, accept, created>>

AcceptAsync ==
    \/ AcceptCall
    \/ WaitForConnection
    \/ WaitThrows
    \/ \E s \in Streams : ReplaceStream(s) \/ Recreate(s)
    \/ ReplaceFails
    \/ Catch
    \/ RecreateFails

-----------------------------------------------------------------------------
(* Dispose.                                                                 *)

DisposeCancel ==
    /\ dispose = "ready"
    /\ cancelled' = TRUE
    /\ dispose' = "stream"
    /\ UNCHANGED <<pipes, disposed, accept, caller, created>>

DisposeStream ==
    /\ dispose = "stream"
    /\ state' = [state EXCEPT ![stream] = "closed"]
    /\ dispose' = "end"
    /\ UNCHANGED <<stream, handed, cancelled, disposed, accept, caller, created>>

(* Disposing _cancellation makes AcceptAsync throw just as _disposed does. *)
DisposeEnd ==
    /\ dispose = "end"
    /\ disposed' = TRUE
    /\ dispose' = "done"
    /\ UNCHANGED <<pipes, cancelled, accept, caller, created>>

Dispose == DisposeCancel \/ DisposeStream \/ DisposeEnd

-----------------------------------------------------------------------------
(* The clients, and the owners of accepted connections.                     *)

ClientConnects(s) ==
    /\ state[s] = "listening"
    /\ state' = [state EXCEPT ![s] = "connected"]
    /\ UNCHANGED <<stream, handed, disposal, accept, caller, created>>

ClientLeaves(s) ==
    /\ state[s] = "connected"
    /\ state' = [state EXCEPT ![s] = "broken"]
    /\ UNCHANGED <<stream, handed, disposal, accept, caller, created>>

OwnerCloses(s) ==
    /\ s \in handed
    /\ handed' = handed \ {s}
    /\ state' = [state EXCEPT ![s] = "closed"]
    /\ UNCHANGED <<stream, disposal, accept, caller, created>>

Outside == \E s \in Streams : ClientConnects(s) \/ ClientLeaves(s) \/ OwnerCloses(s)

Next == AcceptAsync \/ CallerCancels \/ Dispose \/ Outside

Spec == Init /\ [][Next]_vars

(* The caller's loop calls again, and what has begun goes on. *)
FairSpec == Spec /\ WF_vars(AcceptAsync) /\ WF_vars(DisposeStream \/ DisposeEnd)

-----------------------------------------------------------------------------
(* Properties.                                                              *)

(* Every variable keeps to the values its declaration names; in particular *)
(* _stream is assigned by the constructor and never null again.            *)
TypeOK ==
    /\ stream \in Streams
    /\ state \in [Streams -> StreamState]
    /\ handed \subseteq Streams
    /\ cancelled \in BOOLEAN
    /\ disposed \in BOOLEAN
    /\ accept \in {"idle", "wait", "connected", "catch", "recreate"}
    /\ caller \in BOOLEAN
    /\ dispose \in {"ready", "stream", "end", "done"}
    /\ created \in BOOLEAN

(* No pipe instance is forgotten while it is open: it is _stream, which    *)
(* Dispose or the next AcceptAsync closes, or a connection somebody was    *)
(* given; and it is not both.                                              *)
StreamHasOneOwner ==
    /\ Open \subseteq handed \union {stream}
    /\ stream \notin handed

(* A client that connects to the name finds one listening instance at most, *)
(* the one AcceptAsync waits on: no client hangs on a forgotten one.        *)
OneListener ==
    \A s \in Streams : state[s] \in {"listening", "connected", "broken"} => s = stream

(* Between two calls of AcceptAsync, clients can connect: the instance has *)
(* not been served or closed, unless the system refused to make one or the *)
(* transport is being disposed.                                            *)
ReadyBetweenAccepts ==
    accept = "idle" /\ ~cancelled /\ created => state[stream] \notin {"served", "closed"}

(* Neither Dispose nor the recovery after an error closes a connection     *)
(* that AcceptAsync has already returned: it stays its owner's.            *)
HandedStreamIsTheOwners ==
    [][\A s \in handed : s \in handed' => state'[s] = state[s]]_vars

(* Whatever has failed, a transport that is called again and again listens *)
(* again, unless it is being disposed, its caller keeps cancelling or the  *)
(* system keeps refusing to make a pipe.                                    *)
ListensAgain ==
    <>[]~caller /\ <>[][~(ReplaceFails \/ RecreateFails)]_vars
        => []<>(cancelled \/ state[stream] \in {"listening", "connected"})

(* What the comment in ListenAsync says of the Dispose it registers: the   *)
(* server stream is not recreated. A Dispose that comes after the client   *)
(* connected, or after the check for cancellation, closes the old stream   *)
(* and AcceptAsync then makes one that nobody closes.                      *)
DisposedTransportIsClosed ==
    disposed /\ accept = "idle" => \A s \in Streams : state[s] # "listening"


=============================================================================
