------------------------ MODULE IpcServerTransportProofs ------------------------
(***************************************************************************)
(* Who owns a pipe instance of the transport, for any number of instances, *)
(* any limit and any failures.                                             *)
(***************************************************************************)
EXTENDS IpcServerTransport, TLAPS

-----------------------------------------------------------------------------
(* What a creation does to the pipes: the limit decides whether it happens, *)
(* not what it does.                                                        *)

Creates(s) ==
    /\ s \in Unused
    /\ stream' = s
    /\ state' = [state EXCEPT ![s] = "listening"]
    /\ created' = TRUE

LEMMA CreateSucceeds ==
  ASSUME NEW s \in Streams, CreateNewServer(s)
  PROVE  Creates(s)
  BY DEF CreateNewServer, Creates

LEMMA CreateKeeps ==
  ASSUME CreateFails
  PROVE  stream' = stream /\ state' = state /\ created' = FALSE
  BY DEF CreateFails

-----------------------------------------------------------------------------
(* Every reachable state is well typed.                                     *)
THEOREM TypeCorrect == Spec => []TypeOK
<1>1. Init => TypeOK
  BY DEF Init, TypeOK, StreamState
<1>2. TypeOK /\ [Next]_vars => TypeOK'
  <2> SUFFICES ASSUME TypeOK, [Next]_vars PROVE TypeOK'
    OBVIOUS
  <2> USE DEF TypeOK, StreamState
  <2>1. CASE AcceptCall \/ WaitForConnection \/ WaitThrows \/ Catch
    BY <2>1 DEF AcceptCall, WaitForConnection, WaitThrows, Catch, pipes, disposal
  <2>2. ASSUME NEW s \in Streams, ReplaceStream(s) \/ Recreate(s) PROVE TypeOK'
    BY <2>2, CreateSucceeds DEF ReplaceStream, Recreate, Creates, disposal
  <2>3. CASE ReplaceFails \/ RecreateFails
    BY <2>3, CreateKeeps DEF ReplaceFails, RecreateFails, disposal
  <2>4. CASE CallerCancels
    BY <2>4 DEF CallerCancels, pipes, disposal
  <2>5. CASE Dispose
    BY <2>5 DEF Dispose, DisposeCancel, DisposeStream, DisposeEnd, pipes
  <2>6. CASE Outside
    BY <2>6 DEF Outside, ClientConnects, ClientLeaves, OwnerCloses, disposal
  <2>7. CASE UNCHANGED vars
    BY <2>7 DEF vars, pipes, disposal
  <2>8. QED
    BY <2>1, <2>2, <2>3, <2>4, <2>5, <2>6, <2>7 DEF Next, AcceptAsync
<1>3. QED
  BY <1>1, <1>2, PTL DEF Spec

-----------------------------------------------------------------------------
(* Ownership. A returned connection has been served, so it neither listens *)
(* nor waits; while AcceptAsync holds a connection it has not returned,    *)
(* that is _stream, served or already closed by Dispose; and before it     *)
(* makes a new instance after an error the old one is closed.              *)
IInv ==
    /\ StreamHasOneOwner
    /\ \A s \in handed : state[s] \in {"served", "closed"}
    /\ accept = "connected" => state[stream] \in {"served", "closed"}
    /\ accept = "recreate" => state[stream] = "closed"

LEMMA IInvInit == Init => IInv
  BY DEF Init, IInv, StreamHasOneOwner, Open

LEMMA IInvStep == TypeOK /\ IInv /\ [Next]_vars => IInv'
<1> SUFFICES ASSUME TypeOK, IInv, [Next]_vars PROVE IInv'
  OBVIOUS
<1> USE DEF TypeOK, IInv, StreamHasOneOwner, Open
<1>1. CASE AcceptCall \/ WaitForConnection \/ WaitThrows \/ Catch
  BY <1>1 DEF AcceptCall, WaitForConnection, WaitThrows, Catch, pipes
<1>2. ASSUME NEW s \in Streams, ReplaceStream(s) PROVE IInv'
  BY <1>2, CreateSucceeds DEF ReplaceStream, Creates, Unused
<1>3. ASSUME NEW s \in Streams, Recreate(s) PROVE IInv'
  BY <1>3, CreateSucceeds DEF Recreate, Creates, Unused
<1>4. CASE ReplaceFails \/ RecreateFails
  BY <1>4, CreateKeeps DEF ReplaceFails, RecreateFails
<1>5. CASE CallerCancels
  BY <1>5 DEF CallerCancels, pipes
<1>6. CASE Dispose
  BY <1>6 DEF Dispose, DisposeCancel, DisposeStream, DisposeEnd, pipes
<1>7. CASE Outside
  BY <1>7 DEF Outside, ClientConnects, ClientLeaves, OwnerCloses
<1>8. CASE UNCHANGED vars
  BY <1>8 DEF vars, pipes
<1>9. QED
  BY <1>1, <1>2, <1>3, <1>4, <1>5, <1>6, <1>7, <1>8 DEF Next, AcceptAsync

(* Whatever fails and whenever Dispose comes, every open pipe instance is  *)
(* _stream or a connection that AcceptAsync returned, and never both; so a *)
(* client that connects finds the one instance the transport waits on.     *)
THEOREM OwnersAreUnique == Spec => [](StreamHasOneOwner /\ OneListener)
<1>1. IInv => StreamHasOneOwner
  BY DEF IInv
<1>2. TypeOK /\ IInv => OneListener
  BY DEF TypeOK, IInv, StreamHasOneOwner, OneListener, Open
<1>3. QED
  BY <1>1, <1>2, IInvInit, IInvStep, TypeCorrect, PTL DEF Spec

(* Whatever fails, AcceptAsync and Dispose never close a connection that   *)
(* AcceptAsync has returned.                                               *)
THEOREM ReturnedConnectionsAreLeftAlone == Spec => HandedStreamIsTheOwners
<1> DEFINE Same == \A s \in handed : s \in handed' => state'[s] = state[s]
<1>1. TypeOK /\ IInv /\ [Next]_vars => [Same]_vars
  <2> SUFFICES ASSUME TypeOK, IInv, Next, NEW s \in handed, s \in handed'
               PROVE  state'[s] = state[s]
    BY DEF vars
  <2> USE DEF TypeOK, IInv, StreamHasOneOwner
  <2>1. CASE AcceptCall \/ WaitForConnection \/ WaitThrows \/ Catch
    BY <2>1 DEF AcceptCall, WaitForConnection, WaitThrows, Catch, pipes
  <2>2. ASSUME NEW t \in Streams, ReplaceStream(t) \/ Recreate(t)
        PROVE  state'[s] = state[s]
    BY <2>2, CreateSucceeds DEF ReplaceStream, Recreate, Creates, Unused
  <2>3. CASE ReplaceFails \/ RecreateFails
    BY <2>3, CreateKeeps DEF ReplaceFails, RecreateFails
  <2>4. CASE CallerCancels
    BY <2>4 DEF CallerCancels, pipes
  <2>5. CASE Dispose
    BY <2>5 DEF Dispose, DisposeCancel, DisposeStream, DisposeEnd, pipes
  <2>6. CASE Outside
    BY <2>6 DEF Outside, ClientConnects, ClientLeaves, OwnerCloses
  <2>7. QED
    BY <2>1, <2>2, <2>3, <2>4, <2>5, <2>6 DEF Next, AcceptAsync
<1>2. QED
  BY <1>1, IInvInit, IInvStep, TypeCorrect, PTL DEF Spec, HandedStreamIsTheOwners

-----------------------------------------------------------------------------
(* Readiness. A pipe that has been served or closed is current only while  *)
(* AcceptAsync replaces it, when the last creation failed, or once Dispose *)
(* has begun; Dispose closes pipes only after it cancelled.                *)
RInv ==
    /\ dispose = "stream" => cancelled
    /\ ~cancelled /\ created /\ accept \in {"idle", "wait", "catch"}
            => state[stream] \in {"listening", "connected", "broken"}

LEMMA RInvStep == TypeOK /\ IInv /\ RInv /\ [Next]_vars => RInv'
<1> SUFFICES ASSUME TypeOK, IInv, RInv, [Next]_vars PROVE RInv'
  OBVIOUS
<1> USE DEF TypeOK, StreamState, IInv, StreamHasOneOwner, RInv
<1>1. CASE AcceptCall \/ WaitForConnection \/ WaitThrows \/ Catch
  BY <1>1 DEF AcceptCall, WaitForConnection, WaitThrows, Catch, pipes, disposal
<1>2. ASSUME NEW s \in Streams, ReplaceStream(s) \/ Recreate(s) PROVE RInv'
  BY <1>2, CreateSucceeds DEF ReplaceStream, Recreate, Creates, disposal
<1>3. CASE ReplaceFails \/ RecreateFails
  BY <1>3, CreateKeeps DEF ReplaceFails, RecreateFails, disposal
<1>4. CASE CallerCancels
  BY <1>4 DEF CallerCancels, pipes, disposal
<1>5. CASE Dispose
  BY <1>5 DEF Dispose, DisposeCancel, DisposeStream, DisposeEnd, pipes
<1>6. CASE Outside
  BY <1>6 DEF Outside, ClientConnects, ClientLeaves, OwnerCloses, disposal
<1>7. CASE UNCHANGED vars
  BY <1>7 DEF vars, pipes, disposal
<1>8. QED
  BY <1>1, <1>2, <1>3, <1>4, <1>5, <1>6, <1>7 DEF Next, AcceptAsync

(* Between two calls of AcceptAsync clients can connect, unless the system *)
(* refused to create the pipe or the transport is being disposed.          *)
THEOREM ReadyForClients == Spec => []ReadyBetweenAccepts
<1>1. Init => RInv
  BY DEF Init, RInv
<1>2. RInv => ReadyBetweenAccepts
  BY DEF RInv, ReadyBetweenAccepts
<1>3. QED
  BY <1>1, <1>2, IInvInit, IInvStep, RInvStep, TypeCorrect, PTL DEF Spec
=============================================================================
