---------------------- MODULE DiagnosticsServerRouterProofs ----------------------
(***************************************************************************)
(* Which stream belongs to whom in the router, for any number of tools,    *)
(* connections and runtimes.                                               *)
(***************************************************************************)
EXTENDS DiagnosticsServerRouter, SequenceTheorems, TLAPS

-----------------------------------------------------------------------------
(* Types.                                                                   *)

LEMMA DisposeType ==
  ASSUME TypeOK, NEW S, Dispose(S)
  PROVE  /\ front' \in [Ipcs -> {"away", "pending", "broken", "open"}]
         /\ back' \in [Tcps -> {"away", "pending", "open"}]
         /\ backOf' \in [Tcps -> Runtimes \union {None}]
         /\ alive' \subseteq Ipcs \union Tcps
  BY DEF TypeOK, Dispose

(* What an accept that ends without an answer does.                        *)
LEMMA TcpStops ==
  ASSUME TcpTimeout \/ TcpCancel
  PROVE  /\ tcpTask \in {"accept", "connect"}
         /\ tcpTask' \in {"backendTimeout", "runtimeTimeout", "canceled"}
         /\ tcpTask = "accept" => tcpTask' \in {"runtimeTimeout", "canceled"}
         /\ TcpLoses \/ UNCHANGED <<infos, back>>
         /\ UNCHANGED <<front, backOf, alive, up, tracked, endpoint, runner, token, routers,
                        create, cancelled, ipcTask, ipcStream, tcpStream, check, error>>
<1>1. CASE TcpTimeout
  <2>1. TcpLoses \/ UNCHANGED <<infos, back>>
    BY <1>1 DEF TcpTimeout
  <2>2. /\ tcpTask \in {"accept", "connect"}
        /\ tcpTask' \in {"backendTimeout", "runtimeTimeout", "canceled"}
        /\ tcpTask = "accept" => tcpTask' \in {"runtimeTimeout", "canceled"}
    BY <1>1 DEF TcpTimeout
  <2>3. QED
    BY <1>1, <2>1, <2>2 DEF TcpTimeout
<1>2. CASE TcpCancel
  BY <1>2 DEF TcpCancel
<1>3. QED
  BY <1>1, <1>2

(* The announcements the runtimes wait in.                                 *)
LEMMA InfosType ==
  ASSUME TypeOK, [Next]_vars
  PROVE  infos' \in Seq(Runtimes)
<1> USE DEF TypeOK
<1>1. CASE TcpAccept
  BY <1>1 DEF TcpAccept
<1>2. ASSUME NEW t \in Tcps, NEW r \in Runtimes, BackConnects(t, r)
      PROVE  infos' \in Seq(Runtimes)
  BY <1>2 DEF BackConnects
<1>3. CASE RunFailed
  BY <1>3 DEF RunFailed, Reset, server
<1>3a. CASE TcpTimeout \/ TcpCancel
  <2>1. infos \in Seq(Runtimes)
    OBVIOUS
  <2>2. infos' = infos \/ (infos # <<>> /\ infos' = Tail(infos))
    BY <1>3a, TcpStops DEF TcpLoses
  <2>3. QED
    BY <2>1, <2>2
<1>4. CASE \/ AcceptTcpStream \/ TcpTimeout \/ AcceptIpcStream \/ CheckThrows \/ CheckEnds
           \/ CreateRouter
  BY <1>1, <1>3a, <1>4 DEF AcceptTcpStream, TcpConnect, AcceptIpcStream, IpcAccept,
       IpcThrows, IpcCancel, CheckThrows, CheckEnds, CreateRouter, CreateBoth, CreateOne,
       CreateCancel, CreateAll, CreateFailingAll, server
<1>5. CASE Run \/ Cancel \/ \E i \in Ipcs : RouterCompletes(i)
  BY <1>3, <1>5 DEF Run, RunTop, RunSweep, RunRouterEnded, RunCreated, RunCancelled,
       RunFinally, Cancel, RouterCompletes, server
<1>6. CASE Outside
  BY <1>2, <1>6 DEF Outside, FrontConnects, FrontLeaves, BackBreaks, RuntimeStarts, RuntimeDies, server
<1>7. CASE UNCHANGED vars
  BY <1>7 DEF vars, server
<1>8. QED
  BY <1>4, <1>5, <1>6, <1>7 DEF Next

(* Where CreateRouterAsync is, and which of its two tasks have a result:   *)
(* what its branches were chosen by.                                       *)
Phases ==
    /\ create # "none" => runner \in {"sweep", "await"}
    /\ runner \in {"sweep", "await"} => create # "none"
    /\ create \in {"none", "built", "failed"} =>
            ipcTask # "run" /\ tcpTask \notin {"accept", "connect"}
    /\ create \in {"built", "ipcFirst", "ipcFirstAll"} => ipcTask = "ok"
    /\ create \in {"built", "tcpFirst", "tcpFirstAll"} => tcpTask = "ok"
    /\ ipcTask = "ok" => ipcStream # None
    /\ ipcTask # "ok" => ipcStream = None
    /\ tcpTask = "ok" => tcpStream # None
    /\ tcpTask # "ok" => tcpStream = None

LEMMA TypeStep ==
  ASSUME TypeOK, Phases, [Next]_vars
  PROVE  TypeOK'
<1>0. infos' \in Seq(Runtimes)
  BY InfosType
<1>1. CASE TcpAccept
  <2>1. Head(infos) \in Runtimes
    BY <1>1 DEF TcpAccept, TypeOK
  <2>2. QED
    BY <1>0, <1>1, <2>1 DEF TcpAccept, TypeOK, remotes, routers
<1>2. ASSUME NEW t \in Tcps, TcpConnect(t) PROVE TypeOK'
  BY <1>0, <1>2 DEF TcpConnect, TypeOK, server, routers
<1>3. CASE TcpTimeout \/ TcpCancel
  <2>1. back' \in [Tcps -> {"away", "pending", "open"}]
    BY <1>3, TcpStops DEF TcpLoses, TypeOK
  <2>2. QED
    BY <1>0, <1>3, <2>1, TcpStops DEF TypeOK, routers
<1>4. ASSUME NEW i \in Ipcs, IpcAccept(i) \/ IpcThrows(i) PROVE TypeOK'
  BY <1>0, <1>4, DisposeType DEF IpcAccept, IpcThrows, TypeOK, server, routers
<1>5. CASE IpcCancel \/ CheckThrows \/ CheckEnds
  BY <1>0, <1>5 DEF IpcCancel, CheckThrows, CheckEnds, TypeOK, remotes, server, routers
<1>6. CASE CreateOne
  <2>1. create' \in {"ipcFirst", "tcpFirst", "failing"}
    BY <1>6 DEF CreateOne
  <2>2. check' \in {"run", "none"}
    BY <1>6 DEF CreateOne
  <2>3. QED
    BY <1>0, <1>6, <2>1, <2>2 DEF CreateOne, TypeOK, remotes, server, routers
<1>6a. CASE CreateBoth
  BY <1>0, <1>6a DEF CreateBoth, TypeOK, remotes, server, routers
<1>6b. CASE CreateCancel
  BY <1>0, <1>6b DEF CreateCancel, TypeOK, remotes, server, routers
<1>7. CASE CreateAll \/ CreateFailingAll
  BY <1>0, <1>7, DisposeType DEF CreateAll, CreateFailingAll, TcpError, TypeOK, remotes, server, routers
<1>8. CASE RunTop
  BY <1>0, <1>8 DEF RunTop, TypeOK, remotes, server, routers
<1>8a. CASE RunRouterEnded \/ RunCancelled
  BY <1>0, <1>8a DEF RunRouterEnded, RunCancelled, TypeOK, remotes, server, routers, creating
<1>9. CASE RunSweep
  BY <1>0, <1>9, DisposeType DEF RunSweep, DisposeDead, TypeOK, server, creating
<1>9a. CASE RunFinally
  BY <1>0, <1>9a, DisposeType DEF RunFinally, TypeOK, server, creating
<1>10. CASE RunCreated
  BY <1>0, <1>10 DEF RunCreated, Phases, TypeOK, remotes, server
<1>11. CASE RunFailed
  BY <1>0, <1>11, DisposeType DEF RunFailed, Reset, TypeOK, remotes, server, routers
<1>12. CASE Cancel
  BY <1>0, <1>12 DEF Cancel, TypeOK, remotes, server, routers, creating
<1>13. ASSUME NEW i \in Ipcs, RouterCompletes(i) PROVE TypeOK'
  BY <1>0, <1>13 DEF RouterCompletes, TypeOK, remotes, server, creating
<1>14. ASSUME NEW i \in Ipcs, FrontConnects(i) \/ FrontLeaves(i) PROVE TypeOK'
  BY <1>0, <1>14 DEF FrontConnects, FrontLeaves, TypeOK, server, routers, creating
<1>15. ASSUME NEW r \in Runtimes, RuntimeStarts(r) \/ RuntimeDies(r) PROVE TypeOK'
  BY <1>0, <1>15 DEF RuntimeStarts, RuntimeDies, TypeOK, remotes, server, routers, creating
<1>15a. ASSUME NEW t \in Tcps, BackBreaks(t) PROVE TypeOK'
  BY <1>0, <1>15a DEF BackBreaks, TypeOK, server, routers, creating
<1>16. ASSUME NEW t \in Tcps, NEW r \in Runtimes, BackConnects(t, r) PROVE TypeOK'
  BY <1>0, <1>16 DEF BackConnects, TypeOK, routers, creating
<1>17. CASE UNCHANGED vars
  BY <1>17 DEF vars, TypeOK, remotes, server, routers, creating
<1>18. QED
  BY <1>1, <1>2, <1>3, <1>4, <1>5, <1>6, <1>6a, <1>6b, <1>7, <1>8, <1>8a, <1>9, <1>9a, <1>10, <1>11, <1>12, <1>13,
     <1>14, <1>15, <1>15a, <1>16, <1>17
       DEF Next, AcceptTcpStream, AcceptIpcStream, CreateRouter, Run, Outside

LEMMA PhasesStep ==
  ASSUME TypeOK, Phases, [Next]_vars
  PROVE  Phases'
<1> USE DEF TypeOK, Phases
<1>1. CASE TcpAccept
  BY <1>1 DEF TcpAccept
<1>2. ASSUME NEW t \in Tcps, TcpConnect(t) PROVE Phases'
  BY <1>2, NoneIsNothing DEF TcpConnect
<1>3. CASE TcpTimeout \/ TcpCancel
  BY <1>3, TcpStops
<1>5. ASSUME NEW i \in Ipcs, IpcAccept(i) PROVE Phases'
  BY <1>5, NoneIsNothing DEF IpcAccept
<1>6. ASSUME NEW i \in Ipcs, IpcThrows(i) PROVE Phases'
  BY <1>6 DEF IpcThrows
<1>7. CASE IpcCancel \/ CheckThrows \/ CheckEnds
  BY <1>7 DEF IpcCancel, CheckThrows, CheckEnds
<1>8. CASE CreateOne
  <2>1. /\ create' = "ipcFirst" => ipcTask = "ok"
        /\ create' = "tcpFirst" => tcpTask = "ok"
        /\ create' \in {"ipcFirst", "tcpFirst", "failing"}
    BY <1>8 DEF CreateOne
  <2>2. QED
    BY <1>8, <2>1 DEF CreateOne
<1>8a. CASE CreateBoth
  BY <1>8a DEF CreateBoth
<1>9. CASE CreateCancel
  BY <1>9 DEF CreateCancel
<1>10. CASE CreateAll
  BY <1>10 DEF CreateAll, IpcEnded, TcpEnded
<1>11. CASE CreateFailingAll
  BY <1>11 DEF CreateFailingAll, IpcEnded, TcpEnded
<1>12. CASE RunTop
  BY <1>12 DEF RunTop
<1>13. CASE RunSweep \/ RunRouterEnded \/ RunCreated \/ RunCancelled \/ RunFinally
  BY <1>13 DEF RunSweep, RunRouterEnded, RunCreated, RunCancelled, RunFinally, creating
<1>14. CASE RunFailed
  BY <1>14 DEF RunFailed
<1>15. CASE Cancel \/ \E i \in Ipcs : RouterCompletes(i)
  BY <1>15 DEF Cancel, RouterCompletes, creating
<1>16. CASE Outside
  BY <1>16 DEF Outside, FrontConnects, FrontLeaves, BackBreaks, RuntimeStarts, RuntimeDies, BackConnects, creating
<1>17. CASE UNCHANGED vars
  BY <1>17 DEF vars, creating
<1>18. QED
  BY <1>1, <1>2, <1>3, <1>5, <1>6, <1>7, <1>8, <1>8a, <1>9, <1>10, <1>11, <1>12, <1>13, <1>14,
     <1>15, <1>16, <1>17
     DEF Next, AcceptTcpStream, AcceptIpcStream, CreateRouter, Run

LEMMA InitTypes == Init => TypeOK /\ Phases
<1> SUFFICES ASSUME Init PROVE TypeOK /\ Phases
  OBVIOUS
<1>1. infos \in Seq(Runtimes)
  BY EmptySeq DEF Init
<1>2. token \in BOOLEAN /\ cancelled \in BOOLEAN
  BY DEF Init
<1>3. /\ front \in [Ipcs -> {"away", "pending", "broken", "open"}]
      /\ back \in [Tcps -> {"away", "pending", "open"}]
      /\ backOf \in [Tcps -> Runtimes \union {None}]
      /\ router \in [Ipcs -> {"none", "running", "completed"}]
      /\ tcpOf \in [Ipcs -> Tcps \union {None}]
  BY DEF Init
<1>4. QED
  BY <1>1, <1>2, <1>3 DEF Init, TypeOK, Phases

(* Every reachable state is well typed: a router is made only of two       *)
(* streams that were both accepted.                                        *)
THEOREM TypeCorrect == Spec => []TypeOK
<1>1. TypeOK /\ Phases /\ [Next]_vars => TypeOK' /\ Phases'
  BY TypeStep, PhasesStep
<1>2. QED
  BY <1>1, InitTypes, PTL DEF Spec

-----------------------------------------------------------------------------
(* Ownership. The streams a creation holds are open and no router's; once  *)
(* it has failed its IPC stream is not open any more.  The list holds just *)
(* the routers that have not been disposed, until the runner drops it.     *)
Held ==
    /\ create \notin {"none", "failed"} /\ ipcStream # None =>
            front[ipcStream] = "open" /\ router[ipcStream] = "none"
    /\ create \notin {"none", "failed"} /\ tcpStream # None =>
            /\ back[tcpStream] = "open"
            /\ \A i \in Ipcs : router[i] # "none" => tcpOf[i] # tcpStream
    /\ create = "failed" /\ ipcStream # None => front[ipcStream] # "open"

ListIsComplete ==
    \A i \in Ipcs :
        /\ i \in listed => router[i] # "none"
        /\ router[i] # "none" => i \in listed \/ runner = "stopped"

IInv == IpcStreamHasOneOwner /\ RouterKeepsItsStreams /\ Held /\ ListIsComplete

LEMMA IInvStep ==
  ASSUME TypeOK, Phases, IInv, [Next]_vars
  PROVE  IInv'
<1> USE NoneIsNothing, ConnectionsDistinct
    DEF TypeOK, Phases, IInv, IpcStreamHasOneOwner, RouterKeepsItsStreams, Held, ListIsComplete
<1>1. CASE TcpAccept
  BY <1>1 DEF TcpAccept, remotes, routers
<1>1a. CASE TcpTimeout \/ TcpCancel
  <2>1. \A t \in Tcps : back[t] = "open" => back'[t] = "open"
    BY <1>1a, TcpStops DEF TcpLoses
  <2>2. tcpStream = None
    BY <1>1a, TcpStops
  <2>3. QED
    BY <1>1a, <2>1, <2>2, TcpStops DEF routers
<1>2. ASSUME NEW t \in Tcps, TcpConnect(t) PROVE IInv'
  BY <1>2 DEF TcpConnect, routers
<1>3. ASSUME NEW i \in Ipcs, IpcAccept(i) PROVE IInv'
  BY <1>3 DEF IpcAccept, routers
<1>4. ASSUME NEW i \in Ipcs, IpcThrows(i) PROVE IInv'
  BY <1>4 DEF IpcThrows, Dispose, routers
<1>5. CASE IpcCancel \/ CheckThrows \/ CheckEnds
  BY <1>5 DEF IpcCancel, CheckThrows, CheckEnds, remotes, routers
<1>6. CASE CreateOne
  <2>1. create' \in {"ipcFirst", "tcpFirst", "failing"}
    BY <1>6 DEF CreateOne
  <2>2. QED
    BY <1>6, <2>1 DEF CreateOne, remotes, routers
<1>6a. CASE CreateBoth
  BY <1>6a DEF CreateBoth, remotes, routers
<1>7. CASE CreateCancel
  BY <1>7 DEF CreateCancel, remotes, routers
<1>8. CASE CreateAll
  BY <1>8 DEF CreateAll, Dispose, remotes, routers
<1>9. CASE CreateFailingAll
  BY <1>9 DEF CreateFailingAll, Dispose, routers
<1>10. CASE RunTop
  BY <1>10 DEF RunTop, remotes, routers
<1>11. CASE RunSweep
  BY <1>11 DEF RunSweep, DisposeDead, Dead, Dispose, creating
<1>12. CASE RunRouterEnded \/ RunCancelled
  BY <1>12 DEF RunRouterEnded, RunCancelled, remotes, creating, routers
<1>13. CASE RunCreated
  BY <1>13 DEF RunCreated, remotes
<1>14. CASE RunFailed
  BY <1>14 DEF RunFailed, Reset, Dispose, remotes, routers
<1>15. CASE RunFinally
  BY <1>15 DEF RunFinally, Dead, Pending, Dispose, creating
<1>16. CASE Cancel
  BY <1>16 DEF Cancel, remotes, creating, routers
<1>17. ASSUME NEW i \in Ipcs, RouterCompletes(i) PROVE IInv'
  BY <1>17 DEF RouterCompletes, remotes, creating
<1>18. ASSUME NEW i \in Ipcs, FrontConnects(i) \/ FrontLeaves(i) PROVE IInv'
  BY <1>18 DEF FrontConnects, FrontLeaves, creating, routers
<1>19. ASSUME NEW r \in Runtimes, RuntimeStarts(r) \/ RuntimeDies(r) PROVE IInv'
  BY <1>19 DEF RuntimeStarts, RuntimeDies, remotes, creating, routers
<1>19a. ASSUME NEW t \in Tcps, BackBreaks(t) PROVE IInv'
  BY <1>19a DEF BackBreaks, creating, routers
<1>20. ASSUME NEW t \in Tcps, NEW r \in Runtimes, BackConnects(t, r) PROVE IInv'
  BY <1>20 DEF BackConnects, creating, routers
<1>21. CASE UNCHANGED vars
  BY <1>21 DEF vars, remotes, creating, routers
<1>22. QED
  BY <1>1, <1>1a, <1>2, <1>3, <1>4, <1>5, <1>6, <1>6a, <1>7, <1>8, <1>9, <1>10, <1>11, <1>12, <1>13,
     <1>14, <1>15, <1>16, <1>17, <1>18, <1>19, <1>19a, <1>20, <1>21
     DEF Next, AcceptTcpStream, AcceptIpcStream, CreateRouter, Run, Outside

(* In every order of accepts, timeouts, cancellations, failures and        *)
(* shutdown, no accepted IPC stream is forgotten while the router runs,    *)
(* and nobody but its disposal closes a stream of a router.                *)
THEOREM StreamsAreOwned == Spec => []StreamsAreHeld
<1>1. Init => IInv
  BY DEF Init, IInv, IpcStreamHasOneOwner, RouterKeepsItsStreams, Held, ListIsComplete
<1>2. TypeOK /\ Phases /\ IInv /\ [Next]_vars => TypeOK' /\ Phases' /\ IInv'
  BY TypeStep, PhasesStep, IInvStep
<1>3. IInv => StreamsAreHeld
  BY DEF IInv, StreamsAreHeld
<1>4. QED
  BY <1>1, <1>2, <1>3, InitTypes, PTL DEF Spec

-----------------------------------------------------------------------------
(* Announcements. The factory asks for one only while it has no endpoint,  *)
(* so taking one never overwrites a runtime.                               *)
AcceptsWithoutEndpoint == tcpTask = "accept" => endpoint = None

LEMMA TakeFirst ==
  ASSUME NEW S, NEW s \in Seq(S), s # <<>>, NEW x \in ToSet(s)
  PROVE  x = Head(s) \/ x \in ToSet(Tail(s))
<1>1. PICK n \in DOMAIN s : s[n] = x
  BY DEF ToSet
<1>2. CASE n = 1
  BY <1>1, <1>2
<1>3. CASE n # 1
  <2>1. n - 1 \in DOMAIN Tail(s) /\ Tail(s)[n - 1] = x
    BY <1>1, <1>3
  <2>2. QED
    BY <2>1 DEF ToSet
<1>4. QED
  BY <1>2, <1>3

LEMMA AppendKeeps ==
  ASSUME NEW S, NEW s \in Seq(S), NEW r \in S
  PROVE  /\ r \in ToSet(Append(s, r))
         /\ \A x \in ToSet(s) : x \in ToSet(Append(s, r))
<1>1. Len(s) + 1 \in DOMAIN Append(s, r) /\ Append(s, r)[Len(s) + 1] = r
  OBVIOUS
<1>2. ASSUME NEW n \in DOMAIN s
      PROVE  n \in DOMAIN Append(s, r) /\ Append(s, r)[n] = s[n]
  OBVIOUS
<1>3. QED
  BY <1>1, <1>2 DEF ToSet

LEMMA AcceptsStep ==
  ASSUME Phases, AcceptsWithoutEndpoint, [Next]_vars
  PROVE  AcceptsWithoutEndpoint'
<1> USE DEF Phases, AcceptsWithoutEndpoint
<1>0. CASE TcpTimeout \/ TcpCancel
  BY <1>0, TcpStops
<1>1. CASE AcceptTcpStream \/ TcpTimeout
  BY <1>0, <1>1 DEF AcceptTcpStream, TcpAccept, TcpConnect, server
<1>3. CASE AcceptIpcStream \/ CheckThrows \/ CheckEnds
  BY <1>3 DEF AcceptIpcStream, IpcAccept, IpcThrows, IpcCancel, CheckThrows, CheckEnds, server
<1>4. CASE CreateRouter
  BY <1>4 DEF CreateRouter, CreateBoth, CreateOne, CreateCancel, CreateAll, CreateFailingAll, server
<1>5. CASE Run
  BY <1>5 DEF Run, RunTop, RunSweep, RunRouterEnded, RunCreated, RunFailed, Reset, RunCancelled,
       RunFinally, server, creating
<1>6. CASE Cancel \/ \E i \in Ipcs : RouterCompletes(i)
  BY <1>6 DEF Cancel, RouterCompletes, server, creating
<1>7. CASE Outside
  BY <1>7 DEF Outside, FrontConnects, FrontLeaves, BackBreaks, BackConnects, RuntimeStarts,
       RuntimeDies, server, creating
<1>8. CASE UNCHANGED vars
  BY <1>8 DEF vars, server, creating
<1>9. QED
  BY <1>1, <1>3, <1>4, <1>5, <1>6, <1>7, <1>8 DEF Next

(* What a step may do to one tracked runtime.                              *)
Kept(r) == Reachable(r) \/ r \notin tracked => Reachable(r)' \/ AcceptEndsOn(r)

LEMMA KeptStep ==
  ASSUME TypeOK, AcceptsWithoutEndpoint, Next, NEW r \in Runtimes, r \in tracked'
  PROVE  Kept(r)
<1> USE NoneIsNothing DEF Kept, Reachable
<1>1. infos \in Seq(Runtimes)
  BY DEF TypeOK
<1>2. CASE TcpAccept
  <2>1. infos # <<>> /\ infos' = Tail(infos) /\ endpoint' = Head(infos) /\ tracked' = tracked
    BY <1>2 DEF TcpAccept
  <2>2. endpoint # r
    BY <1>2 DEF TcpAccept, AcceptsWithoutEndpoint
  <2>3. r \in ToSet(infos) => r = Head(infos) \/ r \in ToSet(Tail(infos))
    BY <1>1, <2>1, TakeFirst
  <2>4. QED
    BY <2>1, <2>2, <2>3
<1>3. CASE TcpTimeout \/ TcpCancel
  <2>1. tracked' = tracked /\ endpoint' = endpoint
    BY <1>3, TcpStops
  <2>2. CASE infos' = infos
    BY <2>1, <2>2
  <2>3. CASE infos' # infos
    <3>1. tcpTask = "accept" /\ infos # <<>> /\ infos' = Tail(infos)
      BY <1>3, <2>3, TcpStops DEF TcpLoses
    <3>2. tcpTask' \in {"runtimeTimeout", "canceled"}
      BY <1>3, <3>1, TcpStops
    <3>3. r \in ToSet(infos) => r = Head(infos) \/ r \in ToSet(Tail(infos))
      BY <1>1, <3>1, TakeFirst
    <3>4. QED
      BY <2>1, <3>1, <3>2, <3>3 DEF AcceptEndsOn
  <2>4. QED
    BY <2>2, <2>3
<1>4. ASSUME NEW t \in Tcps, NEW s \in Runtimes, BackConnects(t, s) PROVE Kept(r)
  <2>1. /\ tracked' = tracked \union {s}
        /\ infos' = IF s \in tracked THEN infos ELSE Append(infos, s)
        /\ endpoint' = endpoint
    BY <1>4 DEF BackConnects
  <2>2. s \in ToSet(Append(infos, s)) /\ \A x \in ToSet(infos) : x \in ToSet(Append(infos, s))
    BY <1>1, AppendKeeps
  <2>3. QED
    BY <2>1, <2>2
<1>5. CASE RunFailed
  BY <1>5 DEF RunFailed, Reset, server
<1>6. CASE \E t \in Tcps : TcpConnect(t)
  BY <1>6 DEF TcpConnect, server
<1>7. CASE AcceptIpcStream \/ CheckThrows \/ CheckEnds
  BY <1>7 DEF AcceptIpcStream, IpcAccept, IpcThrows, IpcCancel, CheckThrows, CheckEnds, server
<1>8. CASE CreateRouter
  BY <1>8 DEF CreateRouter, CreateBoth, CreateOne, CreateCancel, CreateAll, CreateFailingAll, server
<1>9. CASE RunTop \/ RunSweep \/ RunRouterEnded \/ RunCreated \/ RunCancelled \/ RunFinally
  BY <1>9 DEF RunTop, RunSweep, RunRouterEnded, RunCreated, RunCancelled, RunFinally, server
<1>10. CASE Cancel \/ \E i \in Ipcs : RouterCompletes(i)
  BY <1>10 DEF Cancel, RouterCompletes, server
<1>11. ASSUME NEW i \in Ipcs, FrontConnects(i) \/ FrontLeaves(i) PROVE Kept(r)
  BY <1>11 DEF FrontConnects, FrontLeaves, server
<1>12. ASSUME NEW t \in Tcps, BackBreaks(t) PROVE Kept(r)
  BY <1>12 DEF BackBreaks, server
<1>13. ASSUME NEW s \in Runtimes, RuntimeStarts(s) \/ RuntimeDies(s) PROVE Kept(r)
  BY <1>13 DEF RuntimeStarts, RuntimeDies, server
<1>14. QED
  BY <1>2, <1>3, <1>4, <1>5, <1>6, <1>7, <1>8, <1>9, <1>10, <1>11, <1>12, <1>13
     DEF Next, AcceptTcpStream, Run, Outside

(* For any number of runtimes, however they come, end and time out: one    *)
(* that the server tracks stays the factory's endpoint or announced, but   *)
(* for the one an accept that timed out or was cancelled was to return.    *)
THEOREM RuntimesStayReachable == Spec => OnlyEndingAcceptsLoseRuntimes
<1>1. Init => AcceptsWithoutEndpoint
  BY DEF Init, AcceptsWithoutEndpoint
<1>2. TypeOK /\ Phases /\ [Next]_vars => TypeOK' /\ Phases'
  BY TypeStep, PhasesStep
<1>3. TypeOK /\ Phases /\ AcceptsWithoutEndpoint /\ [Next]_vars => AcceptsWithoutEndpoint'
  BY AcceptsStep
<1>4. ASSUME TypeOK, TypeOK', AcceptsWithoutEndpoint, [Next]_vars
      PROVE  [\A r \in tracked' :
                Reachable(r) \/ r \notin tracked => Reachable(r)' \/ AcceptEndsOn(r)]_vars
  <2>1. CASE Next
    <3>1. tracked' \subseteq Runtimes
      BY <1>4 DEF TypeOK
    <3>2. ASSUME NEW r \in tracked' PROVE Kept(r)
      BY <1>4, <2>1, <3>1, <3>2, KeptStep
    <3>3. QED
      BY <3>2 DEF Kept
  <2>2. QED
    BY <1>4, <2>1
<1>5. QED
  BY <1>1, <1>2, <1>3, <1>4, InitTypes, PTL DEF Spec, OnlyEndingAcceptsLoseRuntimes
=============================================================================
