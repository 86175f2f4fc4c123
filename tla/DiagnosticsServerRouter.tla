------------------------- MODULE DiagnosticsServerRouter -------------------------
(***************************************************************************)
(* The diagnostics server router, IPC server to TCP server: tools connect  *)
(* to its pipe, a runtime connects to its TCP endpoint, and each router    *)
(* copies bytes between one stream of each.  runRouter makes the routers   *)
(* one after another with CreateRouterAsync, which waits for both streams  *)
(* at once, and disposes those that have ended.                            *)
(*                                                                         *)
(* The TCP side is a ReversedDiagnosticsServer: of it appear the runtimes  *)
(* it tracks, those it has announced and the stream each has waiting.  A   *)
(* router is named by its IPC stream.                                      *)
(***************************************************************************)
EXTENDS Naturals, SequencesExt

CONSTANTS
    Ipcs,          \* the connections of tools
    Tcps,          \* the connections of runtimes
    Runtimes,      \* the runtime instances
    AutoShutdown,  \* _auto_shutdown
    None

ASSUME AutoShutdownType == AutoShutdown \in BOOLEAN

ASSUME NoneIsNothing == None \notin Ipcs \union Tcps \union Runtimes

ASSUME ConnectionsDistinct == Ipcs \intersect Tcps = {}

VARIABLES
    front,      \* the state of each IPC connection
    back,       \* the state of each TCP connection
    backOf,     \* the runtime that made it
    alive,      \* the connections whose remote end is still there
    up,         \* the runtimes that run
    tracked,    \* the runtimes whose cookie _tcpServer holds
    infos,      \* the runtimes it has announced, not yet accepted
    endpoint,   \* _tcpServerEndpointInfo
    runner,     \* where runRouter is
    token,      \* its token was cancelled
    listed,     \* runningRouters
    create,     \* where CreateRouterAsync is
    cancelled,  \* cancelRouter was cancelled
    ipcTask,    \* ipcServerStreamTask
    ipcStream,  \* its result
    tcpTask,    \* tcpServerStreamTask
    tcpStream,  \* its result
    check,      \* checkIpcStreamTask or checkTcpStreamTask
    error,      \* what CreateRouterAsync threw
    router,     \* the state of the router of each IPC connection
    tcpOf       \* its backend stream

remotes  == <<front, back, backOf, alive>>
server   == <<tracked, infos, endpoint>>
creating == <<create, cancelled, ipcTask, ipcStream, tcpTask, tcpStream, check, error>>
routers  == <<listed, router, tcpOf>>
vars == <<remotes, up, server, runner, token, creating, routers>>

Linked == cancelled \/ token

Init ==
    /\ front = [i \in Ipcs |-> "away"]
    /\ back = [t \in Tcps |-> "away"]
    /\ backOf = [t \in Tcps |-> None]
    /\ alive = Ipcs \union Tcps
    /\ up = {}
    /\ tracked = {}
    /\ infos = <<>>
    /\ endpoint = None
    /\ runner = "top"
    /\ token = FALSE
    /\ listed = {}
    /\ create = "none"
    /\ cancelled = FALSE
    /\ ipcTask = "none"
    /\ ipcStream = None
    /\ tcpTask = "none"
    /\ tcpStream = None
    /\ check = "none"
    /\ error = "none"
    /\ router = [i \in Ipcs |-> "none"]
    /\ tcpOf = [i \in Ipcs |-> None]

(* Disposing our end of the connections in S; the remote sees them closed. *)
Dispose(S) ==
    /\ front' = [i \in Ipcs |-> IF i \in S THEN "away" ELSE front[i]]
    /\ back' = [t \in Tcps |-> IF t \in S THEN "away" ELSE back[t]]
    /\ backOf' = [t \in Tcps |-> IF t \in S THEN None ELSE backOf[t]]
    /\ alive' = alive \union (S \intersect (Ipcs \union Tcps))

-----------------------------------------------------------------------------
(* AcceptTcpStreamAsync.                                                    *)

TcpAccept ==
    /\ tcpTask = "accept"
    /\ infos # <<>>
    /\ ~Linked
    /\ endpoint' = Head(infos)
    /\ infos' = Tail(infos)
    /\ tcpTask' = "connect"
    /\ UNCHANGED <<remotes, up, tracked, runner, token, routers, create, cancelled,
                   ipcTask, ipcStream, tcpStream, check, error>>

TcpConnect(t) ==
    /\ tcpTask = "connect"
    /\ back[t] = "pending"
    /\ backOf[t] = endpoint
    /\ ~Linked
    /\ back' = [back EXCEPT ![t] = "open"]
    /\ tcpTask' = "ok"
    /\ tcpStream' = t
    /\ UNCHANGED <<front, backOf, alive, up, server, runner, token, routers, create,
                   cancelled, ipcTask, ipcStream, check, error>>

(* The token won against the result: a handler that found its task still   *)
(* waiting has taken the announcement or the stream, and nobody gets it.   *)
TcpLoses ==
    \/ /\ tcpTask = "accept"
       /\ infos # <<>>
       /\ infos' = Tail(infos)
       /\ UNCHANGED back
    \/ /\ tcpTask = "connect"
       /\ \E t \in Tcps :
            /\ back[t] = "pending"
            /\ backOf[t] = endpoint
            /\ back' = [back EXCEPT ![t] = "open"]
       /\ UNCHANGED infos

(* RuntimeTimeoutMs or TcpServerTimeoutMs has passed. *)
TcpTimeout ==
    /\ tcpTask \in {"accept", "connect"}
    /\ TcpLoses \/ UNCHANGED <<infos, back>>
    /\ tcpTask' = CASE tcpTask = "connect" -> "backendTimeout"
                    [] tcpTask = "accept" /\ AutoShutdown -> "runtimeTimeout"
                    [] OTHER -> "canceled"
    /\ UNCHANGED <<front, backOf, alive, up, tracked, endpoint, runner, token, routers, create, cancelled,
                   ipcTask, ipcStream, tcpStream, check, error>>

TcpCancel ==
    /\ tcpTask \in {"accept", "connect"}
    /\ Linked
    /\ TcpLoses \/ UNCHANGED <<infos, back>>
    /\ tcpTask' = "canceled"
    /\ UNCHANGED <<front, backOf, alive, up, tracked, endpoint, runner, token, routers, create, cancelled,
                   ipcTask, ipcStream, tcpStream, check, error>>

AcceptTcpStream == TcpAccept \/ (\E t \in Tcps : TcpConnect(t)) \/ TcpCancel

-----------------------------------------------------------------------------
(* AcceptIpcStreamAsync.                                                    *)

IpcAccept(i) ==
    /\ ipcTask = "run"
    /\ front[i] = "pending"
    /\ ~Linked
    /\ front' = [front EXCEPT ![i] = "open"]
    /\ ipcTask' = "ok"
    /\ ipcStream' = i
    /\ UNCHANGED <<back, backOf, alive, up, server, runner, token, routers, create,
                   cancelled, tcpTask, tcpStream, check, error>>

(* The tool left before it was served: WaitForConnectionAsync throws. *)
IpcThrows(i) ==
    /\ ipcTask = "run"
    /\ front[i] = "broken"
    /\ Dispose({i})
    /\ ipcTask' = "fault"
    /\ UNCHANGED <<up, server, runner, token, routers, create, cancelled,
                   ipcStream, tcpTask, tcpStream, check, error>>

IpcCancel ==
    /\ ipcTask = "run"
    /\ Linked
    /\ ipcTask' = "canceled"
    /\ UNCHANGED <<remotes, up, server, runner, token, routers, create, cancelled,
                   ipcStream, tcpTask, tcpStream, check, error>>

AcceptIpcStream == (\E i \in Ipcs : IpcAccept(i) \/ IpcThrows(i)) \/ IpcCancel

-----------------------------------------------------------------------------
(* IsStreamConnectedAsync, on the stream that came first.                   *)

CheckedStream == IF create \in {"ipcFirst", "ipcFirstAll"} THEN ipcStream ELSE tcpStream

CheckThrows ==
    /\ check = "run"
    /\ CheckedStream \notin alive
    /\ check' = "fault"
    /\ UNCHANGED <<remotes, up, server, runner, token, routers, create, cancelled,
                   ipcTask, ipcStream, tcpTask, tcpStream, error>>

CheckEnds ==
    /\ check = "run"
    /\ Linked
    /\ check' = "ok"
    /\ UNCHANGED <<remotes, up, server, runner, token, routers, create, cancelled,
                   ipcTask, ipcStream, tcpTask, tcpStream, error>>

-----------------------------------------------------------------------------
(* CreateRouterAsync.                                                       *)

IpcEnded == ipcTask \in {"ok", "fault", "canceled"}
TcpEnded == tcpTask \in {"ok", "backendTimeout", "runtimeTimeout", "canceled"}

(* Faulty variant: either stream is taken for both. *)
CreateBothEither ==
    /\ create = "any"
    /\ IpcEnded \/ TcpEnded
    /\ create' = IF ipcTask = "ok" \/ tcpTask = "ok" THEN "built" ELSE "one"
    /\ UNCHANGED <<remotes, up, server, runner, token, routers, cancelled, ipcTask,
                   ipcStream, tcpTask, tcpStream, check, error>>

(* The first WhenAny, and the test for both streams. *)
CreateBoth ==
    /\ create = "any"
    /\ IpcEnded \/ TcpEnded
    /\ create' = IF ipcTask = "ok" /\ tcpTask = "ok" THEN "built" ELSE "one"
    /\ UNCHANGED <<remotes, up, server, runner, token, routers, cancelled, ipcTask,
                   ipcStream, tcpTask, tcpStream, check, error>>

(* The tests for one of them; the other may have come since the first test. *)
CreateOne ==
    /\ create = "one"
    /\ create' = CASE ipcTask = "ok" -> "ipcFirst"
                   [] ipcTask # "ok" /\ tcpTask = "ok" -> "tcpFirst"
                   [] OTHER -> "failing"
    /\ check' = IF "ok" \in {ipcTask, tcpTask} THEN "run" ELSE "none"
    /\ UNCHANGED <<remotes, up, server, runner, token, routers, cancelled, ipcTask,
                   ipcStream, tcpTask, tcpStream, error>>

(* The second WhenAny, and cancelRouter.Cancel(). *)
CreateCancel ==
    /\ \/ create = "ipcFirst" /\ (TcpEnded \/ check # "run") /\ create' = "ipcFirstAll"
       \/ create = "tcpFirst" /\ (IpcEnded \/ check # "run") /\ create' = "tcpFirstAll"
       \/ create = "failing" /\ create' = "failingAll"
    /\ cancelled' = TRUE
    /\ UNCHANGED <<remotes, up, server, runner, token, routers, ipcTask, ipcStream,
                   tcpTask, tcpStream, check, error>>

(* The exception that WhenAll rethrows. *)
TcpError == IF tcpTask \in {"backendTimeout", "runtimeTimeout"} THEN tcpTask ELSE "other"

(* WhenAll, after one stream came first. *)
CreateAll ==
    /\ create \in {"ipcFirstAll", "tcpFirstAll"}
    /\ IpcEnded /\ TcpEnded /\ check # "run"
    /\ IF check = "ok" /\ ipcTask = "ok" /\ tcpTask = "ok"
       THEN /\ create' = "built"
            /\ UNCHANGED <<remotes, error>>
       ELSE /\ create' = "failed"
            /\ error' = IF check = "fault" THEN "other" ELSE TcpError
            /\ Dispose({ipcStream, tcpStream})
    /\ UNCHANGED <<up, server, runner, token, routers, cancelled, ipcTask, ipcStream,
                   tcpTask, tcpStream, check>>

(* Faulty variant: the error branch disposes the other stream. *)
CreateFailingAllTcp ==
    /\ create = "failingAll"
    /\ IpcEnded /\ TcpEnded
    /\ create' = "failed"
    /\ error' = IF ipcTask = "fault" THEN "other" ELSE TcpError
    /\ Dispose({tcpStream})
    /\ UNCHANGED <<up, server, runner, token, routers, cancelled, ipcTask, ipcStream,
                   tcpTask, tcpStream, check>>

(* WhenAll in the error branch: only the IPC stream is disposed. *)
CreateFailingAll ==
    /\ create = "failingAll"
    /\ IpcEnded /\ TcpEnded
    /\ create' = "failed"
    /\ error' = IF ipcTask = "fault" THEN "other" ELSE TcpError
    /\ Dispose({ipcStream})
    /\ UNCHANGED <<up, server, runner, token, routers, cancelled, ipcTask, ipcStream,
                   tcpTask, tcpStream, check>>

CreateRouter == CreateBoth \/ CreateOne \/ CreateCancel \/ CreateAll \/ CreateFailingAll

-----------------------------------------------------------------------------
(* runRouter.                                                               *)

(* runningRouters.RemoveAll(IsRouterDead) *)
Dead == {i \in listed : router[i] = "completed"}

DisposeDead ==
    /\ Dispose(Dead \union {tcpOf[i] : i \in Dead})
    /\ router' = [i \in Ipcs |-> IF i \in Dead THEN "none" ELSE router[i]]
    /\ tcpOf' = [i \in Ipcs |-> IF i \in Dead THEN None ELSE tcpOf[i]]

RunTop ==
    /\ runner = "top"
    /\ ~token
    /\ runner' = "sweep"
    /\ create' = "any"
    /\ cancelled' = FALSE
    /\ ipcTask' = "run"
    /\ ipcStream' = None
    /\ tcpTask' = IF endpoint = None THEN "accept" ELSE "connect"
    /\ tcpStream' = None
    /\ check' = "none"
    /\ error' = "none"
    /\ UNCHANGED <<remotes, up, server, token, routers>>

(* Faulty variant: dead routers leave the list and are not disposed. *)
RunSweepForgets ==
    /\ runner = "sweep"
    /\ listed' = listed \ Dead
    /\ runner' = "await"
    /\ UNCHANGED <<remotes, up, server, token, creating, router, tcpOf>>

(* Faulty variant: dead routers are disposed and stay in the list. *)
RunSweepKeeps ==
    /\ runner = "sweep"
    /\ DisposeDead
    /\ runner' = "await"
    /\ UNCHANGED <<up, server, token, creating, listed>>

RunSweep ==
    /\ runner = "sweep"
    /\ DisposeDead
    /\ listed' = listed \ Dead
    /\ runner' = "await"
    /\ UNCHANGED <<up, server, token, creating>>

RunRouterEnded ==
    /\ runner = "await"
    /\ Dead # {}
    /\ runner' = "sweep"
    /\ UNCHANGED <<remotes, up, server, token, creating, routers>>

RunCreated ==
    /\ runner = "await"
    /\ create = "built"
    /\ listed' = listed \union {ipcStream}
    /\ router' = [router EXCEPT ![ipcStream] = "running"]
    /\ tcpOf' = [tcpOf EXCEPT ![ipcStream] = tcpStream]
    /\ create' = "none"
    /\ runner' = "top"
    /\ UNCHANGED <<remotes, up, server, token, cancelled, ipcTask, ipcStream, tcpTask,
                   tcpStream, check, error>>

(* Faulty variant: the endpoint is forgotten and not removed from the server. *)
ResetEndpoint ==
    /\ endpoint' = None
    /\ UNCHANGED <<remotes, tracked, infos>>

(* TcpServerRouterFactory.Reset: the stream the endpoint had waiting goes. *)
Reset ==
    IF endpoint = None
    THEN UNCHANGED <<remotes, server>>
    ELSE /\ tracked' = tracked \ {endpoint}
         /\ Dispose({t \in Tcps : back[t] = "pending" /\ backOf[t] = endpoint})
         /\ endpoint' = None
         /\ UNCHANGED infos

(* Faulty variant: the loop goes on after a RuntimeTimeoutException. *)
RunFailedGoesOn ==
    /\ runner = "await"
    /\ create = "failed"
    /\ create' = "none"
    /\ IF error = "backendTimeout" /\ listed = {} THEN Reset ELSE UNCHANGED <<remotes, server>>
    /\ runner' = "top"
    /\ UNCHANGED <<up, token, routers, cancelled, ipcTask, ipcStream, tcpTask,
                   tcpStream, check, error>>

RunFailed ==
    /\ runner = "await"
    /\ create = "failed"
    /\ create' = "none"
    /\ IF error = "backendTimeout" /\ listed = {} THEN Reset ELSE UNCHANGED <<remotes, server>>
    /\ runner' = IF error = "runtimeTimeout" THEN "finally" ELSE "top"
    /\ UNCHANGED <<up, token, routers, cancelled, ipcTask, ipcStream, tcpTask,
                   tcpStream, check, error>>

RunCancelled ==
    /\ runner = "top"
    /\ token
    /\ runner' = "finally"
    /\ UNCHANGED <<remotes, up, server, token, creating, routers>>

Pending ==
    {i \in Ipcs : front[i] \in {"pending", "broken"}} \union {t \in Tcps : back[t] = "pending"}

(* The finally block: the routers that have not ended are dropped from the *)
(* list as they are, and both servers are stopped.                         *)
RunFinally ==
    /\ runner = "finally"
    /\ Dispose(Dead \union {tcpOf[i] : i \in Dead} \union Pending)
    /\ router' = [i \in Ipcs |-> IF i \in Dead THEN "none" ELSE router[i]]
    /\ tcpOf' = [i \in Ipcs |-> IF i \in Dead THEN None ELSE tcpOf[i]]
    /\ listed' = {}
    /\ runner' = "stopped"
    /\ UNCHANGED <<up, server, token, creating>>

Run == RunTop \/ RunSweep \/ RunRouterEnded \/ RunCreated \/ RunFailed \/ RunCancelled \/ RunFinally

Cancel ==
    /\ ~token
    /\ token' = TRUE
    /\ UNCHANGED <<remotes, up, server, runner, creating, routers>>

(* A copy loop of the router found the end of its stream. *)
RouterCompletes(i) ==
    /\ router[i] = "running"
    /\ ~({i, tcpOf[i]} \subseteq alive)
    /\ router' = [router EXCEPT ![i] = "completed"]
    /\ UNCHANGED <<remotes, up, server, runner, token, creating, listed, tcpOf>>

-----------------------------------------------------------------------------
(* The tools and the runtimes.                                              *)

FrontConnects(i) ==
    /\ runner # "stopped"
    /\ front[i] = "away"
    /\ front' = [front EXCEPT ![i] = "pending"]
    /\ UNCHANGED <<back, backOf, alive, up, server, runner, token, creating, routers>>

FrontLeaves(i) ==
    /\ front[i] \in {"pending", "open"}
    /\ i \in alive
    /\ alive' = alive \ {i}
    /\ front' = IF front[i] = "pending" THEN [front EXCEPT ![i] = "broken"] ELSE front
    /\ UNCHANGED <<back, backOf, up, server, runner, token, creating, routers>>

(* A connection breaks; the server does not look at those that wait. *)
BackBreaks(t) ==
    /\ back[t] \in {"pending", "open"}
    /\ t \in alive
    /\ alive' = alive \ {t}
    /\ UNCHANGED <<front, back, backOf, up, server, runner, token, creating, routers>>

(* A runtime connects again when its last connection was taken or broke:   *)
(* ListenAsync clears what it had waiting and announces it if it is new.   *)
BackConnects(t, r) ==
    LET old == {u \in Tcps : back[u] = "pending" /\ backOf[u] = r} IN
    /\ runner # "stopped"
    /\ r \in up
    /\ back[t] = "away"
    /\ old \intersect alive = {}
    /\ back' = [u \in Tcps |-> IF u = t THEN "pending" ELSE IF u \in old THEN "away" ELSE back[u]]
    /\ backOf' = [u \in Tcps |-> IF u = t THEN r ELSE IF u \in old THEN None ELSE backOf[u]]
    /\ alive' = alive \union old
    /\ tracked' = tracked \union {r}
    /\ infos' = IF r \in tracked THEN infos ELSE Append(infos, r)
    /\ UNCHANGED <<front, up, endpoint, runner, token, creating, routers>>

(* An instance has a cookie of its own: its name serves for another once   *)
(* nothing is left of it.                                                  *)
RuntimeStarts(r) ==
    /\ r \notin up
    /\ \A t \in Tcps : backOf[t] # r
    /\ r \notin tracked
    /\ up' = up \union {r}
    /\ UNCHANGED <<remotes, server, runner, token, creating, routers>>

(* The server keeps what a runtime that ends had waiting. *)
RuntimeDies(r) ==
    /\ r \in up
    /\ up' = up \ {r}
    /\ alive' = alive \ {t \in Tcps : backOf[t] = r}
    /\ UNCHANGED <<front, back, backOf, server, runner, token, creating, routers>>

Outside ==
    \/ \E i \in Ipcs : FrontConnects(i) \/ FrontLeaves(i)
    \/ \E t \in Tcps : BackBreaks(t)
    \/ \E r \in Runtimes : RuntimeStarts(r) \/ RuntimeDies(r) \/ \E t \in Tcps : BackConnects(t, r)

Next ==
    \/ AcceptTcpStream \/ TcpTimeout
    \/ AcceptIpcStream
    \/ CheckThrows \/ CheckEnds
    \/ CreateRouter
    \/ Run
    \/ Cancel
    \/ \E i \in Ipcs : RouterCompletes(i)
    \/ Outside

Spec == Init /\ [][Next]_vars

(* Every task that can go on does, every timer ends, every router reads on *)
(* and every check polls again.  What the tools and the runtimes do, and   *)
(* whether the token is cancelled, is up to them.                          *)
Fairness ==
    /\ WF_vars(AcceptTcpStream) /\ WF_vars(TcpTimeout)
    /\ WF_vars(AcceptIpcStream)
    /\ WF_vars(CheckThrows \/ CheckEnds)
    /\ WF_vars(CreateRouter)
    /\ WF_vars(Run)
    /\ \A i \in Ipcs : WF_vars(RouterCompletes(i))

FairSpec == Spec /\ Fairness

-----------------------------------------------------------------------------
(* Properties.                                                              *)

(* Every variable keeps to the values its declaration names; in particular *)
(* a router is made only of two streams that were both accepted.           *)
TypeOK ==
    /\ front \in [Ipcs -> {"away", "pending", "broken", "open"}]
    /\ back \in [Tcps -> {"away", "pending", "open"}]
    /\ backOf \in [Tcps -> Runtimes \union {None}]
    /\ alive \subseteq Ipcs \union Tcps
    /\ up \subseteq Runtimes
    /\ tracked \subseteq Runtimes
    /\ infos \in Seq(Runtimes)
    /\ endpoint \in Runtimes \union {None}
    /\ runner \in {"top", "sweep", "await", "finally", "stopped"}
    /\ token \in BOOLEAN
    /\ listed \subseteq Ipcs
    /\ create \in {"none", "any", "one", "ipcFirst", "tcpFirst", "failing", "ipcFirstAll",
                   "tcpFirstAll", "failingAll", "built", "failed"}
    /\ cancelled \in BOOLEAN
    /\ ipcTask \in {"none", "run", "ok", "fault", "canceled"}
    /\ ipcStream \in Ipcs \union {None}
    /\ tcpTask \in {"none", "accept", "connect", "ok", "backendTimeout", "runtimeTimeout",
                    "canceled"}
    /\ tcpStream \in Tcps \union {None}
    /\ check \in {"none", "run", "ok", "fault"}
    /\ error \in {"none", "other", "backendTimeout", "runtimeTimeout"}
    /\ router \in [Ipcs -> {"none", "running", "completed"}]
    /\ tcpOf \in [Ipcs -> Tcps \union {None}]

(* A tool's connection that was accepted is never forgotten while the      *)
(* router runs: it belongs to the creation under way or to a router in the *)
(* list, in every order of accepts, timeouts, cancellations and failures.  *)
IpcStreamHasOneOwner ==
    \A i \in Ipcs :
        front[i] = "open" => \/ i \in listed
                            \/ (create # "none" /\ ipcStream = i)
                            \/ runner = "stopped"

(* No creation that fails, no reset and no other router closes a stream of *)
(* a router that has not been disposed, and no two routers share one.      *)
RouterKeepsItsStreams ==
    \A i \in Ipcs :
        router[i] # "none" =>
            /\ front[i] = "open"
            /\ tcpOf[i] # None /\ back[tcpOf[i]] = "open"
            /\ \A j \in Ipcs \ {i} : router[j] # "none" => tcpOf[j] # tcpOf[i]

(* Every accepted IPC stream has its owner, and the streams of a router    *)
(* are closed with it only, whatever fails and in whatever order.  A TCP   *)
(* stream that no router has is not covered (FailedCreateHasCleanedUp).    *)
StreamsAreHeld == IpcStreamHasOneOwner /\ RouterKeepsItsStreams

(* A runtime the factory uses or is still to be given. *)
Reachable(r) == r = endpoint \/ r \in ToSet(infos)

(* The accept under way ends without an answer while r is the next one.    *)
AcceptEndsOn(r) ==
    /\ tcpTask = "accept"
    /\ tcpTask' \in {"runtimeTimeout", "canceled"}
    /\ infos # <<>>
    /\ r = Head(infos)

(* A runtime that the TCP server tracks, and so will not announce again,   *)
(* stays reachable through resets, failed creations and other runtimes;    *)
(* only an accept that times out or is cancelled may lose one, and no      *)
(* other than the next.                                                    *)
OnlyEndingAcceptsLoseRuntimes ==
    [][\A r \in tracked' :
        Reachable(r) \/ r \notin tracked => Reachable(r)' \/ AcceptEndsOn(r)]_vars

(* While the router runs, one whose copy loop has ended is disposed, and   *)
(* its two connections with it.                                            *)
DeadRouterIsDisposed ==
    \A i \in Ipcs : router[i] = "completed" ~> router[i] = "none" \/ runner = "stopped"

(* From some time on no tool gives up before it is answered. Without that  *)
(* each one that does makes a creation fail, and the next creation starts   *)
(* the timeout of the accept again: the router outlives its runtimes for    *)
(* as long as tools poll.                                                   *)
ToolsArePatient == <>[](Ipcs \subseteq alive)

(* A backend that has died is given up, so that another can be used: the   *)
(* timeout on its stream is reported although the tools keep connecting.   *)
DeadBackendIsReset ==
    ToolsArePatient =>
        \A r \in Runtimes : endpoint = r /\ r \notin up ~> endpoint # r \/ runner = "stopped"

(* With automatic shutdown the router does not outlive the last runtime,   *)
(* whatever streams and announcements of dead ones the server still has to *)
(* give out.                                                               *)
RouterEndsWithRuntimes ==
    ToolsArePatient /\ <>[](up = {}) => <>(runner = "stopped")

(* What the catch block of CreateRouterAsync says: a failed creation has   *)
(* cleaned up. A TCP stream that arrives after the IPC accept has failed   *)
(* and before cancelRouter is cancelled is disposed by nobody.             *)
FailedCreateHasCleanedUp ==
    create = "failed" /\ tcpStream # None => back[tcpStream] # "open"
=============================================================================
