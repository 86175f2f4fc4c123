------------------------------ MODULE RouterCopy ------------------------------
(***************************************************************************)
(* One router at work: BackendReadFrontendWrite and FrontendReadBackendWrite *)
(* copy bytes between its two streams until an end leaves, and the runner  *)
(* then disposes it.  A loop is named by the end it reads.                 *)
(*                                                                         *)
(* DiagnosticsServerRouter has all of this as RouterCompletes and          *)
(* DisposeDead; here are the buffers, the partial writes and the steps of  *)
(* Dispose in between.                                                     *)
(***************************************************************************)
EXTENDS Naturals, Sequences

CONSTANTS
    Bytes,
    Zero,        \* the byte of a new buffer
    Text,        \* what each end would write, byte by byte
    BufferSize,  \* the length of a loop's buffer
    Window       \* the bytes a connection holds that its end has not taken

Ends == {"front", "back"}

Other(e) == IF e = "front" THEN "back" ELSE "front"

ASSUME TextIsBytes == Zero \in Bytes /\ Text \in [Ends -> Seq(Bytes)]

ASSUME SizesArePositive == BufferSize \in Nat \ {0} /\ Window \in Nat \ {0}

VARIABLES
    sent,       \* how many bytes of its text each end has written
    left,       \* the ends that have closed their connection, or whose connection broke
    got,        \* the bytes the router has written to each end
    taken,      \* how many of them the end has taken
    read,       \* how many bytes of each end its loop has read
    buffer,     \* buffer
    count,      \* bytesRead
    done,       \* how many of these WriteAsync has written
    loop,       \* where the loop is, or how it ended
    completed,  \* RouterTaskCompleted is set
    cancelled,  \* _cancelRouterTokenSource is cancelled
    closed,     \* the ends whose stream was disposed
    watched     \* the router is one of runningRouters, or was disposed from there

remotes == <<sent, left, taken>>
copying == <<got, read, buffer, count, done>>
vars == <<remotes, copying, loop, completed, cancelled, closed, watched>>

(* How a loop ends before the router is disposed.                          *)
Causes == {"eof", "readFailed", "writeFailed"}

Ended(e) == loop[e] \in Causes \union {"cancelled"}

Init ==
    /\ sent = [e \in Ends |-> 0]
    /\ left = {}
    /\ got = [e \in Ends |-> <<>>]
    /\ taken = [e \in Ends |-> 0]
    /\ read = [e \in Ends |-> 0]
    /\ buffer = [e \in Ends |-> [k \in 1..BufferSize |-> Zero]]
    /\ count = [e \in Ends |-> 0]
    /\ done = [e \in Ends |-> 0]
    /\ loop = [e \in Ends |-> "top"]
    /\ completed = FALSE
    /\ cancelled = FALSE
    /\ closed = {}
    /\ watched = TRUE

-----------------------------------------------------------------------------
(* The two ends: a tool and a runtime.                                     *)

Send(e) ==
    /\ e \notin left \union closed
    /\ sent[e] < Len(Text[e])
    /\ sent' = [sent EXCEPT ![e] = @ + 1]
    /\ UNCHANGED <<left, taken, copying, loop, completed, cancelled, closed, watched>>

Take(e) ==
    /\ e \notin left
    /\ taken[e] < Len(got[e])
    /\ taken' = [taken EXCEPT ![e] = Len(got[e])]
    /\ UNCHANGED <<sent, left, copying, loop, completed, cancelled, closed, watched>>

(* An end closes its connection, exits, or loses it: to the router these   *)
(* are the same, and so is whether it could write more.                    *)
Leave(e) ==
    /\ e \notin left
    /\ left' = left \union {e}
    /\ UNCHANGED <<sent, taken, copying, loop, completed, cancelled, closed, watched>>

-----------------------------------------------------------------------------
(* The loops.                                                              *)

Goto(e, place) ==
    /\ loop' = [loop EXCEPT ![e] = place]
    /\ UNCHANGED <<remotes, completed, cancelled, closed, watched>>

TestToken(e) ==
    /\ loop[e] = "top"
    /\ Goto(e, IF cancelled THEN "cancelled" ELSE "read")
    /\ UNCHANGED copying

(* ReadAsync returns some of the bytes that are there; the rest of the     *)
(* buffer keeps what an earlier read left in it.                           *)
Read(e) ==
    /\ loop[e] = "read"
    /\ e \notin closed
    /\ \E n \in 1..BufferSize :
         /\ read[e] + n <= sent[e]
         /\ buffer' = [buffer EXCEPT ![e] =
              [k \in 1..BufferSize |-> IF k <= n THEN Text[e][read[e] + k] ELSE @[k]]]
         /\ read' = [read EXCEPT ![e] = @ + n]
         /\ count' = [count EXCEPT ![e] = n]
    /\ done' = [done EXCEPT ![e] = 0]
    /\ Goto(e, "write")
    /\ UNCHANGED got

(* Faulty variant: the loop stops as soon as the end has disconnected.     *)
ReadEndAtOnce(e) ==
    /\ loop[e] = "read"
    /\ e \in left \ closed
    /\ Goto(e, "eof")
    /\ UNCHANGED copying

ReadEnd(e) ==
    /\ loop[e] = "read"
    /\ e \in left \ closed
    /\ read[e] = sent[e]
    /\ Goto(e, "eof")
    /\ UNCHANGED copying

(* The connection was reset, by its end or because it broke: what is       *)
(* unread is lost.                                                         *)
ReadFails(e) ==
    /\ loop[e] = "read"
    /\ e \in left
    /\ ~cancelled
    /\ Goto(e, "readFailed")
    /\ UNCHANGED copying

(* Faulty variant: the whole buffer is written, not the bytes just read.   *)
WriteBuffer(e) ==
    /\ loop[e] = "write"
    /\ Other(e) \notin closed
    /\ \E n \in 1..(BufferSize - done[e]) :
         /\ Len(got[Other(e)]) + n <= taken[Other(e)] + Window
         /\ got' = [got EXCEPT ![Other(e)] = @ \o SubSeq(buffer[e], done[e] + 1, done[e] + n)]
         /\ done' = [done EXCEPT ![e] = @ + n]
         /\ Goto(e, IF done[e] + n = BufferSize THEN "top" ELSE "write")
    /\ UNCHANGED <<read, buffer, count>>

(* WriteAsync writes as much as the connection has room for, and returns   *)
(* when all bytesRead bytes are written.                                   *)
Write(e) ==
    /\ loop[e] = "write"
    /\ Other(e) \notin closed
    /\ \E n \in 1..(count[e] - done[e]) :
         /\ Len(got[Other(e)]) + n <= taken[Other(e)] + Window
         /\ got' = [got EXCEPT ![Other(e)] = @ \o SubSeq(buffer[e], done[e] + 1, done[e] + n)]
         /\ done' = [done EXCEPT ![e] = @ + n]
         /\ Goto(e, IF done[e] + n = count[e] THEN "top" ELSE "write")
    /\ UNCHANGED <<read, buffer, count>>

WriteFails(e) ==
    /\ loop[e] = "write"
    /\ Other(e) \in left
    /\ ~cancelled
    /\ Goto(e, "writeFailed")
    /\ UNCHANGED copying

(* The token is cancelled, or the stream disposed, under a pending call:   *)
(* what was read and not yet written is lost.                              *)
Abort(e) ==
    /\ loop[e] \in {"read", "write"}
    /\ cancelled
    /\ Goto(e, "cancelled")
    /\ UNCHANGED copying

(* Faulty variant: only a loop that failed completes the router.           *)
CompleteFailed(e) ==
    /\ Ended(e)
    /\ loop[e] # "eof"
    /\ completed' = TRUE
    /\ UNCHANGED <<remotes, copying, loop, cancelled, closed, watched>>

(* RouterTaskCompleted?.TrySetResult(true)                                 *)
Complete(e) ==
    /\ Ended(e)
    /\ completed' = TRUE
    /\ UNCHANGED <<remotes, copying, loop, cancelled, closed, watched>>

CopyLoop(e) ==
    \/ TestToken(e) \/ Read(e) \/ ReadEnd(e) \/ ReadFails(e)
    \/ Write(e) \/ WriteFails(e) \/ Abort(e) \/ Complete(e)

-----------------------------------------------------------------------------
(* The runner.                                                             *)

(* IsRouterDead finds the router dead: Dispose calls Stop, which cancels   *)
(* the loops and does not wait for them.                                   *)
Stop ==
    /\ watched
    /\ completed
    /\ ~cancelled
    /\ cancelled' = TRUE
    /\ UNCHANGED <<remotes, copying, loop, completed, closed, watched>>

DisposeBack ==
    /\ cancelled
    /\ "back" \notin closed
    /\ closed' = closed \union {"back"}
    /\ UNCHANGED <<remotes, copying, loop, completed, cancelled, watched>>

DisposeFront ==
    /\ "back" \in closed
    /\ "front" \notin closed
    /\ closed' = closed \union {"front"}
    /\ UNCHANGED <<remotes, copying, loop, completed, cancelled, watched>>

Dispose == Stop \/ DisposeBack \/ DisposeFront

(* The runner stops: it disposes the dead routers and forgets the others.  *)
Forget ==
    /\ watched
    /\ ~completed
    /\ watched' = FALSE
    /\ UNCHANGED <<remotes, copying, loop, completed, cancelled, closed>>

Next ==
    \/ \E e \in Ends : Send(e) \/ Take(e) \/ Leave(e) \/ CopyLoop(e)
    \/ Dispose
    \/ Forget

Spec == Init /\ [][Next]_vars

(* The thread pool runs the loops and the runner whenever they can go on.  *)
FairSpec == Spec /\ (\A e \in Ends : WF_vars(CopyLoop(e))) /\ WF_vars(Dispose)

-----------------------------------------------------------------------------
(* Properties.                                                             *)

TypeOK ==
    /\ sent \in [Ends -> Nat] /\ \A e \in Ends : sent[e] <= Len(Text[e])
    /\ left \subseteq Ends
    /\ got \in [Ends -> Seq(Bytes)]
    /\ taken \in [Ends -> Nat]
    /\ read \in [Ends -> Nat]
    /\ buffer \in [Ends -> [1..BufferSize -> Bytes]]
    /\ count \in [Ends -> 0..BufferSize]
    /\ done \in [Ends -> 0..BufferSize]
    /\ loop \in [Ends -> Causes \union {"top", "read", "write", "cancelled"}]
    /\ completed \in BOOLEAN
    /\ cancelled \in BOOLEAN
    /\ closed \subseteq Ends
    /\ watched \in BOOLEAN

(* What reaches an end is a prefix of what the other end has written,      *)
(* whatever the sizes of reads and writes; nothing reaches an end whose    *)
(* stream was disposed; and the router closes a stream only after one of   *)
(* the two ends has left.                                                  *)
Channels == INSTANCE ByteChannels

ImplementsChannels == Channels!Spec

(* When a stream is closed, everything the other end has written has been  *)
(* written to it, unless this end had left itself, or a reset connection   *)
(* failed a read from the other end or a write to it. The last case is the *)
(* tool that sends its request and leaves without reading: the write of a  *)
(* runtime's byte to it fails first, and Dispose drops the request.        *)
LossHasACause ==
    \A e \in Ends :
        Other(e) \in closed /\ Len(got[Other(e)]) < sent[e] =>
            \/ Other(e) \in left
            \/ loop[e] = "readFailed"
            \/ loop[Other(e)] = "writeFailed"

EndsKeepTaking == \A e \in Ends : []<>(e \in left \/ taken[e] = Len(got[e]))

(* As long as the runner has the router and the ends take what they get,   *)
(* an end that leaves has the other one disconnected in the end: a loop    *)
(* that waits for a silent end is not waited for.                          *)
BothEndsAreClosed ==
    EndsKeepTaking /\ []watched => \A e \in Ends : [](e \in left => <>(Other(e) \in closed))
=============================================================================
