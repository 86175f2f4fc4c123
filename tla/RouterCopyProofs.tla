--------------------------- MODULE RouterCopyProofs ---------------------------
(***************************************************************************)
(* What a router delivers and when it may lose bytes, for any texts, any   *)
(* buffer and any window.                                                  *)
(***************************************************************************)
EXTENDS RouterCopy, TLAPS

LEMMA TextLengths == \A e \in Ends : Text[e] \in Seq(Bytes) /\ Len(Text[e]) \in Nat
<1>1. \A e \in Ends : Text[e] \in Seq(Bytes)
  BY TextIsBytes
<1>2. QED
  BY <1>1

LEMMA Two == \A e \in Ends : Other(e) \in Ends /\ Other(e) # e /\ Other(Other(e)) = e
  BY DEF Ends, Other

(* A part of a sequence, byte by byte.                                      *)
LEMMA PartOfSeq ==
  ASSUME NEW S, NEW s \in Seq(S), NEW a \in Nat, NEW n \in Nat, a + n <= Len(s)
  PROVE  /\ SubSeq(s, a + 1, a + n) \in Seq(S)
         /\ Len(SubSeq(s, a + 1, a + n)) = n
         /\ \A k \in 1..n : SubSeq(s, a + 1, a + n)[k] = s[a + k]
  OBVIOUS

(* The same for a buffer, which is a sequence of fixed length.              *)
LEMMA PartOfBuffer ==
  ASSUME NEW b \in [1..BufferSize -> Bytes], NEW a \in Nat, NEW n \in Nat, a + n <= BufferSize
  PROVE  /\ SubSeq(b, a + 1, a + n) \in Seq(Bytes)
         /\ Len(SubSeq(b, a + 1, a + n)) = n
         /\ \A k \in 1..n : SubSeq(b, a + 1, a + n)[k] = b[a + k]
<1>1. b \in Seq(Bytes) /\ Len(b) = BufferSize
  BY SizesArePositive
<1>2. QED
  BY <1>1, PartOfSeq

LEMMA AppendPart ==
  ASSUME NEW g \in Seq(Bytes), NEW p \in Seq(Bytes), NEW e,
         \A k \in 1..Len(g) : g[k] = Text[e][k],
         \A k \in 1..Len(p) : p[k] = Text[e][Len(g) + k]
  PROVE  /\ Len(g \o p) = Len(g) + Len(p)
         /\ \A k \in 1..Len(g \o p) : (g \o p)[k] = Text[e][k]
<1>1. Len(g) \in Nat /\ Len(p) \in Nat /\ Len(g \o p) = Len(g) + Len(p)
  OBVIOUS
<1>2. ASSUME NEW k \in 1..Len(g \o p) PROVE (g \o p)[k] = Text[e][k]
  <2>1. CASE k <= Len(g)
    BY <1>1, <2>1
  <2>2. CASE k > Len(g)
    <3>1. k - Len(g) \in 1..Len(p) /\ (g \o p)[k] = p[k - Len(g)]
      BY <1>1, <2>2
    <3>2. Len(g) + (k - Len(g)) = k
      BY <1>1
    <3>3. QED
      BY <3>1, <3>2
  <2>3. QED
    BY <1>1, <2>1, <2>2
<1>3. QED
  BY <1>1, <1>2

-----------------------------------------------------------------------------
LEMMA TypeInit == Init => TypeOK
<1> SUFFICES ASSUME Init PROVE TypeOK
  OBVIOUS
<1>1. got \in [Ends -> Seq(Bytes)]
  BY DEF Init
<1>2. sent \in [Ends -> Nat] /\ \A e \in Ends : sent[e] <= Len(Text[e])
  BY TextLengths DEF Init
<1>3. buffer \in [Ends -> [1..BufferSize -> Bytes]]
  BY TextIsBytes DEF Init
<1>4. count \in [Ends -> 0..BufferSize] /\ done \in [Ends -> 0..BufferSize]
  BY SizesArePositive DEF Init
<1>5. /\ taken \in [Ends -> Nat] /\ read \in [Ends -> Nat]
      /\ loop \in [Ends -> Causes \union {"top", "read", "write", "cancelled"}]
      /\ left \subseteq Ends /\ closed \subseteq Ends
      /\ completed \in BOOLEAN /\ cancelled \in BOOLEAN /\ watched \in BOOLEAN
  BY DEF Init
<1>6. QED
  BY <1>1, <1>2, <1>3, <1>4, <1>5 DEF TypeOK

LEMMA TypeStep == TypeOK /\ [Next]_vars => TypeOK'
<1> SUFFICES ASSUME TypeOK, [Next]_vars PROVE TypeOK'
  OBVIOUS
<1> USE DEF TypeOK, Causes, remotes, copying
<1>1. ASSUME NEW e \in Ends, Send(e) \/ Take(e) \/ Leave(e) PROVE TypeOK'
  <2>1. CASE Send(e)
    <3>1. sent' \in [Ends -> Nat] /\ UNCHANGED <<left, copying, taken, loop, completed, cancelled, closed, watched>>
      BY <2>1 DEF Send
    <3>2. ASSUME NEW f \in Ends PROVE sent'[f] <= Len(Text[f])
      BY <2>1, TextLengths DEF Send
    <3>3. QED
      BY <3>1, <3>2
  <2>2. CASE Take(e)
    BY <2>2 DEF Take
  <2>3. CASE Leave(e)
    BY <2>3 DEF Leave
  <2>4. QED
    BY <1>1, <2>1, <2>2, <2>3
<1>2. ASSUME NEW e \in Ends, Read(e) PROVE TypeOK'
  <2>1. PICK n \in 1..BufferSize :
          /\ read[e] + n <= sent[e]
          /\ buffer' = [buffer EXCEPT ![e] =
               [k \in 1..BufferSize |-> IF k <= n THEN Text[e][read[e] + k] ELSE @[k]]]
          /\ read' = [read EXCEPT ![e] = @ + n]
          /\ count' = [count EXCEPT ![e] = n]
    BY <1>2 DEF Read
  <2>2. read' \in [Ends -> Nat] /\ count' \in [Ends -> 0..BufferSize] /\ done' \in [Ends -> 0..BufferSize]
    BY <1>2, <2>1, SizesArePositive DEF Read
  <2>3. \A k \in 1..n : Text[e][read[e] + k] \in Bytes
    <3>1. Text[e] \in Seq(Bytes) /\ sent[e] <= Len(Text[e]) /\ read[e] \in Nat
      BY TextIsBytes
    <3>2. \A k \in 1..n : read[e] + k \in 1..Len(Text[e])
      BY <2>1, <3>1, SizesArePositive
    <3>3. QED
      BY <3>1, <3>2
  <2>4. buffer' \in [Ends -> [1..BufferSize -> Bytes]]
    BY <2>1, <2>3, SizesArePositive
  <2>5. UNCHANGED <<sent, left, taken, got, completed, cancelled, closed, watched>>
        /\ loop' = [loop EXCEPT ![e] = "write"]
    BY <1>2 DEF Read, Goto
  <2>6. QED
    BY <2>2, <2>4, <2>5
<1>3. ASSUME NEW e \in Ends, Write(e) PROVE TypeOK'
  <2>1. PICK n \in 1..(count[e] - done[e]) :
          /\ got' = [got EXCEPT ![Other(e)] = @ \o SubSeq(buffer[e], done[e] + 1, done[e] + n)]
          /\ done' = [done EXCEPT ![e] = @ + n]
          /\ Goto(e, IF done[e] + n = count[e] THEN "top" ELSE "write")
    BY <1>3 DEF Write
  <2>2. n \in Nat /\ done[e] \in Nat /\ done[e] + n <= BufferSize /\ Other(e) \in Ends
    BY <2>1, Two, SizesArePositive
  <2>3. SubSeq(buffer[e], done[e] + 1, done[e] + n) \in Seq(Bytes)
    BY <2>2, PartOfBuffer
  <2>4. got' \in [Ends -> Seq(Bytes)]
    <3>1. got[Other(e)] \o SubSeq(buffer[e], done[e] + 1, done[e] + n) \in Seq(Bytes)
      BY <2>2, <2>3
    <3>2. QED
      BY <2>1, <2>2, <3>1
  <2>5. done' \in [Ends -> 0..BufferSize]
    <3>1. done[e] + n \in 0..BufferSize
      BY <2>2, SizesArePositive
    <3>2. QED
      BY <2>1, <3>1
  <2>6. loop' \in [Ends -> Causes \union {"top", "read", "write", "cancelled"}]
    BY <2>1 DEF Goto
  <2>7. UNCHANGED <<sent, left, taken, read, buffer, count, completed, cancelled, closed, watched>>
    BY <1>3, <2>1 DEF Write, Goto
  <2>8. QED
    BY <2>4, <2>5, <2>6, <2>7
<1>4. ASSUME NEW e \in Ends,
             TestToken(e) \/ ReadEnd(e) \/ ReadFails(e) \/ WriteFails(e) \/ Abort(e) \/ Complete(e)
      PROVE  TypeOK'
  BY <1>4 DEF TestToken, ReadEnd, ReadFails, WriteFails, Abort, Complete, Goto
<1>5. CASE Dispose \/ Forget
  BY <1>5 DEF Dispose, Stop, DisposeBack, DisposeFront, Forget, Ends
<1>6. CASE UNCHANGED vars
  BY <1>6 DEF vars
<1>7. QED
  BY <1>1, <1>2, <1>3, <1>4, <1>5, <1>6 DEF Next, CopyLoop

(* Every reachable state is well typed.                                     *)
THEOREM TypeCorrect == Spec => []TypeOK
  BY TypeInit, TypeStep, PTL DEF Spec

-----------------------------------------------------------------------------
(* What is on its way. The bytes a loop has read are those its other end    *)
(* got and those of the buffer that are not yet written; both are the ones  *)
(* of the text that come at that place.                                     *)
Copied(e) ==
    /\ done[e] <= count[e]
    /\ count[e] <= read[e]
    /\ read[e] <= sent[e]
    /\ Len(got[Other(e)]) = read[e] - count[e] + done[e]
    /\ loop[e] \in {"top", "read", "eof", "readFailed"} => done[e] = count[e]
    /\ \A k \in 1..Len(got[Other(e)]) : got[Other(e)][k] = Text[e][k]
    /\ \A k \in 1..count[e] : buffer[e][k] = Text[e][read[e] - count[e] + k]

(* Why a loop ended.                                                        *)
Reason(e) ==
    /\ loop[e] = "eof" => e \in left /\ read[e] = sent[e]
    /\ loop[e] = "readFailed" => e \in left
    /\ loop[e] = "writeFailed" => Other(e) \in left
    /\ loop[e] = "cancelled" => cancelled

(* The router is completed by a loop that ended for a cause of its own, and *)
(* disposed only then.                                                      *)
DisposedForCause ==
    /\ completed => \E e \in Ends : loop[e] \in Causes
    /\ cancelled => completed
    /\ closed # {} => cancelled

IInv ==
    /\ TypeOK
    /\ \A e \in Ends : Copied(e) /\ Reason(e)
    /\ DisposedForCause

LEMMA ReadCopies ==
  ASSUME TypeOK, NEW e \in Ends, \A f \in Ends : Copied(f), Read(e)
  PROVE  \A f \in Ends : Copied(f)'
<1>1. PICK n \in 1..BufferSize :
        /\ read[e] + n <= sent[e]
        /\ buffer' = [buffer EXCEPT ![e] =
             [k \in 1..BufferSize |-> IF k <= n THEN Text[e][read[e] + k] ELSE @[k]]]
        /\ read' = [read EXCEPT ![e] = @ + n]
        /\ count' = [count EXCEPT ![e] = n]
  BY DEF Read
<1>2. /\ done' = [done EXCEPT ![e] = 0]
      /\ loop' = [loop EXCEPT ![e] = "write"]
      /\ UNCHANGED <<got, sent>>
      /\ loop[e] = "read"
  BY DEF Read, Goto, remotes
<1>3. n \in Nat /\ n > 0 /\ n <= BufferSize /\ BufferSize \in Nat
  BY SizesArePositive
<1>4. /\ read'[e] = read[e] + n /\ count'[e] = n /\ done'[e] = 0 /\ loop'[e] = "write"
      /\ \A k \in 1..n : buffer'[e][k] = Text[e][read[e] + k]
  BY <1>1, <1>2, <1>3 DEF TypeOK
<1>5. Copied(e)'
  <2>1. Len(got[Other(e)]) = read[e] /\ read[e] \in Nat
    BY <1>2, Two DEF Copied, TypeOK
  <2>2. /\ 0 <= n /\ n <= read[e] + n /\ read[e] + n <= sent[e]
        /\ read[e] = (read[e] + n) - n + 0
    BY <1>1, <1>3, <2>1
  <2>3. \A k \in 1..n : buffer'[e][k] = Text[e][read'[e] - count'[e] + k]
    <3>1. read'[e] - count'[e] = read[e]
      BY <1>3, <1>4, <2>1
    <3>2. QED
      BY <1>4, <3>1
  <2>4. QED
    BY <1>2, <1>4, <2>1, <2>2, <2>3 DEF Copied
<1>6. ASSUME NEW f \in Ends, f # e PROVE Copied(f)'
  <2>1. /\ read'[f] = read[f] /\ count'[f] = count[f] /\ buffer'[f] = buffer[f]
        /\ done'[f] = done[f] /\ loop'[f] = loop[f]
    BY <1>1, <1>2, <1>6 DEF TypeOK
  <2>2. got'[Other(f)] = got[Other(f)] /\ sent'[f] = sent[f]
    BY <1>2
  <2>3. QED
    BY <2>1, <2>2 DEF Copied
<1>7. QED
  BY <1>5, <1>6

LEMMA WriteCopies ==
  ASSUME TypeOK, NEW e \in Ends, \A f \in Ends : Copied(f), Write(e)
  PROVE  \A f \in Ends : Copied(f)'
<1>1. PICK n \in 1..(count[e] - done[e]) :
        /\ got' = [got EXCEPT ![Other(e)] = @ \o SubSeq(buffer[e], done[e] + 1, done[e] + n)]
        /\ done' = [done EXCEPT ![e] = @ + n]
        /\ loop' = [loop EXCEPT ![e] = IF done[e] + n = count[e] THEN "top" ELSE "write"]
        /\ UNCHANGED <<read, buffer, count, sent>>
  BY DEF Write, Goto, remotes
<1>2. /\ buffer[e] \in [1..BufferSize -> Bytes]
      /\ count[e] \in 0..BufferSize /\ done[e] \in 0..BufferSize
      /\ read[e] \in Nat /\ sent[e] \in Nat
      /\ Other(e) \in Ends /\ got[Other(e)] \in Seq(Bytes)
  BY Two DEF TypeOK
<1>3. /\ n \in Nat /\ n > 0 /\ BufferSize \in Nat
      /\ done[e] \in Nat /\ count[e] \in Nat /\ done[e] + n <= count[e]
      /\ done[e] + n <= BufferSize
  <2>1. BufferSize \in Nat
    BY SizesArePositive
  <2>2. count[e] \in Nat /\ done[e] \in Nat /\ count[e] <= BufferSize
    BY <1>2, <2>1
  <2>3. QED
    BY <1>1, <2>1, <2>2
<1> DEFINE g == got[Other(e)]
           part == SubSeq(buffer[e], done[e] + 1, done[e] + n)
<1>4. /\ part \in Seq(Bytes) /\ Len(part) = n
      /\ \A k \in 1..n : part[k] = buffer[e][done[e] + k]
  <2> HIDE DEF part
  <2>1. \A a \in Nat, m \in Nat : a + m <= BufferSize =>
          /\ SubSeq(buffer[e], a + 1, a + m) \in Seq(Bytes)
          /\ Len(SubSeq(buffer[e], a + 1, a + m)) = m
          /\ \A k \in 1..m : SubSeq(buffer[e], a + 1, a + m)[k] = buffer[e][a + k]
    BY <1>2, PartOfBuffer
  <2>2. QED
    BY <1>3, <2>1 DEF part
<1>5. /\ got'[Other(e)] = g \o part
      /\ done'[e] = done[e] + n
      /\ loop'[e] \in {"top", "read", "eof", "readFailed"} => done[e] + n = count[e]
  BY <1>1, <1>2 DEF TypeOK
<1>6. /\ count[e] <= read[e] /\ read[e] <= sent[e]
      /\ Len(g) = read[e] - count[e] + done[e]
      /\ \A k \in 1..Len(g) : g[k] = Text[e][k]
      /\ \A k \in 1..count[e] : buffer[e][k] = Text[e][read[e] - count[e] + k]
  BY DEF Copied
<1>7. Copied(e)'
  <2>1. ASSUME NEW k \in 1..n PROVE part[k] = Text[e][Len(g) + k]
    <3> HIDE DEF g, part
    <3>1. done[e] + k \in 1..count[e]
      BY <1>3
    <3>2. read[e] - count[e] + (done[e] + k) = Len(g) + k
      BY <1>2, <1>3, <1>6
    <3>3. part[k] = buffer[e][done[e] + k]
      BY <1>4
    <3>4. buffer[e][done[e] + k] = Text[e][read[e] - count[e] + (done[e] + k)]
      BY <1>6, <3>1
    <3>5. QED
      BY <3>2, <3>3, <3>4
  <2>2. /\ Len(g \o part) = Len(g) + n
        /\ \A k \in 1..Len(g \o part) : (g \o part)[k] = Text[e][k]
    <3>1. g \in Seq(Bytes) /\ part \in Seq(Bytes)
      BY <1>2, <1>4
    <3>2. \A k \in 1..Len(g) : g[k] = Text[e][k]
      BY <1>6
    <3>3. Len(part) = n /\ \A k \in 1..Len(part) : part[k] = Text[e][Len(g) + k]
      BY <1>4, <2>1
    <3> HIDE DEF g, part
    <3>4. /\ Len(g \o part) = Len(g) + Len(part)
          /\ \A k \in 1..Len(g \o part) : (g \o part)[k] = Text[e][k]
      BY <3>1, <3>2, <3>3, AppendPart
    <3>5. QED
      BY <3>3, <3>4
  <2>3. Len(g) + n = read[e] - count[e] + (done[e] + n)
    <3> HIDE DEF g
    <3>1. QED
      BY <1>2, <1>3, <1>6
  <2>4. QED
    <3> HIDE DEF g, part
    <3>1. QED
      BY <1>1, <1>3, <1>5, <1>6, <2>2, <2>3 DEF Copied
<1>8. ASSUME NEW f \in Ends, f # e PROVE Copied(f)'
  <2>1. Other(f) # Other(e) /\ Other(f) \in Ends
    BY <1>8 DEF Ends, Other
  <2>2. got'[Other(f)] = got[Other(f)] /\ done'[f] = done[f] /\ loop'[f] = loop[f]
    BY <1>1, <1>8, <2>1 DEF TypeOK
  <2>3. QED
    BY <1>1, <2>2 DEF Copied
<1>9. QED
  BY <1>7, <1>8

LEMMA OthersCopy ==
  ASSUME TypeOK, NEW e \in Ends, \A f \in Ends : Copied(f),
         \/ Send(e) \/ Take(e) \/ Leave(e) \/ TestToken(e) \/ ReadEnd(e) \/ ReadFails(e)
         \/ WriteFails(e) \/ Abort(e) \/ Complete(e)
  PROVE  \A f \in Ends : Copied(f)'
<1>1. CASE Send(e)
  <2>1. ASSUME NEW f \in Ends PROVE sent[f] <= sent'[f] /\ sent[f] \in Nat /\ sent'[f] \in Nat
    BY <1>1 DEF Send, TypeOK
  <2>2. UNCHANGED <<copying, loop>>
    BY <1>1 DEF Send
  <2>3. \A f \in Ends : read[f] \in Nat
    BY DEF TypeOK
  <2>4. QED
    BY <2>1, <2>2, <2>3 DEF Copied, copying
<1>2. CASE Take(e) \/ Leave(e) \/ Complete(e)
  BY <1>2 DEF Take, Leave, Complete, Copied, remotes, copying
<1>3. CASE TestToken(e) \/ ReadEnd(e) \/ ReadFails(e) \/ WriteFails(e) \/ Abort(e)
  <2>1. UNCHANGED <<sent, copying>>
    BY <1>3 DEF TestToken, ReadEnd, ReadFails, WriteFails, Abort, Goto, remotes
  <2>2. \A f \in Ends : loop'[f] \in {"top", "read", "eof", "readFailed"} =>
                          loop[f] \in {"top", "read", "eof", "readFailed"}
    BY <1>3 DEF TestToken, ReadEnd, ReadFails, WriteFails, Abort, Goto, TypeOK
  <2>3. QED
    BY <2>1, <2>2 DEF Copied, copying
<1>4. QED
  BY <1>1, <1>2, <1>3

LEMMA InvInit == Init => IInv
<1> SUFFICES ASSUME Init PROVE IInv
  OBVIOUS
<1>1. TypeOK
  BY TypeInit
<1>2. \A e \in Ends : Copied(e)
  BY Two DEF Init, Copied
<1>3. (\A e \in Ends : Reason(e)) /\ DisposedForCause
  BY DEF Init, Reason, DisposedForCause
<1>4. QED
  BY <1>1, <1>2, <1>3 DEF IInv

LEMMA InvStep == IInv /\ [Next]_vars => IInv'
<1> SUFFICES ASSUME IInv, [Next]_vars PROVE IInv'
  OBVIOUS
<1>1. TypeOK'
  BY TypeStep DEF IInv
<1>2. \A f \in Ends : Copied(f)'
  <2>1. CASE \E e \in Ends : Send(e) \/ Take(e) \/ Leave(e) \/ CopyLoop(e)
    BY <2>1, ReadCopies, WriteCopies, OthersCopy DEF IInv, CopyLoop
  <2>2. CASE Dispose \/ Forget \/ UNCHANGED vars
    BY <2>2 DEF IInv, Copied, Dispose, Stop, DisposeBack, DisposeFront, Forget, vars, remotes, copying
  <2>3. QED
    BY <2>1, <2>2 DEF Next
<1>3. ASSUME NEW f \in Ends PROVE Reason(f)'
  <2> USE DEF IInv, Reason, TypeOK, remotes, copying
  <2>1. ASSUME NEW e \in Ends, Send(e) PROVE Reason(f)'
    BY <2>1 DEF Send
  <2>2. ASSUME NEW e \in Ends, Take(e) \/ Leave(e) \/ Complete(e) PROVE Reason(f)'
    BY <2>2 DEF Take, Leave, Complete
  <2>3. ASSUME NEW e \in Ends, TestToken(e) \/ ReadEnd(e) \/ ReadFails(e) \/ WriteFails(e) \/ Abort(e)
        PROVE  Reason(f)'
    BY <2>3 DEF TestToken, ReadEnd, ReadFails, WriteFails, Abort, Goto
  <2>4. ASSUME NEW e \in Ends, Read(e) \/ Write(e) PROVE Reason(f)'
    BY <2>4 DEF Read, Write, Goto
  <2>5. CASE Dispose \/ Forget \/ UNCHANGED vars
    BY <2>5 DEF Dispose, Stop, DisposeBack, DisposeFront, Forget, vars
  <2>6. QED
    BY <2>1, <2>2, <2>3, <2>4, <2>5 DEF Next, CopyLoop
<1>4. DisposedForCause'
  <2> USE DEF IInv, DisposedForCause, Reason, TypeOK, remotes, copying
  <2>1. ASSUME NEW e \in Ends, Send(e) \/ Take(e) \/ Leave(e) PROVE DisposedForCause'
    BY <2>1 DEF Send, Take, Leave
  <2>2. ASSUME NEW e \in Ends, Complete(e) PROVE DisposedForCause'
    BY <2>2 DEF Complete, Ended
  <2>3. ASSUME NEW e \in Ends,
               \/ TestToken(e) \/ ReadEnd(e) \/ ReadFails(e) \/ WriteFails(e) \/ Abort(e)
               \/ Read(e) \/ Write(e)
        PROVE  DisposedForCause'
    <3>1. UNCHANGED <<completed, cancelled, closed>> /\ loop[e] \notin Causes
      BY <2>3 DEF TestToken, ReadEnd, ReadFails, WriteFails, Abort, Read, Write, Goto, Causes
    <3>2. \A f \in Ends : f # e => loop'[f] = loop[f]
      BY <2>3 DEF TestToken, ReadEnd, ReadFails, WriteFails, Abort, Read, Write, Goto
    <3>3. QED
      BY <3>1, <3>2
  <2>4. CASE Dispose \/ Forget \/ UNCHANGED vars
    BY <2>4 DEF Dispose, Stop, DisposeBack, DisposeFront, Forget, vars
  <2>5. QED
    BY <2>1, <2>2, <2>3, <2>4 DEF Next, CopyLoop
<1>5. QED
  BY <1>1, <1>2, <1>3, <1>4 DEF IInv

LEMMA InvHolds == Spec => []IInv
  BY InvInit, InvStep, PTL DEF Spec

(* Whatever the two ends write, and however their connections fail, bytes   *)
(* are lost only to an end that left or by a connection that was reset.     *)
THEOREM LossesHaveCauses == Spec => []LossHasACause
<1>1. IInv => LossHasACause
  <2> SUFFICES ASSUME IInv, NEW e \in Ends, Other(e) \in closed,
                      Len(got[Other(e)]) < sent[e], Other(e) \notin left
               PROVE  loop[e] = "readFailed" \/ loop[Other(e)] = "writeFailed"
    BY DEF LossHasACause
  <2>1. PICK f \in Ends : loop[f] \in Causes
    BY DEF IInv, DisposedForCause
  <2>2. CASE f = e
    <3>1. loop[e] # "writeFailed"
      BY DEF IInv, Reason
    <3>2. loop[e] # "eof"
      <4>1. SUFFICES ASSUME loop[e] = "eof" PROVE FALSE
        OBVIOUS
      <4>2. read[e] = sent[e] /\ Len(got[Other(e)]) = read[e] - count[e] + done[e] /\ done[e] = count[e]
        BY <4>1 DEF IInv, Reason, Copied
      <4>3. read[e] \in Nat /\ count[e] \in Nat
        BY SizesArePositive DEF IInv, TypeOK
      <4>4. QED
        BY <4>2, <4>3
    <3>3. QED
      BY <2>1, <2>2, <3>1, <3>2 DEF Causes
  <2>3. CASE f = Other(e)
    BY <2>1, <2>3 DEF IInv, Reason, Causes
  <2>4. QED
    BY <2>2, <2>3 DEF Ends, Other
<1>2. QED
  BY <1>1, InvHolds, PTL

-----------------------------------------------------------------------------
(* A sequence that agrees with the beginning of another is its prefix.      *)
LEMMA PrefixOfText ==
  ASSUME NEW e \in Ends, NEW g \in Seq(Bytes), Len(g) <= Len(Text[e]),
         \A k \in 1..Len(g) : g[k] = Text[e][k]
  PROVE  g = SubSeq(Text[e], 1, Len(g))
<1>1. Text[e] \in Seq(Bytes) /\ Len(g) \in Nat
  BY TextLengths
<1>2. /\ SubSeq(Text[e], 0 + 1, 0 + Len(g)) \in Seq(Bytes)
      /\ Len(SubSeq(Text[e], 0 + 1, 0 + Len(g))) = Len(g)
      /\ \A k \in 1..Len(g) : SubSeq(Text[e], 0 + 1, 0 + Len(g))[k] = Text[e][0 + k]
  BY <1>1, PartOfSeq
<1>3. /\ SubSeq(Text[e], 1, Len(g)) \in Seq(Bytes)
      /\ Len(SubSeq(Text[e], 1, Len(g))) = Len(g)
      /\ \A k \in 1..Len(g) : SubSeq(Text[e], 1, Len(g))[k] = Text[e][k]
  BY <1>1, <1>2
<1>4. QED
  BY <1>3

(* A write is a delivery of the channel.                                    *)
LEMMA WriteDelivers ==
  ASSUME IInv, IInv', NEW e \in Ends, Write(e)
  PROVE  Channels!Deliver(e)
<1>1. PICK n \in 1..(count[e] - done[e]) :
        /\ got' = [got EXCEPT ![Other(e)] = @ \o SubSeq(buffer[e], done[e] + 1, done[e] + n)]
        /\ done' = [done EXCEPT ![e] = @ + n]
  BY DEF Write
<1>2. UNCHANGED <<sent, left, closed, read, count>> /\ Other(e) \notin closed
  BY DEF Write, Goto, remotes
<1>3. /\ got' = [got EXCEPT ![Other(e)] = got'[Other(e)]]
      /\ got'[Other(e)] \in Seq(Bytes)
  BY <1>1, Two DEF IInv, TypeOK
<1>4. /\ Len(got'[Other(e)]) = read[e] - count[e] + done'[e]
      /\ \A k \in 1..Len(got'[Other(e)]) : got'[Other(e)][k] = Text[e][k]
      /\ done'[e] <= count[e] /\ read[e] <= sent[e]
  BY <1>2 DEF IInv, Copied
<1>5. /\ Len(got[Other(e)]) = read[e] - count[e] + done[e]
      /\ done'[e] = done[e] + n
  BY <1>1 DEF IInv, Copied, TypeOK
<1>6. /\ read[e] \in Nat /\ sent[e] \in Nat /\ sent[e] <= Len(Text[e])
      /\ count[e] \in Nat /\ done[e] \in Nat /\ count[e] <= read[e]
  BY SizesArePositive DEF IInv, TypeOK, Copied
<1>7. n \in Nat /\ n > 0
  BY <1>1, <1>6
<1>8. /\ Len(got'[Other(e)]) \in 1..sent[e]
      /\ Len(got'[Other(e)]) > Len(got[Other(e)])
      /\ Len(got'[Other(e)]) <= Len(Text[e])
  <2>1. Len(got'[Other(e)]) = Len(got[Other(e)]) + n
    BY <1>4, <1>5, <1>6, <1>7
  <2>2. Len(got[Other(e)]) \in Nat
    BY <1>5, <1>6
  <2>3. Len(got'[Other(e)]) <= sent[e]
    BY <1>4, <1>5, <1>6, <1>7
  <2>4. Len(Text[e]) \in Nat
    BY TextLengths
  <2>5. QED
    BY <1>6, <1>7, <2>1, <2>2, <2>3, <2>4
<1>9. got'[Other(e)] = SubSeq(Text[e], 1, Len(got'[Other(e)]))
  BY <1>3, <1>4, <1>8, PrefixOfText
<1>10. Channels!Other(e) = Other(e)
  BY DEF Channels!Other, Other
<1>11. QED
  BY <1>2, <1>3, <1>8, <1>9, <1>10 DEF Channels!Deliver

(* The router implements the two channels, for any texts, buffer and window. *)
THEOREM RouterIsTwoChannels == Spec => ImplementsChannels
<1>1. Init => Channels!Init
  BY DEF Init, Channels!Init, Channels!Ends, Ends
<1>2. IInv /\ IInv' /\ [Next]_vars => [Channels!Next]_(Channels!vars)
  <2> SUFFICES ASSUME IInv, IInv', [Next]_vars PROVE [Channels!Next]_(Channels!vars)
    OBVIOUS
  <2> USE DEF Channels!vars
  <2>1. ASSUME NEW e \in Ends, Send(e) PROVE Channels!Send(e)
    BY <2>1 DEF Send, Channels!Send, copying
  <2>2. ASSUME NEW e \in Ends, Leave(e) PROVE Channels!Leave(e)
    BY <2>2 DEF Leave, Channels!Leave, copying
  <2>3. ASSUME NEW e \in Ends,
               \/ Take(e) \/ TestToken(e) \/ Read(e) \/ ReadEnd(e) \/ ReadFails(e)
               \/ WriteFails(e) \/ Abort(e) \/ Complete(e)
        PROVE  UNCHANGED Channels!vars
    BY <2>3 DEF Take, TestToken, Read, ReadEnd, ReadFails, WriteFails, Abort, Complete, Goto, copying, remotes
  <2>4. ASSUME DisposeBack \/ DisposeFront PROVE \E e \in Ends : Channels!Close(e)
    <3>1. cancelled
      BY <2>4 DEF IInv, DisposedForCause, DisposeBack, DisposeFront
    <3>2. left # {}
      BY <3>1, Two DEF IInv, DisposedForCause, Reason, Causes
    <3>3. QED
      BY <2>4, <3>2 DEF DisposeBack, DisposeFront, Channels!Close, copying, remotes, Ends
  <2>5. CASE Stop \/ Forget \/ UNCHANGED vars
    BY <2>5 DEF Stop, Forget, vars, copying, remotes
  <2>6. Channels!Ends = Ends
    BY DEF Channels!Ends, Ends
  <2>7. QED
    BY <2>1, <2>2, <2>3, <2>4, <2>5, <2>6, WriteDelivers DEF Next, CopyLoop, Dispose, Channels!Next
<1>3. QED
  BY <1>1, <1>2, InvHolds, PTL DEF Spec, ImplementsChannels, Channels!Spec
=============================================================================
