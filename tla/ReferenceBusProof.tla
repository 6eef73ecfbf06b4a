-------------------------- MODULE ReferenceBusProof -------------------------
(***************************************************************************)
(* Proofs about ReferenceBus, for every set of laptops, every size of the  *)
(* jitter buffer and of the kernel queue, and every number of frames.      *)
(***************************************************************************)
EXTENDS ReferenceBus, TLAPS

\* j is the part of h that p leaves out, and once anything is in p it has
\* exactly k elements.
SplitAt(h, p, j, k) ==
  /\ Len(h) = Len(p) + Len(j)
  /\ \A i \in 1..Len(p) : p[i] = h[i]
  /\ \A i \in 1..Len(j) : j[i] = h[Len(p) + i]
  /\ Len(j) <= k
  /\ Len(p) > 0 => Len(j) = k

\* The jitter buffer of n holds what n heard and did not play yet.
BufferIsTail(n) == SplitAt(heard[n], played[n], jitter[n], JITTER_FRAMES - 1)

\* The inductive invariant.
BusInv ==
  /\ TypeOK
  /\ \A n \in Nodes : sendSock[n] = "closed" => ~running[n]
  /\ \A n \in Nodes : BufferIsTail(n)

-----------------------------------------------------------------------------
LEMMA SeqFacts ==
  ASSUME NEW S, NEW s \in Seq(S), NEW e \in S
  PROVE  /\ Append(s, e) \in Seq(S)
         /\ Len(Append(s, e)) = Len(s) + 1
         /\ \A i \in 1..Len(s) : Append(s, e)[i] = s[i]
         /\ Append(s, e)[Len(s) + 1] = e
         /\ Len(s) \in Nat
  OBVIOUS

LEMMA HeadTailFacts ==
  ASSUME NEW S, NEW s \in Seq(S), Len(s) > 0
  PROVE  /\ Head(s) \in S
         /\ Head(s) = s[1]
         /\ Tail(s) \in Seq(S)
         /\ Len(Tail(s)) = Len(s) - 1
         /\ \A i \in 1..(Len(s) - 1) : Tail(s)[i] = s[i + 1]
<1>1. s # <<>>
  OBVIOUS
<1> QED BY <1>1

\* One more frame e into a split history: the buffer takes it, and when that
\* makes it too long its first frame moves out.
LEMMA SplitGrows ==
  ASSUME NEW S, NEW h \in Seq(S), NEW p \in Seq(S), NEW j \in Seq(S), NEW e \in S,
         NEW k \in Nat, Len(j) < k, SplitAt(h, p, j, k)
  PROVE  SplitAt(Append(h, e), p, Append(j, e), k)
<1>1. PICK a \in Nat : a = Len(p)
  OBVIOUS
<1>2. PICK b \in Nat : b = Len(j)
  OBVIOUS
<1>3. /\ Len(h) = a + b /\ a = 0 /\ b < k
      /\ \A i \in 1..b : j[i] = h[a + i]
  BY <1>1, <1>2 DEF SplitAt
<1>4. /\ Len(Append(h, e)) = a + b + 1 /\ Append(h, e)[b + 1] = e
      /\ \A i \in 1..b : Append(h, e)[i] = h[i]
  BY <1>3, SeqFacts
<1>5. /\ Len(Append(j, e)) = b + 1 /\ Append(j, e)[b + 1] = e
      /\ \A i \in 1..b : Append(j, e)[i] = j[i]
  BY <1>2, SeqFacts
<1>6. \A i \in 1..(b + 1) : Append(j, e)[i] = Append(h, e)[i]
  <2>1. \A i \in 1..b : Append(j, e)[i] = Append(h, e)[i]
    BY <1>3, <1>4, <1>5
  <2>2. \A i \in 1..(b + 1) : i \in 1..b \/ i = b + 1
    OBVIOUS
  <2> QED BY <2>1, <2>2, <1>4, <1>5
<1> QED BY <1>1, <1>3, <1>4, <1>5, <1>6 DEF SplitAt

LEMMA SplitMoves ==
  ASSUME NEW S, NEW h \in Seq(S), NEW p \in Seq(S), NEW j \in Seq(S), NEW e \in S,
         NEW k \in Nat, Len(j) = k, SplitAt(h, p, j, k)
  PROVE  SplitAt(Append(h, e), Append(p, Head(Append(j, e))), Tail(Append(j, e)), k)
<1> DEFINE f == Head(Append(j, e))
           t == Tail(Append(j, e))
<1>1. PICK a \in Nat : a = Len(p)
  OBVIOUS
<1>2. /\ Len(h) = a + k
      /\ \A i \in 1..a : p[i] = h[i]
      /\ \A i \in 1..k : j[i] = h[a + i]
  BY <1>1 DEF SplitAt
<1>3. /\ Append(h, e) \in Seq(S)
      /\ Len(Append(h, e)) = a + k + 1 /\ Append(h, e)[a + k + 1] = e
      /\ \A i \in 1..(a + k) : Append(h, e)[i] = h[i]
  BY <1>2, SeqFacts
<1>4. /\ Append(j, e) \in Seq(S)
      /\ Len(Append(j, e)) = k + 1 /\ Append(j, e)[k + 1] = e
      /\ \A i \in 1..k : Append(j, e)[i] = j[i]
  BY SeqFacts
<1>5. \A i \in 1..(k + 1) : Append(j, e)[i] = Append(h, e)[a + i]
  <2>1. \A i \in 1..k : Append(j, e)[i] = Append(h, e)[a + i]
    <3>1. \A i \in 1..k : a + i \in 1..(a + k)
      OBVIOUS
    <3> QED BY <3>1, <1>2, <1>3, <1>4
  <2>2. \A i \in 1..(k + 1) : i \in 1..k \/ i = k + 1
    OBVIOUS
  <2>3. a + (k + 1) = a + k + 1
    OBVIOUS
  <2> QED BY <2>1, <2>2, <2>3, <1>3, <1>4
<1>6. /\ f \in S /\ f = Append(h, e)[a + 1]
      /\ t \in Seq(S) /\ Len(t) = k
      /\ \A i \in 1..k : t[i] = Append(h, e)[a + (i + 1)]
  <2>1. /\ f \in S /\ f = Append(j, e)[1]
        /\ t \in Seq(S) /\ Len(t) = k
        /\ \A i \in 1..k : t[i] = Append(j, e)[i + 1]
    <3> DEFINE q == Append(j, e)
    <3> SUFFICES /\ Head(q) \in S /\ Head(q) = q[1]
                 /\ Tail(q) \in Seq(S) /\ Len(Tail(q)) = k
                 /\ \A i \in 1..k : Tail(q)[i] = q[i + 1]
      OBVIOUS
    <3>1. q \in Seq(S) /\ Len(q) = k + 1
      BY <1>4
    <3> HIDE DEF q
    <3>2. Len(q) > 0 /\ Len(q) - 1 = k
      BY <3>1
    <3> QED BY <3>1, <3>2, HeadTailFacts
  <2>2. 1 \in 1..(k + 1) /\ \A i \in 1..k : i + 1 \in 1..(k + 1)
    OBVIOUS
  <2> QED BY <2>1, <2>2, <1>5
<1> HIDE DEF f, t
<1>7. /\ Len(Append(p, f)) = a + 1 /\ Append(p, f)[a + 1] = f
      /\ \A i \in 1..a : Append(p, f)[i] = p[i]
  <2>1. /\ Len(Append(p, f)) = Len(p) + 1
        /\ \A i \in 1..Len(p) : Append(p, f)[i] = p[i]
        /\ Append(p, f)[Len(p) + 1] = f
    <3>1. p \in Seq(S) /\ f \in S
      BY <1>6
    <3> QED BY ONLY <3>1, SeqFacts
  <2> QED BY <1>1, <2>1
<1>8. \A i \in 1..(a + 1) : Append(p, f)[i] = Append(h, e)[i]
  <2>1. \A i \in 1..a : i \in 1..(a + k)
    OBVIOUS
  <2>2. \A i \in 1..(a + 1) : i \in 1..a \/ i = a + 1
    OBVIOUS
  <2> QED BY <2>1, <2>2, <1>2, <1>3, <1>6, <1>7
<1>9. \A i \in 1..k : t[i] = Append(h, e)[(a + 1) + i]
  <2>1. \A i \in 1..k : (a + 1) + i = a + (i + 1)
    OBVIOUS
  <2> QED BY <2>1, <1>6
<1>10. a + k + 1 = (a + 1) + k
  OBVIOUS
<1> QED BY <1>3, <1>6, <1>7, <1>8, <1>9, <1>10 DEF SplitAt, f, t

\* A received frame keeps the split.
LEMMA FrameStep ==
  ASSUME BusInv, NEW n \in Nodes, ResumeFrame(n)
  PROVE  /\ result[n] \in Frames
         /\ heard' = [heard EXCEPT ![n] = Append(heard[n], result[n])]
         /\ jitter' \in [Nodes -> Seq(Frames)]
         /\ played' \in [Nodes -> Seq(Frames)]
         /\ \A m \in Nodes : m # n => jitter'[m] = jitter[m] /\ played'[m] = played[m]
         /\ BufferIsTail(n)'
<1> DEFINE d == result[n]
           buf == Append(jitter[n], d)
<1>1. /\ heard \in [Nodes -> Seq(Frames)] /\ played \in [Nodes -> Seq(Frames)]
      /\ jitter \in [Nodes -> Seq(Frames)]
      /\ d \in Frames \cup Strays \cup {NoData}
  BY DEF BusInv, TypeOK
<1>2. d \in Frames
  BY <1>1 DEF ResumeFrame, Strays, NoData
<1>3. SplitAt(heard[n], played[n], jitter[n], JITTER_FRAMES - 1)
  BY DEF BusInv, BufferIsTail
<1>4. /\ Len(jitter[n]) \in Nat /\ Len(jitter[n]) <= JITTER_FRAMES - 1
      /\ JITTER_FRAMES - 1 \in Nat
      /\ buf \in Seq(Frames) /\ Len(buf) = Len(jitter[n]) + 1
  BY <1>1, <1>2, <1>3, SeqFacts, BusAssumption DEF SplitAt
<1>5. Push(jitter[n], d) = buf
  BY <1>4, BusAssumption DEF Push
<1>6. Full(buf) <=> Len(jitter[n]) = JITTER_FRAMES - 1
  BY <1>4, BusAssumption DEF Full
<1>7. heard' = [heard EXCEPT ![n] = Append(heard[n], d)]
  BY DEF ResumeFrame
<1>8. CASE Full(buf)
  <2>1. /\ jitter' = [jitter EXCEPT ![n] = Tail(buf)]
        /\ played' = [played EXCEPT ![n] = Append(played[n], Head(buf))]
    BY <1>5, <1>8 DEF ResumeFrame
  <2>2. Head(buf) \in Frames /\ Tail(buf) \in Seq(Frames)
    <3>1. Len(buf) > 0
      BY <1>4
    <3> HIDE DEF buf
    <3> QED BY <3>1, <1>4, HeadTailFacts
  <2>3. SplitAt(Append(heard[n], d), Append(played[n], Head(buf)), Tail(buf),
                JITTER_FRAMES - 1)
    BY <1>1, <1>2, <1>3, <1>4, <1>6, <1>8, SplitMoves
  <2> HIDE DEF buf
  <2> QED BY <1>1, <1>2, <1>7, <2>1, <2>2, <2>3, SeqFacts DEF BufferIsTail
<1>9. CASE ~Full(buf)
  <2>1. jitter' = [jitter EXCEPT ![n] = buf] /\ played' = played
    BY <1>5, <1>9 DEF ResumeFrame
  <2>2. SplitAt(Append(heard[n], d), played[n], buf, JITTER_FRAMES - 1)
    <3>1. Len(jitter[n]) < JITTER_FRAMES - 1
      BY <1>4, <1>6, <1>9
    <3> QED BY <3>1, <1>1, <1>2, <1>3, <1>4, SplitGrows
  <2> HIDE DEF buf
  <2> QED BY <1>1, <1>2, <1>4, <1>7, <2>1, <2>2 DEF BufferIsTail
<1> QED BY <1>8, <1>9

-----------------------------------------------------------------------------
LEMMA InitInv == Init => BusInv
<1> SUFFICES ASSUME Init PROVE BusInv
  OBVIOUS
<1>1. TypeOK
  <2>1. <<>> \in Seq(Frames) /\ <<>> \in Seq(Frames \cup Strays)
    OBVIOUS
  <2>2. 0 \in 0..(SeqMax + 1)
    BY BusAssumption
  <2> QED BY <2>1, <2>2 DEF Init, TypeOK, SockStates, TaskStates
<1>2. \A n \in Nodes : sendSock[n] = "closed" => ~running[n]
  BY DEF Init
<1>3. \A n \in Nodes : BufferIsTail(n)
  <2> SUFFICES ASSUME NEW n \in Nodes
               PROVE  SplitAt(<<>>, <<>>, <<>>, JITTER_FRAMES - 1)
    BY DEF Init, BufferIsTail
  <2>1. JITTER_FRAMES - 1 >= 0
    BY BusAssumption
  <2> QED BY <2>1 DEF SplitAt
<1> QED BY <1>1, <1>2, <1>3 DEF BusInv

\* Steps that neither hear nor play a frame keep the split.
LEMMA QuietStep ==
  ASSUME BusInv, UNCHANGED <<jitter, heard, played>>, NEW n \in Nodes
  PROVE  BufferIsTail(n)'
  BY DEF BusInv, BufferIsTail, SplitAt

\* Each step of the bus keeps the inductive invariant.
LEMMA StepInv ==
  ASSUME BusInv, NEW n \in Nodes,
         \/ Start(n) \/ StartFails(n) \/ Stop(n) \/ SendFrame(n)
         \/ \E d \in air \cup Strays : Arrive(n, d)
         \/ Receive(n)
  PROVE  BusInv'
<1> USE DEF SockStates, TaskStates
<1>0. /\ TypeOK
      /\ \A m \in Nodes : sendSock[m] = "closed" => ~running[m]
  BY DEF BusInv
<1>1. CASE Start(n)
  <2>1. TypeOK'
    BY <1>0, <1>1 DEF TypeOK, Start
  <2>2. \A m \in Nodes : sendSock'[m] = "closed" => ~running'[m]
    BY <1>0, <1>1 DEF TypeOK, Start
  <2>3. \A m \in Nodes : BufferIsTail(m)'
    BY <1>1, QuietStep DEF Start
  <2> QED BY <2>1, <2>2, <2>3 DEF BusInv
<1>2. CASE StartFails(n)
  <2>1. TypeOK'
    BY <1>0, <1>2 DEF TypeOK, StartFails, taskVars
  <2>2. \A m \in Nodes : sendSock'[m] = "closed" => ~running'[m]
    BY <1>0, <1>2 DEF TypeOK, StartFails
  <2>3. \A m \in Nodes : BufferIsTail(m)'
    BY <1>2, QuietStep DEF StartFails, taskVars
  <2> QED BY <2>1, <2>2, <2>3 DEF BusInv
<1>3. CASE Stop(n)
  <2>1. TypeOK'
    BY <1>0, <1>3 DEF TypeOK, Stop, taskVars
  <2>2. \A m \in Nodes : sendSock'[m] = "closed" => ~running'[m]
    BY <1>0, <1>3 DEF TypeOK, Stop
  <2>3. \A m \in Nodes : BufferIsTail(m)'
    BY <1>3, QuietStep DEF Stop, taskVars
  <2> QED BY <2>1, <2>2, <2>3 DEF BusInv
<1>4. CASE SendFrame(n)
  <2>1. TypeOK'
    <3>1. seq[n] \in 0..SeqMax /\ seq[n] + 1 \in 0..(SeqMax + 1)
      BY <1>0, <1>4, BusAssumption DEF TypeOK, SendFrame
    <3>2. seq' \in [Nodes -> 0..(SeqMax + 1)]
      BY <1>0, <1>4, <3>1 DEF TypeOK, SendFrame
    <3>3. air' \subseteq Frames
      BY <1>0, <1>4, <3>1 DEF TypeOK, SendFrame, Frame, Frames
    <3> QED BY <1>0, <1>4, <3>2, <3>3 DEF TypeOK, SendFrame, taskVars, callerVars
  <2>2. \A m \in Nodes : sendSock'[m] = "closed" => ~running'[m]
    BY <1>0, <1>4 DEF SendFrame, callerVars
  <2>3. \A m \in Nodes : BufferIsTail(m)'
    BY <1>4, QuietStep DEF SendFrame, taskVars
  <2> QED BY <2>1, <2>2, <2>3 DEF BusInv
<1>5. ASSUME NEW d \in air \cup Strays, Arrive(n, d)
      PROVE  BusInv'
  <2>1. TypeOK'
    <3>1. d \in Frames \cup Strays
      BY <1>0 DEF TypeOK
    <3>2. Append(rxq[n], d) \in Seq(Frames \cup Strays)
      BY <1>0, <3>1 DEF TypeOK
    <3> QED BY <1>0, <1>5, <3>2 DEF TypeOK, Arrive, taskVars, callerVars
  <2>2. \A m \in Nodes : sendSock'[m] = "closed" => ~running'[m]
    BY <1>0, <1>5 DEF Arrive, callerVars
  <2>3. \A m \in Nodes : BufferIsTail(m)'
    BY <1>5, QuietStep DEF Arrive, taskVars
  <2> QED BY <2>1, <2>2, <2>3 DEF BusInv
<1>6. CASE TaskStarts(n)
  <2>1. TypeOK'
    BY <1>0, <1>6 DEF TypeOK, TaskStarts, Rearm, callerVars
  <2>2. \A m \in Nodes : sendSock'[m] = "closed" => ~running'[m]
    BY <1>0, <1>6 DEF TaskStarts, callerVars
  <2>3. \A m \in Nodes : BufferIsTail(m)'
    BY <1>6, QuietStep DEF TaskStarts
  <2> QED BY <2>1, <2>2, <2>3 DEF BusInv
<1>7. CASE RecvFrom(n)
  <2>1. TypeOK'
    <3>1. CASE rxq[n] # <<>>
      <4>1. /\ Head(rxq[n]) \in Frames \cup Strays
            /\ Tail(rxq[n]) \in Seq(Frames \cup Strays)
        BY <1>0, <3>1 DEF TypeOK
      <4>2. /\ task' = [task EXCEPT ![n] = "got"]
            /\ result' = [result EXCEPT ![n] = Head(rxq[n])]
            /\ rxq' = [rxq EXCEPT ![n] = Tail(rxq[n])]
            /\ UNCHANGED <<callerVars, jitter, heard, played, seq, air>>
        BY <1>7, <3>1 DEF RecvFrom
      <4>3. result' \in [Nodes -> Frames \cup Strays \cup {NoData}]
        BY <1>0, <4>1, <4>2 DEF TypeOK
      <4>4. rxq' \in [Nodes -> Seq(Frames \cup Strays)]
        BY <1>0, <4>1, <4>2 DEF TypeOK
      <4> QED BY <1>0, <4>2, <4>3, <4>4 DEF TypeOK, callerVars
    <3>2. CASE rxq[n] = <<>>
      BY <1>0, <1>7, <3>2 DEF TypeOK, RecvFrom, callerVars
    <3> QED BY <3>1, <3>2
  <2>2. \A m \in Nodes : sendSock'[m] = "closed" => ~running'[m]
    BY <1>0, <1>7 DEF RecvFrom, callerVars
  <2>3. \A m \in Nodes : BufferIsTail(m)'
    BY <1>7, QuietStep DEF RecvFrom
  <2> QED BY <2>1, <2>2, <2>3 DEF BusInv
<1>8. CASE ResumeFrame(n)
  <2>1. TypeOK'
    <3>1. heard' \in [Nodes -> Seq(Frames)]
      <4>1. result[n] \in Frames
        BY <1>8, FrameStep
      <4>2. Append(heard[n], result[n]) \in Seq(Frames)
        BY <1>0, <4>1 DEF TypeOK
      <4>3. heard' = [heard EXCEPT ![n] = Append(heard[n], result[n])]
        BY <1>8, FrameStep
      <4> QED BY <1>0, <4>2, <4>3 DEF TypeOK
    <3>2. jitter' \in [Nodes -> Seq(Frames)] /\ played' \in [Nodes -> Seq(Frames)]
      BY <1>8, FrameStep
    <3>3. task' \in [Nodes -> TaskStates]
      BY <1>0, <1>8 DEF TypeOK, ResumeFrame, Rearm
    <3>4. result' \in [Nodes -> Frames \cup Strays \cup {NoData}]
      BY <1>0, <1>8 DEF TypeOK, ResumeFrame
    <3> QED BY <1>0, <1>8, <3>1, <3>2, <3>3, <3>4 DEF TypeOK, ResumeFrame, callerVars
  <2>2. \A m \in Nodes : sendSock'[m] = "closed" => ~running'[m]
    BY <1>0, <1>8 DEF ResumeFrame, callerVars
  <2>3. \A m \in Nodes : BufferIsTail(m)'
    <3> SUFFICES ASSUME NEW m \in Nodes, m # n PROVE BufferIsTail(m)'
      BY <1>8, FrameStep
    <3>1. heard'[m] = heard[m] /\ jitter'[m] = jitter[m] /\ played'[m] = played[m]
      BY <1>0, <1>8, FrameStep DEF TypeOK
    <3> QED BY <3>1 DEF BusInv, BufferIsTail
  <2> QED BY <2>1, <2>2, <2>3 DEF BusInv
<1>9. CASE ResumeShort(n) \/ ResumeEnds(n)
  <2>1. TypeOK'
    BY <1>0, <1>9 DEF TypeOK, ResumeShort, ResumeEnds, Rearm, callerVars
  <2>2. \A m \in Nodes : sendSock'[m] = "closed" => ~running'[m]
    BY <1>0, <1>9 DEF ResumeShort, ResumeEnds, callerVars
  <2>3. \A m \in Nodes : BufferIsTail(m)'
    BY <1>9, QuietStep DEF ResumeShort, ResumeEnds
  <2> QED BY <2>1, <2>2, <2>3 DEF BusInv
<1> QED
  BY <1>1, <1>2, <1>3, <1>4, <1>5, <1>6, <1>7, <1>8, <1>9 DEF Receive

-----------------------------------------------------------------------------
\* The inductive invariant holds in every reachable state.
THEOREM BusInvariant == Spec => []BusInv
<1>1. BusInv /\ [Next]_vars => BusInv'
  <2> SUFFICES ASSUME BusInv, [Next]_vars PROVE BusInv'
    OBVIOUS
  <2>1. CASE Next
    BY <2>1, StepInv DEF Next
  <2>2. CASE UNCHANGED vars
    <3>1. TypeOK'
      BY <2>2 DEF BusInv, TypeOK, vars, callerVars, taskVars
    <3>2. \A m \in Nodes : sendSock'[m] = "closed" => ~running'[m]
      BY <2>2 DEF BusInv, vars, callerVars
    <3>3. \A m \in Nodes : BufferIsTail(m)'
      BY <2>2, QuietStep DEF vars, taskVars
    <3> QED BY <3>1, <3>2, <3>3 DEF BusInv
  <2> QED BY <2>1, <2>2
<1> QED BY <1>1, InitInv, PTL DEF Spec

\* Type correctness.
THEOREM TypeCorrect == Spec => []TypeOK
<1>1. BusInv => TypeOK
  BY DEF BusInv
<1> QED BY <1>1, BusInvariant, PTL

\* At most one frame is played after stop, and it is the task's last step
\* (reference_bus.py:63-66, 80-92).
THEOREM LastFrameAfterStopHolds == Spec => LastFrameAfterStop
<1>1. BusInv /\ [Next]_vars
        => [\A n \in Nodes : sendSock[n] = "closed" /\ played'[n] # played[n]
                               => task'[n] = "ended"]_vars
  <2> SUFFICES ASSUME BusInv, Next, NEW n \in Nodes,
                      sendSock[n] = "closed", played'[n] # played[n]
               PROVE  task'[n] = "ended"
    BY DEF vars
  <2>1. PICK m \in Nodes : ResumeFrame(m)
    BY DEF Next, Start, StartFails, Stop, SendFrame, Arrive, Receive, TaskStarts,
           RecvFrom, ResumeShort, ResumeEnds, taskVars
  <2>2. m = n
    BY <2>1, FrameStep
  <2>3. ~running[n]
    BY DEF BusInv
  <2> QED BY <2>1, <2>2, <2>3 DEF ResumeFrame, Rearm, BusInv, TypeOK
<1> QED BY <1>1, BusInvariant, PTL DEF Spec, LastFrameAfterStop

-----------------------------------------------------------------------------
\* A split history has released all but its k newest frames.
LEMMA SplitReleases ==
  ASSUME NEW S, NEW h \in Seq(S), NEW p \in Seq(S), NEW j \in Seq(S), NEW k \in Nat,
         SplitAt(h, p, j, k)
  PROVE  p = SubSeq(h, 1, IF Len(h) > k THEN Len(h) - k ELSE 0)
<1>1. PICK a \in Nat : a = Len(p)
  OBVIOUS
<1>2. PICK b \in Nat : b = Len(j)
  OBVIOUS
<1>3. PICK c \in Nat : c = Len(h)
  OBVIOUS
<1>4. /\ c = a + b /\ b <= k /\ (a > 0 => b = k)
      /\ \A i \in 1..a : p[i] = h[i]
  BY <1>1, <1>2, <1>3 DEF SplitAt
<1>5. (IF c > k THEN c - k ELSE 0) = a
  BY <1>4
<1>6. a <= c
  BY <1>4
<1>7. /\ SubSeq(h, 1, a) \in Seq(S)
      /\ Len(SubSeq(h, 1, a)) = a
      /\ \A i \in 1..a : SubSeq(h, 1, a)[i] = h[i]
  BY <1>3, <1>6
<1>8. p = SubSeq(h, 1, a)
  BY <1>1, <1>4, <1>7
<1> QED BY <1>3, <1>5, <1>8

\* Hearing a frame is the one step of the delay line; every other step of the
\* bus leaves it as it is.
THEOREM ImplementsDelayLineHolds == Spec => ImplementsDelayLine
<1>1. Init => Line!DelayInit
  BY DEF Init, Line!DelayInit
<1>2. BusInv /\ BusInv' /\ [Next]_vars => [Line!DelayNext]_<<heard, played>>
  <2> SUFFICES ASSUME BusInv, BusInv', [Next]_vars
               PROVE  [Line!DelayNext]_<<heard, played>>
    OBVIOUS
  <2>1. ASSUME NEW n \in Nodes, ResumeFrame(n)
        PROVE  Line!DelayNext
    <3>1. /\ result[n] \in Frames
          /\ heard' = [heard EXCEPT ![n] = Append(heard[n], result[n])]
          /\ \A m \in Nodes : m # n => played'[m] = played[m]
      BY <2>1, FrameStep
    <3>2. /\ heard \in [Nodes -> Seq(Frames)] /\ heard' \in [Nodes -> Seq(Frames)]
          /\ played \in [Nodes -> Seq(Frames)] /\ played' \in [Nodes -> Seq(Frames)]
          /\ jitter' \in [Nodes -> Seq(Frames)]
      BY DEF BusInv, TypeOK
    <3>3. heard'[n] = Append(heard[n], result[n])
      BY <3>1, <3>2
    <3>4. played'[n] = Line!Released(heard'[n])
      <4>1. SplitAt(heard'[n], played'[n], jitter'[n], JITTER_FRAMES - 1)
        BY DEF BusInv, BufferIsTail
      <4>2. JITTER_FRAMES - 1 \in Nat
        BY BusAssumption
      <4> QED BY <3>2, <4>1, <4>2, SplitReleases DEF Line!Released
    <3>5. played' = [played EXCEPT ![n] = Line!Released(Append(heard[n], result[n]))]
      BY <3>1, <3>2, <3>3, <3>4
    <3> QED BY <3>1, <3>5 DEF Line!DelayNext, Line!Hear
  <2>2. CASE ~(\E n \in Nodes : ResumeFrame(n))
    <3>1. heard' = heard /\ played' = played
      BY <2>2 DEF Next, Start, StartFails, Stop, SendFrame, Arrive, Receive, TaskStarts,
                  RecvFrom, ResumeShort, ResumeEnds, taskVars, vars
    <3> QED BY <3>1
  <2> QED BY <2>1, <2>2
<1> QED
  BY <1>1, <1>2, BusInvariant, PTL DEF Spec, ImplementsDelayLine, Line!DelaySpec
=============================================================================
