---------------------------- MODULE ReferenceBus ----------------------------
(***************************************************************************)
(* The shared audio reference bus (coordinator/reference_bus.py): every    *)
(* laptop multicasts its reference frames and plays, through a jitter      *)
(* buffer, the frames it receives.                                         *)
(*                                                                         *)
(* Three parties interleave at each node: the callers of start, stop and   *)
(* send_frame and the receive task, which share one event loop, and the    *)
(* executor thread that runs recvfrom on a NON-BLOCKING socket.  From one  *)
(* await of the receive task to the next is one step (Resume).  A step of  *)
(* another coroutine may fall between the return of recvfrom and Resume.   *)
(*                                                                         *)
(* UDP multicast (external) may lose, repeat and reorder datagrams, and    *)
(* loops a node's own datagrams back to it.  A frame is named by its       *)
(* sender and sequence number; Opus and the PCM are left out, and on_frame *)
(* is taken not to raise.                                                  *)
(***************************************************************************)
EXTENDS Integers, Sequences

CONSTANTS
  Nodes,                     \* the laptops
  JITTER_FRAMES,             \* 2 in the code
  SeqMax,                    \* largest sequence number the header can carry
  RxCap,                     \* datagrams the kernel queues on a socket
  MaxHeard                   \* bound on the frames a node receives

ASSUME BusAssumption ==
  /\ JITTER_FRAMES \in Nat \ {0}
  /\ SeqMax \in Nat

Frames == [kind : {"frame"}, src : Nodes, seq : 0..SeqMax]
Strays == [kind : {"short", "garbage"}]  \* below HDR_SIZE; not an Opus frame
NoData == [kind |-> "none"]

Frame(n, i) == [kind |-> "frame", src |-> n, seq |-> i]

VARIABLES
  running,                   \* _running
  sendSock, recvSock,        \* _send_sock, _recv_sock: "none", "open", "closed"
  seq,                       \* _seq
  jitter,                    \* _jitter_buf
  task,                      \* the receive task, see TaskStates
  result,                    \* what recvfrom returned to the task
  rxq,                       \* kernel queue of the receiving socket
  air,                       \* datagrams sent so far
  heard, played              \* history: frames appended to / popped from jitter

callerVars == <<running, sendSock, recvSock>>
taskVars   == <<task, result, jitter, heard, played>>
vars == <<callerVars, taskVars, seq, rxq, air>>

TaskStates == {"none",       \* not created
               "ready",      \* created, has not run yet
               "recv",       \* awaiting recvfrom in the executor
               "got",        \* recvfrom returned a datagram
               "failed",     \* recvfrom raised OSError
               "ended"}

-----------------------------------------------------------------------------
Init ==
  /\ running  = [n \in Nodes |-> FALSE]
  /\ sendSock = [n \in Nodes |-> "none"]
  /\ recvSock = [n \in Nodes |-> "none"]
  /\ seq      = [n \in Nodes |-> 0]
  /\ jitter   = [n \in Nodes |-> <<>>]
  /\ task     = [n \in Nodes |-> "none"]
  /\ result   = [n \in Nodes |-> NoData]
  /\ rxq      = [n \in Nodes |-> <<>>]
  /\ air      = {}
  /\ heard    = [n \in Nodes |-> <<>>]
  /\ played   = [n \in Nodes |-> <<>>]

Start(n) ==
  /\ sendSock[n] = "none"
  /\ sendSock' = [sendSock EXCEPT ![n] = "open"]
  /\ recvSock' = [recvSock EXCEPT ![n] = "open"]
  /\ running'  = [running EXCEPT ![n] = TRUE]
  /\ task'     = [task EXCEPT ![n] = "ready"]
  /\ UNCHANGED <<result, jitter, heard, played, seq, rxq, air>>

\* bind or the group membership fails: start raises with the sender open.
StartFails(n) ==
  /\ sendSock[n] = "none"
  /\ sendSock' = [sendSock EXCEPT ![n] = "open"]
  /\ UNCHANGED <<running, recvSock, taskVars, seq, rxq, air>>

\* Mutant: stop closes the sender only.
StopSenderOnly(n) ==
  /\ running[n]
  /\ sendSock[n] = "open"
  /\ sendSock' = [sendSock EXCEPT ![n] = "closed"]
  /\ UNCHANGED <<running, recvSock, taskVars, seq, rxq, air>>

\* Called once, by coordinator.py, on a bus that started.
Stop(n) ==
  /\ running[n]
  /\ running'  = [running EXCEPT ![n] = FALSE]
  /\ sendSock' = [sendSock EXCEPT ![n] = "closed"]
  /\ recvSock' = [recvSock EXCEPT ![n] = "closed"]
  /\ rxq'      = [rxq EXCEPT ![n] = <<>>]
  /\ UNCHANGED <<taskVars, seq, air>>

\* Mutant: the header field is never found to be full.
SendFrameUnchecked(n) ==
  /\ sendSock[n] # "none"
  /\ seq[n] <= SeqMax + 1
  /\ seq' = [seq EXCEPT ![n] = @ + 1]
  /\ air' = IF sendSock[n] = "open" THEN air \cup {Frame(n, seq[n])} ELSE air
  /\ UNCHANGED <<callerVars, taskVars, rxq>>

\* send_frame.  Before start it returns; past SeqMax struct.pack raises before
\* anything changes; on a closed socket sendto raises after _seq has moved.
SendFrame(n) ==
  /\ sendSock[n] # "none"
  /\ seq[n] <= SeqMax
  /\ seq' = [seq EXCEPT ![n] = @ + 1]
  /\ air' = IF sendSock[n] = "open" THEN air \cup {Frame(n, seq[n])} ELSE air
  /\ UNCHANGED <<callerVars, taskVars, rxq>>

-----------------------------------------------------------------------------
(* The network and the kernel (external). *)

Arrive(n, d) ==
  /\ recvSock[n] = "open"
  /\ Len(rxq[n]) < RxCap
  /\ Len(heard[n]) + Len(rxq[n]) < MaxHeard
  /\ rxq' = [rxq EXCEPT ![n] = Append(@, d)]
  /\ UNCHANGED <<callerVars, taskVars, seq, air>>

-----------------------------------------------------------------------------
(* The receive task. *)

\* The top of the loop: while self._running, then the next recvfrom.
Rearm(n) == IF running[n] THEN "recv" ELSE "ended"

TaskStarts(n) ==
  /\ task[n] = "ready"
  /\ task' = [task EXCEPT ![n] = Rearm(n)]
  /\ UNCHANGED <<callerVars, result, jitter, heard, played, seq, rxq, air>>

\* Mutant: a blocking socket, whose recvfrom waits and is not woken by close.
RecvFromBlocking(n) ==
  /\ task[n] = "recv"
  /\ rxq[n] # <<>>
  /\ task'   = [task EXCEPT ![n] = "got"]
  /\ result' = [result EXCEPT ![n] = Head(rxq[n])]
  /\ rxq'    = [rxq EXCEPT ![n] = Tail(@)]
  /\ UNCHANGED <<callerVars, jitter, heard, played, seq, air>>

\* recvfrom in the executor thread.  The socket does not block: an empty queue
\* raises BlockingIOError at once, a closed socket OSError.
RecvFrom(n) ==
  /\ task[n] = "recv"
  /\ \/ /\ rxq[n] # <<>>
        /\ task'   = [task EXCEPT ![n] = "got"]
        /\ result' = [result EXCEPT ![n] = Head(rxq[n])]
        /\ rxq'    = [rxq EXCEPT ![n] = Tail(@)]
     \/ /\ rxq[n] = <<>>
        /\ task' = [task EXCEPT ![n] = "failed"]
        /\ UNCHANGED <<result, rxq>>
  /\ UNCHANGED <<callerVars, jitter, heard, played, seq, air>>

\* deque(maxlen = JITTER_FRAMES + 4).append
Push(buf, d) ==
  Append(IF Len(buf) < JITTER_FRAMES + 4 THEN buf ELSE Tail(buf), d)

\* Mutant: waits for one frame more than JITTER_FRAMES.
FullAfter(buf) == Len(buf) > JITTER_FRAMES

Full(buf) == Len(buf) >= JITTER_FRAMES

\* A frame: append, release the oldest when the buffer is full, go round.
ResumeFrame(n) ==
  /\ task[n] = "got"
  /\ result[n].kind = "frame"
  /\ LET buf == Push(jitter[n], result[n])
     IN  /\ heard' = [heard EXCEPT ![n] = Append(@, result[n])]
         /\ jitter' = [jitter EXCEPT ![n] = IF Full(buf) THEN Tail(buf) ELSE buf]
         /\ played' = IF Full(buf)
                      THEN [played EXCEPT ![n] = Append(@, Head(buf))]
                      ELSE played
  /\ task'   = [task EXCEPT ![n] = Rearm(n)]
  /\ result' = [result EXCEPT ![n] = NoData]
  /\ UNCHANGED <<callerVars, seq, rxq, air>>

\* A datagram shorter than the header is skipped.
ResumeShort(n) ==
  /\ task[n] = "got"
  /\ result[n].kind = "short"
  /\ task'   = [task EXCEPT ![n] = Rearm(n)]
  /\ result' = [result EXCEPT ![n] = NoData]
  /\ UNCHANGED <<callerVars, jitter, heard, played, seq, rxq, air>>

\* A decoding error is no OSError: it leaves the task, as does the break.
ResumeEnds(n) ==
  /\ \/ task[n] = "got" /\ result[n].kind = "garbage"
     \/ task[n] = "failed"
  /\ task'   = [task EXCEPT ![n] = "ended"]
  /\ result' = [result EXCEPT ![n] = NoData]
  /\ UNCHANGED <<callerVars, jitter, heard, played, seq, rxq, air>>

Receive(n) ==
  TaskStarts(n) \/ RecvFrom(n) \/ ResumeFrame(n) \/ ResumeShort(n) \/ ResumeEnds(n)

-----------------------------------------------------------------------------
Next ==
  \E n \in Nodes :
    \/ Start(n) \/ StartFails(n) \/ Stop(n) \/ SendFrame(n)
    \/ \E d \in air \cup Strays : Arrive(n, d)
    \/ Receive(n)

\* The event loop and the executor run what is ready.
Fairness == \A n \in Nodes : WF_vars(Receive(n))

Spec == Init /\ [][Next]_vars /\ Fairness

-----------------------------------------------------------------------------
SockStates == {"none", "open", "closed"}

\* The state has its types; _seq never passes the first number that the
\* header cannot carry (reference_bus.py:74-75).
TypeOK ==
  /\ running  \in [Nodes -> BOOLEAN]
  /\ sendSock \in [Nodes -> SockStates]
  /\ recvSock \in [Nodes -> SockStates]
  /\ seq      \in [Nodes -> 0..(SeqMax + 1)]
  /\ jitter   \in [Nodes -> Seq(Frames)]
  /\ task     \in [Nodes -> TaskStates]
  /\ result   \in [Nodes -> Frames \cup Strays \cup {NoData}]
  /\ rxq      \in [Nodes -> Seq(Frames \cup Strays)]
  /\ air      \subseteq Frames
  /\ heard    \in [Nodes -> Seq(Frames)]
  /\ played   \in [Nodes -> Seq(Frames)]

\* The jitter buffer is a delay line: whatever arrives and whenever the bus
\* stops, each node plays what it heard in the order of arrival, nothing lost
\* or repeated, JITTER_FRAMES - 1 frames late (reference_bus.py:88-92).
Line == INSTANCE DelayLine WITH Delay <- JITTER_FRAMES - 1
ImplementsDelayLine == Line!DelaySpec

\* A frame that recvfrom had already returned when stop ran may still be
\* played, but it is the last: the task ends in the same step (lines 63-66
\* between 81 and 92).
LastFrameAfterStop ==
  [][\A n \in Nodes : sendSock[n] = "closed" /\ played'[n] # played[n]
                         => task'[n] = "ended"]_vars

\* stop makes the receive task end, wherever it was (lines 63-66, 80, 94-96).
StopEndsReceiver ==
  \A n \in Nodes : sendSock[n] = "closed" ~> task[n] = "ended"

\* "Streams each laptop's speaker output to all peers in the room"
\* (reference_bus.py:3): a bus that has not been stopped keeps receiving.
ReceiverSurvives ==
  \A n \in Nodes : running[n] => task[n] # "ended"
=============================================================================
