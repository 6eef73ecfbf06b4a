----------------------------- MODULE RelayClient -----------------------------
(***************************************************************************)
(* The relay client (coordinator/relay.py) in the process that runs it     *)
(* (run in coordinator/coordinator.py): how it connects before the other   *)
(* services start, receives and sends while they run, and is disconnected  *)
(* after they have stopped.                                                *)
(*                                                                         *)
(* One event loop: a step is what happens between two awaits.  The         *)
(* receive task is always inside ws.receive() when something else runs.    *)
(* The WebSocket (aiohttp, external) delivers in order until the server    *)
(* closes it or it breaks, which a heartbeat notices.  Payloads are left   *)
(* out.  receive() may return what is buffered without a pause; here each  *)
(* message is a step, which only adds interleavings.                       *)
(***************************************************************************)
EXTENDS Integers, Sequences

CONSTANTS
  SEQ_LIMIT,                 \* of the header's 32-bit field
  MaxArrivals                \* bound on the messages from the server

ASSUME RelayAssumption == SEQ_LIMIT \in Nat /\ MaxArrivals \in Nat

VARIABLES
  phase,                     \* where run is
  raised,                    \* ghost: a start or a stop has raised
  up,                        \* the other services that are up
  session, ws,               \* "none", "open", "closed"
  running,                   \* _running
  task,                      \* the receive task: "none", "receiving", "ended"
  closing,                   \* ws.close() waits for receive() to return
  inbox,                     \* messages receive() has still to return
  arrived,                   \* how many messages the server got through
  late,                      \* ghost: calls of on_frame after disconnect's
  seq,                       \* _seq
  wire                       \* numbers of the frames that went out

runVars == <<phase, raised, up>>
connVars == <<session, ws, running, closing>>
recvVars == <<task, inbox, arrived, late>>
sendVars == <<seq, wire>>
vars == <<runVars, connVars, recvVars, sendVars>>

Starts == {"connect", "discovery", "bus"}
Stops == {"stop discovery", "stop bus", "disconnect", "close"}
Phases == {"off", "loop", "ended"} \cup Starts \cup Stops

Kinds == {"frame", "short", "other", "close", "error", "closing"}

Init ==
  /\ phase = "off" /\ raised = FALSE /\ up = {}
  /\ session = "none" /\ ws = "none" /\ running = FALSE /\ closing = FALSE
  /\ task = "none" /\ inbox = <<>> /\ arrived = 0 /\ late = 0
  /\ seq = 0 /\ wire = <<>>

-----------------------------------------------------------------------------
(* run *)

To(from, to) == phase = from /\ phase' = to /\ UNCHANGED raised

\* connect, up to ws_connect.
OpenSession ==
  /\ To("off", "connect")
  /\ session' = "open"
  /\ UNCHANGED <<up, ws, running, closing, recvVars, sendVars>>

\* The rest of connect.
Connect ==
  /\ To("connect", "discovery")
  /\ ws' = "open" /\ running' = TRUE /\ task' = "receiving"
  /\ UNCHANGED <<up, session, closing, inbox, arrived, late, sendVars>>

StartService(from, service, to) ==
  /\ To(from, to) /\ up' = up \cup {service}
  /\ UNCHANGED <<connVars, recvVars, sendVars>>

Interrupt == To("loop", "stop discovery") /\ UNCHANGED <<up, connVars, recvVars, sendVars>>

StopService(from, service, to) ==
  /\ To(from, to) /\ up' = up \ {service}
  /\ UNCHANGED <<connVars, recvVars, sendVars>>

\* A start outside the try, or a stop inside the finally, raises (or is
\* cancelled): nothing after it is run.
Raise ==
  /\ phase \in Starts \cup Stops
  /\ phase' = "ended" /\ raised' = TRUE
  /\ UNCHANGED <<up, connVars, recvVars, sendVars>>

\* Mutant: the end of the receive task is awaited, and nothing wakes it.
DisconnectUnwoken ==
  /\ To("disconnect", "close")
  /\ running' = FALSE /\ closing' = (ws = "open")
  /\ UNCHANGED <<up, session, ws, recvVars, sendVars>>

\* disconnect, up to ws.close(), which wakes a receive() that is waiting.
Disconnect ==
  /\ To("disconnect", "close")
  /\ running' = FALSE
  /\ IF ws = "open"
     THEN closing' = TRUE /\ inbox' = Append(inbox, "closing")
     ELSE UNCHANGED <<closing, inbox>>
  /\ UNCHANGED <<up, session, ws, task, arrived, late, sendVars>>

\* Mutant: the session is left to the garbage collector.
CloseSocketOnly ==
  /\ To("close", "ended") /\ ~closing
  /\ ws' = "closed" /\ inbox' = <<>>
  /\ UNCHANGED <<up, session, running, closing, task, arrived, late, sendVars>>

\* The rest of disconnect; what ws.close() still reads is dropped.
CloseSession ==
  /\ To("close", "ended") /\ ~closing
  /\ ws' = "closed" /\ session' = "closed" /\ inbox' = <<>>
  /\ UNCHANGED <<up, running, closing, task, arrived, late, sendVars>>

-----------------------------------------------------------------------------
(* The server and the connection (external) *)

Over == ws # "open" \/ \E i \in DOMAIN inbox : inbox[i] \in {"close", "error"}

Arrive(kind) ==
  /\ ~Over /\ phase # "ended" /\ arrived < MaxArrivals
  /\ arrived' = arrived + 1
  /\ inbox' = Append(inbox, kind)
  /\ UNCHANGED <<runVars, connVars, task, late, sendVars>>

-----------------------------------------------------------------------------
(* _recv_loop, from one receive() to the next or to its end *)

\* Mutant: a short frame ends the loop.
GoOnUnlessShort(kind, wsNext) == kind \notin {"short", "error"} /\ running /\ wsNext = "open"

\* Mutant: the loop looks only at the connection.
GoOnOpen(kind, wsNext) == kind # "error" /\ wsNext = "open"

\* The loop goes round.  A close from the server is of a type of its own, so
\* only the loop's condition sees it.
GoOn(kind, wsNext) == kind # "error" /\ running /\ wsNext = "open"

Receive ==
  /\ task = "receiving" /\ inbox # <<>> /\ phase # "ended"
  /\ LET kind == Head(inbox)
     IN  /\ inbox' = Tail(inbox)
         /\ ws' = IF kind \in {"close", "error"} THEN "closed" ELSE ws
         /\ late' = IF kind = "frame" /\ ~running THEN late + 1 ELSE late
         /\ task' = IF GoOn(kind, ws') THEN "receiving" ELSE "ended"
  /\ closing' = FALSE
  /\ UNCHANGED <<runVars, session, running, arrived, sendVars>>

-----------------------------------------------------------------------------
(* send_frame, by any caller *)

\* Mutant: the number wraps.
SendFrameWraps ==
  /\ ws = "open" /\ phase # "ended"
  /\ seq' = (seq + 1) % SEQ_LIMIT
  /\ wire' = IF Over \/ Len(wire) > SEQ_LIMIT THEN wire ELSE Append(wire, seq)
  /\ UNCHANGED <<runVars, connVars, recvVars>>

\* Mutant: the number is not held to its field.
SendFrameUnchecked ==
  /\ ws = "open" /\ phase # "ended" /\ seq < 2 * SEQ_LIMIT
  /\ seq' = seq + 1
  /\ wire' = IF Over THEN wire ELSE Append(wire, seq)
  /\ UNCHANGED <<runVars, connVars, recvVars>>

\* The number is taken before send_bytes, which raises once the connection is
\* over; struct.pack raises when the field is full.
SendFrame ==
  /\ ws = "open" /\ phase # "ended"
  /\ seq < SEQ_LIMIT
  /\ seq' = seq + 1
  /\ wire' = IF Over THEN wire ELSE Append(wire, seq)
  /\ UNCHANGED <<runVars, connVars, recvVars>>

-----------------------------------------------------------------------------
Run ==
  \/ OpenSession \/ Connect
  \/ StartService("discovery", "discovery", "bus") \/ StartService("bus", "bus", "loop")
  \/ StopService("stop discovery", "discovery", "stop bus")
  \/ StopService("stop bus", "bus", "disconnect")
  \/ Disconnect \/ CloseSession

Next ==
  \/ Run \/ Interrupt \/ Raise \/ Receive \/ SendFrame
  \/ \E kind \in Kinds \ {"closing"} : Arrive(kind)

\* What is ready on the event loop is run; nothing is assumed of the server or
\* of who interrupts.
Spec == Init /\ [][Next]_vars /\ WF_vars(Run) /\ WF_vars(Receive)

-----------------------------------------------------------------------------
\* The state has its types.
TypeOK ==
  /\ phase \in Phases /\ raised \in BOOLEAN /\ up \subseteq {"discovery", "bus"}
  /\ {session, ws} \subseteq {"none", "open", "closed"}
  /\ running \in BOOLEAN /\ closing \in BOOLEAN
  /\ task \in {"none", "receiving", "ended"}
  /\ inbox \in Seq(Kinds) /\ arrived \in Nat
  /\ late \in Nat /\ seq \in 0 .. SEQ_LIMIT /\ wire \in Seq(Nat)

\* When the receive task stops handing over frames.  Once disconnect is called
\* it hands over at most one more, and none once the socket is closed, whatever
\* had arrived (relay.py:46-48, 59-67).  Before that it stops for nothing the
\* server sends except the end of the connection: not for a frame that is too
\* short, not for another type of message (relay.py:59-70).
ReceiverEnds ==
  /\ late <= 1 /\ (late = 1 => task = "ended")
  /\ phase = "ended" /\ ~raised => task = "ended"
  /\ task = "ended" /\ running => ws = "closed"

\* Numbers on the wire increase, and one is missing only if its frame was lost
\* with the connection (relay.py:54-56).
Numbered ==
  /\ \A i \in DOMAIN wire : wire[i] = i - 1
  /\ Len(wire) <= seq /\ (Len(wire) < seq => Over)

\* A process that ends without an exception has stopped all that it started;
\* one that does not leaves at least the relay's session open, even if only
\* discovery failed to stop (coordinator.py:56-72, relay.py:39-49).
SessionClosed ==
  phase = "ended" =>
    /\ raised <=> session = "open"
    /\ ~raised => up = {} /\ ws = "closed" /\ task = "ended"

\* An interrupted run ends: ws.close() does not wait for ever on a receive task
\* that waits on the connection (coordinator.py:67-72).
InterruptEnds == (phase = "stop discovery") ~> (phase = "ended")
=============================================================================
