-------------------------- MODULE RelayClientProof --------------------------
(***************************************************************************)
(* Theorems about RelayClient, for every size of the number field and any  *)
(* number of messages.  The inductive invariant says, for each phase of    *)
(* run, what the connection and the receive task can be, and that a number *)
(* is missing on the wire only if the connection is over.                  *)
(***************************************************************************)
EXTENDS RelayClient, TLAPS

Connected == {"discovery", "bus", "loop", "stop discovery", "stop bus", "disconnect"}

\* The receive task ends with the connection, and after disconnect with the
\* next message.
Life ==
  /\ phase \in {"off", "connect"} =>
       /\ ws = "none" /\ task = "none" /\ ~running /\ ~closing /\ ~raised /\ late = 0
       /\ session = IF phase = "off" THEN "none" ELSE "open"
  /\ phase \in Connected =>
       /\ running /\ ~closing /\ ~raised /\ session = "open" /\ late = 0
       /\ ws = IF task = "ended" THEN "closed" ELSE "open"
       /\ task # "none"
  /\ phase = "close" =>
       /\ ~running /\ ~raised /\ session = "open" /\ ws # "none"
       /\ task = IF closing THEN "receiving" ELSE "ended"
  /\ phase = "ended" =>
       /\ raised <=> session = "open"
       /\ ~raised => ws = "closed" /\ task = "ended" /\ ~running
  /\ task = "ended" /\ running => ws = "closed"
  /\ task # "ended" => late = 0
  /\ late <= 1

\* Services that may be up.
Up ==
  /\ phase \in {"off", "connect", "discovery"} => up = {}
  /\ phase \in {"bus", "stop bus"} => up \subseteq {"discovery", "bus"}
  /\ phase = "stop bus" => up \subseteq {"bus"}
  /\ phase \in {"disconnect", "close"} => up = {}
  /\ phase = "ended" /\ ~raised => up = {}

Untouched == ws = "none" => seq = 0 /\ wire = <<>>

RelayInv == TypeOK /\ Life /\ Up /\ Untouched /\ Numbered

-----------------------------------------------------------------------------
\* A message that ends the connection is in the queue.
Ending(q) == \E i \in DOMAIN q : q[i] \in {"close", "error"}

LEMMA EndingAppend ==
  ASSUME NEW q \in Seq(Kinds), NEW k \in Kinds
  PROVE  Append(q, k) \in Seq(Kinds) /\ (Ending(q) => Ending(Append(q, k)))
<1>1. Append(q, k) \in Seq(Kinds)
  OBVIOUS
<1>2. \A i \in DOMAIN q : i \in DOMAIN Append(q, k) /\ Append(q, k)[i] = q[i]
  OBVIOUS
<1> QED BY <1>1, <1>2 DEF Ending

LEMMA EndingTail ==
  ASSUME NEW q \in Seq(Kinds), q # <<>>
  PROVE  /\ Tail(q) \in Seq(Kinds) /\ Head(q) \in Kinds
         /\ Ending(q) => Head(q) \in {"close", "error"} \/ Ending(Tail(q))
<1>1. Tail(q) \in Seq(Kinds) /\ Head(q) \in Kinds
  OBVIOUS
<1>2. \A i \in DOMAIN q : i = 1 \/ (i - 1 \in DOMAIN Tail(q) /\ Tail(q)[i - 1] = q[i])
  OBVIOUS
<1>3. q[1] = Head(q)
  OBVIOUS
<1> QED BY <1>1, <1>2, <1>3 DEF Ending

LEMMA OneMoreNumber ==
  ASSUME NEW q \in Seq(Nat), NEW n \in Nat, Len(q) = n, \A i \in DOMAIN q : q[i] = i - 1
  PROVE  /\ Append(q, n) \in Seq(Nat) /\ Len(Append(q, n)) = n + 1
         /\ \A i \in DOMAIN Append(q, n) : Append(q, n)[i] = i - 1
<1>1. Append(q, n) \in Seq(Nat) /\ Len(Append(q, n)) = n + 1
  OBVIOUS
<1>2. \A i \in DOMAIN Append(q, n) : i \in DOMAIN q \/ i = n + 1
  OBVIOUS
<1>3. \A i \in DOMAIN q : Append(q, n)[i] = q[i]
  OBVIOUS
<1>4. Append(q, n)[n + 1] = n
  OBVIOUS
<1> QED BY <1>1, <1>2, <1>3, <1>4

LEMMA InitInv == Init => RelayInv
<1> SUFFICES ASSUME Init PROVE RelayInv
  OBVIOUS
<1>1. TypeOK
  <2>1. inbox \in Seq(Kinds) /\ wire \in Seq(Nat)
    BY DEF Init
  <2>2. seq \in 0 .. SEQ_LIMIT /\ arrived \in Nat /\ late \in Nat
    BY RelayAssumption DEF Init
  <2> QED BY <2>1, <2>2 DEF Init, TypeOK, Phases, Starts, Stops
<1>2. Life /\ Up /\ Untouched
  BY DEF Init, Life, Up, Untouched, Connected
<1>3. Numbered
  BY DEF Init, Numbered
<1> QED BY <1>1, <1>2, <1>3 DEF RelayInv

\* Numbers stay in order when nothing is sent and the connection, once over,
\* stays over.
LEMMA QuietNumbers ==
  ASSUME RelayInv, seq' = seq, wire' = wire, Over => Over', ws # "none" => ws' # "none"
  PROVE  Numbered' /\ Untouched'
<1>1. Numbered'
  BY DEF RelayInv, Numbered
<1>2. Untouched'
  BY DEF RelayInv, Untouched
<1> QED BY <1>1, <1>2

-----------------------------------------------------------------------------
LEMMA RunInv == ASSUME RelayInv, Run PROVE RelayInv'
<1> USE DEF RelayInv
<1>1. CASE OpenSession
  <2>1. TypeOK' /\ Life' /\ Up'
    BY <1>1 DEF OpenSession, To, TypeOK, Life, Up, Connected, Phases, Starts, Stops, recvVars, sendVars
  <2>2. Numbered' /\ Untouched'
    BY <1>1, QuietNumbers DEF OpenSession, Over, recvVars, sendVars
  <2> QED BY <2>1, <2>2
<1>2. CASE Connect
  <2>1. TypeOK' /\ Life' /\ Up'
    BY <1>2 DEF Connect, To, TypeOK, Life, Up, Connected, Phases, Starts, Stops, sendVars
  <2>2. seq' = 0 /\ wire' = <<>>
    BY <1>2 DEF Connect, To, Life, Untouched, sendVars
  <2>3. Numbered' /\ Untouched'
    BY <2>2 DEF Numbered, Untouched
  <2> QED BY <2>1, <2>3
<1>3. ASSUME NEW from \in {"discovery", "bus"}, NEW to \in {"bus", "loop"},
             from = "discovery" <=> to = "bus", StartService(from, from, to)
      PROVE  RelayInv'
  <2>1. TypeOK' /\ Life' /\ Up'
    BY <1>3 DEF StartService, To, TypeOK, Life, Up, Connected, Phases, Starts, Stops,
                connVars, recvVars, sendVars
  <2>2. Numbered' /\ Untouched'
    BY <1>3, QuietNumbers DEF StartService, Over, connVars, recvVars, sendVars
  <2> QED BY <2>1, <2>2
<1>4. ASSUME NEW from \in {"stop discovery", "stop bus"}, NEW to \in {"stop bus", "disconnect"},
             NEW service \in {"discovery", "bus"},
             from = "stop discovery" <=> to = "stop bus",
             from = "stop discovery" <=> service = "discovery",
             StopService(from, service, to)
      PROVE  RelayInv'
  <2>1. TypeOK' /\ Life' /\ Up'
    BY <1>4 DEF StopService, To, TypeOK, Life, Up, Connected, Phases, Starts, Stops,
                connVars, recvVars, sendVars
  <2>2. Numbered' /\ Untouched'
    BY <1>4, QuietNumbers DEF StopService, Over, connVars, recvVars, sendVars
  <2> QED BY <2>1, <2>2
<1>5. CASE Disconnect
  <2>1. /\ phase = "disconnect" /\ phase' = "close" /\ running' = FALSE
        /\ UNCHANGED <<raised, up, session, ws, task, arrived, late, sendVars>>
        /\ \/ ws = "open" /\ closing' = TRUE /\ inbox' = Append(inbox, "closing")
           \/ ws # "open" /\ closing' = closing /\ inbox' = inbox
    BY <1>5 DEF Disconnect, To
  <2>2. inbox \in Seq(Kinds) /\ "closing" \in Kinds
    BY DEF TypeOK, Kinds
  <2>3. inbox' \in Seq(Kinds) /\ (Ending(inbox) => Ending(inbox'))
    BY <2>1, <2>2, EndingAppend
  <2>4. TypeOK'
    BY <2>1, <2>3 DEF TypeOK, Phases, Starts, Stops, sendVars
  <2>6. Life'
    BY <2>1 DEF TypeOK, Life, Connected
  <2>7. Up'
    BY <2>1 DEF Up
  <2>5. Over => Over'
    BY <2>1, <2>3 DEF Over, Ending
  <2> QED BY <2>1, <2>4, <2>5, <2>6, <2>7, QuietNumbers DEF sendVars
<1>6. CASE CloseSession
  <2>1. TypeOK' /\ Life' /\ Up'
    BY <1>6 DEF CloseSession, To, TypeOK, Life, Up, Connected, Phases, Starts, Stops, sendVars
  <2>2. Numbered' /\ Untouched'
    BY <1>6, QuietNumbers DEF CloseSession, Over, sendVars
  <2> QED BY <2>1, <2>2
<1> QED BY <1>1, <1>2, <1>3, <1>4, <1>5, <1>6 DEF Run

LEMMA ReceiveInv == ASSUME RelayInv, Receive PROVE RelayInv'
<1> USE DEF RelayInv
<1> DEFINE kind == Head(inbox)
<1>1. inbox \in Seq(Kinds) /\ inbox # <<>>
  BY DEF TypeOK, Receive
<1>2. /\ Tail(inbox) \in Seq(Kinds) /\ kind \in Kinds
      /\ Ending(inbox) => kind \in {"close", "error"} \/ Ending(Tail(inbox))
  BY <1>1, EndingTail
<1> HIDE DEF kind
<1>3. /\ task = "receiving" /\ phase # "ended" /\ inbox' = Tail(inbox)
      /\ ws' = IF kind \in {"close", "error"} THEN "closed" ELSE ws
      /\ late' = IF kind = "frame" /\ ~running THEN late + 1 ELSE late
      /\ task' = IF GoOn(kind, ws') THEN "receiving" ELSE "ended"
      /\ closing' = FALSE
      /\ UNCHANGED <<runVars, session, running, arrived, sendVars>>
  BY DEF Receive, kind
<1>4. TypeOK'
  <2>1. late' \in Nat
    BY <1>3 DEF TypeOK
  <2>2. ws' \in {"none", "open", "closed"} /\ task' \in {"none", "receiving", "ended"}
    BY <1>3 DEF TypeOK
  <2> QED BY <1>2, <1>3, <2>1, <2>2 DEF TypeOK, runVars, sendVars
<1>5. Life'
  <2>1. phase \in Connected \cup {"close"}
    BY <1>3 DEF Life, TypeOK, Phases, Starts, Stops, Connected
  <2>2. late = 0
    BY <1>3 DEF Life
  <2>3. CASE phase = "close"
    BY <1>3, <2>2, <2>3 DEF Life, TypeOK, Connected, GoOn, runVars
  <2>4. CASE phase \in Connected
    BY <1>3, <2>2, <2>4 DEF Life, TypeOK, Connected, GoOn, runVars
  <2> QED BY <2>1, <2>3, <2>4
<1>6. Up'
  BY <1>3 DEF Up, runVars
<1>7. Over => Over'
  BY <1>2, <1>3 DEF Over, Ending
<1>8. Numbered' /\ Untouched'
  BY <1>3, <1>7, QuietNumbers DEF sendVars
<1> QED BY <1>4, <1>5, <1>6, <1>8

LEMMA SendFrameInv == ASSUME RelayInv, SendFrame PROVE RelayInv'
<1> USE DEF RelayInv
<1>1. Life' /\ Up'
  BY DEF SendFrame, Life, Up, Connected, runVars, connVars, recvVars
<1>2. Untouched'
  BY DEF SendFrame, Untouched, connVars
<1>3. PICK n \in Nat : Len(wire) = n
  BY DEF TypeOK
<1>4. wire \in Seq(Nat) /\ seq \in Nat /\ seq' = seq + 1 /\ seq' \in 0 .. SEQ_LIMIT
  BY RelayAssumption DEF SendFrame, TypeOK
<1>5. TypeOK' /\ Numbered'
  <2>1. (Over <=> Over')
    BY DEF SendFrame, Over, connVars, recvVars
  <2>2. CASE Over
    <3>1. wire' = wire
      BY <2>2 DEF SendFrame
    <3>2. n <= seq'
      BY <1>3, <1>4 DEF Numbered
    <3> QED BY <1>3, <1>4, <2>1, <2>2, <3>1, <3>2
         DEF SendFrame, TypeOK, Numbered, runVars, connVars, recvVars
  <2>3. CASE ~Over
    <3>1. n = seq
      BY <1>3, <1>4, <2>3 DEF Numbered
    <3>2. wire' = Append(wire, n)
      BY <2>3, <3>1 DEF SendFrame
    <3>3. /\ wire' \in Seq(Nat) /\ Len(wire') = n + 1
          /\ \A i \in DOMAIN wire' : wire'[i] = i - 1
      BY <1>3, <1>4, <3>2, OneMoreNumber DEF Numbered
    <3>4. Len(wire') = seq'
      BY <1>4, <3>1, <3>3
    <3>5. Numbered'
      BY <1>4, <3>3, <3>4 DEF Numbered
    <3> QED BY <1>4, <3>3, <3>5 DEF SendFrame, TypeOK, runVars, connVars, recvVars
  <2> QED BY <2>2, <2>3
<1> QED BY <1>1, <1>2, <1>5

LEMMA NextInv == RelayInv /\ [Next]_vars => RelayInv'
<1> SUFFICES ASSUME RelayInv, [Next]_vars PROVE RelayInv'
  OBVIOUS
<1> USE DEF RelayInv
<1>1. CASE Interrupt
  <2>1. TypeOK' /\ Life' /\ Up'
    BY <1>1 DEF Interrupt, To, TypeOK, Life, Up, Connected, Phases, Starts, Stops,
                connVars, recvVars, sendVars
  <2>2. Numbered' /\ Untouched'
    BY <1>1, QuietNumbers DEF Interrupt, Over, connVars, recvVars, sendVars
  <2> QED BY <2>1, <2>2
<1>2. CASE Raise
  <2>1. TypeOK' /\ Life' /\ Up'
    BY <1>2 DEF Raise, TypeOK, Life, Up, Connected, Phases, Starts, Stops,
                connVars, recvVars, sendVars
  <2>2. Numbered' /\ Untouched'
    BY <1>2, QuietNumbers DEF Raise, Over, connVars, recvVars, sendVars
  <2> QED BY <2>1, <2>2
<1>3. ASSUME NEW kind \in Kinds \ {"closing"}, Arrive(kind) PROVE RelayInv'
  <2>1. inbox \in Seq(Kinds) /\ inbox' = Append(inbox, kind)
    BY <1>3 DEF Arrive, TypeOK
  <2>2. inbox' \in Seq(Kinds) /\ (Ending(inbox) => Ending(inbox'))
    BY <2>1, EndingAppend
  <2>3. TypeOK'
    BY <1>3, <2>2 DEF Arrive, TypeOK, runVars, connVars, sendVars
  <2>5. Life' /\ Up'
    BY <1>3 DEF Arrive, Life, Up, runVars, connVars
  <2>4. Over => Over'
    BY <1>3, <2>2 DEF Arrive, Over, Ending, connVars
  <2> QED BY <1>3, <2>3, <2>4, <2>5, QuietNumbers DEF Arrive, connVars, sendVars
<1>4. CASE UNCHANGED vars
  <2>1. TypeOK' /\ Life' /\ Up'
    BY <1>4 DEF vars, TypeOK, Life, Up, runVars, connVars, recvVars, sendVars
  <2>2. Numbered' /\ Untouched'
    BY <1>4, QuietNumbers DEF vars, Over, connVars, recvVars, sendVars
  <2> QED BY <2>1, <2>2
<1> QED BY <1>1, <1>2, <1>3, <1>4, RunInv, ReceiveInv, SendFrameInv DEF Next

-----------------------------------------------------------------------------
\* RelayInv holds throughout.
THEOREM RelayInvariant == Spec => []RelayInv
<1> QED BY InitInv, NextInv, PTL DEF Spec

\* Types, with the 32-bit field of the number never exceeded.
THEOREM TypeCorrect == Spec => []TypeOK
<1>1. RelayInv => TypeOK
  BY DEF RelayInv
<1> QED BY <1>1, RelayInvariant, PTL

\* After disconnect at most one more frame is handed over; the receive task of
\* a connected client ends only with the connection.
THEOREM ReceiverEndsHolds == Spec => []ReceiverEnds
<1>1. RelayInv => ReceiverEnds
  BY DEF RelayInv, TypeOK, Life, ReceiverEnds
<1> QED BY <1>1, RelayInvariant, PTL

\* Numbers on the wire increase by one; one is missing only at the end of the
\* connection.
THEOREM NumberedHolds == Spec => []Numbered
<1>1. RelayInv => Numbered
  BY DEF RelayInv
<1> QED BY <1>1, RelayInvariant, PTL

\* A run that ends without an exception leaves nothing open, one that does not
\* leaves the relay's session.
THEOREM SessionClosedHolds == Spec => []SessionClosed
<1>1. RelayInv => SessionClosed
  BY DEF RelayInv, Life, Up, SessionClosed
<1> QED BY <1>1, RelayInvariant, PTL
=============================================================================
