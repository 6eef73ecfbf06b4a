---------------------------- MODULE AppBridgeProof ----------------------------
(***************************************************************************)
(* Theorems about AppBridge, for any number of clicks, polls, reloads and  *)
(* bridges.  The inductive invariant looks ahead along the answers that    *)
(* are under way: what the status of the page will be when it comes to     *)
(* each of them, and that it is then true of the bridge main.rs holds.     *)
(***************************************************************************)
EXTENDS AppBridge, FiniteSetTheorems, SequenceTheorems, TLAPS

Cmds == {"start", "stop", "stats"}
Answered == [cmd : Cmds, stats : Nat]

Types ==
  /\ {status, view} \subseteq {"inactive", "active"}
  /\ shown \in Nat /\ bridge \in Nat
  /\ ipc \in Seq(Cmds) /\ replies \in Seq(Answered)
  /\ old \in 0 .. Len(ipc)
  /\ hasty \in BOOLEAN /\ forgot \in BOOLEAN
  /\ thread \in [Bridges -> {"none", "check", "update", "ended"}]
  /\ channel \in [Bridges -> {"open", "stop", "closed"}]

\* The status will be "active", or "inactive", when the page, whose status is
\* s, comes to the n-th of the answers q.
Live(q, s, n) ==
  \/ s = "active" /\ \A k \in 1 .. n - 1 : q[k].cmd # "stop"
  \/ \E j \in 1 .. n - 1 : q[j].cmd = "start" /\ \A k \in j + 1 .. n - 1 : q[k].cmd # "stop"

Dead(q, s, n) ==
  \/ s = "inactive" /\ \A k \in 1 .. n - 1 : q[k].cmd # "start"
  \/ \E j \in 1 .. n - 1 : q[j].cmd = "stop" /\ \A k \in j + 1 .. n - 1 : q[k].cmd # "start"

\* Page and backend agree once the answers are handled.
Promised ==
  /\ bridge # 0 => Live(replies, status, Len(replies) + 1) \/ (forgot /\ replies = <<>>)
  /\ bridge = 0 => Dead(replies, status, Len(replies) + 1)

\* Statistics are answered only to a page that is active by then.
Asked ==
  \A i \in 1 .. Len(replies) :
    replies[i].cmd = "stats" /\ replies[i].stats # 0 => Live(replies, status, i)

Reloaded ==
  /\ old > 0 => forgot /\ replies = <<>>
  /\ forgot =>
       /\ status = "inactive" /\ view = "inactive"
       /\ \A i \in 1 .. Len(ipc) : ipc[i] = "stats" => i <= old
       /\ \A i \in 1 .. Len(replies) : replies[i].cmd # "stats"

Shown == status = "inactive" => shown = 0

Quiet ==
  /\ \A i \in 1 .. Len(ipc) : ipc[i] = "stats"
  /\ \A i \in 1 .. Len(replies) : replies[i].cmd = "stats"

\* Of patient clicks one at most is under way.
Single ==
  /\ \A i, j \in 1 .. Len(ipc) : ipc[i] # "stats" /\ ipc[j] # "stats" => i = j
  /\ \A i, j \in 1 .. Len(replies) : replies[i].cmd # "stats" /\ replies[j].cmd # "stats" => i = j
  /\ \A i \in 1 .. Len(ipc), j \in 1 .. Len(replies) : ipc[i] = "stats" \/ replies[j].cmd = "stats"
  /\ \A i \in 1 .. old : ipc[i] = "stats"
  /\ \A i \in 1 .. Len(ipc) : ipc[i] = "start" => bridge = 0
  /\ forgot /\ Quiet => bridge = 0

\* Statistics shown, or answered, are of the bridge that is held, unless the
\* answer to a Leave comes after them.
Current ==
  /\ shown \in {0, bridge} \/ \E j \in 1 .. Len(replies) : replies[j].cmd = "stop"
  /\ \A i \in 1 .. Len(replies) :
       replies[i].cmd = "stats" =>
         \/ replies[i].stats \in {0, bridge}
         \/ \E j \in i + 1 .. Len(replies) : replies[j].cmd = "stop"

Agreed == Promised /\ Asked /\ Reloaded /\ Shown

Patient == ~hasty => Single /\ Current /\ Managed

AppInv == Types /\ Agreed /\ Patient

-----------------------------------------------------------------------------
(* The queues *)

\* A sequence with an element more, point by point.
LEMMA AppendPoints ==
  ASSUME NEW S, NEW q \in Seq(S), NEW e \in S
  PROVE  /\ Append(q, e) \in Seq(S) /\ Len(Append(q, e)) = Len(q) + 1
         /\ Append(q, e) # <<>>
         /\ \A i \in 1 .. Len(q) : Append(q, e)[i] = q[i]
         /\ Append(q, e)[Len(q) + 1] = e
BY AppendProperties

\* A sequence without its first element, point by point.
LEMMA TailPoints ==
  ASSUME NEW S, NEW q \in Seq(S), q # <<>>
  PROVE  /\ Tail(q) \in Seq(S) /\ Len(Tail(q)) = Len(q) - 1
         /\ Len(q) \in Nat \ {0}
         /\ \A i \in 1 .. Len(q) - 1 : Tail(q)[i] = q[i + 1]
         /\ Head(q) = q[1] /\ q[1] \in S
BY HeadTailProperties, LenProperties, EmptySeq

\* The status after an answer.
After(cmd, s) == IF cmd = "start" THEN "active" ELSE IF cmd = "stop" THEN "inactive" ELSE s

\* When the page handles an answer, what was ahead is one answer closer.
LEMMA LiveTail ==
  ASSUME NEW q \in Seq(Answered), q # <<>>, NEW s, NEW n \in 2 .. Len(q) + 1, Live(q, s, n)
  PROVE  Live(Tail(q), After(q[1].cmd, s), n - 1)
<1>1. \A k \in 1 .. n - 2 : Tail(q)[k] = q[k + 1] /\ k + 1 \in 2 .. n - 1
  BY TailPoints
<1>2. CASE s = "active" /\ \A k \in 1 .. n - 1 : q[k].cmd # "stop"
  <2>1. After(q[1].cmd, s) = "active"
    BY <1>2 DEF After
  <2> QED BY <1>1, <1>2, <2>1 DEF Live
<1>3. ASSUME NEW j \in 1 .. n - 1, q[j].cmd = "start", \A k \in j + 1 .. n - 1 : q[k].cmd # "stop"
      PROVE  Live(Tail(q), After(q[1].cmd, s), n - 1)
  <2>1. CASE j = 1
    <3>1. After(q[1].cmd, s) = "active"
      BY <1>3, <2>1 DEF After
    <3>2. \A k \in 1 .. n - 2 : Tail(q)[k].cmd # "stop"
      BY <1>1, <1>3, <2>1
    <3> QED BY <3>1, <3>2 DEF Live
  <2>2. CASE j > 1
    <3>1. j - 1 \in 1 .. n - 2 /\ Tail(q)[j - 1].cmd = "start"
      BY <1>1, <1>3, <2>2
    <3>2. \A k \in (j - 1) + 1 .. n - 2 : Tail(q)[k].cmd # "stop"
      BY <1>1, <1>3, <2>2
    <3>3. (n - 1) - 1 = n - 2
      OBVIOUS
    <3>4. \E i \in 1 .. (n - 1) - 1 :
            Tail(q)[i].cmd = "start" /\ \A k \in i + 1 .. (n - 1) - 1 : Tail(q)[k].cmd # "stop"
      BY <3>1, <3>2, <3>3
    <3> QED BY <3>4 DEF Live
  <2> QED BY <2>1, <2>2
<1> QED BY <1>2, <1>3 DEF Live

\* The same of what will be inactive.
LEMMA DeadTail ==
  ASSUME NEW q \in Seq(Answered), q # <<>>, NEW s, NEW n \in 2 .. Len(q) + 1, Dead(q, s, n)
  PROVE  Dead(Tail(q), After(q[1].cmd, s), n - 1)
<1>1. \A k \in 1 .. n - 2 : Tail(q)[k] = q[k + 1] /\ k + 1 \in 2 .. n - 1
  BY TailPoints
<1>2. CASE s = "inactive" /\ \A k \in 1 .. n - 1 : q[k].cmd # "start"
  <2>1. After(q[1].cmd, s) = "inactive"
    BY <1>2 DEF After
  <2> QED BY <1>1, <1>2, <2>1 DEF Dead
<1>3. ASSUME NEW j \in 1 .. n - 1, q[j].cmd = "stop", \A k \in j + 1 .. n - 1 : q[k].cmd # "start"
      PROVE  Dead(Tail(q), After(q[1].cmd, s), n - 1)
  <2>1. CASE j = 1
    <3>1. After(q[1].cmd, s) = "inactive"
      BY <1>3, <2>1 DEF After
    <3>2. \A k \in 1 .. n - 2 : Tail(q)[k].cmd # "start"
      BY <1>1, <1>3, <2>1
    <3> QED BY <3>1, <3>2 DEF Dead
  <2>2. CASE j > 1
    <3>1. j - 1 \in 1 .. n - 2 /\ Tail(q)[j - 1].cmd = "stop"
      BY <1>1, <1>3, <2>2
    <3>2. \A k \in (j - 1) + 1 .. n - 2 : Tail(q)[k].cmd # "start"
      BY <1>1, <1>3, <2>2
    <3>3. (n - 1) - 1 = n - 2
      OBVIOUS
    <3>4. \E i \in 1 .. (n - 1) - 1 :
            Tail(q)[i].cmd = "stop" /\ \A k \in i + 1 .. (n - 1) - 1 : Tail(q)[k].cmd # "start"
      BY <3>1, <3>2, <3>3
    <3> QED BY <3>4 DEF Dead
  <2>3. j = 1 \/ j > 1
    OBVIOUS
  <2> QED BY <2>1, <2>2, <2>3
<1> QED BY <1>2, <1>3 DEF Dead

\* An answer at the end changes nothing before it; what comes after it is live
\* if it is a start, or if it is no stop and came to a live page.
LEMMA LiveAppend ==
  ASSUME NEW q \in Seq(Answered), NEW e \in Answered, NEW s
  PROVE  /\ \A n \in 1 .. Len(q) + 1 : Live(q, s, n) => Live(Append(q, e), s, n)
         /\ e.cmd = "start" => Live(Append(q, e), s, Len(q) + 2)
         /\ e.cmd # "stop" /\ Live(q, s, Len(q) + 1) => Live(Append(q, e), s, Len(q) + 2)
<1>1. \A i \in 1 .. Len(q) : Append(q, e)[i] = q[i]
  BY AppendPoints
<1>2. Append(q, e)[Len(q) + 1] = e /\ Len(q) \in Nat
  BY AppendPoints
<1>3. \A n \in 1 .. Len(q) + 1 : Live(q, s, n) => Live(Append(q, e), s, n)
  BY <1>1, <1>2 DEF Live
<1>4. e.cmd = "start" => Live(Append(q, e), s, Len(q) + 2)
  BY <1>2 DEF Live
<1>5. ASSUME e.cmd # "stop", Live(q, s, Len(q) + 1)
      PROVE  Live(Append(q, e), s, Len(q) + 2)
  <2>1. \A k \in 1 .. Len(q) + 1 : k \in 1 .. Len(q) \/ k = Len(q) + 1
    BY <1>2
  <2>2. CASE s = "active" /\ \A k \in 1 .. Len(q) : q[k].cmd # "stop"
    BY <1>1, <1>2, <1>5, <2>1, <2>2 DEF Live
  <2>3. ASSUME NEW j \in 1 .. Len(q), q[j].cmd = "start",
               \A k \in j + 1 .. Len(q) : q[k].cmd # "stop"
        PROVE  Live(Append(q, e), s, Len(q) + 2)
    BY <1>1, <1>2, <1>5, <2>1, <2>3 DEF Live
  <2>4. (Len(q) + 1) - 1 = Len(q)
    BY <1>2
  <2>5. \/ s = "active" /\ \A k \in 1 .. Len(q) : q[k].cmd # "stop"
        \/ \E j \in 1 .. Len(q) :
             q[j].cmd = "start" /\ \A k \in j + 1 .. Len(q) : q[k].cmd # "stop"
    BY <1>5, <2>4 DEF Live
  <2> QED BY <2>2, <2>3, <2>5
<1> QED BY <1>3, <1>4, <1>5

\* What comes after a stop is dead, or after no start that came to a dead page.
LEMMA DeadAppend ==
  ASSUME NEW q \in Seq(Answered), NEW e \in Answered, NEW s
  PROVE  /\ e.cmd = "stop" => Dead(Append(q, e), s, Len(q) + 2)
         /\ e.cmd # "start" /\ Dead(q, s, Len(q) + 1) => Dead(Append(q, e), s, Len(q) + 2)
<1>1. \A i \in 1 .. Len(q) : Append(q, e)[i] = q[i]
  BY AppendPoints
<1>2. Append(q, e)[Len(q) + 1] = e /\ Len(q) \in Nat
  BY AppendPoints
<1>4. e.cmd = "stop" => Dead(Append(q, e), s, Len(q) + 2)
  BY <1>2 DEF Dead
<1>5. ASSUME e.cmd # "start", Dead(q, s, Len(q) + 1)
      PROVE  Dead(Append(q, e), s, Len(q) + 2)
  <2>1. \A k \in 1 .. Len(q) + 1 : k \in 1 .. Len(q) \/ k = Len(q) + 1
    BY <1>2
  <2>2. CASE s = "inactive" /\ \A k \in 1 .. Len(q) : q[k].cmd # "start"
    BY <1>1, <1>2, <1>5, <2>1, <2>2 DEF Dead
  <2>3. ASSUME NEW j \in 1 .. Len(q), q[j].cmd = "stop",
               \A k \in j + 1 .. Len(q) : q[k].cmd # "start"
        PROVE  Dead(Append(q, e), s, Len(q) + 2)
    BY <1>1, <1>2, <1>5, <2>1, <2>3 DEF Dead
  <2> QED BY <1>2, <1>5, <2>2, <2>3 DEF Dead
<1> QED BY <1>4, <1>5

\* Settled in terms of positions.
LEMMA SettledIsQuiet == Types => (Settled <=> Quiet)
<1> SUFFICES ASSUME Types PROVE Settled <=> Quiet
  OBVIOUS
<1>1. /\ DOMAIN ipc = 1 .. Len(ipc) /\ \A i \in 1 .. Len(ipc) : ipc[i] \in Cmds
      /\ DOMAIN replies = 1 .. Len(replies)
      /\ \A i \in 1 .. Len(replies) : replies[i] \in Answered
  BY ElementOfSeq, LenProperties DEF Types
<1>2. \A e \in Answered : e.cmd \in Cmds
  BY DEF Answered
<1> QED BY <1>1, <1>2 DEF Settled, Quiet, Commands, Answers, Cmds

-----------------------------------------------------------------------------
(* The steps *)

\* The initial state has the invariant.
LEMMA Begins == Init => AppInv
<1> SUFFICES ASSUME Init PROVE AppInv
  OBVIOUS
<1>2. Len(replies) = 0 /\ Len(ipc) = 0
  BY DEF Init
<1>1. Types
  <2>1. ipc \in Seq(Cmds) /\ replies \in Seq(Answered)
    BY EmptySeq DEF Init
  <2>2. old \in 0 .. Len(ipc)
    BY <1>2 DEF Init
  <2> QED BY <2>1, <2>2 DEF Init, Types
<1>3. Agreed
  BY <1>2 DEF Init, Agreed, Promised, Asked, Reloaded, Shown, Dead
<1>4. Patient
  BY <1>2 DEF Init, Patient, Single, Current, Managed, Running
<1> QED BY <1>1, <1>3, <1>4 DEF AppInv

\* Of an inactive page without answers under way there is no bridge, unless it
\* was reloaded.
LEMMA QuietPage ==
  ASSUME Types, Promised, Quiet
  PROVE  /\ status = "inactive" => bridge = 0 \/ forgot
         /\ ~forgot /\ bridge = 0 => status = "inactive"
<1>1. \A i \in 1 .. Len(replies) : replies[i].cmd = "stats"
  BY DEF Quiet
<1>2. Len(replies) \in Nat
  BY DEF Types
<1> QED BY <1>1, <1>2 DEF Promised, Live, Dead

\* A click: a patient one is made when nothing is under way, and Join only when
\* no bridge is held.
LEMMA ClickSteps ==
  ASSUME AppInv, ClickJoin \/ ClickLeave
  PROVE  AppInv'
<1> DEFINE c == IF view # "active" THEN "start" ELSE "stop"
<1> USE DEF AppInv
<1>1. /\ ipc' = Append(ipc, c) /\ c \in {"start", "stop"}
      /\ c = "start" => view # "active"
      /\ hasty' = (hasty \/ ~Ready)
      /\ UNCHANGED <<status, shown, view, reloads, forgot, replies, old, rustVars>>
  BY DEF ClickJoin, ClickLeave
<1> HIDE DEF c
<1>2. /\ ipc' \in Seq(Cmds) /\ Len(ipc') = Len(ipc) + 1 /\ Len(ipc) \in Nat
      /\ \A i \in 1 .. Len(ipc) : ipc'[i] = ipc[i]
      /\ ipc'[Len(ipc) + 1] = c
  BY <1>1, AppendPoints DEF Types, Cmds
<1>3. Types'
  BY <1>1, <1>2 DEF Types, rustVars
<1>4. Agreed'
  <2>1. \A i \in 1 .. Len(ipc) + 1 : i \in 1 .. Len(ipc) \/ i = Len(ipc) + 1
    BY <1>2
  <2> QED BY <1>1, <1>2, <2>1 DEF Agreed, Promised, Asked, Reloaded, Shown, rustVars
<1>5. ASSUME ~hasty'
      PROVE  (Single /\ Current /\ Managed)'
  <2>1. ~hasty /\ Quiet /\ view = status
    BY <1>1, <1>5, SettledIsQuiet DEF Ready
  <2>2. Single /\ Current /\ Managed
    BY <2>1 DEF Patient
  <2>3. c = "start" => bridge = 0
    BY <1>1, <2>1, <2>2, QuietPage DEF Agreed, Single, Types
  <2>4. \A i \in 1 .. Len(ipc') : ipc'[i] = "stats" \/ i = Len(ipc) + 1
    BY <1>2, <2>1 DEF Quiet
  <2>5. \A i \in 1 .. old : i \in 1 .. Len(ipc) /\ ipc'[i] = "stats"
    BY <1>2, <2>1 DEF Quiet, Types
  <2>6. \A i \in 1 .. Len(replies) : replies[i].cmd = "stats"
    BY <2>1 DEF Quiet
  <2>7. ~Quiet'
    <3>1. Len(ipc) + 1 \in 1 .. Len(ipc')
      BY <1>2
    <3> QED BY <1>1, <1>2, <3>1 DEF Quiet
  <2>8. Single'
    BY <1>1, <1>2, <2>2, <2>3, <2>4, <2>5, <2>6, <2>7 DEF Single, rustVars
  <2>9. Current' /\ Managed'
    BY <1>1, <2>2 DEF Current, Managed, Running, rustVars
  <2> QED BY <2>8, <2>9
<1> QED BY <1>3, <1>4, <1>5 DEF Patient

\* A poll adds no start and no stop, and a reloaded page has no timer.
LEMMA PollStep ==
  ASSUME AppInv, Poll
  PROVE  AppInv'
<1> USE DEF AppInv
<1>1. /\ ipc' = Append(ipc, "stats") /\ view = "active"
      /\ UNCHANGED <<pageVars, replies, old, rustVars>>
  BY DEF Poll
<1>2. /\ ipc' \in Seq(Cmds) /\ Len(ipc') = Len(ipc) + 1 /\ Len(ipc) \in Nat
      /\ \A i \in 1 .. Len(ipc) : ipc'[i] = ipc[i]
      /\ ipc'[Len(ipc) + 1] = "stats"
  BY <1>1, AppendPoints DEF Types, Cmds
<1>3. Types'
  BY <1>1, <1>2 DEF Types, rustVars, pageVars
<1>4. ~forgot
  BY <1>1 DEF Agreed, Reloaded
<1>5. Agreed'
  BY <1>1, <1>4 DEF Agreed, Promised, Asked, Reloaded, Shown, rustVars, pageVars
<1>6. ASSUME ~hasty'
      PROVE  (Single /\ Current /\ Managed)'
  <2>1. Single /\ Current /\ Managed
    BY <1>1, <1>6 DEF Patient, pageVars
  <2>2. \A i \in 1 .. Len(ipc') : ipc'[i] = "stats" \/ (i \in 1 .. Len(ipc) /\ ipc'[i] = ipc[i])
    BY <1>2
  <2>3. \A i \in 1 .. old : i \in 1 .. Len(ipc) /\ ipc'[i] = ipc[i]
    BY <1>2 DEF Types
  <2>4. Single'
    <3>1. bridge' = bridge /\ replies' = replies /\ forgot' = forgot /\ old' = old
      BY <1>1 DEF rustVars, pageVars
    <3>2. \A i, j \in 1 .. Len(ipc') : ipc'[i] # "stats" /\ ipc'[j] # "stats" => i = j
      BY <2>1, <2>2 DEF Single
    <3>3. \A i \in 1 .. Len(ipc'), j \in 1 .. Len(replies) : ipc'[i] = "stats" \/ replies[j].cmd = "stats"
      BY <2>1, <2>2 DEF Single
    <3>4. \A i \in 1 .. old : ipc'[i] = "stats"
      BY <2>1, <2>3 DEF Single
    <3>5. \A i \in 1 .. Len(ipc') : ipc'[i] = "start" => bridge = 0
      BY <2>1, <2>2 DEF Single
    <3> QED BY <1>4, <2>1, <3>1, <3>2, <3>3, <3>4, <3>5 DEF Single
  <2>5. Current' /\ Managed'
    BY <1>1, <2>1 DEF Current, Managed, Running, rustVars, pageVars
  <2> QED BY <2>4, <2>5
<1> QED BY <1>3, <1>5, <1>6 DEF Patient

\* Rendering touches the view only.
LEMMA RenderStep ==
  ASSUME AppInv, Render
  PROVE  AppInv'
<1> USE DEF AppInv, Render, rustVars
<1>1. Types'
  BY DEF Types
<1>2. Agreed'
  BY DEF Agreed, Promised, Asked, Reloaded, Shown
<1>3. Patient'
  BY DEF Patient, Single, Quiet, Current, Managed, Running
<1> QED BY <1>1, <1>2, <1>3

\* A reload drops the answers, and all that is queued becomes an earlier page's.
LEMMA ReloadStep ==
  ASSUME AppInv, Reload
  PROVE  AppInv'
<1> USE DEF AppInv
<1>1. /\ hasty' = (hasty \/ ~Ready \/ status = "active") /\ forgot' = TRUE
      /\ status' = "inactive" /\ shown' = 0 /\ view' = "inactive"
      /\ replies' = <<>> /\ old' = Len(ipc)
      /\ UNCHANGED <<ipc, bridge, thread, channel>>
  BY DEF Reload, rustVars
<1>2. Len(replies') = 0 /\ Len(ipc) \in Nat
  BY <1>1 DEF Types
<1>3. Types'
  BY <1>1, <1>2 DEF Types
<1>4. Agreed'
  BY <1>1, <1>2 DEF Agreed, Promised, Asked, Reloaded, Shown, Dead
<1>5. ASSUME ~hasty'
      PROVE  (Single /\ Current /\ Managed)'
  <2>1. ~hasty /\ Quiet /\ status = "inactive"
    BY <1>1, <1>5, SettledIsQuiet DEF Ready, Types
  <2>2. Single /\ Managed
    BY <2>1 DEF Patient
  <2>3. bridge = 0
    BY <2>1, <2>2, QuietPage DEF Agreed, Single
  <2>4. \A i \in 1 .. Len(ipc) : ipc[i] = "stats"
    BY <2>1 DEF Quiet
  <2>5. Single'
    BY <1>1, <1>2, <2>3, <2>4 DEF Single
  <2>6. Current' /\ Managed'
    BY <1>1, <1>2, <2>2 DEF Current, Managed, Running
  <2> QED BY <2>5, <2>6
<1> QED BY <1>3, <1>4, <1>5 DEF Patient

-----------------------------------------------------------------------------
\* Handling an answer: everything ahead is one answer closer.
LEMMA AnswerSteps ==
  ASSUME AppInv, Joined \/ Left \/ Polled
  PROVE  AppInv'
<1> DEFINE e == Head(replies)
<1> USE DEF AppInv
<1>1. /\ replies # <<>> /\ replies' = Tail(replies)
      /\ forgot' = (forgot /\ e.cmd = "stats")
      /\ UNCHANGED <<view, hasty, ipc, old, bridge, thread, channel>>
      /\ status' = After(e.cmd, status)
      /\ shown' = IF e.cmd = "start" THEN shown
                  ELSE IF e.cmd = "stop" THEN 0
                  ELSE IF e.stats = 0 THEN shown ELSE e.stats
  BY DEF Joined, Left, Polled, NextAnswer, After, rustVars
<1>2. /\ e = replies[1] /\ e \in Answered
      /\ replies' \in Seq(Answered) /\ Len(replies') = Len(replies) - 1
      /\ Len(replies) \in Nat \ {0}
      /\ \A i \in 1 .. Len(replies) - 1 : replies'[i] = replies[i + 1]
  BY <1>1, TailPoints DEF Types
<1> HIDE DEF e
<1>3. e.cmd \in Cmds /\ e.stats \in Nat
  BY <1>2 DEF Answered
<1>4. ~forgot' /\ old = 0
  <2>1. 1 \in 1 .. Len(replies)
    BY <1>2
  <2>2. old = 0
    BY <1>1 DEF Agreed, Reloaded, Types
  <2>3. ~forgot'
    BY <1>1, <1>2, <2>1 DEF Agreed, Reloaded
  <2> QED BY <2>2, <2>3
<1>5. Types'
  BY <1>1, <1>2, <1>3 DEF Types, After
<1>6. e.cmd = "stats" /\ e.stats # 0 => status = "active"
  <2>1. ASSUME Live(replies, status, 1) PROVE status = "active"
    BY <2>1 DEF Live
  <2> QED BY <1>2, <2>1 DEF Agreed, Asked
<1>7. Agreed'
  <2>1. Len(replies) + 1 \in 2 .. Len(replies) + 1 /\ (Len(replies) + 1) - 1 = Len(replies') + 1
    BY <1>2
  <2>2. Live(replies, status, Len(replies) + 1) => Live(replies', status', Len(replies') + 1)
    BY <1>1, <1>2, <2>1, LiveTail DEF Types
  <2>3. Dead(replies, status, Len(replies) + 1) => Dead(replies', status', Len(replies') + 1)
    BY <1>1, <1>2, <2>1, DeadTail DEF Types
  <2>4. Promised'
    BY <1>1, <2>2, <2>3 DEF Agreed, Promised
  <2>5. ASSUME NEW i \in 1 .. Len(replies'), replies'[i].cmd = "stats", replies'[i].stats # 0
        PROVE  Live(replies', status', i)
    <3>1. i + 1 \in 2 .. Len(replies) + 1 /\ i + 1 \in 1 .. Len(replies) /\ (i + 1) - 1 = i
      BY <1>2
    <3>2. replies'[i] = replies[i + 1]
      BY <1>2
    <3>3. Live(replies, status, i + 1)
      BY <2>5, <3>1, <3>2 DEF Agreed, Asked
    <3> QED BY <1>1, <1>2, <3>1, <3>3, LiveTail DEF Types
  <2>6. Reloaded'
    BY <1>1, <1>4 DEF Reloaded
  <2>7. Shown'
    BY <1>1, <1>3, <1>6 DEF Agreed, Shown, After, Cmds
  <2> QED BY <2>4, <2>5, <2>6, <2>7 DEF Agreed, Asked
<1>8. ASSUME ~hasty'
      PROVE  (Single /\ Current /\ Managed)'
  <2>1. Single /\ Current /\ Managed
    BY <1>1, <1>8 DEF Patient
  <2>2. \A i \in 1 .. Len(replies') : i + 1 \in 1 .. Len(replies) /\ replies'[i] = replies[i + 1]
    BY <1>2
  <2>3. Single'
    BY <1>1, <1>2, <1>4, <2>1, <2>2 DEF Single
  <2>4. \A j \in 2 .. Len(replies) : j - 1 \in 1 .. Len(replies') /\ replies'[j - 1] = replies[j]
    BY <1>2
  <2>5. (\E j \in 2 .. Len(replies) : replies[j].cmd = "stop")
          => \E j \in 1 .. Len(replies') : replies'[j].cmd = "stop"
    BY <2>4
  <2>6. shown' \in {0, bridge} \/ \E j \in 1 .. Len(replies') : replies'[j].cmd = "stop"
    <3>1. CASE e.cmd = "start"
      BY <1>1, <1>2, <2>1, <2>5, <3>1 DEF Current
    <3>2. CASE e.cmd = "stop"
      BY <1>1, <3>2
    <3>3. CASE e.cmd = "stats" /\ e.stats = 0
      BY <1>1, <1>2, <2>1, <2>5, <3>3 DEF Current
    <3>4. CASE e.cmd = "stats" /\ e.stats # 0
      BY <1>1, <1>2, <2>1, <2>5, <3>4 DEF Current
    <3> QED BY <1>3, <3>1, <3>2, <3>3, <3>4 DEF Cmds
  <2>7. ASSUME NEW i \in 1 .. Len(replies'), replies'[i].cmd = "stats"
        PROVE  \/ replies'[i].stats \in {0, bridge}
               \/ \E j \in i + 1 .. Len(replies') : replies'[j].cmd = "stop"
    <3>1. \/ replies[i + 1].stats \in {0, bridge}
          \/ \E j \in (i + 1) + 1 .. Len(replies) : replies[j].cmd = "stop"
      BY <2>1, <2>2, <2>7 DEF Current
    <3>2. \A j \in (i + 1) + 1 .. Len(replies) :
            j - 1 \in i + 1 .. Len(replies') /\ replies'[j - 1] = replies[j]
      BY <1>2
    <3> QED BY <2>2, <3>1, <3>2
  <2>8. Current'
    BY <1>1, <2>6, <2>7 DEF Current
  <2>9. Managed'
    BY <1>1, <2>1 DEF Managed, Running
  <2> QED BY <2>3, <2>8, <2>9
<1> QED BY <1>5, <1>7, <1>8 DEF Patient

-----------------------------------------------------------------------------
\* A command is taken from the queue; its answer goes to the page that invoked
\* it, if that is still the one shown.
LEMMA RunPoints ==
  ASSUME Types, Reloaded, NEW cmd \in Cmds, NEW stats \in Nat, Run(cmd, stats)
  PROVE  /\ UNCHANGED <<status, shown, view, hasty, forgot>>
         /\ ipc' \in Seq(Cmds) /\ Len(ipc') = Len(ipc) - 1 /\ Len(ipc) \in Nat \ {0}
         /\ ipc[1] = cmd
         /\ \A i \in 1 .. Len(ipc') : i + 1 \in 1 .. Len(ipc) /\ ipc'[i] = ipc[i + 1]
         /\ Answer(cmd, stats) \in Answered /\ replies' \in Seq(Answered)
         /\ old > 0 => replies' = replies /\ replies = <<>> /\ forgot /\ old' = old - 1
         /\ old = 0 => old' = 0 /\ replies' = Append(replies, Answer(cmd, stats))
         /\ old \in Nat /\ old' \in 0 .. Len(ipc')
<1>1. /\ ipc # <<>> /\ ipc[1] = cmd /\ ipc' = Tail(ipc)
      /\ UNCHANGED <<status, shown, view, hasty, forgot>>
  BY TailPoints DEF Types, Run, pageVars
<1>2. /\ ipc' \in Seq(Cmds) /\ Len(ipc') = Len(ipc) - 1 /\ Len(ipc) \in Nat \ {0}
      /\ \A i \in 1 .. Len(ipc') : i + 1 \in 1 .. Len(ipc) /\ ipc'[i] = ipc[i + 1]
  BY <1>1, TailPoints DEF Types
<1>3. Answer(cmd, stats) \in Answered
  BY DEF Answer, Answered
<1>4. /\ old > 0 => replies' = replies /\ replies = <<>> /\ forgot /\ old' = old - 1
      /\ old = 0 => old' = 0 /\ replies' = Append(replies, Answer(cmd, stats))
      /\ old \in 0 .. Len(ipc)
  BY DEF Run, Reloaded, Types
<1>5. replies' \in Seq(Answered)
  <2>1. \A e \in Answered : Append(replies, e) \in Seq(Answered)
    BY AppendPoints DEF Types
  <2>2. old > 0 \/ old = 0
    BY <1>2, <1>4
  <2>3. replies \in Seq(Answered)
    BY DEF Types
  <2> QED BY ONLY <1>3, <1>4, <2>1, <2>2, <2>3
<1>6. old \in Nat /\ old' \in 0 .. Len(ipc')
  BY <1>2, <1>4
<1> QED BY <1>1, <1>2, <1>3, <1>4, <1>5, <1>6

\* What every command keeps, whatever it does to the bridge.
LEMMA RunKeeps ==
  ASSUME Types, Agreed, NEW cmd \in Cmds, NEW stats \in Nat, Run(cmd, stats),
         cmd = "stats" => stats = bridge
  PROVE  Asked' /\ Reloaded' /\ Shown'
<1> USE DEF Agreed
<1>1. /\ UNCHANGED <<status, shown, view, forgot>>
      /\ Len(ipc') = Len(ipc) - 1 /\ Len(ipc) \in Nat \ {0} /\ ipc[1] = cmd
      /\ \A i \in 1 .. Len(ipc') : i + 1 \in 1 .. Len(ipc) /\ ipc'[i] = ipc[i + 1]
      /\ Answer(cmd, stats) \in Answered
      /\ old > 0 => replies' = replies /\ replies = <<>> /\ forgot /\ old' = old - 1
      /\ old = 0 => old' = 0 /\ replies' = Append(replies, Answer(cmd, stats))
      /\ old \in Nat
  BY RunPoints
<1>2. old = 0 /\ forgot => cmd # "stats"
  <2>1. 1 \in 1 .. Len(ipc)
    BY <1>1
  <2> QED BY <1>1, <2>1 DEF Reloaded
<1>3. Shown'
  BY <1>1 DEF Shown
<1>4. \A i \in 1 .. Len(ipc') : forgot /\ ipc'[i] = "stats" => i <= old'
  BY <1>1 DEF Reloaded
<1>5. CASE old > 0
  BY <1>1, <1>3, <1>4, <1>5 DEF Asked, Reloaded
<1>6. CASE old = 0
  <2>1. /\ Len(replies') = Len(replies) + 1 /\ Len(replies) \in Nat
        /\ \A i \in 1 .. Len(replies) : replies'[i] = replies[i]
        /\ replies'[Len(replies) + 1] = Answer(cmd, stats)
    <3>1. \A e \in Answered :
            /\ Len(Append(replies, e)) = Len(replies) + 1 /\ Len(replies) \in Nat
            /\ \A i \in 1 .. Len(replies) : Append(replies, e)[i] = replies[i]
            /\ Append(replies, e)[Len(replies) + 1] = e
      BY AppendPoints DEF Types
    <3> QED BY <1>1, <1>6, <3>1
  <2>2. \A i \in 1 .. Len(replies') : i \in 1 .. Len(replies) \/ i = Len(replies) + 1
    BY <2>1
  <2>3. \A n \in 1 .. Len(replies) + 1 : Live(replies, status, n) => Live(replies', status', n)
    <3>1. \A e \in Answered : \A n \in 1 .. Len(replies) + 1 :
            Live(replies, status, n) => Live(Append(replies, e), status, n)
      BY LiveAppend DEF Types
    <3> QED BY <1>1, <1>6, <3>1
  <2>4. ASSUME cmd = "stats", stats # 0
        PROVE  Live(replies, status, Len(replies) + 1)
    BY <1>2, <1>6, <2>4 DEF Promised
  <2>5. Asked'
    <3> SUFFICES ASSUME NEW i \in 1 .. Len(replies'),
                        replies'[i].cmd = "stats", replies'[i].stats # 0
                 PROVE  Live(replies', status', i)
      BY DEF Asked
    <3>1. CASE i \in 1 .. Len(replies)
      BY <2>1, <2>3, <3>1 DEF Asked
    <3>2. CASE i = Len(replies) + 1
      <4>1. cmd = "stats" /\ stats # 0
        BY <2>1, <3>2 DEF Answer
      <4> QED BY <2>1, <2>3, <2>4, <3>2, <4>1
    <3> QED BY <2>2, <3>1, <3>2
  <2>6. Reloaded'
    BY <1>1, <1>2, <1>4, <1>6, <2>1, <2>2 DEF Reloaded, Answer
  <2> QED BY <1>3, <2>5, <2>6
<1> QED BY <1>1, <1>5, <1>6

\* The only command of a patient user that is under way has been run: it was
\* invoked by the page that is shown, and every answer before it is statistics.
LEMMA PatientRun ==
  ASSUME Types, Reloaded, Single, NEW cmd \in {"start", "stop"}, Run(cmd, 0)
  PROVE  /\ old = 0 /\ old' = 0
         /\ \A i \in 1 .. Len(ipc') : ipc'[i] = "stats"
         /\ Len(replies') = Len(replies) + 1 /\ Len(replies) \in Nat
         /\ \A i \in 1 .. Len(replies) : replies'[i] = replies[i] /\ replies[i].cmd = "stats"
         /\ replies'[Len(replies) + 1] = Answer(cmd, 0)
         /\ ~Quiet'
         /\ cmd = "start" => bridge = 0
<1>1. /\ Len(ipc') = Len(ipc) - 1 /\ Len(ipc) \in Nat \ {0} /\ ipc[1] = cmd
      /\ \A i \in 1 .. Len(ipc') : i + 1 \in 1 .. Len(ipc) /\ ipc'[i] = ipc[i + 1]
      /\ Answer(cmd, 0) \in Answered
      /\ old = 0 => old' = 0 /\ replies' = Append(replies, Answer(cmd, 0))
      /\ old \in Nat
  BY RunPoints DEF Cmds
<1>2. 1 \in 1 .. Len(ipc) /\ (old > 0 => 1 \in 1 .. old)
  BY <1>1
<1>3. old = 0 /\ old' = 0
  BY <1>1, <1>2 DEF Single
<1>4. \A i \in 1 .. Len(ipc') : ipc'[i] = "stats"
  BY <1>1, <1>2 DEF Single
<1>5. /\ Len(replies') = Len(replies) + 1 /\ Len(replies) \in Nat
      /\ \A i \in 1 .. Len(replies) : replies'[i] = replies[i]
      /\ replies'[Len(replies) + 1] = Answer(cmd, 0)
  <2>1. \A e \in Answered :
          /\ Len(Append(replies, e)) = Len(replies) + 1 /\ Len(replies) \in Nat
          /\ \A i \in 1 .. Len(replies) : Append(replies, e)[i] = replies[i]
          /\ Append(replies, e)[Len(replies) + 1] = e
    BY AppendPoints DEF Types
  <2> QED BY <1>1, <1>3, <2>1
<1>6. \A i \in 1 .. Len(replies) : replies[i].cmd = "stats"
  BY <1>1, <1>2 DEF Single
<1>7. ~Quiet'
  <2>1. Len(replies) + 1 \in 1 .. Len(replies')
    BY <1>5
  <2> QED BY <1>5, <2>1 DEF Quiet, Answer
<1>8. cmd = "start" => bridge = 0
  BY <1>1, <1>2 DEF Single
<1> QED BY <1>3, <1>4, <1>5, <1>6, <1>7, <1>8

\* Its answer is then the only one under way.
LEMMA SingleAfterRun ==
  ASSUME Types, Reloaded, Single, NEW cmd \in {"start", "stop"}, Run(cmd, 0)
  PROVE  Single'
<1>1. \A i \in 1 .. Len(replies') : i \in 1 .. Len(replies) \/ i = Len(replies) + 1
  BY PatientRun
<1>2. \A i \in 1 .. Len(replies') : replies'[i].cmd = "stats" \/ i = Len(replies) + 1
  BY <1>1, PatientRun
<1> QED BY <1>2, PatientRun DEF Single

\* start_pipeline: the answer makes the page live; a patient one replaces no bridge.
LEMMA StartStep ==
  ASSUME AppInv, StartPipeline
  PROVE  AppInv'
<1> DEFINE new == 1 + Cardinality({b \in Bridges : thread[b] # "none"})
<1> USE DEF AppInv
<1>1. /\ Run("start", 0) /\ StartBridge(new)
      /\ channel' = DropSender /\ bridge' = new
  BY DEF StartPipeline
<1>2. new \in Nat /\ new # 0
  <2>1. IsFiniteSet({b \in Bridges : thread[b] # "none"})
    <3>1. IsFiniteSet(Bridges)
      BY FS_Interval, AppBridgeAssumption DEF Bridges
    <3> QED BY <3>1, FS_Subset
  <2> QED BY <2>1, FS_CardinalityType
<1> HIDE DEF new
<1>3. "start" \in Cmds /\ 0 \in Nat
  BY DEF Cmds
<1>4. Types'
  <2>1. thread' \in [Bridges -> {"none", "check", "update", "ended"}]
    BY <1>1 DEF StartBridge, Types
  <2>2. channel' \in [Bridges -> {"open", "stop", "closed"}]
    BY <1>1 DEF DropSender, Types
  <2>3. /\ UNCHANGED <<status, shown, view, hasty, forgot>>
        /\ ipc' \in Seq(Cmds) /\ replies' \in Seq(Answered) /\ old' \in 0 .. Len(ipc')
    BY <1>1, <1>3, RunPoints DEF Agreed
  <2> QED BY <1>1, <1>2, <2>1, <2>2, <2>3 DEF Types
<1>5. Asked' /\ Reloaded' /\ Shown'
  BY <1>1, <1>3, RunKeeps
<1>6. Promised'
  <2>1. /\ UNCHANGED <<status, forgot>> /\ Answer("start", 0) \in Answered /\ old \in Nat
        /\ old > 0 => replies' = replies /\ replies = <<>> /\ forgot
        /\ old = 0 => replies' = Append(replies, Answer("start", 0))
    BY <1>1, <1>3, RunPoints DEF Agreed
  <2>2. CASE old > 0
    BY <1>1, <1>2, <2>1, <2>2 DEF Promised
  <2>3. CASE old = 0
    <3>1. Len(replies') + 1 = Len(replies) + 2
      BY <2>1, <2>3, AppendPoints DEF Types
    <3>2. Live(replies', status', Len(replies') + 1)
      BY <2>1, <2>3, <3>1, LiveAppend DEF Types, Answer
    <3> QED BY <1>1, <1>2, <3>2 DEF Promised
  <2> QED BY <2>1, <2>2, <2>3
<1>7. ASSUME ~hasty'
      PROVE  (Single /\ Current /\ Managed)'
  <2>1. ~hasty /\ shown' = shown
    BY <1>1, <1>3, <1>7, RunPoints DEF Agreed
  <2>2. Single /\ Current /\ Managed
    BY <2>1 DEF Patient
  <2>3. Single'
    BY <1>1, <2>2, SingleAfterRun DEF Agreed
  <2>4. /\ bridge = 0
        /\ Len(replies') = Len(replies) + 1 /\ Len(replies) \in Nat
        /\ \A i \in 1 .. Len(replies) : replies'[i] = replies[i] /\ replies[i].cmd = "stats"
        /\ replies'[Len(replies) + 1] = Answer("start", 0)
    BY <1>1, <2>2, PatientRun DEF Agreed
  <2>5. \A i \in 1 .. Len(replies) : replies[i].stats = 0
    BY <2>2, <2>4 DEF Current
  <2>6. shown = 0
    BY <2>2, <2>4 DEF Current
  <2>7. \A i \in 1 .. Len(replies') : i \in 1 .. Len(replies) \/ i = Len(replies) + 1
    BY <2>4
  <2>8. \A i \in 1 .. Len(replies') : replies'[i].stats = 0
    BY <2>4, <2>5, <2>7 DEF Answer
  <2>9. Current'
    BY <2>1, <2>6, <2>8 DEF Current
  <2>10. Managed'
    <3> SUFFICES ASSUME NEW b \in Bridges, Running(b)', b # bridge'
                 PROVE  channel'[b] = "stop"
      BY DEF Managed
    <3>1. Running(b)
      BY <1>1 DEF Running, StartBridge, Types
    <3>2. b # 0
      BY AppBridgeAssumption DEF Bridges
    <3>3. channel[b] = "stop"
      BY <2>2, <2>4, <3>1, <3>2 DEF Managed
    <3> QED BY <1>1, <3>3 DEF DropSender
  <2> QED BY <2>3, <2>9, <2>10
<1> QED BY <1>4, <1>5, <1>6, <1>7 DEF Agreed, Patient

\* stop_pipeline: the answer makes the page dead, and the thread is told to stop.
LEMMA StopStep ==
  ASSUME AppInv, StopPipeline
  PROVE  AppInv'
<1> USE DEF AppInv
<1>1. Run("stop", 0) /\ StopBridge /\ bridge' = 0 /\ thread' = thread
  BY DEF StopPipeline
<1>2. "stop" \in Cmds /\ 0 \in Nat
  BY DEF Cmds
<1>3. Types'
  <2>1. channel' \in [Bridges -> {"open", "stop", "closed"}]
    BY <1>1 DEF StopBridge, Types
  <2>2. /\ UNCHANGED <<status, shown, view, hasty, forgot>>
        /\ ipc' \in Seq(Cmds) /\ replies' \in Seq(Answered) /\ old' \in 0 .. Len(ipc')
    BY <1>1, <1>2, RunPoints DEF Agreed
  <2> QED BY <1>1, <1>2, <2>1, <2>2 DEF Types
<1>4. Asked' /\ Reloaded' /\ Shown'
  BY <1>1, <1>2, RunKeeps
<1>5. Promised'
  <2>1. /\ UNCHANGED <<status, forgot>> /\ Answer("stop", 0) \in Answered /\ old \in Nat
        /\ old > 0 => replies' = replies /\ replies = <<>> /\ forgot
        /\ old = 0 => replies' = Append(replies, Answer("stop", 0))
    BY <1>1, <1>2, RunPoints DEF Agreed
  <2>2. CASE old > 0
    <3>1. status' = "inactive" /\ Len(replies') = 0
      BY <2>1, <2>2 DEF Agreed, Reloaded
    <3> QED BY <1>1, <3>1 DEF Promised, Dead
  <2>3. CASE old = 0
    <3>1. Len(replies') + 1 = Len(replies) + 2
      BY <2>1, <2>3, AppendPoints DEF Types
    <3>2. Dead(replies', status', Len(replies') + 1)
      BY <2>1, <2>3, <3>1, DeadAppend DEF Types, Answer
    <3> QED BY <1>1, <3>2 DEF Promised
  <2> QED BY <2>1, <2>2, <2>3
<1>6. ASSUME ~hasty'
      PROVE  (Single /\ Current /\ Managed)'
  <2>1. ~hasty
    BY <1>1, <1>2, <1>6, RunPoints DEF Agreed
  <2>2. Single /\ Current /\ Managed
    BY <2>1 DEF Patient
  <2>3. Single'
    BY <1>1, <2>2, SingleAfterRun DEF Agreed
  <2>4. /\ Len(replies') = Len(replies) + 1 /\ Len(replies) \in Nat
        /\ replies'[Len(replies) + 1] = Answer("stop", 0)
    BY <1>1, <2>2, PatientRun DEF Agreed
  <2>5. \A i \in 1 .. Len(replies') : i \in 1 .. Len(replies) \/ i = Len(replies) + 1
    BY <2>4
  <2>6. Current'
    BY <2>4, <2>5 DEF Current, Answer
  <2>7. Managed'
    BY <1>1, <2>2 DEF Managed, Running, StopBridge
  <2> QED BY <2>3, <2>6, <2>7
<1> QED BY <1>3, <1>4, <1>5, <1>6 DEF Agreed, Patient

\* get_pipeline_stats: the statistics of the bridge that is held.
LEMMA StatsStep ==
  ASSUME AppInv, GetPipelineStats
  PROVE  AppInv'
<1> USE DEF AppInv
<1>1. Run("stats", bridge) /\ UNCHANGED <<bridge, thread, channel>>
  BY DEF GetPipelineStats, rustVars
<1>2. "stats" \in Cmds /\ bridge \in Nat
  BY DEF Cmds, Types
<1>3. /\ UNCHANGED <<status, shown, view, hasty, forgot>>
      /\ ipc' \in Seq(Cmds) /\ Len(ipc') = Len(ipc) - 1 /\ Len(ipc) \in Nat \ {0}
      /\ ipc[1] = "stats"
      /\ \A i \in 1 .. Len(ipc') : i + 1 \in 1 .. Len(ipc) /\ ipc'[i] = ipc[i + 1]
      /\ Answer("stats", bridge) \in Answered /\ replies' \in Seq(Answered)
      /\ old > 0 => replies' = replies /\ replies = <<>> /\ forgot /\ old' = old - 1
      /\ old = 0 => old' = 0 /\ replies' = Append(replies, Answer("stats", bridge))
      /\ old \in Nat /\ old' \in 0 .. Len(ipc')
  BY <1>1, <1>2, RunPoints DEF Agreed
<1>4. Types'
  BY <1>1, <1>3 DEF Types
<1>5. Asked' /\ Reloaded' /\ Shown'
  BY <1>1, <1>2, RunKeeps
<1>6. old = 0 =>
        /\ Len(replies') = Len(replies) + 1 /\ Len(replies) \in Nat
        /\ \A i \in 1 .. Len(replies) : replies'[i] = replies[i]
        /\ replies'[Len(replies) + 1] = Answer("stats", bridge)
  <2>1. \A e \in Answered :
          /\ Len(Append(replies, e)) = Len(replies) + 1 /\ Len(replies) \in Nat
          /\ \A i \in 1 .. Len(replies) : Append(replies, e)[i] = replies[i]
          /\ Append(replies, e)[Len(replies) + 1] = e
    BY AppendPoints DEF Types
  <2> QED BY <1>3, <2>1
<1>7. Promised'
  <2>1. CASE old > 0
    BY <1>1, <1>3, <2>1 DEF Agreed, Promised
  <2>2. CASE old = 0
    <3>1. Len(replies') + 1 = Len(replies) + 2
      BY <1>6, <2>2
    <3>2. ~(forgot /\ replies = <<>>)
      <4>1. 1 \in 1 .. Len(ipc)
        BY <1>3
      <4> QED BY <1>3, <2>2, <4>1 DEF Agreed, Reloaded
    <3>3. Live(replies, status, Len(replies) + 1) => Live(replies', status', Len(replies') + 1)
      <4>1. \A e \in Answered : e.cmd # "stop" /\ Live(replies, status, Len(replies) + 1)
                                => Live(Append(replies, e), status, Len(replies) + 2)
        BY LiveAppend DEF Types
      <4>2. Answer("stats", bridge).cmd # "stop"
        BY DEF Answer
      <4> QED BY <1>3, <2>2, <3>1, <4>1, <4>2
    <3>4. Dead(replies, status, Len(replies) + 1) => Dead(replies', status', Len(replies') + 1)
      <4>1. \A e \in Answered : e.cmd # "start" /\ Dead(replies, status, Len(replies) + 1)
                                => Dead(Append(replies, e), status, Len(replies) + 2)
        BY DeadAppend DEF Types
      <4>2. Answer("stats", bridge).cmd # "start"
        BY DEF Answer
      <4> QED BY <1>3, <2>2, <3>1, <4>1, <4>2
    <3> QED BY <1>1, <3>2, <3>3, <3>4 DEF Agreed, Promised
  <2> QED BY <1>3, <2>1, <2>2
<1>8. ASSUME ~hasty'
      PROVE  (Single /\ Current /\ Managed)'
  <2>1. Single /\ Current /\ Managed
    BY <1>3, <1>8 DEF Patient
  <2>2. \A i \in 1 .. Len(ipc) : i = 1 \/ (i - 1 \in 1 .. Len(ipc') /\ ipc'[i - 1] = ipc[i])
    <3>1. \A i \in 1 .. Len(ipc) : i = 1 \/ (i - 1 \in 1 .. Len(ipc') /\ (i - 1) + 1 = i)
      BY <1>3
    <3> QED BY <1>3, <3>1
  <2>3. \A i \in 1 .. Len(replies') :
          \/ i \in 1 .. Len(replies) /\ replies'[i] = replies[i]
          \/ i = Len(replies) + 1 /\ replies'[i] = Answer("stats", bridge)
    BY <1>3, <1>6
  <2>4. \A i \in 1 .. Len(replies) : i \in 1 .. Len(replies') /\ replies'[i] = replies[i]
    BY <1>3, <1>6
  <2>5. Quiet' => Quiet
    BY <1>3, <2>2, <2>4 DEF Quiet
  <2>6. \A i \in 1 .. Len(replies') :
          replies'[i].cmd = "stats" \/ (i \in 1 .. Len(replies) /\ replies'[i] = replies[i])
    BY <2>3 DEF Answer
  <2>7. \A i \in 1 .. old' : i \in 1 .. Len(ipc') /\ i + 1 \in 1 .. old
    BY <1>3
  <2>8. Single'
    <3>1. \A i, j \in 1 .. Len(ipc') : ipc'[i] # "stats" /\ ipc'[j] # "stats" => i = j
      <4> SUFFICES ASSUME NEW i \in 1 .. Len(ipc'), NEW j \in 1 .. Len(ipc'),
                          ipc'[i] # "stats", ipc'[j] # "stats"
                   PROVE  i = j
        OBVIOUS
      <4>1. i + 1 \in 1 .. Len(ipc) /\ ipc[i + 1] # "stats"
        BY <1>3
      <4>2. j + 1 \in 1 .. Len(ipc) /\ ipc[j + 1] # "stats"
        BY <1>3
      <4>3. i + 1 = j + 1
        BY <2>1, <4>1, <4>2 DEF Single
      <4> QED BY <4>3
    <3>2. \A i, j \in 1 .. Len(replies') :
            replies'[i].cmd # "stats" /\ replies'[j].cmd # "stats" => i = j
      BY <2>1, <2>6 DEF Single
    <3>3. \A i \in 1 .. Len(ipc'), j \in 1 .. Len(replies') :
            ipc'[i] = "stats" \/ replies'[j].cmd = "stats"
      <4> SUFFICES ASSUME NEW i \in 1 .. Len(ipc'), NEW j \in 1 .. Len(replies'),
                          replies'[j].cmd # "stats"
                   PROVE  ipc'[i] = "stats"
        OBVIOUS
      <4>1. j \in 1 .. Len(replies) /\ replies[j].cmd # "stats"
        BY <2>6
      <4>2. i + 1 \in 1 .. Len(ipc) /\ ipc'[i] = ipc[i + 1]
        BY <1>3
      <4> QED BY <2>1, <4>1, <4>2 DEF Single
    <3>4. \A i \in 1 .. old' : ipc'[i] = "stats"
      BY <1>3, <2>1, <2>7 DEF Single
    <3>5. \A i \in 1 .. Len(ipc') : ipc'[i] = "start" => bridge' = 0
      BY <1>1, <1>3, <2>1 DEF Single
    <3>6. forgot' /\ Quiet' => bridge' = 0
      BY <1>1, <1>3, <2>1, <2>5 DEF Single
    <3> QED BY <3>1, <3>2, <3>3, <3>4, <3>5, <3>6 DEF Single
  <2>9. Current'
    <3>1. shown' \in {0, bridge'} \/ \E j \in 1 .. Len(replies') : replies'[j].cmd = "stop"
      BY <1>1, <1>3, <2>1, <2>4 DEF Current
    <3> SUFFICES ASSUME NEW i \in 1 .. Len(replies'), replies'[i].cmd = "stats"
                 PROVE  \/ replies'[i].stats \in {0, bridge'}
                        \/ \E j \in i + 1 .. Len(replies') : replies'[j].cmd = "stop"
      BY <3>1 DEF Current
    <3>2. CASE i \in 1 .. Len(replies) /\ replies'[i] = replies[i]
      <4>1. \A j \in i + 1 .. Len(replies) :
              j \in 1 .. Len(replies) /\ j \in i + 1 .. Len(replies')
        BY <2>4, <3>2
      <4> QED BY <1>1, <2>1, <2>4, <3>2, <4>1 DEF Current
    <3>3. CASE replies'[i] = Answer("stats", bridge)
      BY <1>1, <3>3 DEF Answer
    <3> QED BY <2>3, <3>2, <3>3
  <2>10. Managed'
    BY <1>1, <2>1 DEF Managed, Running
  <2> QED BY <2>8, <2>9, <2>10
<1> QED BY <1>4, <1>5, <1>7, <1>8 DEF Agreed, Patient

-----------------------------------------------------------------------------
\* A metric thread starts no other and touches nothing else.
LEMMA ThreadSteps ==
  ASSUME AppInv, NEW b \in Bridges, Check(b) \/ Update(b)
  PROVE  AppInv'
<1> USE DEF AppInv
<1>1. /\ Running(b)
      /\ \E t \in {"ended", "update", "check"} : thread' = [thread EXCEPT ![b] = t]
      /\ UNCHANGED <<status, shown, view, hasty, forgot, ipc, replies, old, bridge, channel>>
  BY DEF Check, Update, Running, pageVars
<1>2. Types'
  BY <1>1 DEF Types
<1>3. Agreed'
  BY <1>1 DEF Agreed, Promised, Asked, Reloaded, Shown
<1>4. \A c \in Bridges : Running(c)' => Running(c)
  BY <1>1 DEF Types, Running
<1>5. Patient'
  BY <1>1, <1>4 DEF Patient, Single, Quiet, Current, Managed
<1> QED BY <1>2, <1>3, <1>5

\* Every reachable state satisfies the invariant, whatever is clicked and
\* however the page, the commands and the metric threads interleave.
THEOREM Invariant == Spec => []AppInv
<1>1. AppInv /\ [Next]_vars => AppInv'
  <2> SUFFICES ASSUME AppInv, [Next]_vars PROVE AppInv'
    OBVIOUS
  <2>1. CASE Page
    BY <2>1, ClickSteps, PollStep, RenderStep, ReloadStep, AnswerSteps DEF Page
  <2>2. CASE MainThread
    BY <2>2, StartStep, StopStep, StatsStep DEF MainThread
  <2>3. CASE \E b \in Bridges : Check(b) \/ Update(b)
    BY <2>3, ThreadSteps
  <2>4. CASE UNCHANGED vars
    BY <2>4 DEF AppInv, Types, Agreed, Promised, Asked, Reloaded, Shown, Patient, Single,
                Quiet, Current, Managed, Running, vars, pageVars, rustVars
  <2> QED BY <2>1, <2>2, <2>3, <2>4 DEF Next
<1> QED BY <1>1, Begins, PTL DEF Spec

\* Once every answer of start_pipeline and stop_pipeline is handled, the page
\* says "active" exactly when main.rs holds a bridge, or has just been
\* reloaded (App.tsx:71-91, main.rs:22-37).
THEOREM PageAgreesHolds == Spec => []PageAgrees
<1>1. AppInv => PageAgrees
  <2> SUFFICES ASSUME AppInv, Answers("start") \cup Answers("stop") = {}
               PROVE  (status = "active" <=> bridge # 0) \/ (forgot /\ status = "inactive")
    BY DEF PageAgrees
  <2>1. DOMAIN replies = 1 .. Len(replies) /\ Len(replies) \in Nat
    BY LenProperties DEF AppInv, Types
  <2>2. \A i \in 1 .. Len(replies) : replies[i].cmd # "start" /\ replies[i].cmd # "stop"
    BY <2>1 DEF Answers
  <2>3. Live(replies, status, Len(replies) + 1) => status = "active"
    BY <2>1, <2>2 DEF Live
  <2>4. Dead(replies, status, Len(replies) + 1) => status = "inactive"
    BY <2>1, <2>2 DEF Dead
  <2> QED BY <2>3, <2>4 DEF AppInv, Agreed, Promised, Reloaded
<1> QED BY <1>1, Invariant, PTL

\* An inactive page shows DEFAULT_STATS, and patient users never see the
\* statistics of another bridge than the one that is held (App.tsx:58-69, 87-91).
THEOREM ShownIsCurrentHolds == Spec => []ShownIsCurrent
<1>1. AppInv => ShownIsCurrent
  <2> SUFFICES ASSUME AppInv PROVE ShownIsCurrent
    OBVIOUS
  <2>1. status = "inactive" => shown = 0
    BY DEF AppInv, Agreed, Shown
  <2>2. ASSUME ~hasty, Settled PROVE shown \in {0, bridge}
    <3>1. \A j \in 1 .. Len(replies) : replies[j].cmd = "stats"
      BY <2>2, SettledIsQuiet DEF AppInv, Quiet
    <3> QED BY <2>2, <3>1 DEF AppInv, Patient, Current
  <2> QED BY <2>1, <2>2 DEF ShownIsCurrent
<1> QED BY <1>1, Invariant, PTL

\* Of patient users every metric thread that runs is the one of the bridge that
\* is held, or has been told to stop (pipeline_bridge.rs:58-66).
THEOREM NoOrphanHolds == Spec => []NoOrphan
<1>1. AppInv => NoOrphan
  BY DEF AppInv, Patient, NoOrphan
<1> QED BY <1>1, Invariant, PTL

-----------------------------------------------------------------------------
(* The numbers of the bridges *)

StartsIn(q) == {i \in 1 .. Len(q) : q[i] = "start"}

\* The first k bridges have been started, and no other; each start still
\* queued was a click.
Numbered(k) ==
  /\ \A b \in Bridges : (thread[b] # "none" <=> b <= k) /\ (b > k => channel[b] = "open")
  /\ bridge \in 0 .. k /\ shown \in 0 .. k
  /\ bridge # 0 => channel[bridge] = "open"
  /\ \A i \in 1 .. Len(replies) : replies[i].stats \in 0 .. k
  /\ k + Cardinality(StartsIn(ipc)) <= joins
  /\ joins \in 0 .. MaxBridges /\ leaves \in 0 .. MaxLeaves /\ reloads \in 0 .. MaxReloads

NumberInv == \E k \in 0 .. MaxBridges : Numbered(k)

LEMMA StartsFinite ==
  ASSUME NEW q \in Seq(Cmds)
  PROVE  IsFiniteSet(StartsIn(q)) /\ Cardinality(StartsIn(q)) \in Nat
<1>1. IsFiniteSet(1 .. Len(q)) /\ StartsIn(q) \subseteq 1 .. Len(q)
  BY FS_Interval, LenProperties DEF StartsIn
<1> QED BY <1>1, FS_Subset, FS_CardinalityType

\* One more command at the end of the queue.
LEMMA StartsAppend ==
  ASSUME NEW q \in Seq(Cmds), NEW c \in Cmds
  PROVE  Cardinality(StartsIn(Append(q, c))) =
           IF c = "start" THEN Cardinality(StartsIn(q)) + 1 ELSE Cardinality(StartsIn(q))
<1>1. /\ Len(q) \in Nat /\ Len(Append(q, c)) = Len(q) + 1 /\ Append(q, c)[Len(q) + 1] = c
      /\ \A i \in 1 .. Len(q) : Append(q, c)[i] = q[i]
  BY AppendPoints
<1>2. \A i \in 1 .. Len(q) + 1 : i = Len(q) + 1 \/ i \in 1 .. Len(q)
  BY <1>1
<1>3. CASE c = "start"
  <2>1. StartsIn(Append(q, c)) = StartsIn(q) \cup {Len(q) + 1}
    BY <1>1, <1>2, <1>3 DEF StartsIn
  <2>2. Len(q) + 1 \notin StartsIn(q)
    BY <1>1 DEF StartsIn
  <2> QED BY <1>3, <2>1, <2>2, StartsFinite, FS_AddElement
<1>4. CASE c # "start"
  <2>1. StartsIn(Append(q, c)) = StartsIn(q)
    BY <1>1, <1>2, <1>4 DEF StartsIn
  <2> QED BY <1>4, <2>1
<1> QED BY <1>3, <1>4

\* The first command leaves the queue.
LEMMA StartsTail ==
  ASSUME NEW q \in Seq(Cmds), q # <<>>
  PROVE  Cardinality(StartsIn(q)) =
           IF q[1] = "start" THEN Cardinality(StartsIn(Tail(q))) + 1
           ELSE Cardinality(StartsIn(Tail(q)))
<1> DEFINE n == Len(q)
           r == Tail(q)
           S == StartsIn(q) \ {1}
           f == [i \in StartsIn(r) |-> i + 1]
<1>1. /\ n \in Nat \ {0} /\ r \in Seq(Cmds) /\ Len(r) = n - 1
      /\ \A i \in 1 .. n - 1 : r[i] = q[i + 1]
  BY TailPoints
<1>2. S = {i \in 2 .. n : q[i] = "start"}
  BY <1>1 DEF StartsIn
<1> HIDE DEF n, r
<1>3. \A i \in StartsIn(r) : i \in 1 .. n - 1 /\ q[i + 1] = "start"
  BY <1>1 DEF StartsIn
<1>4. \A i \in S : i - 1 \in StartsIn(r) /\ (i - 1) + 1 = i
  <2> TAKE i \in S
  <2>1. i \in 2 .. n /\ q[i] = "start"
    BY <1>2
  <2>2. i - 1 \in 1 .. n - 1 /\ (i - 1) + 1 = i
    BY <1>1, <2>1
  <2>3. r[i - 1] = "start"
    BY <1>1, <2>1, <2>2
  <2> QED BY <1>1, <2>2, <2>3 DEF StartsIn
<1>5. \A i \in StartsIn(r) : i + 1 \in S
  BY <1>1, <1>2, <1>3
<1> HIDE DEF S
<1>6. f \in Bijection(StartsIn(r), S)
  <2>1. f \in [StartsIn(r) -> S]
    BY <1>5
  <2>2. \A a, b \in StartsIn(r) : f[a] = f[b] => a = b
    BY <1>3
  <2>3. \A i \in S : \E a \in StartsIn(r) : f[a] = i
    BY <1>4
  <2> HIDE DEF f
  <2> QED BY <2>1, <2>2, <2>3 DEF Bijection, Injection, Surjection, IsInjective
<1>7. IsFiniteSet(S) /\ Cardinality(S) = Cardinality(StartsIn(r))
  BY <1>1, <1>6, StartsFinite, FS_Bijection DEF ExistsBijection
<1>8. 1 \in StartsIn(q) <=> q[1] = "start"
  BY <1>1 DEF StartsIn, n
<1>9. Cardinality(S) = IF 1 \in StartsIn(q) THEN Cardinality(StartsIn(q)) - 1 ELSE Cardinality(StartsIn(q))
  BY StartsFinite, FS_RemoveElement DEF S
<1>10. Cardinality(StartsIn(q)) \in Nat
  BY StartsFinite
<1> QED BY <1>7, <1>8, <1>9, <1>10 DEF r

\* The number a new bridge gets.
LEMMA NewNumber ==
  ASSUME NEW k \in 0 .. MaxBridges, Numbered(k)
  PROVE  1 + Cardinality({b \in Bridges : thread[b] # "none"}) = k + 1
<1> DEFINE D == {b \in Bridges : thread[b] # "none"}
<1>1. MaxBridges \in Nat
  BY AppBridgeAssumption
<1>2. D = 1 .. k
  BY <1>1 DEF Numbered, Bridges
<1>3. k \in Nat /\ Cardinality(1 .. k) = k
  BY <1>1, FS_Interval
<1> HIDE DEF D
<1>4. 1 + Cardinality(D) = k + 1
  BY <1>2, <1>3
<1> QED BY <1>4 DEF D

\* Steps of the page that leave the bridges alone and start none.
LEMMA PageNumbers ==
  ASSUME Types, NEW k \in 0 .. MaxBridges, Numbered(k),
         UNCHANGED rustVars,
         shown' \in 0 .. k,
         \A i \in 1 .. Len(replies') : replies'[i].stats \in 0 .. k,
         NEW c \in Cmds, ipc' = ipc \/ ipc' = Append(ipc, c),
         joins' = IF ipc' # ipc /\ c = "start" THEN joins + 1 ELSE joins,
         joins' \in 0 .. MaxBridges, leaves' \in 0 .. MaxLeaves, reloads' \in 0 .. MaxReloads
  PROVE  Numbered(k)'
<1>1. ipc \in Seq(Cmds)
  BY DEF Types
<1>2. k \in Nat /\ joins \in Nat /\ Cardinality(StartsIn(ipc)) \in Nat
      /\ k + Cardinality(StartsIn(ipc)) <= joins
  BY <1>1, StartsFinite, AppBridgeAssumption DEF Numbered
<1>3. k + Cardinality(StartsIn(ipc')) <= joins'
  <2>1. CASE ipc' = ipc
    BY <1>2, <2>1
  <2>2. CASE ipc' # ipc
    <3>1. Cardinality(StartsIn(ipc')) =
            IF c = "start" THEN Cardinality(StartsIn(ipc)) + 1 ELSE Cardinality(StartsIn(ipc))
      BY <1>1, <2>2, StartsAppend
    <3> QED BY <1>2, <2>2, <3>1
  <2> QED BY <2>1, <2>2
<1> QED BY <1>3 DEF Numbered, rustVars

LEMMA PageSteps ==
  ASSUME Types, NumberInv, Page
  PROVE  NumberInv'
<1>1. PICK k \in 0 .. MaxBridges : Numbered(k)
  BY DEF NumberInv
<1>2. /\ shown \in 0 .. k /\ 0 \in 0 .. k
      /\ \A i \in 1 .. Len(replies) : replies[i].stats \in 0 .. k
      /\ joins \in 0 .. MaxBridges /\ leaves \in 0 .. MaxLeaves /\ reloads \in 0 .. MaxReloads
  BY <1>1, AppBridgeAssumption DEF Numbered
<1>3. {MaxBridges, MaxLeaves, MaxReloads} \subseteq Nat /\ Cmds = {"start", "stop", "stats"}
      /\ ipc \in Seq(Cmds)
  BY AppBridgeAssumption DEF Cmds, Types
<1>4. Numbered(k)'
  <2>1. \A c : Append(ipc, c) # ipc
    BY <1>3
  <2>2. CASE ClickJoin
    <3>1. ipc' = Append(ipc, "start") /\ joins' = joins + 1 /\ joins' \in 0 .. MaxBridges
          /\ UNCHANGED <<shown, replies, leaves, reloads, rustVars>>
      BY <1>2, <1>3, <2>2 DEF ClickJoin
    <3> QED BY <1>1, <1>2, <1>3, <2>1, <3>1, PageNumbers
  <2>3. CASE ClickLeave
    <3>1. ipc' = Append(ipc, "stop") /\ leaves' \in 0 .. MaxLeaves
          /\ UNCHANGED <<shown, replies, joins, reloads, rustVars>>
      BY <1>2, <1>3, <2>3 DEF ClickLeave
    <3> QED BY <1>1, <1>2, <1>3, <3>1, PageNumbers
  <2>4. CASE Poll
    <3>1. ipc' = Append(ipc, "stats") /\ UNCHANGED <<shown, replies, joins, leaves, reloads, rustVars>>
      BY <2>4 DEF Poll, pageVars
    <3> QED BY <1>1, <1>2, <1>3, <3>1, PageNumbers
  <2>5. CASE Render
    <3>1. UNCHANGED <<ipc, shown, replies, joins, leaves, reloads, rustVars>>
      BY <2>5 DEF Render
    <3> QED BY <1>1, <1>2, <1>3, <3>1, PageNumbers
  <2>6. CASE Reload
    <3>1. replies' = <<>> /\ shown' = 0 /\ reloads' \in 0 .. MaxReloads
          /\ UNCHANGED <<ipc, joins, leaves, rustVars>>
      BY <1>2, <1>3, <2>6 DEF Reload
    <3>2. Len(replies') = 0
      BY <3>1
    <3>3. \A i \in 1 .. Len(replies') : replies'[i].stats \in 0 .. k
      BY <3>2
    <3> QED BY <1>1, <1>2, <1>3, <3>1, <3>3, PageNumbers
  <2>7. CASE Joined \/ Left \/ Polled
    <3>1. replies # <<>> /\ replies' = Tail(replies)
          /\ UNCHANGED <<ipc, joins, leaves, reloads, rustVars>>
          /\ shown' \in {0, shown, Head(replies).stats}
      BY <2>7 DEF Joined, Left, Polled, NextAnswer
    <3>2. /\ Len(replies) \in Nat \ {0} /\ Len(replies') = Len(replies) - 1
          /\ Head(replies) = replies[1]
          /\ \A i \in 1 .. Len(replies) - 1 : replies'[i] = replies[i + 1]
      BY <3>1, TailPoints DEF Types
    <3>3. shown' \in 0 .. k
      BY <1>2, <3>1, <3>2
    <3>4. ASSUME NEW i \in 1 .. Len(replies') PROVE replies'[i].stats \in 0 .. k
      <4>1. i \in 1 .. Len(replies) - 1 /\ i + 1 \in 1 .. Len(replies)
        BY <3>2
      <4> QED BY <1>2, <3>2, <4>1
    <3> QED BY <1>1, <1>2, <1>3, <3>1, <3>3, <3>4, PageNumbers
  <2> QED BY <2>2, <2>3, <2>4, <2>5, <2>6, <2>7 DEF Page
<1> QED BY <1>4, AppBridgeAssumption DEF NumberInv

\* What a command does to the queues.
LEMMA CommandNumbers ==
  ASSUME Types, NEW k \in 0 .. MaxBridges, Numbered(k), NEW cmd \in Cmds,
         NEW stats \in 0 .. k, Run(cmd, stats)
  PROVE  /\ \A i \in 1 .. Len(replies') : replies'[i].stats \in 0 .. k
         /\ (IF cmd = "start" THEN k + 1 ELSE k) + Cardinality(StartsIn(ipc')) <= joins
         /\ UNCHANGED <<shown, joins, leaves, reloads>>
<1>1. k \in Nat /\ joins \in Nat /\ k + Cardinality(StartsIn(ipc)) <= joins
  BY AppBridgeAssumption DEF Numbered
<1>2. ipc # <<>> /\ ipc[1] = cmd /\ ipc' = Tail(ipc) /\ ipc \in Seq(Cmds)
  BY TailPoints DEF Run, Types
<1>3. Tail(ipc) \in Seq(Cmds)
  BY <1>2, TailPoints
<1>4. Cardinality(StartsIn(Tail(ipc))) \in Nat
  BY <1>3, StartsFinite
<1>5. (IF cmd = "start" THEN k + 1 ELSE k) + Cardinality(StartsIn(ipc')) <= joins
  BY <1>1, <1>2, <1>4, StartsTail
<1>6. ASSUME NEW i \in 1 .. Len(replies') PROVE replies'[i].stats \in 0 .. k
  <2>1. \A j \in 1 .. Len(replies) : replies[j].stats \in 0 .. k
    BY DEF Numbered
  <2>2. CASE old > 0
    BY <1>6, <2>1, <2>2 DEF Run
  <2>3. CASE ~(old > 0)
    <3>1. replies' = Append(replies, Answer(cmd, stats))
      BY <2>3 DEF Run
    <3>2. replies \in Seq(Answered) /\ Answer(cmd, stats) \in Answered
          /\ Answer(cmd, stats).stats = stats
      BY <1>1 DEF Types, Answer, Answered
    <3>3. \A e \in Answered :
            /\ Len(replies) \in Nat
            /\ Len(Append(replies, e)) = Len(replies) + 1
            /\ \A j \in 1 .. Len(replies) : Append(replies, e)[j] = replies[j]
            /\ Append(replies, e)[Len(replies) + 1] = e
      BY <3>2, AppendPoints, LenProperties
    <3>4. i = Len(replies) + 1 \/ i \in 1 .. Len(replies)
      BY <3>1, <3>2, <3>3
    <3> QED BY <2>1, <3>1, <3>2, <3>3, <3>4
  <2> QED BY <2>2, <2>3
<1> QED BY <1>5, <1>6 DEF Run, pageVars

LEMMA CommandSteps ==
  ASSUME Types, NumberInv, MainThread
  PROVE  NumberInv'
<1>1. PICK k \in 0 .. MaxBridges : Numbered(k)
  BY DEF NumberInv
<1>2. k \in Nat /\ MaxBridges \in Nat /\ bridge \in 0 .. k /\ 0 \in 0 .. k /\ Bridges = 1 .. MaxBridges
      /\ joins \in 0 .. MaxBridges
  BY <1>1, AppBridgeAssumption DEF Numbered, Bridges
<1>3. CASE StartPipeline
  <2>1. Run("start", 0) /\ thread' = [thread EXCEPT ![k + 1] = "check"]
        /\ channel' = DropSender /\ bridge' = k + 1
    BY <1>1, <1>3, NewNumber DEF StartPipeline, StartBridge
  <2>2. /\ \A i \in 1 .. Len(replies') : replies'[i].stats \in 0 .. k
        /\ k + 1 + Cardinality(StartsIn(ipc')) <= joins
        /\ UNCHANGED <<shown, joins, leaves, reloads>>
    BY <1>1, <1>2, <2>1, CommandNumbers DEF Cmds
  <2>3. Cardinality(StartsIn(ipc')) \in Nat
    <3>1. ipc' \in Seq(Cmds)
      BY <2>1, TailPoints DEF Run, Types
    <3> QED BY <3>1, StartsFinite
  <2>4. k + 1 \in 0 .. MaxBridges /\ k + 1 \in Bridges
    BY <1>2, <2>2, <2>3
  <2>5. \A b \in Bridges : channel'[b] = IF b = bridge /\ channel[b] = "open" THEN "closed" ELSE channel[b]
    BY <2>1 DEF DropSender
  <2>6. \A b \in Bridges : (thread'[b] # "none" <=> b <= k + 1) /\ (b > k + 1 => channel'[b] = "open")
    <3>1. \A b \in Bridges : thread'[b] = IF b = k + 1 THEN "check" ELSE thread[b]
      BY <2>1 DEF Types
    <3>2. \A b \in Bridges : b > k + 1 => channel'[b] = "open"
      BY <1>1, <1>2, <2>5 DEF Numbered
    <3>3. \A b \in Bridges : thread'[b] # "none" <=> b <= k + 1
      BY <1>1, <1>2, <3>1 DEF Numbered
    <3> QED BY <3>2, <3>3
  <2>7. channel'[k + 1] = "open"
    BY <1>1, <1>2, <2>4, <2>5 DEF Numbered
  <2>8. Numbered(k + 1)'
    BY <1>1, <1>2, <2>1, <2>2, <2>6, <2>7 DEF Numbered
  <2> QED BY <2>4, <2>8, AppBridgeAssumption DEF NumberInv
<1>4. CASE StopPipeline
  <2>1. Run("stop", 0) /\ StopBridge /\ bridge' = 0 /\ thread' = thread
    BY <1>4 DEF StopPipeline
  <2>2. /\ \A i \in 1 .. Len(replies') : replies'[i].stats \in 0 .. k
        /\ k + Cardinality(StartsIn(ipc')) <= joins
        /\ UNCHANGED <<shown, joins, leaves, reloads>>
    BY <1>1, <1>2, <2>1, CommandNumbers DEF Cmds
  <2>3. \A b \in Bridges : b > k => channel'[b] = "open"
    BY <1>1, <1>2, <2>1 DEF StopBridge, Numbered
  <2>4. Numbered(k)'
    BY <1>1, <1>2, <2>1, <2>2, <2>3 DEF Numbered
  <2> QED BY <2>4, AppBridgeAssumption DEF NumberInv
<1>5. CASE GetPipelineStats
  <2>1. Run("stats", bridge) /\ UNCHANGED rustVars
    BY <1>5 DEF GetPipelineStats
  <2>2. /\ \A i \in 1 .. Len(replies') : replies'[i].stats \in 0 .. k
        /\ k + Cardinality(StartsIn(ipc')) <= joins
        /\ UNCHANGED <<shown, joins, leaves, reloads>>
    BY <1>1, <1>2, <2>1, CommandNumbers DEF Cmds
  <2>3. Numbered(k)'
    BY <1>1, <2>1, <2>2 DEF Numbered, rustVars
  <2> QED BY <2>3, AppBridgeAssumption DEF NumberInv
<1> QED BY <1>3, <1>4, <1>5 DEF MainThread

\* A metric thread starts no other.
LEMMA MetricSteps ==
  ASSUME Types, NumberInv, NEW b \in Bridges, Check(b) \/ Update(b)
  PROVE  NumberInv'
<1>1. PICK k \in 0 .. MaxBridges : Numbered(k)
  BY DEF NumberInv
<1>2. /\ thread[b] # "none"
      /\ \E t \in {"ended", "update", "check"} : thread' = [thread EXCEPT ![b] = t]
      /\ UNCHANGED <<pageVars, ipc, replies, old, bridge, channel>>
  BY DEF Check, Update
<1>3. \A c \in Bridges : thread'[c] # "none" <=> thread[c] # "none"
  BY <1>2 DEF Types
<1>4. Numbered(k)'
  BY <1>1, <1>2, <1>3 DEF Numbered, pageVars
<1> QED BY <1>4, AppBridgeAssumption DEF NumberInv

\* Bridges are numbered in the order of the starts, in every reachable state.
LEMMA NumbersHold == Spec => []NumberInv
<1>1. Init => NumberInv
  <2> SUFFICES ASSUME Init PROVE NumberInv
    OBVIOUS
  <2>1. StartsIn(ipc) = {} /\ Len(replies) = 0
    BY DEF Init, StartsIn
  <2>2. Cardinality(StartsIn(ipc)) = 0
    BY <2>1, FS_EmptySet
  <2>3. {MaxBridges, MaxLeaves, MaxReloads} \subseteq Nat
    BY AppBridgeAssumption
  <2>4. Numbered(0)
    BY <2>1, <2>2, <2>3 DEF Init, Numbered, Bridges
  <2> QED BY <2>3, <2>4 DEF NumberInv
<1>2. AppInv => Types
  BY DEF AppInv
<1>3. Types /\ NumberInv /\ [Next]_vars => NumberInv'
  <2> SUFFICES ASSUME Types, NumberInv, [Next]_vars PROVE NumberInv'
    OBVIOUS
  <2>1. CASE UNCHANGED vars
    BY <2>1 DEF NumberInv, Numbered, vars, pageVars, rustVars
  <2> QED BY <2>1, PageSteps, CommandSteps, MetricSteps DEF Next
<1> QED BY <1>1, <1>2, <1>3, Invariant, PTL DEF Spec

\* The state has its types; the bridge that main.rs holds has a metric thread
\* and an open channel, so that stop_pipeline can still end it (main.rs:22-37,
\* pipeline_bridge.rs:38-78).
THEOREM AppTypes == Spec => []TypeOK
<1>1. Types /\ NumberInv => TypeOK
  <2> SUFFICES ASSUME Types, NumberInv PROVE TypeOK
    OBVIOUS
  <2>1. PICK k \in 0 .. MaxBridges : Numbered(k)
    BY DEF NumberInv
  <2>2. MaxBridges \in Nat /\ k \in Nat /\ Bridges = 1 .. MaxBridges
    BY AppBridgeAssumption DEF Bridges
  <2>3. {shown, bridge} \subseteq 0 .. MaxBridges
    BY <2>1, <2>2 DEF Numbered
  <2>4. replies \in Seq([cmd : {"start", "stop", "stats"}, stats : 0 .. MaxBridges])
    <3> DEFINE A == [cmd : {"start", "stop", "stats"}, stats : 0 .. MaxBridges]
               n == Len(replies)
    <3>1. n \in Nat /\ replies \in [1 .. n -> Answered]
      BY LenProperties DEF Types
    <3>2. ASSUME NEW i \in 1 .. n PROVE replies[i] \in A
      <4>1. replies[i] \in Answered /\ replies[i].stats \in 0 .. MaxBridges
        BY <2>1, <2>2, <3>1 DEF Numbered
      <4> QED BY <4>1 DEF Answered, Cmds
    <3> HIDE DEF A
    <3>3. replies = [i \in 1 .. n |-> replies[i]]
      BY <3>1
    <3> HIDE DEF n
    <3>4. [i \in 1 .. n |-> replies[i]] \in Seq(A)
      BY <3>1, <3>2
    <3> QED BY <3>3, <3>4 DEF A
  <2>5. bridge # 0 => thread[bridge] # "none" /\ channel[bridge] = "open"
    BY <2>1, <2>2 DEF Numbered
  <2>6. joins \in 0 .. MaxBridges /\ leaves \in 0 .. MaxLeaves /\ reloads \in 0 .. MaxReloads
    BY <2>1 DEF Numbered
  <2> QED BY <2>3, <2>4, <2>5, <2>6 DEF Types, TypeOK, Cmds
<1>2. AppInv => Types
  BY DEF AppInv
<1> QED BY <1>1, <1>2, Invariant, NumbersHold, PTL
=============================================================================
