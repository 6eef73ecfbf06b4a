------------------------------ MODULE AppBridge ------------------------------
(***************************************************************************)
(* The desktop app: the React component App (app/src/App.tsx), the Tauri   *)
(* commands (app/src-tauri/src/main.rs) and the metric threads             *)
(* (app/src-tauri/src/pipeline_bridge.rs).                                 *)
(*                                                                         *)
(* The commands are synchronous, so Tauri runs them one at a time on the   *)
(* main thread, in the order the page invoked them, and answers in that    *)
(* order: ipc and replies are queues.  In the page every continuation      *)
(* after an await is one step, and the view (the button shown and the      *)
(* polling timer) follows the status at the next render.  A reload gives   *)
(* the page its initial state back; main.rs notices nothing, and what the  *)
(* old page had invoked is still run, but its answers go nowhere.          *)
(*                                                                         *)
(* PipelineBridge::start has no failing path, so the status "error" is     *)
(* never reached.  Bridges are numbered; 0 stands for None and, as what    *)
(* the page shows, for DEFAULT_STATS.                                      *)
(***************************************************************************)
EXTENDS Integers, Sequences, FiniteSets

CONSTANTS
  MaxBridges,                \* bound on the clicks on Join
  MaxLeaves,                 \* bound on the clicks on Leave
  MaxPolls,                  \* no poll with as many calls under way (bound)
  MaxReloads                 \* bound on the reloads of the page

ASSUME AppBridgeAssumption == {MaxBridges, MaxLeaves, MaxPolls, MaxReloads} \subseteq Nat

Bridges == 1 .. MaxBridges

VARIABLES
  status, shown, view,       \* page: status, stats, what is rendered
  ipc, replies,              \* invocations to run, answers to handle
  old,                       \* how many of ipc an earlier page has invoked
  bridge,                    \* AppState
  thread,                    \* per bridge: "none", "check", "update" or "ended"
  channel,                   \* per bridge: "open", "stop" (sent) or "closed"
  joins, leaves, reloads,    \* clicks and reloads so far
  hasty,                     \* history: there was a click before an earlier
                             \* one had taken effect, or a reload of a page
                             \* that was not left
  forgot                     \* history: this page was reloaded, and none of
                             \* its clicks has been answered

pageVars == <<status, shown, view, joins, leaves, reloads, hasty, forgot>>
rustVars == <<bridge, thread, channel>>
vars == <<pageVars, ipc, replies, old, rustVars>>

Init ==
  /\ status = "inactive" /\ shown = 0 /\ view = "inactive"
  /\ ipc = <<>> /\ replies = <<>> /\ old = 0
  /\ bridge = 0
  /\ thread = [b \in Bridges |-> "none"]
  /\ channel = [b \in Bridges |-> "open"]
  /\ joins = 0 /\ leaves = 0 /\ reloads = 0 /\ hasty = FALSE /\ forgot = FALSE

-----------------------------------------------------------------------------
(* The page *)

Answer(cmd, stats) == [cmd |-> cmd, stats |-> stats]

Answers(cmd) == {i \in DOMAIN replies : replies[i].cmd = cmd}

Commands(cmd) == {i \in DOMAIN ipc : ipc[i] = cmd}

\* No start_pipeline or stop_pipeline is under way.
Settled ==
  \A cmd \in {"start", "stop"} : Commands(cmd) = {} /\ Answers(cmd) = {}

\* The last click has taken effect.
Ready == Settled /\ view = status

\* Mutant: the Join button stays when the room is joined.
ClickJoinAlways ==
  /\ joins < MaxBridges
  /\ hasty' = (hasty \/ ~Ready)
  /\ joins' = joins + 1
  /\ ipc' = Append(ipc, "start")
  /\ UNCHANGED <<status, shown, view, leaves, reloads, forgot, replies, old, rustVars>>

\* handleJoin up to its await, with a room code that is long enough.
ClickJoin ==
  /\ view # "active"
  /\ joins < MaxBridges
  /\ hasty' = (hasty \/ ~Ready)
  /\ joins' = joins + 1
  /\ ipc' = Append(ipc, "start")
  /\ UNCHANGED <<status, shown, view, leaves, reloads, forgot, replies, old, rustVars>>

\* Mutant: the page is reset at the click, not when the pipeline has stopped.
ClickLeaveResets ==
  /\ view = "active"
  /\ leaves < MaxLeaves
  /\ hasty' = (hasty \/ ~Ready)
  /\ leaves' = leaves + 1
  /\ ipc' = Append(ipc, "stop")
  /\ status' = "inactive" /\ shown' = 0
  /\ UNCHANGED <<view, joins, reloads, forgot, replies, old, rustVars>>

\* handleLeave up to its await.
ClickLeave ==
  /\ view = "active"
  /\ leaves < MaxLeaves
  /\ hasty' = (hasty \/ ~Ready)
  /\ leaves' = leaves + 1
  /\ ipc' = Append(ipc, "stop")
  /\ UNCHANGED <<status, shown, view, joins, reloads, forgot, replies, old, rustVars>>

\* The timer exists while the rendered status is "active".
Poll ==
  /\ view = "active"
  /\ Len(ipc) + Len(replies) < MaxPolls
  /\ ipc' = Append(ipc, "stats")
  /\ UNCHANGED <<pageVars, replies, old, rustVars>>

\* React's commit, with the effect that sets or clears the poll timer.
Render ==
  /\ view # status
  /\ view' = status
  /\ UNCHANGED <<status, shown, joins, leaves, reloads, hasty, forgot, ipc, replies, old, rustVars>>

\* The initial state of useState; what was invoked is not taken back.
Reload ==
  /\ reloads < MaxReloads
  /\ reloads' = reloads + 1
  /\ hasty' = (hasty \/ ~Ready \/ status = "active") /\ forgot' = TRUE
  /\ status' = "inactive" /\ shown' = 0 /\ view' = "inactive"
  /\ replies' = <<>> /\ old' = Len(ipc)
  /\ UNCHANGED <<joins, leaves, ipc, rustVars>>

NextAnswer(cmd) ==
  /\ replies # <<>> /\ Head(replies).cmd = cmd
  /\ replies' = Tail(replies)
  /\ forgot' = (forgot /\ cmd = "stats")
  /\ UNCHANGED <<view, joins, leaves, reloads, hasty, ipc, old, rustVars>>

Joined == NextAnswer("start") /\ status' = "active" /\ shown' = shown

\* Mutant: leaving keeps the last statistics on the page.
LeftKeepsStats == NextAnswer("stop") /\ status' = "inactive" /\ shown' = shown

Left == NextAnswer("stop") /\ status' = "inactive" /\ shown' = 0

\* "Pipeline not running" (stats 0) is swallowed.
Polled ==
  /\ NextAnswer("stats")
  /\ shown' = IF Head(replies).stats = 0 THEN shown ELSE Head(replies).stats
  /\ status' = status

-----------------------------------------------------------------------------
(* The commands, on the main thread *)

Run(cmd, stats) ==
  /\ ipc # <<>> /\ Head(ipc) = cmd
  /\ ipc' = Tail(ipc)
  /\ replies' = IF old > 0 THEN replies ELSE Append(replies, Answer(cmd, stats))
  /\ old' = IF old > 0 THEN old - 1 ELSE 0
  /\ UNCHANGED pageVars

\* The sender of a bridge that is replaced is dropped with it.
DropSender == [b \in Bridges |->
                 IF b = bridge /\ channel[b] = "open" THEN "closed" ELSE channel[b]]

\* PipelineBridge::start: a channel and a thread.
StartBridge(b) == thread' = [thread EXCEPT ![b] = "check"]

StartPipeline ==
  LET new == 1 + Cardinality({b \in Bridges : thread[b] # "none"})
  IN  /\ Run("start", 0)
      /\ StartBridge(new)
      /\ channel' = DropSender
      /\ bridge' = new

\* PipelineBridge::stop, when there is a bridge.
StopBridge ==
  channel' = [b \in Bridges |-> IF b = bridge THEN "stop" ELSE channel[b]]

\* Mutant: stop drops the sender instead of sending on it.
StopByDropping ==
  /\ Run("stop", 0)
  /\ channel' = DropSender
  /\ bridge' = 0
  /\ UNCHANGED thread

\* Mutant: stop sends but leaves the bridge in the state.
StopWithoutTake ==
  /\ Run("stop", 0)
  /\ StopBridge
  /\ UNCHANGED <<bridge, thread>>

StopPipeline ==
  /\ Run("stop", 0)
  /\ StopBridge
  /\ bridge' = 0
  /\ UNCHANGED thread

GetPipelineStats ==
  /\ Run("stats", bridge)
  /\ UNCHANGED rustVars

-----------------------------------------------------------------------------
(* The metric thread of a bridge *)

\* try_recv is Ok only when stop was sent: a closed channel is not a stop.
Check(b) ==
  /\ thread[b] = "check"
  /\ thread' = [thread EXCEPT ![b] = IF channel[b] = "stop" THEN "ended" ELSE "update"]
  /\ UNCHANGED <<pageVars, ipc, replies, old, bridge, channel>>

\* Fills in the four metrics under the lock, then sleeps.
Update(b) ==
  /\ thread[b] = "update"
  /\ thread' = [thread EXCEPT ![b] = "check"]
  /\ UNCHANGED <<pageVars, ipc, replies, old, bridge, channel>>

Page == ClickJoin \/ ClickLeave \/ Poll \/ Render \/ Joined \/ Left \/ Polled \/ Reload

MainThread == StartPipeline \/ StopPipeline \/ GetPipelineStats

Next == Page \/ MainThread \/ \E b \in Bridges : Check(b) \/ Update(b)

Fairness ==
  /\ WF_vars(Render) /\ WF_vars(Joined \/ Left \/ Polled)
  /\ WF_vars(MainThread)
  /\ \A b \in Bridges : WF_vars(Check(b) \/ Update(b))

Spec == Init /\ [][Next]_vars /\ Fairness

-----------------------------------------------------------------------------
(* Properties *)

\* The state has its types, and the bridge main.rs holds has a thread and can
\* still be stopped: stop_pipeline takes it out of the state (main.rs:30-37).
TypeOK ==
  /\ {status, view} \subseteq {"inactive", "active"}
  /\ {shown, bridge} \subseteq 0 .. MaxBridges
  /\ ipc \in Seq({"start", "stop", "stats"})
  /\ replies \in Seq([cmd : {"start", "stop", "stats"}, stats : 0 .. MaxBridges])
  /\ thread \in [Bridges -> {"none", "check", "update", "ended"}]
  /\ channel \in [Bridges -> {"open", "stop", "closed"}]
  /\ joins \in 0 .. MaxBridges /\ leaves \in 0 .. MaxLeaves /\ reloads \in 0 .. MaxReloads
  /\ hasty \in BOOLEAN /\ forgot \in BOOLEAN /\ old \in 0 .. Len(ipc)
  /\ bridge # 0 => thread[bridge] # "none" /\ channel[bridge] = "open"

Running(b) == thread[b] \in {"check", "update"}

\* Whatever was clicked, however often and at whatever moment: once every
\* answer of start_pipeline and stop_pipeline is handled, the page says
\* "active" exactly when main.rs holds a bridge (App.tsx:71-91).  A reloaded
\* page may say "inactive" although it holds one, until the first Join.
PageAgrees ==
  (Answers("start") \cup Answers("stop") = {}) =>
    (status = "active" <=> bridge # 0) \/ (forgot /\ status = "inactive")

\* A poll answered late never puts statistics on a page that has left
\* (App.tsx:58-69 against 87-91): inactive pages show DEFAULT_STATS.  And a
\* user who waits for each click to take effect never sees the statistics of an
\* earlier session in a later one.
ShownIsCurrent ==
  /\ status = "inactive" => shown = 0
  /\ ~hasty /\ Settled => shown \in {0, bridge}

\* A metric thread that runs is the one of the bridge main.rs holds, or has
\* been told to stop: nothing else can ever end it (pipeline_bridge.rs:62).
Managed == \A b \in Bridges : Running(b) => b = bridge \/ channel[b] = "stop"

\* If every click waited for the one before, and the page was reloaded only
\* when it was left, no thread outlives its bridge without having been told to
\* stop.
NoOrphan == ~hasty => Managed

\* Leaving ends the threads: without a bridge they all end, unless the room is
\* joined again or a hasty click or reload has orphaned one.
LeavingEndsThreads ==
  (bridge = 0) ~> (hasty \/ bridge # 0 \/ \A b \in Bridges : ~Running(b))

\* However hasty the clicks: invocations, answers and rendering settle, and
\* then page and backend agree, on a reloaded page after its first click.
ClicksTakeEffect == []<>(Ready /\ (forgot \/ (status = "active" <=> bridge # 0)))

\* README.md:49: the Rust bridge "Manages pipeline lifecycle", whatever is
\* clicked.
LifecycleManaged == Managed
=============================================================================
