------------------------------ MODULE Pipeline ------------------------------
(***************************************************************************)
(* The audio pipeline (pipeline/pipeline.cpp) with the concealment stage   *)
(* (pipeline/plc/plc_processor.cpp) and what the other stages report.      *)
(*                                                                         *)
(* An audio thread calls process every 10 ms; a control thread reads       *)
(* stats().  last_stats is behind stats_mu, nothing else is: the owner     *)
(* must call reset and push_reference on the audio thread, or (Concurrent) *)
(* takes the header at its word and calls them from the control thread.    *)
(* A step is what one thread does between two points where the other can   *)
(* interfere; the two halves of the update of last_stats are two steps.    *)
(*                                                                         *)
(* Audio is left out.  A value a stage reports is named by the call of     *)
(* process that computed it (0: after construction or reset), so the       *)
(* wall-clock field pipeline_ms of a call is the number of the call.       *)
(***************************************************************************)
EXTENDS Integers, Sequences

CONSTANTS
  FRAME_SIZE_MS,             \* 10
  PLC_FEC_MAX_MS,            \* 40
  PLC_AI_MAX_MS,             \* 100
  HISTORY_FRAMES,            \* 20 good frames are kept
  Builds,                    \* what init may set up: "lpc", CPU stages with
                             \* LPC only; "lpcnet", with an LPCNet model; or
                             \* "gpu", Maxine, its init having succeeded
  Concurrent,                \* reset and push_reference on any thread
  MaxCalls                   \* bound on the calls of process

ASSUME PipelineAssumption ==
  /\ FRAME_SIZE_MS \in Nat \ {0}
  /\ PLC_AI_MAX_MS \in Nat /\ MaxCalls \in Nat
  /\ HISTORY_FRAMES \in Nat \ {0}
  /\ Builds \subseteq {"lpc", "lpcnet", "gpu"}
  /\ Concurrent \in BOOLEAN

Threads == {"audio", "control"}

VARIABLES
  build,                     \* what init set up
  pc,                        \* per thread: the step it is about to take
  mu,                        \* holder of stats_mu, or "none"
  calls,                     \* number of calls of process so far
  echo,                      \* AEC: echo_power is above its floor
  erle, noise,               \* erle_db(), reduction_db()
  history,                   \* PLC history: the calls whose output it holds
  lossMs,                    \* plc_loss_ms
  lastStats,                 \* last_stats
  out,                       \* what the last call of process returned
  snap,                      \* what the last call of stats returned
  anchor,                    \* history: the last good call or reset
  good,                      \* history: the good calls since the last reset
  published                  \* history: the statistics of each finished call

stageVars == <<echo, erle, noise, history, lossMs>>
ghostVars == <<anchor, good, published>>
vars == <<build, pc, mu, calls, stageVars, lastStats, out, snap, ghostVars>>

FrameStats(e, n, ms, loss) == [erle |-> e, noise |-> n, ms |-> ms, loss |-> loss]
ZeroStats == FrameStats(0, 0, 0, 0)
Output(by, gain) == [by |-> by, gain |-> gain]

Init ==
  /\ build \in Builds
  /\ pc = [t \in Threads |-> "idle"]
  /\ mu = "none"
  /\ calls = 0 /\ echo = FALSE /\ erle = 0 /\ noise = 0
  /\ history = <<>> /\ lossMs = 0
  /\ lastStats = ZeroStats /\ snap = ZeroStats
  /\ out = Output("none", 0)
  /\ anchor = 0 /\ good = <<>> /\ published = {ZeroStats}

Goto(t, label) == pc' = [pc EXCEPT ![t] = label]

-----------------------------------------------------------------------------
(* process, on the audio thread *)

\* Mutant: a new burst goes on counting from the last one.
LossAfterUncleared(lost) == IF lost THEN lossMs + FRAME_SIZE_MS ELSE lossMs

\* plc_loss_ms when a call begins.
LossAfter(lost) == IF lost THEN lossMs + FRAME_SIZE_MS ELSE 0

BeginProcess(lost) ==
  /\ pc["audio"] = "idle"
  /\ calls < MaxCalls
  /\ calls' = calls + 1
  /\ lossMs' = LossAfter(lost)
  /\ Goto("audio", IF lost THEN "conceal" ELSE IF build = "gpu" THEN "maxine" ELSE "aec")
  /\ anchor' = IF lost THEN anchor ELSE calls'
  /\ UNCHANGED <<build, mu, echo, erle, noise, history, lastStats, out, snap, good, published>>

\* Mutant: the fade is measured by the frame instead of the burst.
FadeByFrame(loss) ==
  IF FRAME_SIZE_MS < PLC_AI_MAX_MS THEN PLC_AI_MAX_MS - FRAME_SIZE_MS ELSE 0

\* Mutant: the fade is not clamped at zero.
FadeUnclamped(loss) == PLC_AI_MAX_MS - loss

\* max(0, 1 - loss / PLC_AI_MAX_MS), in units of 1 / PLC_AI_MAX_MS.
Fade(loss) == IF loss < PLC_AI_MAX_MS THEN PLC_AI_MAX_MS - loss ELSE 0

\* Mutant: LPCNet takes over one frame late.
ConcealedLate(loss) ==
  CASE history = <<>> -> Output("zeros", 0)
    [] history # <<>> /\ build = "lpcnet" /\ loss > PLC_FEC_MAX_MS
         -> Output("lpcnet", PLC_AI_MAX_MS)
    [] OTHER -> Output("lpc", Fade(loss))

\* Which tier conceals a frame, and how loud it leaves it.
Concealed(loss) ==
  CASE history = <<>> -> Output("zeros", 0)
    [] history # <<>> /\ build = "lpcnet" /\ loss >= PLC_FEC_MAX_MS
         -> Output("lpcnet", PLC_AI_MAX_MS)
    [] OTHER -> Output("lpc", Fade(loss))

Conceal ==
  /\ pc["audio"] = "conceal"
  /\ out' = Concealed(lossMs)
  /\ Goto("audio", "publish")
  /\ UNCHANGED <<build, mu, calls, stageVars, lastStats, snap, ghostVars>>

\* The canceller reports a new figure only once it has heard a reference.
RunAec ==
  /\ pc["audio"] = "aec"
  /\ erle' = IF echo THEN calls ELSE erle
  /\ Goto("audio", "noise")
  /\ UNCHANGED <<build, mu, calls, echo, noise, history, lossMs, lastStats, out, snap, ghostVars>>

\* The suppressor reports nothing new on a silent frame.  The separator
\* follows; it has no state and passes the frame through.
RunNoise(silent) ==
  /\ pc["audio"] = "noise"
  /\ noise' = IF silent THEN noise ELSE calls
  /\ Goto("audio", "history")
  /\ UNCHANGED <<build, mu, calls, echo, erle, history, lossMs, lastStats, out, snap, ghostVars>>

\* On the GPU one call replaces all three, and reports nothing.
RunMaxine ==
  /\ pc["audio"] = "maxine"
  /\ Goto("audio", "history")
  /\ UNCHANGED <<build, mu, calls, stageVars, lastStats, out, snap, ghostVars>>

\* Mutant: the history is trimmed before the new frame goes in.
RememberFull(h, k) ==
  Append(IF Len(h) > HISTORY_FRAMES THEN Tail(h) ELSE h, k)

\* emplace_back, then pop_front when there are too many.
Remember(h, k) ==
  LET g == Append(h, k)
  IN  IF Len(g) > HISTORY_FRAMES THEN Tail(g) ELSE g

PushGoodFrame ==
  /\ pc["audio"] = "history"
  /\ history' = Remember(history, calls)
  /\ good' = Append(good, calls)
  /\ out' = Output("stages", PLC_AI_MAX_MS)
  /\ Goto("audio", "publish")
  /\ UNCHANGED <<build, mu, calls, echo, erle, noise, lossMs, lastStats, snap, anchor, published>>

\* Mutant: the update of last_stats does not take the lock.
LockAlways(t) == mu' = mu

Lock(t) == mu = "none" /\ mu' = t

\* The first two fields of last_stats, then the other two.
PublishFirstHalf ==
  /\ pc["audio"] = "publish"
  /\ Lock("audio")
  /\ lastStats' = [lastStats EXCEPT !.erle = erle, !.noise = noise]
  /\ published' = published \cup {FrameStats(erle, noise, calls, lossMs)}
  /\ Goto("audio", "half")
  /\ UNCHANGED <<build, calls, stageVars, out, snap, anchor, good>>

PublishSecondHalf ==
  /\ pc["audio"] = "half"
  /\ lastStats' = [lastStats EXCEPT !.ms = calls, !.loss = lossMs]
  /\ mu' = "none"
  /\ Goto("audio", "idle")
  /\ UNCHANGED <<build, calls, stageVars, out, snap, ghostVars>>

Process ==
  \/ \E lost \in BOOLEAN : BeginProcess(lost)
  \/ Conceal \/ RunAec \/ RunMaxine \/ PushGoodFrame
  \/ \E silent \in BOOLEAN : RunNoise(silent)
  \/ PublishFirstHalf \/ PublishSecondHalf

-----------------------------------------------------------------------------
(* stats, reset and push_reference *)

\* stats() copies last_stats under the lock; waiting for it is not a step.
Stats(t) ==
  /\ pc[t] = "idle"
  /\ mu = "none"
  /\ snap' = lastStats
  /\ UNCHANGED <<build, pc, mu, calls, stageVars, lastStats, out, ghostVars>>

\* Threads that call reset and push_reference.
Owner(t) == t = "audio" \/ Concurrent

\* The GPU path copies the frame and keeps no level.  A quiet reference may
\* let echo_power decay to its floor.
PushReference(t, quiet) ==
  /\ Owner(t) /\ pc[t] = "idle"
  /\ Goto(t, "reference")
  /\ IF build = "gpu" THEN echo' = echo
     ELSE IF quiet THEN echo' \in {echo, FALSE} ELSE echo' = TRUE
  /\ UNCHANGED <<build, mu, calls, erle, noise, history, lossMs, lastStats, out, snap, ghostVars>>

PushReferenceReturns(t) ==
  /\ pc[t] = "reference"
  /\ Goto(t, "idle")
  /\ UNCHANGED <<build, mu, calls, stageVars, lastStats, out, snap, ghostVars>>

BeginReset(t) ==
  /\ Owner(t) /\ pc[t] = "idle"
  /\ Goto(t, "resetAec")
  /\ UNCHANGED <<build, mu, calls, stageVars, lastStats, out, snap, ghostVars>>

ResetAec(t) ==
  /\ pc[t] = "resetAec"
  /\ echo' = FALSE /\ erle' = 0
  /\ Goto(t, "resetNoise")
  /\ UNCHANGED <<build, mu, calls, noise, history, lossMs, lastStats, out, snap, ghostVars>>

\* The separator's reset, which does nothing, follows.
ResetNoise(t) ==
  /\ pc[t] = "resetNoise"
  /\ noise' = 0
  /\ Goto(t, "resetPlc")
  /\ UNCHANGED <<build, mu, calls, echo, erle, history, lossMs, lastStats, out, snap, ghostVars>>

\* Clears the history, then plc_loss_ms.
ResetPlc(t) ==
  /\ pc[t] = "resetPlc"
  /\ history' = <<>> /\ lossMs' = 0
  /\ good' = <<>> /\ anchor' = calls
  /\ Goto(t, "resetStats")
  /\ UNCHANGED <<build, mu, calls, echo, erle, noise, lastStats, out, snap, published>>

\* Mutant: reset leaves the statistics of the last call.
ResetStatsForgotten(t) ==
  /\ pc[t] = "resetStats"
  /\ Goto(t, "idle")
  /\ UNCHANGED <<build, mu, calls, stageVars, lastStats, out, snap, ghostVars>>

ResetStats(t) ==
  /\ pc[t] = "resetStats"
  /\ mu = "none"
  /\ lastStats' = ZeroStats
  /\ Goto(t, "idle")
  /\ UNCHANGED <<build, mu, calls, stageVars, out, snap, ghostVars>>

Reset(t) == BeginReset(t) \/ ResetAec(t) \/ ResetNoise(t) \/ ResetPlc(t) \/ ResetStats(t)

Next ==
  \/ Process
  \/ \E t \in Threads :
       \/ Stats(t)
       \/ \E quiet \in BOOLEAN : PushReference(t, quiet)
       \/ PushReferenceReturns(t)
       \/ Reset(t)

Spec == Init /\ [][Next]_vars
-----------------------------------------------------------------------------
(* Properties; the invariants assume ~Concurrent *)

Labels == {"idle", "conceal", "maxine", "aec", "noise", "history", "publish", "half",
           "reference", "resetAec", "resetNoise", "resetPlc", "resetStats"}

Stamp == 0 .. MaxCalls

StatsSet == [erle : Stamp, noise : Stamp, ms : Stamp, loss : Nat]

\* The state has its types; the gain of a concealed frame stays between
\* silence and the original level (plc_processor.cpp:164).
TypeOK ==
  /\ build \in Builds
  /\ pc \in [Threads -> Labels]
  /\ mu \in Threads \cup {"none"}
  /\ {calls, erle, noise, anchor} \subseteq Stamp
  /\ echo \in BOOLEAN
  /\ history \in Seq(Stamp) /\ good \in Seq(Stamp)
  /\ lossMs \in Nat
  /\ {lastStats, snap} \cup published \subseteq StatsSet
  /\ out \in [by : {"none", "zeros", "lpcnet", "lpc", "stages"}, gain : 0 .. PLC_AI_MAX_MS]

Idle == pc["audio"] = "idle"

\* Nothing was processed since reset, or since the pipeline was made.
Fresh == good = <<>> /\ anchor = calls

\* stats() (pipeline.cpp:109) returns the four figures of one and the same
\* call of process, or the zeros of reset, however its copy interleaves with
\* the field-by-field update at pipeline.cpp:98-104.
SnapshotCoherent == snap \in published

\* Between calls plc_loss_ms is the length of the burst that is going on: the
\* calls since the last good frame or reset, whatever bursts went before.
BurstCounted == Idle => lossMs = FRAME_SIZE_MS * (calls - anchor)

\* LPC concealment has died away exactly when the burst, not the frame, has
\* lasted PLC_AI_MAX_MS (plc_processor.cpp:164): never silent earlier, never
\* heard later, even after an earlier burst, a reset or a good frame.
FadeEndsBurst ==
  (Idle /\ out.by = "lpc" /\ calls > anchor) =>
    (out.gain = 0 <=> FRAME_SIZE_MS * (calls - anchor) >= PLC_AI_MAX_MS)

\* With an LPCNet model, a lost frame goes to LPCNet exactly when there was a
\* good frame since reset and the burst has by then lasted PLC_FEC_MAX_MS
\* (plc_processor.cpp:112-113), whatever bursts and resets went before.
LpcnetByBurst ==
  (Idle /\ calls > anchor) =>
    (out.by = "lpcnet" <=> /\ build = "lpcnet" /\ good # <<>>
                           /\ FRAME_SIZE_MS * (calls - anchor) >= PLC_FEC_MAX_MS)

\* The concealment history is the last HISTORY_FRAMES good frames since reset,
\* in order; conceal copies it into a buffer of that many frames
\* (plc_processor.cpp:114-120) without checking.
HistoryIsRecentGood ==
  history = SubSeq(good, IF Len(good) > HISTORY_FRAMES
                         THEN Len(good) - HISTORY_FRAMES + 1 ELSE 1, Len(good))

\* Between calls last_stats agrees with the stages: it carries the figures of
\* the last call of process, and after reset nothing of the calls before it.
StatsOfLastCall ==
  /\ Idle => lastStats = FrameStats(erle, noise, IF Fresh THEN 0 ELSE calls, lossMs)
  /\ Idle /\ Fresh => erle = 0 /\ noise = 0

\* The objects without a lock that a thread uses in the step it is about to take.
Touches(t) ==
  CASE pc[t] \in {"aec", "reference", "resetAec"} -> {"aec"}
    [] pc[t] \in {"noise", "resetNoise"}          -> {"noise"}
    [] pc[t] \in {"conceal", "history", "resetPlc"} -> {"plc"}
    [] OTHER -> {}

\* Header (pipeline.h:22): "Thread-safe, real-time audio pipeline."
DataRaceFree == Touches("audio") \cap Touches("control") = {}
=============================================================================
