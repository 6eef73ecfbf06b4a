---------------------------- MODULE PipelineProof ----------------------------
(***************************************************************************)
(* Theorems about Pipeline.  The inductive invariant ties plc_loss_ms to   *)
(* the calls since the last good frame, the concealment just returned to   *)
(* plc_loss_ms, the history to the good frames, and last_stats to one      *)
(* finished call, torn only while the audio thread holds the lock.         *)
(***************************************************************************)
EXTENDS Pipeline, SequenceTheorems, TLAPS

Serial == ~Concurrent

LastOf(s) ==
  SubSeq(s, IF Len(s) > HISTORY_FRAMES THEN Len(s) - HISTORY_FRAMES + 1 ELSE 1, Len(s))

Stages == {"aec", "maxine", "noise", "history"}

StateTypes ==
  /\ pc \in [Threads -> Labels]
  /\ pc["control"] = "idle"
  /\ calls \in Nat /\ anchor \in Nat /\ lossMs \in Nat
  /\ good \in Seq(Nat)
  /\ \E e, n, m, l : lastStats = FrameStats(e, n, m, l)

Burst ==
  /\ anchor <= calls
  /\ lossMs = FRAME_SIZE_MS * (calls - anchor)
  /\ pc["audio"] \in Stages => anchor = calls

History == history = LastOf(good)

\* The last call lost its frame, and has concealed it.
Tier ==
  (pc["audio"] # "conceal" /\ calls > anchor) => out = Concealed(lossMs)

Published ==
  /\ ZeroStats \in published /\ snap \in published
  /\ pc["audio"] # "half" => lastStats \in published
  /\ pc["audio"] = "half" =>
       /\ mu = "audio"
       /\ FrameStats(erle, noise, calls, lossMs) \in published
       /\ \E m, l : lastStats = FrameStats(erle, noise, m, l)

PipelineInv == StateTypes /\ Burst /\ History /\ Tier /\ Published

-----------------------------------------------------------------------------
LEMMA OneMoreFrame ==
  ASSUME NEW a \in Nat, NEW c \in Nat
  PROVE  FRAME_SIZE_MS * (c + 1 - a) = FRAME_SIZE_MS * (c - a) + FRAME_SIZE_MS
<1>1. FRAME_SIZE_MS \in Int
  BY PipelineAssumption
<1>2. \A f \in Int, x \in Int : f * (x + 1) = f * x + f
  OBVIOUS
<1>3. c + 1 - a = (c - a) + 1 /\ c - a \in Int
  OBVIOUS
<1> QED BY <1>1, <1>2, <1>3

LEMMA LastOfFacts ==
  ASSUME NEW s \in Seq(Nat), NEW n \in Nat, n = Len(s)
  PROVE  /\ LastOf(s) \in Seq(Nat)
         /\ n > HISTORY_FRAMES =>
              /\ Len(LastOf(s)) = HISTORY_FRAMES
              /\ \A i \in 1 .. HISTORY_FRAMES : LastOf(s)[i] = s[n - HISTORY_FRAMES + i]
         /\ n <= HISTORY_FRAMES => LastOf(s) = s
<1>0. HISTORY_FRAMES \in Nat /\ HISTORY_FRAMES > 0
  BY PipelineAssumption
<1>1. CASE n > HISTORY_FRAMES
  <2> DEFINE m == n - HISTORY_FRAMES + 1
  <2>1. m \in Int /\ m <= n /\ m >= 1 /\ n - m + 1 = HISTORY_FRAMES /\ LastOf(s) = SubSeq(s, m, n)
    BY <1>0, <1>1 DEF LastOf
  <2>2. \A i \in m .. n : s[i] \in Nat
    BY <2>1
  <2> HIDE DEF m
  <2>3. /\ SubSeq(s, m, n) \in Seq(Nat)
        /\ Len(SubSeq(s, m, n)) = n - m + 1
        /\ \A i \in 1 .. n - m + 1 : SubSeq(s, m, n)[i] = s[m + i - 1]
    BY <2>1, <2>2, SubSeqProperties, SMTT(20)
  <2>4. \A i \in 1 .. HISTORY_FRAMES : m + i - 1 = n - HISTORY_FRAMES + i
    BY <1>0, <2>1
  <2>5. LastOf(s) \in Seq(Nat) /\ Len(LastOf(s)) = HISTORY_FRAMES
    BY ONLY <2>1, <2>3
  <2>6. ASSUME NEW i \in 1 .. HISTORY_FRAMES
        PROVE  LastOf(s)[i] = s[n - HISTORY_FRAMES + i]
    <3>1. LastOf(s)[i] = s[m + i - 1]
      BY ONLY <2>1, <2>3, i \in 1 .. HISTORY_FRAMES
    <3> QED BY ONLY <3>1, <2>4, i \in 1 .. HISTORY_FRAMES
  <2>7. ~ n <= HISTORY_FRAMES
    BY <1>0, <1>1
  <2> QED BY ONLY <2>5, <2>6, <2>7
<1>2. CASE n <= HISTORY_FRAMES
  <2>1. LastOf(s) = SubSeq(s, 1, Len(s))
    <3>1. ~ n > HISTORY_FRAMES
      BY <1>0, <1>2
    <3> QED BY <3>1 DEF LastOf
  <2>2. LastOf(s) = s
    BY <2>1, SubSeqFull
  <2> QED BY <1>0, <1>2, <2>2
<1> QED BY <1>0, <1>1, <1>2

LEMMA LastOfEmpty == LastOf(<<>>) = <<>>
<1>0. <<>> \in Seq(Nat)
  OBVIOUS
<1>1. PICK s \in Seq(Nat) : s = <<>>
  BY <1>0, Zenon
<1>2. PICK n \in Nat : n = 0
  OBVIOUS
<1>3. n = Len(s)
  BY <1>1, <1>2
<1>4. n <= HISTORY_FRAMES
  BY <1>2, PipelineAssumption
<1>5. LastOf(s) = s
  BY <1>3, <1>4, LastOfFacts
<1> QED BY <1>1, <1>5

LEMMA RememberKeepsLast ==
  ASSUME NEW s \in Seq(Nat), NEW k \in Nat
  PROVE  /\ Remember(LastOf(s), k) = LastOf(Append(s, k))
         /\ Append(s, k) \in Seq(Nat)
<1> DEFINE H == HISTORY_FRAMES
           h == LastOf(s)
           g == Append(h, k)
           t == Append(s, k)
<1>1. PICK n \in Nat : n = Len(s)
  OBVIOUS
<1>2. H \in Nat /\ H > 0
  BY PipelineAssumption
<1>3. t \in Seq(Nat) /\ Len(t) = n + 1 /\ t[n + 1] = k /\ \A i \in 1 .. n : t[i] = s[i]
  BY <1>1, AppendProperties
<1>4. /\ h \in Seq(Nat)
      /\ n > H => Len(h) = H /\ \A i \in 1 .. H : h[i] = s[n - H + i]
      /\ n <= H => h = s
  BY <1>1, LastOfFacts
<1> HIDE DEF h, t
<1>5. /\ LastOf(t) \in Seq(Nat)
      /\ n + 1 > H => /\ Len(LastOf(t)) = H
                      /\ \A i \in 1 .. H : LastOf(t)[i] = t[n + 1 - H + i]
      /\ n + 1 <= H => LastOf(t) = t
  <2>1. PICK m \in Nat : m = n + 1
    OBVIOUS
  <2>2. /\ LastOf(t) \in Seq(Nat)
        /\ m > HISTORY_FRAMES =>
              /\ Len(LastOf(t)) = HISTORY_FRAMES
              /\ \A i \in 1 .. HISTORY_FRAMES : LastOf(t)[i] = t[m - HISTORY_FRAMES + i]
        /\ m <= HISTORY_FRAMES => LastOf(t) = t
    BY <1>3, <2>1, LastOfFacts
  <2> QED BY <2>1, <2>2
<1>6. PICK l \in Nat : l = Len(h)
  BY <1>4
<1>7. g \in Seq(Nat) /\ Len(g) = l + 1 /\ g[l + 1] = k /\ g # <<>> /\ \A i \in 1 .. l : g[i] = h[i]
  <2>1. h \in Seq(Nat)
    BY <1>4
  <2>2. g \in Seq(Nat)
    BY <2>1
  <2>3. Len(g) = Len(h) + 1 /\ g[Len(h) + 1] = k
    BY <2>1
  <2>4. \A i \in 1 .. Len(h) : g[i] = h[i]
    BY <2>1
  <2>5. g # <<>>
    <3>1. Len(g) # 0 /\ Len(<<>>) = 0
      BY <1>6, <2>3
    <3> QED BY ONLY <3>1
  <2> QED BY ONLY <1>6, <2>2, <2>3, <2>4, <2>5
<1>8. Remember(h, k) = IF l + 1 > H THEN Tail(g) ELSE g
  BY <1>7 DEF Remember
<1> HIDE DEF g
<1>9. Tail(g) \in Seq(Nat) /\ Len(Tail(g)) = l /\ \A i \in 1 .. l : Tail(g)[i] = g[i + 1]
  BY <1>7, HeadTailProperties
<1>10. l = IF n > H THEN H ELSE n
  <2>1. n > H \/ n <= H
    BY <1>2
  <2> QED BY <1>1, <1>2, <1>4, <1>6, <2>1
<1>11. CASE n + 1 <= H
  <2>1. h = s /\ LastOf(t) = t /\ ~ l + 1 > H
    BY <1>11, <1>2, <1>4, <1>5, <1>10
  <2>2. Remember(h, k) = LastOf(t)
    BY <1>8, <2>1 DEF g, t
  <2> QED BY <1>3, <2>2 DEF h, t
<1>12. CASE n + 1 > H
  <2>1. l = H /\ Remember(h, k) = Tail(g) /\ Len(LastOf(t)) = H /\ n - H \in Nat
    BY <1>12, <1>2, <1>5, <1>8, <1>10
  <2> HIDE DEF H
  <2>2. \A i \in 1 .. H : i < H => Tail(g)[i] = t[n + 1 - H + i]
    <3> SUFFICES ASSUME NEW i \in 1 .. H, i < H PROVE Tail(g)[i] = t[n + 1 - H + i]
      OBVIOUS
    <3>1. Tail(g)[i] = h[i + 1]
      BY <1>2, <1>7, <1>9, <2>1
    <3>2. i + 1 \in 1 .. H /\ n - H + (i + 1) = n + 1 - H + i /\ n + 1 - H + i \in 1 .. n
      BY <1>2, <2>1
    <3>3. h[i + 1] = s[n + 1 - H + i]
      <4>1. CASE n > H
        BY <4>1, <1>4, <3>2
      <4>2. CASE n = H
        BY <4>2, <1>2, <1>4, <3>2
      <4> QED BY <4>1, <4>2, <2>1, <1>2
    <3> QED BY <1>3, <3>1, <3>2, <3>3
  <2>3. Tail(g)[H] = t[n + 1]
    BY <1>2, <1>3, <1>7, <1>9, <2>1
  <2>4. \A i \in 1 .. H : Tail(g)[i] = LastOf(t)[i]
    <3> SUFFICES ASSUME NEW i \in 1 .. H PROVE Tail(g)[i] = LastOf(t)[i]
      OBVIOUS
    <3>1. LastOf(t)[i] = t[n + 1 - H + i]
      BY <1>5, <1>12
    <3>2. CASE i < H
      BY <2>2, <3>1, <3>2, <1>2
    <3>3. CASE i = H
      <4>1. n + 1 - H + i = n + 1
        BY <1>2, <3>3
      <4> QED BY <2>3, <3>1, <3>3, <4>1
    <3>4. i < H \/ i = H
      BY <1>2
    <3> QED BY ONLY <3>2, <3>3, <3>4
  <2>5. Tail(g) = LastOf(t)
    BY <1>5, <1>9, <2>1, <2>4, SeqEqual
  <2> QED BY <1>3, <2>1, <2>5 DEF h, t
<1> QED BY <1>2, <1>3, <1>11, <1>12 DEF h, t

-----------------------------------------------------------------------------
LEMMA InitInv == Serial /\ Init => PipelineInv
<1> SUFFICES ASSUME Serial, Init PROVE PipelineInv
  OBVIOUS
<1>1. StateTypes
  BY DEF StateTypes, Init, Threads, Labels, ZeroStats
<1>2. Burst
  BY PipelineAssumption DEF Burst, Init, Stages, Threads
<1>3. History
  BY LastOfEmpty DEF History, Init
<1>4. Tier
  BY DEF Tier, Init
<1>5. Published
  BY DEF Published, Init, Threads
<1> QED BY <1>1, <1>2, <1>3, <1>4, <1>5 DEF PipelineInv

\* Steps that leave the frame counters, the history and the output alone.
LEMMA QuietStep ==
  ASSUME PipelineInv, NEW l \in Labels \ (Stages \cup {"half"}),
         l # "conceal", pc["audio"] # "conceal", pc["audio"] # "half",
         pc' = [pc EXCEPT !["audio"] = l],
         UNCHANGED <<build, calls, history, lossMs, lastStats, out, snap, ghostVars>>
  PROVE  PipelineInv'
<1>1. pc'["audio"] = l /\ pc'["control"] = "idle" /\ pc' \in [Threads -> Labels]
  BY DEF PipelineInv, StateTypes, Threads
<1>2. StateTypes'
  BY <1>1 DEF PipelineInv, StateTypes, ghostVars
<1>3. Burst'
  BY <1>1 DEF PipelineInv, Burst, ghostVars
<1>4. History'
  BY DEF PipelineInv, History, LastOf, ghostVars
<1>5. Tier'
  BY <1>1 DEF PipelineInv, Tier, Concealed, Output, Fade, ghostVars
<1>6. Published'
  BY <1>1 DEF PipelineInv, Published, ghostVars
<1> QED BY <1>2, <1>3, <1>4, <1>5, <1>6 DEF PipelineInv

LEMMA NextInv == Serial /\ PipelineInv /\ [Next]_vars => PipelineInv'
<1> SUFFICES ASSUME Serial, PipelineInv, [Next]_vars PROVE PipelineInv'
  OBVIOUS
<1> USE DEF PipelineInv
<1>0. /\ pc["control"] = "idle" /\ pc \in [Threads -> Labels]
      /\ Threads = {"audio", "control"}
  BY DEF StateTypes, Threads
<1>1. ASSUME NEW lost \in BOOLEAN, BeginProcess(lost) PROVE PipelineInv'
  <2>1. PICK l \in {"conceal", "maxine", "aec"} :
          /\ pc' = [pc EXCEPT !["audio"] = l]
          /\ lost <=> l = "conceal"
    BY <1>1 DEF BeginProcess, Goto
  <2>2. /\ pc'["audio"] = l /\ pc'["control"] = "idle" /\ pc' \in [Threads -> Labels]
    BY <1>0, <2>1 DEF Labels
  <2>3. /\ calls' = calls + 1 /\ pc["audio"] = "idle"
        /\ lossMs' = IF lost THEN lossMs + FRAME_SIZE_MS ELSE 0
        /\ anchor' = IF lost THEN anchor ELSE calls'
        /\ UNCHANGED <<build, mu, echo, erle, noise, history, lastStats, out, snap, good, published>>
    BY <1>1 DEF BeginProcess, LossAfter
  <2>4. calls \in Nat /\ anchor \in Nat /\ lossMs \in Nat /\ FRAME_SIZE_MS \in Nat
    BY PipelineAssumption DEF StateTypes
  <2>5. StateTypes'
    BY <2>2, <2>3, <2>4 DEF StateTypes
  <2>6. Burst'
    <3>1. CASE lost
      <4>1. lossMs' = FRAME_SIZE_MS * (calls' - anchor')
        BY <2>3, <2>4, <3>1, OneMoreFrame DEF Burst
      <4> QED BY <4>1, <2>1, <2>2, <2>3, <2>4, <3>1 DEF Burst, Stages
    <3>2. CASE ~lost
      <4>1. lossMs' = FRAME_SIZE_MS * 0 /\ calls' - anchor' = 0
        BY <2>3, <2>4, <3>2
      <4> QED BY <4>1, <2>3, <2>4, <3>2 DEF Burst
    <3> QED BY <3>1, <3>2
  <2>7. History'
    BY <2>3 DEF History, LastOf
  <2>8. Tier'
    BY <2>1, <2>2, <2>3, <2>4 DEF Tier
  <2>9. Published'
    BY <2>1, <2>2, <2>3 DEF Published
  <2> QED BY <2>5, <2>6, <2>7, <2>8, <2>9
<1>2. CASE Conceal
  <2>1. /\ pc["audio"] = "conceal" /\ pc' = [pc EXCEPT !["audio"] = "publish"]
        /\ out' = Concealed(lossMs)
        /\ UNCHANGED <<build, mu, calls, stageVars, lastStats, snap, ghostVars>>
    BY <1>2 DEF Conceal, Goto
  <2>2. pc'["audio"] = "publish" /\ pc'["control"] = "idle" /\ pc' \in [Threads -> Labels]
    BY <1>0, <2>1 DEF Labels
  <2>3. StateTypes'
    BY <2>1, <2>2 DEF StateTypes, stageVars, ghostVars
  <2>4. Burst'
    BY <2>1, <2>2 DEF Burst, Stages, stageVars, ghostVars
  <2>5. History'
    BY <2>1 DEF History, LastOf, stageVars, ghostVars
  <2>6. Tier'
    BY <2>1 DEF Tier, Concealed, Output, Fade, stageVars
  <2>7. Published'
    BY <2>1, <2>2 DEF Published, stageVars, ghostVars
  <2> QED BY <2>3, <2>4, <2>5, <2>6, <2>7
<1>3. ASSUME NEW l \in {"noise", "history"},
             pc["audio"] \in Stages, pc' = [pc EXCEPT !["audio"] = l],
             UNCHANGED <<build, mu, calls, history, lossMs, lastStats, out, snap, ghostVars>>
      PROVE  PipelineInv'
  <2>1. pc'["audio"] = l /\ pc'["control"] = "idle" /\ pc' \in [Threads -> Labels]
    BY <1>0, <1>3 DEF Labels
  <2>2. StateTypes'
    BY <1>3, <2>1 DEF StateTypes, ghostVars
  <2>3. Burst'
    BY <1>3, <2>1 DEF Burst, ghostVars
  <2>4. History'
    BY <1>3 DEF History, LastOf, ghostVars
  <2>5. Tier'
    BY <1>3, <2>1 DEF Tier, Burst, StateTypes, ghostVars
  <2>6. Published'
    BY <1>3, <2>1 DEF Published, Stages, ghostVars
  <2> QED BY <2>2, <2>3, <2>4, <2>5, <2>6
<1>4. CASE PushGoodFrame
  <2>1. /\ pc["audio"] = "history" /\ pc' = [pc EXCEPT !["audio"] = "publish"]
        /\ history' = Remember(history, calls) /\ good' = Append(good, calls)
        /\ UNCHANGED <<build, mu, calls, echo, erle, noise, lossMs, lastStats, snap, anchor, published>>
    BY <1>4 DEF PushGoodFrame, Goto
  <2>2. pc'["audio"] = "publish" /\ pc'["control"] = "idle" /\ pc' \in [Threads -> Labels]
    BY <1>0, <2>1 DEF Labels
  <2>3. History' /\ good' \in Seq(Nat)
    BY <2>1, RememberKeepsLast DEF History, StateTypes
  <2>4. StateTypes'
    BY <2>1, <2>2, <2>3 DEF StateTypes
  <2>5. Burst'
    BY <2>1, <2>2 DEF Burst, Stages
  <2>6. Tier'
    BY <2>1, <2>2 DEF Tier, Burst, Stages, StateTypes
  <2>7. Published'
    BY <2>1, <2>2 DEF Published
  <2> QED BY <2>3, <2>4, <2>5, <2>6, <2>7
<1>5. CASE PublishFirstHalf
  <2>1. /\ pc["audio"] = "publish" /\ pc' = [pc EXCEPT !["audio"] = "half"]
        /\ mu' = "audio"
        /\ lastStats' = [lastStats EXCEPT !.erle = erle, !.noise = noise]
        /\ published' = published \cup {FrameStats(erle, noise, calls, lossMs)}
        /\ UNCHANGED <<build, calls, stageVars, out, snap, anchor, good>>
    BY <1>5 DEF PublishFirstHalf, Goto, Lock
  <2>2. pc'["audio"] = "half" /\ pc'["control"] = "idle" /\ pc' \in [Threads -> Labels]
    BY <1>0, <2>1 DEF Labels
  <2>3. \E m, l : lastStats' = FrameStats(erle, noise, m, l)
    <3>1. PICK e, n, m, l : lastStats = FrameStats(e, n, m, l)
      BY DEF StateTypes
    <3>2. lastStats' = FrameStats(erle, noise, m, l)
      BY <2>1, <3>1 DEF FrameStats
    <3> QED BY <3>2
  <2>4. StateTypes'
    BY <2>1, <2>2, <2>3 DEF StateTypes, stageVars
  <2>5. Burst'
    BY <2>1, <2>2 DEF Burst, Stages, stageVars
  <2>6. History'
    BY <2>1 DEF History, LastOf, stageVars
  <2>7. Tier'
    BY <2>1, <2>2 DEF Tier, Concealed, Output, Fade, stageVars
  <2>8. Published'
    BY <2>1, <2>2, <2>3 DEF Published, stageVars, FrameStats
  <2> QED BY <2>4, <2>5, <2>6, <2>7, <2>8
<1>6. CASE PublishSecondHalf
  <2>1. /\ pc["audio"] = "half" /\ pc' = [pc EXCEPT !["audio"] = "idle"]
        /\ lastStats' = [lastStats EXCEPT !.ms = calls, !.loss = lossMs]
        /\ UNCHANGED <<build, calls, stageVars, out, snap, ghostVars>>
    BY <1>6 DEF PublishSecondHalf, Goto
  <2>2. pc'["audio"] = "idle" /\ pc'["control"] = "idle" /\ pc' \in [Threads -> Labels]
    BY <1>0, <2>1 DEF Labels
  <2>3. lastStats' = FrameStats(erle, noise, calls, lossMs)
    <3>1. PICK m, l : lastStats = FrameStats(erle, noise, m, l)
      BY <2>1 DEF Published
    <3>2. [lastStats EXCEPT !.ms = calls] = FrameStats(erle, noise, calls, l)
      BY <3>1 DEF FrameStats
    <3> DEFINE r == [lastStats EXCEPT !.ms = calls]
    <3>3. lastStats' = [r EXCEPT !.loss = lossMs]
      BY ONLY <2>1, Zenon
    <3>4. r = FrameStats(erle, noise, calls, l)
      BY <3>2
    <3> HIDE DEF r
    <3>5. [r EXCEPT !.loss = lossMs] = FrameStats(erle, noise, calls, lossMs)
      BY ONLY <3>4 DEF FrameStats
    <3> QED BY <3>3, <3>5
  <2>4. StateTypes'
    BY <2>1, <2>2, <2>3 DEF StateTypes, stageVars, ghostVars
  <2>5. Burst'
    BY <2>1, <2>2 DEF Burst, Stages, stageVars, ghostVars
  <2>6. History'
    BY <2>1 DEF History, LastOf, stageVars, ghostVars
  <2>7. Tier'
    BY <2>1, <2>2 DEF Tier, Concealed, Output, Fade, stageVars, ghostVars
  <2>8. Published'
    BY <2>1, <2>2, <2>3 DEF Published, stageVars, ghostVars
  <2> QED BY <2>4, <2>5, <2>6, <2>7, <2>8
<1>7. ASSUME NEW t \in Threads, Stats(t) PROVE PipelineInv'
  <2>1. /\ mu = "none" /\ snap' = lastStats
        /\ UNCHANGED <<build, pc, mu, calls, stageVars, lastStats, out, ghostVars>>
    BY <1>7 DEF Stats
  <2>2. StateTypes' /\ Burst' /\ History'
    BY <2>1 DEF StateTypes, Burst, History, LastOf, stageVars, ghostVars
  <2>3. Tier'
    BY <2>1 DEF Tier, Concealed, Output, Fade, stageVars, ghostVars
  <2>4. Published'
    BY <2>1 DEF Published, stageVars, ghostVars
  <2> QED BY <2>2, <2>3, <2>4
<1>8. ASSUME NEW t \in Threads, NEW quiet \in BOOLEAN, PushReference(t, quiet)
      PROVE  PipelineInv'
  <2>1. t = "audio"
    BY <1>8, <1>0 DEF PushReference, Owner, Serial
  <2> QED
    BY <1>8, <2>1, QuietStep DEF PushReference, Goto, Labels, Stages
<1>9. ASSUME NEW t \in Threads, PushReferenceReturns(t) PROVE PipelineInv'
  <2>1. t = "audio"
    BY <1>9, <1>0 DEF PushReferenceReturns
  <2> QED
    BY <1>9, <2>1, QuietStep DEF PushReferenceReturns, Goto, Labels, Stages, stageVars
<1>10. ASSUME NEW t \in Threads, BeginReset(t) \/ ResetAec(t) \/ ResetNoise(t)
       PROVE  PipelineInv'
  <2>1. t = "audio"
    BY <1>10, <1>0 DEF BeginReset, ResetAec, ResetNoise, Owner, Serial
  <2> QED
    BY <1>10, <2>1, QuietStep
    DEF BeginReset, ResetAec, ResetNoise, Goto, Labels, Stages, stageVars
<1>11. ASSUME NEW t \in Threads, ResetPlc(t) PROVE PipelineInv'
  <2>1. /\ t = "audio" /\ pc["audio"] = "resetPlc"
        /\ pc' = [pc EXCEPT !["audio"] = "resetStats"]
        /\ history' = <<>> /\ lossMs' = 0 /\ good' = <<>> /\ anchor' = calls
        /\ UNCHANGED <<build, mu, calls, echo, erle, noise, lastStats, out, snap, published>>
    BY <1>11, <1>0 DEF ResetPlc, Goto
  <2>2. pc'["audio"] = "resetStats" /\ pc'["control"] = "idle" /\ pc' \in [Threads -> Labels]
    BY <1>0, <2>1 DEF Labels
  <2>3. StateTypes'
    BY <2>1, <2>2 DEF StateTypes
  <2>4. Burst'
    <3>1. FRAME_SIZE_MS \in Nat /\ calls \in Nat /\ calls - calls = 0
      BY PipelineAssumption DEF StateTypes
    <3> QED BY <2>1, <2>2, <3>1 DEF Burst
  <2>5. History'
    <3>1. history' = <<>> /\ good' = <<>>
      BY <2>1
    <3> QED BY <3>1, LastOfEmpty DEF History, LastOf
  <2>6. Tier'
    BY <2>1 DEF Tier, StateTypes
  <2>7. Published'
    BY <2>1, <2>2 DEF Published
  <2> QED BY <2>3, <2>4, <2>5, <2>6, <2>7
<1>12. ASSUME NEW t \in Threads, ResetStats(t) PROVE PipelineInv'
  <2>1. /\ t = "audio" /\ pc["audio"] = "resetStats"
        /\ pc' = [pc EXCEPT !["audio"] = "idle"] /\ lastStats' = ZeroStats
        /\ UNCHANGED <<build, mu, calls, stageVars, out, snap, ghostVars>>
    BY <1>12, <1>0 DEF ResetStats, Goto
  <2>2. pc'["audio"] = "idle" /\ pc'["control"] = "idle" /\ pc' \in [Threads -> Labels]
    BY <1>0, <2>1 DEF Labels
  <2>3. StateTypes'
    BY <2>1, <2>2 DEF StateTypes, stageVars, ghostVars, ZeroStats
  <2>4. Burst'
    BY <2>1, <2>2 DEF Burst, Stages, stageVars, ghostVars
  <2>5. History'
    BY <2>1 DEF History, LastOf, stageVars, ghostVars
  <2>6. Tier'
    BY <2>1, <2>2 DEF Tier, Concealed, Output, Fade, stageVars, ghostVars
  <2>7. Published'
    BY <2>1, <2>2 DEF Published, stageVars, ghostVars
  <2> QED BY <2>3, <2>4, <2>5, <2>6, <2>7
<1>13. CASE UNCHANGED vars
  <2>1. StateTypes' /\ Burst' /\ History'
    BY <1>13 DEF StateTypes, Burst, History, LastOf, vars, stageVars, ghostVars
  <2>2. Tier'
    BY <1>13 DEF Tier, Concealed, Output, Fade, vars, stageVars, ghostVars
  <2>3. Published'
    BY <1>13 DEF Published, vars, stageVars, ghostVars
  <2> QED BY <2>1, <2>2, <2>3
<1>14. ASSUME RunAec \/ RunMaxine \/ \E silent \in BOOLEAN : RunNoise(silent)
       PROVE  PipelineInv'
  BY <1>3, <1>14 DEF RunAec, RunMaxine, RunNoise, Goto, Stages, stageVars
<1> QED
  BY <1>1, <1>2, <1>4, <1>5, <1>6, <1>7, <1>8, <1>9, <1>10, <1>11, <1>12, <1>13, <1>14
  DEF Next, Process, Reset
-----------------------------------------------------------------------------
\* When only the audio thread calls process, push_reference and reset,
\* PipelineInv holds throughout.
THEOREM PipelineInvariant == ASSUME Serial PROVE Spec => []PipelineInv
<1>1. Init => PipelineInv
  BY InitInv
<1>2. PipelineInv /\ [Next]_vars => PipelineInv'
  BY NextInv
<1> QED BY <1>1, <1>2, PTL DEF Spec

\* A copy of the statistics is never torn between two calls of process, for
\* any burst, reset and interleaving with the reader.
THEOREM SnapshotCoherentHolds == ASSUME Serial PROVE Spec => []SnapshotCoherent
<1>1. PipelineInv => SnapshotCoherent
  BY DEF PipelineInv, Published, SnapshotCoherent
<1> QED BY <1>1, PipelineInvariant, PTL

\* plc_loss_ms measures the current burst, for every frame size.
THEOREM BurstCountedHolds == ASSUME Serial PROVE Spec => []BurstCounted
<1>1. PipelineInv => BurstCounted
  BY DEF PipelineInv, Burst, BurstCounted
<1> QED BY <1>1, PipelineInvariant, PTL

\* LPC concealment is silent exactly from PLC_AI_MAX_MS into a burst on.
THEOREM FadeEndsBurstHolds == ASSUME Serial PROVE Spec => []FadeEndsBurst
<1>1. PipelineInv => FadeEndsBurst
  <2> SUFFICES ASSUME PipelineInv, Idle, out.by = "lpc", calls > anchor
               PROVE  out.gain = 0 <=> FRAME_SIZE_MS * (calls - anchor) >= PLC_AI_MAX_MS
    BY DEF FadeEndsBurst
  <2>1. out = Concealed(lossMs) /\ lossMs = FRAME_SIZE_MS * (calls - anchor) /\ lossMs \in Nat
    BY DEF PipelineInv, Tier, Burst, StateTypes, Idle
  <2>2. out.gain = Fade(lossMs)
    BY <2>1 DEF Concealed, Output
  <2>3. Fade(lossMs) = 0 <=> lossMs >= PLC_AI_MAX_MS
    BY <2>1, PipelineAssumption DEF Fade
  <2> QED BY <2>1, <2>2, <2>3
<1> QED BY <1>1, PipelineInvariant, PTL

\* The concealment history is the last HISTORY_FRAMES good frames, so conceal
\* never copies more frames than its context buffer holds.
THEOREM HistoryIsRecentGoodHolds == ASSUME Serial PROVE Spec => []HistoryIsRecentGood
<1>1. PipelineInv => HistoryIsRecentGood
  BY DEF PipelineInv, History, LastOf, HistoryIsRecentGood
<1> QED BY <1>1, PipelineInvariant, PTL

\* A lost frame goes to LPCNet exactly when the build has it, there was a good
\* frame since reset, and the burst has lasted PLC_FEC_MAX_MS.
THEOREM LpcnetByBurstHolds == ASSUME Serial PROVE Spec => []LpcnetByBurst
<1>1. PipelineInv => LpcnetByBurst
  <2> SUFFICES ASSUME PipelineInv, Idle, calls > anchor
               PROVE  out.by = "lpcnet" <=>
                        /\ build = "lpcnet" /\ good # <<>>
                        /\ FRAME_SIZE_MS * (calls - anchor) >= PLC_FEC_MAX_MS
    BY DEF LpcnetByBurst
  <2>1. out = Concealed(lossMs) /\ lossMs = FRAME_SIZE_MS * (calls - anchor)
    BY DEF PipelineInv, Tier, Burst, Idle
  <2>2. history = <<>> <=> good = <<>>
    <3>1. history = LastOf(good) /\ good \in Seq(Nat)
      BY DEF PipelineInv, History, StateTypes
    <3>2. good # <<>> => LastOf(good) # <<>>
      BY <3>1, LastOfFacts, PipelineAssumption
    <3> QED BY <3>1, <3>2, LastOfEmpty
  <2>3. out.by = "lpcnet" <=>
          history # <<>> /\ build = "lpcnet" /\ lossMs >= PLC_FEC_MAX_MS
    BY <2>1 DEF Concealed, Output
  <2> QED BY <2>1, <2>2, <2>3
<1> QED BY <1>1, PipelineInvariant, PTL
-----------------------------------------------------------------------------
\* Between calls last_stats carries the figures of the stages; a call in
\* progress is not fresh once it can publish; reset clears the figures before
\* the history, and the history before last_stats.
Figures ==
  /\ pc["audio"] \in {"idle", "reference"} =>
       /\ lastStats = FrameStats(erle, noise, IF Fresh THEN 0 ELSE calls, lossMs)
       /\ Fresh => erle = 0 /\ noise = 0
  /\ pc["audio"] = "conceal" => calls > anchor
  /\ pc["audio"] \in {"publish", "half"} => ~Fresh
  /\ pc["audio"] \in {"resetNoise", "resetPlc", "resetStats"} => erle = 0
  /\ pc["audio"] \in {"resetPlc", "resetStats"} => noise = 0
  /\ pc["audio"] = "resetStats" => Fresh /\ lossMs = 0

LEMMA SecondHalfStats ==
  ASSUME Published, PublishSecondHalf
  PROVE  lastStats' = FrameStats(erle, noise, calls, lossMs)
<1>1. PICK m, l : lastStats = FrameStats(erle, noise, m, l)
  BY DEF Published, PublishSecondHalf
<1>2. [lastStats EXCEPT !.ms = calls] = FrameStats(erle, noise, calls, l)
  BY <1>1 DEF FrameStats
<1> DEFINE r == [lastStats EXCEPT !.ms = calls]
<1>3. lastStats' = [r EXCEPT !.loss = lossMs]
  BY Zenon DEF PublishSecondHalf
<1>4. r = FrameStats(erle, noise, calls, l)
  BY <1>2
<1> HIDE DEF r
<1>5. [r EXCEPT !.loss = lossMs] = FrameStats(erle, noise, calls, lossMs)
  BY ONLY <1>4 DEF FrameStats
<1> QED BY <1>3, <1>5

LEMMA NextFigures ==
  ASSUME Serial, PipelineInv, Figures, [Next]_vars
  PROVE  Figures'
<1>0. /\ pc["control"] = "idle" /\ pc \in [Threads -> Labels]
      /\ Threads = {"audio", "control"}
      /\ calls \in Nat /\ anchor \in Nat /\ good \in Seq(Nat) /\ anchor <= calls
  BY DEF PipelineInv, StateTypes, Burst, Threads
<1>1. ASSUME NEW lost \in BOOLEAN, BeginProcess(lost) PROVE Figures'
  <2>1. PICK l \in {"conceal", "maxine", "aec"} :
          pc' = [pc EXCEPT !["audio"] = l] /\ (lost <=> l = "conceal")
    BY <1>1 DEF BeginProcess, Goto
  <2>2. pc'["audio"] = l
    BY <1>0, <2>1
  <2>3. calls' = calls + 1 /\ (lost => anchor' = anchor)
    BY <1>1 DEF BeginProcess
  <2> QED BY <1>0, <2>1, <2>2, <2>3 DEF Figures
<1>2. CASE Conceal
  <2>1. pc'["audio"] = "publish" /\ pc["audio"] = "conceal" /\ UNCHANGED <<calls, anchor>>
    BY <1>0, <1>2 DEF Conceal, Goto, ghostVars
  <2> QED BY <1>0, <2>1 DEF Figures, Fresh
<1>3. CASE RunAec \/ RunMaxine \/ \E silent \in BOOLEAN : RunNoise(silent)
  <2>1. pc'["audio"] \in {"noise", "history"}
    BY <1>0, <1>3 DEF RunAec, RunMaxine, RunNoise, Goto
  <2> QED BY <2>1 DEF Figures
<1>4. CASE PushGoodFrame
  <2>1. pc'["audio"] = "publish" /\ good' = Append(good, calls)
    BY <1>0, <1>4 DEF PushGoodFrame, Goto
  <2>2. good' # <<>>
    BY <1>0, <2>1
  <2> QED BY <2>1, <2>2 DEF Figures, Fresh
<1>5. CASE PublishFirstHalf
  <2>1. pc["audio"] = "publish" /\ pc'["audio"] = "half" /\ UNCHANGED <<calls, anchor, good>>
    BY <1>0, <1>5 DEF PublishFirstHalf, Goto
  <2> QED BY <2>1 DEF Figures, Fresh
<1>6. CASE PublishSecondHalf
  <2>1. /\ pc["audio"] = "half" /\ pc'["audio"] = "idle"
        /\ UNCHANGED <<calls, anchor, good, erle, noise, lossMs>>
    BY <1>0, <1>6 DEF PublishSecondHalf, Goto, stageVars, ghostVars
  <2>2. lastStats' = FrameStats(erle, noise, calls, lossMs)
    BY <1>6, SecondHalfStats DEF PipelineInv
  <2>3. ~Fresh /\ ~Fresh'
    BY <2>1 DEF Figures, Fresh
  <2>4. lastStats' = FrameStats(erle, noise, IF Fresh THEN 0 ELSE calls, lossMs)'
    BY <2>1, <2>2, <2>3 DEF FrameStats
  <2> QED BY <2>1, <2>3, <2>4 DEF Figures
<1>7. ASSUME UNCHANGED <<calls, erle, noise, lossMs, lastStats, anchor, good>>,
             \/ pc' = pc
             \/ pc'["audio"] \in {"idle", "reference"} /\ pc["audio"] \in {"idle", "reference"}
             \/ pc'["audio"] = "resetAec"
      PROVE  Figures'
  <2>1. Fresh' = Fresh
    BY <1>7 DEF Fresh
  <2>2. lastStats' = FrameStats(erle, noise, IF Fresh THEN 0 ELSE calls, lossMs)'
          <=> lastStats = FrameStats(erle, noise, IF Fresh THEN 0 ELSE calls, lossMs)
    BY <1>7, <2>1 DEF FrameStats
  <2> QED BY <1>7, <2>1, <2>2 DEF Figures
<1>8. ASSUME NEW t \in Threads, Stats(t) PROVE Figures'
  BY <1>7, <1>8 DEF Stats, stageVars, ghostVars
<1>9. ASSUME NEW t \in Threads, NEW quiet \in BOOLEAN, PushReference(t, quiet)
      PROVE  Figures'
  <2>1. t = "audio"
    BY <1>0, <1>9 DEF PushReference, Owner, Serial
  <2>2. pc["audio"] = "idle" /\ pc'["audio"] = "reference"
    BY <1>0, <1>9, <2>1 DEF PushReference, Goto
  <2> QED BY <1>7, <1>9, <2>2 DEF PushReference, ghostVars
<1>10. ASSUME NEW t \in Threads, PushReferenceReturns(t) PROVE Figures'
  <2>1. t = "audio"
    BY <1>0, <1>10 DEF PushReferenceReturns
  <2>2. pc["audio"] = "reference" /\ pc'["audio"] = "idle"
    BY <1>0, <1>10, <2>1 DEF PushReferenceReturns, Goto
  <2> QED BY <1>7, <1>10, <2>2 DEF PushReferenceReturns, stageVars, ghostVars
<1>11. ASSUME NEW t \in Threads, BeginReset(t) PROVE Figures'
  <2>1. t = "audio"
    BY <1>0, <1>11 DEF BeginReset, Owner, Serial
  <2>2. pc'["audio"] = "resetAec"
    BY <1>0, <1>11, <2>1 DEF BeginReset, Goto
  <2> QED BY <1>7, <1>11, <2>2 DEF BeginReset, stageVars, ghostVars
<1>12. ASSUME NEW t \in Threads, ResetAec(t) \/ ResetNoise(t) PROVE Figures'
  <2>1. t = "audio"
    BY <1>0, <1>12 DEF ResetAec, ResetNoise
  <2>2. \/ pc'["audio"] = "resetNoise" /\ erle' = 0
        \/ pc["audio"] = "resetNoise" /\ pc'["audio"] = "resetPlc" /\ erle' = erle /\ noise' = 0
    BY <1>0, <1>12, <2>1 DEF ResetAec, ResetNoise, Goto
  <2> QED BY <2>2 DEF Figures
<1>13. ASSUME NEW t \in Threads, ResetPlc(t) PROVE Figures'
  <2>1. t = "audio"
    BY <1>0, <1>13 DEF ResetPlc
  <2>2. /\ pc["audio"] = "resetPlc" /\ pc'["audio"] = "resetStats"
        /\ lossMs' = 0 /\ good' = <<>> /\ anchor' = calls
        /\ UNCHANGED <<erle, noise, calls>>
    BY <1>0, <1>13, <2>1 DEF ResetPlc, Goto
  <2> QED BY <2>2 DEF Figures, Fresh
<1>14. ASSUME NEW t \in Threads, ResetStats(t) PROVE Figures'
  <2>1. t = "audio"
    BY <1>0, <1>14 DEF ResetStats
  <2>2. /\ pc["audio"] = "resetStats" /\ pc'["audio"] = "idle"
        /\ lastStats' = FrameStats(0, 0, 0, 0)
        /\ UNCHANGED <<erle, noise, calls, lossMs, anchor, good>>
    BY <1>0, <1>14, <2>1 DEF ResetStats, Goto, ZeroStats, stageVars, ghostVars
  <2>3. Fresh /\ Fresh' /\ erle = 0 /\ noise = 0 /\ lossMs = 0
    BY <2>2 DEF Figures, Fresh
  <2>4. lastStats' = FrameStats(erle, noise, IF Fresh THEN 0 ELSE calls, lossMs)'
    BY <2>2, <2>3 DEF FrameStats
  <2> QED BY <2>2, <2>3, <2>4 DEF Figures
<1>15. CASE UNCHANGED vars
  BY <1>7, <1>15 DEF vars, stageVars, ghostVars
<1> QED
  BY <1>1, <1>2, <1>3, <1>4, <1>5, <1>6, <1>8, <1>9, <1>10, <1>11, <1>12, <1>13, <1>14, <1>15
  DEF Next, Process, Reset

\* Between calls last_stats agrees with the stages, and after reset nothing of
\* an earlier call is left in it, for every sequence of calls.
THEOREM StatsOfLastCallHolds == ASSUME Serial PROVE Spec => []StatsOfLastCall
<1>1. Init => Figures
  BY DEF Init, Figures, Fresh, FrameStats, ZeroStats, Threads
<1>2. PipelineInv /\ Figures /\ [Next]_vars => Figures'
  BY NextFigures
<1>3. PipelineInv /\ Figures => StatsOfLastCall
  BY DEF Figures, StatsOfLastCall, Idle
<1> QED BY <1>1, <1>2, <1>3, PipelineInvariant, PTL DEF Spec
-----------------------------------------------------------------------------
(* Types; these hold of every owner, Serial or not.                        *)

LEMMA StatsTyped ==
  ASSUME NEW e \in Stamp, NEW n \in Stamp, NEW m \in Stamp, NEW l \in Nat
  PROVE  FrameStats(e, n, m, l) \in StatsSet
BY DEF FrameStats, StatsSet

LEMMA RememberTyped ==
  ASSUME NEW h \in Seq(Stamp), NEW k \in Stamp
  PROVE  Remember(h, k) \in Seq(Stamp)
<1>1. Append(h, k) \in Seq(Stamp) /\ Append(h, k) # <<>>
  BY AppendProperties
<1>2. Tail(Append(h, k)) \in Seq(Stamp)
  BY <1>1
<1> QED BY <1>1, <1>2 DEF Remember

\* The fade is clamped: a concealed frame is never amplified nor inverted.
LEMMA ConcealedTyped ==
  ASSUME NEW loss \in Nat
  PROVE  Concealed(loss) \in
           [by : {"none", "zeros", "lpcnet", "lpc", "stages"}, gain : 0 .. PLC_AI_MAX_MS]
<1>1. Fade(loss) \in 0 .. PLC_AI_MAX_MS /\ 0 \in 0 .. PLC_AI_MAX_MS
      /\ PLC_AI_MAX_MS \in 0 .. PLC_AI_MAX_MS
  BY PipelineAssumption DEF Fade
<1>2. \/ Concealed(loss) = Output("zeros", 0)
      \/ Concealed(loss) = Output("lpcnet", PLC_AI_MAX_MS)
      \/ Concealed(loss) = Output("lpc", Fade(loss))
  BY Zenon DEF Concealed
<1> QED BY <1>1, <1>2 DEF Output

LEMMA NextTypeOK == TypeOK /\ [Next]_vars => TypeOK'
<1> SUFFICES ASSUME TypeOK, [Next]_vars PROVE TypeOK'
  OBVIOUS
<1>0. FRAME_SIZE_MS \in Nat /\ PLC_AI_MAX_MS \in Nat /\ MaxCalls \in Nat /\ 0 \in Stamp
  BY PipelineAssumption DEF Stamp
<1>1. ASSUME NEW lost \in BOOLEAN, BeginProcess(lost) PROVE TypeOK'
  <2>1. pc' \in [Threads -> Labels]
    BY <1>1 DEF BeginProcess, Goto, TypeOK, Labels
  <2>2. calls' \in Stamp /\ anchor' \in Stamp /\ lossMs' \in Nat
    BY <1>0, <1>1 DEF BeginProcess, LossAfter, TypeOK, Stamp
  <2> QED BY <1>1, <2>1, <2>2 DEF BeginProcess, TypeOK
<1>2. CASE Conceal
  <2>1. pc' \in [Threads -> Labels]
    BY <1>2 DEF Conceal, Goto, TypeOK, Labels
  <2>2. out' \in [by : {"none", "zeros", "lpcnet", "lpc", "stages"}, gain : 0 .. PLC_AI_MAX_MS]
    BY <1>2, ConcealedTyped DEF Conceal, TypeOK
  <2> QED BY <1>2, <2>1, <2>2 DEF Conceal, TypeOK, stageVars, ghostVars
<1>3. ASSUME RunAec \/ RunMaxine \/ \E silent \in BOOLEAN : RunNoise(silent)
      PROVE  TypeOK'
  <2>1. pc' \in [Threads -> Labels]
    BY <1>3 DEF RunAec, RunMaxine, RunNoise, Goto, TypeOK, Labels
  <2>2. {erle', noise'} \subseteq Stamp
    BY <1>3 DEF RunAec, RunMaxine, RunNoise, stageVars, TypeOK
  <2> QED BY <1>3, <2>1, <2>2 DEF RunAec, RunMaxine, RunNoise, TypeOK, stageVars, ghostVars
<1>4. CASE PushGoodFrame
  <2>1. pc' \in [Threads -> Labels]
    BY <1>4 DEF PushGoodFrame, Goto, TypeOK, Labels
  <2>2. history' \in Seq(Stamp) /\ good' \in Seq(Stamp)
    BY <1>4, RememberTyped DEF PushGoodFrame, TypeOK
  <2>3. out' \in [by : {"none", "zeros", "lpcnet", "lpc", "stages"}, gain : 0 .. PLC_AI_MAX_MS]
    BY <1>0, <1>4 DEF PushGoodFrame, Output
  <2> QED BY <1>4, <2>1, <2>2, <2>3 DEF PushGoodFrame, TypeOK
<1>5. CASE PublishFirstHalf
  <2>1. pc' \in [Threads -> Labels] /\ mu' \in Threads \cup {"none"}
    BY <1>5 DEF PublishFirstHalf, Goto, Lock, TypeOK, Labels, Threads
  <2>2. lastStats' \in StatsSet
    BY <1>5 DEF PublishFirstHalf, TypeOK, StatsSet
  <2>3. published' \subseteq StatsSet
    BY <1>5, StatsTyped DEF PublishFirstHalf, TypeOK
  <2> QED BY <1>5, <2>1, <2>2, <2>3 DEF PublishFirstHalf, TypeOK, stageVars
<1>6. CASE PublishSecondHalf
  <2>1. pc' \in [Threads -> Labels]
    BY <1>6 DEF PublishSecondHalf, Goto, TypeOK, Labels
  <2>2. lastStats' \in StatsSet
    <3>1. [lastStats EXCEPT !.ms = calls] \in StatsSet
      BY DEF TypeOK, StatsSet
    <3> DEFINE r == [lastStats EXCEPT !.ms = calls]
    <3>2. lastStats' = [r EXCEPT !.loss = lossMs]
      BY <1>6, Zenon DEF PublishSecondHalf
    <3>3. r \in StatsSet /\ lossMs \in Nat
      BY <3>1 DEF TypeOK
    <3> HIDE DEF r
    <3> QED BY <3>2, <3>3 DEF StatsSet
  <2> QED BY <1>6, <2>1, <2>2 DEF PublishSecondHalf, TypeOK, stageVars, ghostVars
<1>7. ASSUME NEW t \in Threads, Stats(t) PROVE TypeOK'
  BY <1>7 DEF Stats, TypeOK, stageVars, ghostVars
<1>8. ASSUME NEW t \in Threads,
             (\E quiet \in BOOLEAN : PushReference(t, quiet)) \/ PushReferenceReturns(t)
      PROVE  TypeOK'
  <2>1. pc' \in [Threads -> Labels]
    BY <1>8 DEF PushReference, PushReferenceReturns, Goto, TypeOK, Labels
  <2>2. echo' \in BOOLEAN
    BY <1>8, Zenon DEF PushReference, PushReferenceReturns, stageVars, TypeOK
  <2> QED
    BY <1>8, <2>1, <2>2 DEF PushReference, PushReferenceReturns, TypeOK, stageVars, ghostVars
<1>9. ASSUME NEW t \in Threads, Reset(t) PROVE TypeOK'
  <2>1. pc' \in [Threads -> Labels]
    BY <1>9
    DEF Reset, BeginReset, ResetAec, ResetNoise, ResetPlc, ResetStats, Goto, TypeOK, Labels
  <2>2. ZeroStats \in StatsSet
    BY <1>0, StatsTyped DEF ZeroStats
  <2>3. CASE BeginReset(t)
    BY <2>1, <2>3 DEF BeginReset, TypeOK, stageVars, ghostVars
  <2>4. CASE ResetAec(t)
    BY <1>0, <2>1, <2>4 DEF ResetAec, TypeOK, ghostVars
  <2>5. CASE ResetNoise(t)
    BY <1>0, <2>1, <2>5 DEF ResetNoise, TypeOK, ghostVars
  <2>6. CASE ResetPlc(t)
    BY <1>0, <2>1, <2>6 DEF ResetPlc, TypeOK
  <2>7. CASE ResetStats(t)
    BY <2>1, <2>2, <2>7 DEF ResetStats, TypeOK, stageVars, ghostVars
  <2> QED BY <1>9, <2>3, <2>4, <2>5, <2>6, <2>7 DEF Reset
<1>10. CASE UNCHANGED vars
  BY <1>10 DEF vars, TypeOK, stageVars, ghostVars
<1> QED
  BY <1>1, <1>2, <1>3, <1>4, <1>5, <1>6, <1>7, <1>8, <1>9, <1>10 DEF Next, Process

\* The state has its types and a concealed frame's gain stays between silence
\* and the original level, for every threshold, build and owner.
THEOREM TypeCorrect == Spec => []TypeOK
<1>1. Init => TypeOK
  <2> SUFFICES ASSUME Init PROVE TypeOK
    OBVIOUS
  <2>1. 0 \in Stamp /\ 0 \in 0 .. PLC_AI_MAX_MS
    BY PipelineAssumption DEF Stamp
  <2>2. ZeroStats \in StatsSet
    BY <2>1, StatsTyped DEF ZeroStats
  <2>3. out \in [by : {"none", "zeros", "lpcnet", "lpc", "stages"}, gain : 0 .. PLC_AI_MAX_MS]
    BY <2>1 DEF Init, Output
  <2>4. pc \in [Threads -> Labels] /\ mu \in Threads \cup {"none"}
    BY DEF Init, Labels, Threads
  <2>5. history \in Seq(Stamp) /\ good \in Seq(Stamp)
    BY DEF Init
  <2>6. {lastStats, snap} \cup published \subseteq StatsSet
    BY <2>2 DEF Init
  <2> QED BY <2>1, <2>3, <2>4, <2>5, <2>6 DEF Init, TypeOK
<1> QED BY <1>1, NextTypeOK, PTL DEF Spec
=============================================================================
