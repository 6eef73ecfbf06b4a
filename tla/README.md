# RoomSync: specifications, model checks and proofs

TLA+ models of RoomSync's own logic, translated from the source, with the TLC
configurations that check them on small instances and TLAPS proofs that hold
for every value of the constants. Paths below are relative to `src/`.

    tlc -workers 2 -config MCPipeline.cfg Pipeline     # one run
    tlapm PipelineProof.tla                            # one proof module

## 1. The system

| Component | State | Operations | What makes it hard |
|---|---|---|---|
| Signal session, `encryption/signal/session.py` | two ratchets (chain key, index) | `from_x3dh`, `encrypt`, `decrypt` | no index on the wire: a lost, repeated or damaged frame moves the two ratchets apart |
| MLS group session, `encryption/mls/group.py` | members, epoch, epoch key, sequence number | `add_member`, `remove_member`, `encrypt`, `decrypt` | numbering restarts with every key; old member lists bring back old keys |
| Reference bus, `coordinator/reference_bus.py` | two sockets, `_seq`, jitter buffer, receive task | `start`, `stop`, `send_frame`, `_recv_loop` | the task awaits an executor thread; `stop` may run in between; UDP loses, repeats and reorders |
| mDNS discovery, `coordinator/discovery.py` | zeroconf, `_peers` | `start`, `stop`, `_on_change`, `_add_peer`, `_remove_peer` | events are late; a lookup blocks the thread while the LAN changes |
| Coordinator, `coordinator/coordinator.py` | `peers`, the three services | `run` | fails, is cancelled or killed between any two start steps |
| Relay client, `coordinator/relay.py` | session, WebSocket, `_seq`, `_running`, receive task | `connect`, `disconnect`, `send_frame`, `_recv_loop` | the connection breaks while frames are under way; the coordinator's starts and stops may raise around it |
| Audio pipeline, `pipeline/pipeline.cpp` | `plc_loss_ms`, `last_stats` under a mutex, four stages | `init`, `process`, `push_reference`, `stats`, `reset` | audio and control threads; counts over bursts and resets |
| Packet loss concealment, `pipeline/plc/plc_processor.cpp` | history of good frames, LPCNet session | `push_good_frame`, `conceal`, `reset` | tier boundaries, where the fade ends, a copy without a bound |
| Echo canceller, noise suppressor, separator (`pipeline/aec`, `noise`, `separation`) | filters, spectra | `process`, `reset`, `push_reference` | numerical; what the pipeline sees of them is a few figures |
| Maxine GPU path, `maxine/` | effect handles, retry time | `init`, `process`, `push_reference` | GPU retry, fallback |
| Model training, `training/` | weights, best loss, `best.pt` | `train` (four scripts), `export` (three) | shapes of some forty layers agree or raise; NaN; a kill inside a save; an export beside a run |
| Tauri bridge, `app/src-tauri/src` | `AppState` (a bridge or none), a thread and a stop channel per bridge | `start_pipeline`, `stop_pipeline`, `get_pipeline_stats` | a thread that nobody can reach any more |
| Desktop UI, `app/src/App.tsx` | status, stats, poll timer | `handleJoin`, `handleLeave`, polling effect | clicks while answers are under way; answers applied late |

How they meet: the UI invokes the Rust commands over Tauri IPC and polls them;
the Rust bridge is meant to own the C++ pipeline (its metrics are simulated for
now, the FFI is not written). The coordinator is a process of its own: it
starts relay, discovery and bus, and its `peers` list follows discovery's
callbacks. The bus delivers other laptops' frames for `push_reference`. The
encryption sessions are called by whoever carries the frames (relay or LAN);
nothing in the repository wires them up yet, so their transport is taken to be
as unreliable as UDP. The trainers write the ONNX models that the C++ stages
would load; the two meet only in files.

What has to be right: sessions open exactly the frames they can and return the
text that went in (1:1) or its documented trimming (group); a group session
numbers its own frames afresh under each key; the bus plays what it heard, in
order, and stops when told; the two lists of peers agree and forget the dead;
statistics are those of one call; concealment follows the burst; page and
backend agree and no thread outlives its bridge; the relay is silent once
disconnected and closed on exit; `best.pt` is the best epoch of its run, and what is
exported is what was trained. `PROJECT.json` lists each hazard at its line.

## 2. Modules

Each module has one action per operation or handler step, named after the
code; every module begins with what it abstracts. Definitions whose comment
begins with "Mutant:" are faulty variants of the definition below them; the
specification never uses them. They show that a property can fail.

**FrameCodec** -- the paddings of both encryption layers as operators on byte
sequences. `SignalPad`: length byte, text, zeros; `GroupPad`: text, zeros,
stripped by `rstrip`. The 228 bytes under the AEAD are `MaxPlaintext`.

**SignalSession** -- two sessions and the transport. A chain key is a name
(root, index): HKDF is taken to be injective, AES-GCM to refuse what is damaged
or under another key. `Decrypt` may be given any frame ever sent, damaged or
not; as in session.py:92-93 the ratchet moves before the tag is checked. With
`FromX3DH` both ends come from `from_x3dh` on one secret, otherwise from
mirrored chains as in the tests. It implements **LossyChannel**: every frame at
most once, in order, cut to the frame size.

**GroupSession** -- any number of sessions with one `_init_secret`. The epoch
key is named by what it is the HMAC of, the sorted ids run together, so two
lists that join to the same bytes have the same key, as in the code. Once the
epoch or the number has outgrown the nonce's field (`EPOCH_LIMIT`, `SEQ_LIMIT`),
`_seq_nonce` raises; after the epoch has, a session can only decrypt. The
histories `sent` and `opened` keep the member list of the sender and of the
opener beside the text.

**ReferenceBus** -- all laptops on the bus. Each has callers (`Start`,
`StartFails`, `Stop`, `SendFrame`), the receive task from await to await
(`TaskStarts`, `ResumeFrame`, `ResumeShort`, `ResumeEnds`) and the executor
thread (`RecvFrom`); `Arrive` is the network. `heard` and `played` record what
went into and came out of the jitter buffer; with them the bus implements
**DelayLine**, a line that is `JITTER_FRAMES - 1` frames long.

**Coordinator** -- one process per host. `Launch` ... `StopDiscovery`, `Exit`
follow `run`; `Exit` is possible at every point, since the start steps are
outside the `try` and a process may be killed. `Ask`, `Learn`, `AskFails`,
`Drop` are `_on_change` on the zeroconf thread, split where `info.request`
blocks. zeroconf and the LAN (`Discover`, `Lapse`, `Refresh`) are external. The
ghost `missed` holds the pairs of hosts whose last lookup gave nothing, or
something else than the record. A browser changes nothing that another host can
see, so the instance follows the browsers of its `Watchers` only.

**RelayClient** -- the relay client inside `run`: `OpenSession` and `Connect` are
`connect` around its await, `StartService` and `StopService` the other services,
`Raise` any start or stop that raises (outside the `try`, or inside the
`finally`, so the rest is skipped), `Disconnect` and `CloseSession` the two
halves of `disconnect`. `Receive` is `_recv_loop` from one `receive()` to the
next. The connection delivers in order until it closes or breaks; `ws.close()`
waits for a `receive()` under way, which it first wakes.

**Pipeline** -- an audio thread that runs `process` and a control thread that
reads `stats`; a step is what happens between two points where the other
thread can interfere, so the update of `last_stats` is two steps under the
mutex. `build` is what `init` set up (LPC, LPCNet or GPU). Values that stages
compute are named by the number of the call that computed them. With
`Concurrent` the control thread also calls `reset` and `push_reference`.

**AppBridge** -- page, IPC queues, the commands on the main thread, and a metric
thread per bridge. Tauri's synchronous commands run in order on one thread; the
answers are handled in order; rendering follows the status later. A click is
`hasty` when the previous one has not yet taken effect. `Reload` gives the page
its initial state back: what the old page invoked is still run (`old` counts it)
but its answers go nowhere, and `main.rs` keeps its bridge.

**Networks** -- the networks of the four trainers as algebra on shapes: what
`forward` returns for a shape, or that PyTorch raises, from the formulas for
convolutions, transposed convolutions, broadcasting, `stft` and `istft`; and
which input frames an output frame of the separator reads.

**Training** -- one directory with one of the four trainers, run `MaxRuns` times,
and an export beside it. An optimiser step is an action (`Batch`, with a loss
that may be NaN and weights that it may spoil, or `BatchRaises` when `Networks`
says so), the end of an epoch another; a save empties the file (`EpochEnds`) and
then fills it (`Saved`), and `Die` may come between. `Load` and `Export` are the
two halves of the export scripts.

**MCSignalSession, MCGroupSession, MCReferenceBus, MCCoordinator, MCTraining** --
model values, small sets and symmetries for TLC. Pipeline, AppBridge and
RelayClient need none.

## 3. Runs

| Run | Asks | Instance |
|---|---|---|
| signal_session | Is what `decrypt` returns exact and in order, whatever is lost or damaged? Does the pair implement LossyChannel? | frames of 3 bytes, so texts shorter, equal and longer than the frame, with zero bytes at the ends; enough calls for a loss, a repeat and a damaged frame |
| signal_x3dh | violated: "Decrypt ... -> original plaintext" after `from_x3dh` at both ends | one frame is enough |
| group_session | Does one session number its frames afresh under each key? Does a frame open only under a member list that joins to the bytes of the sender's list, and, where the ids have one length, only under that list? Are texts trimmed only of zeros, epochs and numbers never cut to their field? | two sessions, the ids "a", "b" and "ab" (so `{a, b}` and `{ab}` join alike), three changes of members (a list that comes back; the third outgrows the epoch's field), three frames (a session's third at one epoch outgrows the number's), a limit of two members |
| bus | Delay line; nothing after the last frame once stopped; `stop` ends the task | two laptops, depth 2, three datagrams heard (one in, one out, one more), the sequence field full after one frame |
| bus_deaf | violated: a running bus can lose its receive task | same |
| pipeline | Statistics never torn; burst length, fade, LPCNet tier and history right over all sequences of losses, frames and resets, in all builds | 10 ms frames, tier at 20 ms, fade over 30 ms, history of 2, five calls: each threshold is met exactly, passed, and met again in a second burst |
| pipeline_race | violated: "Thread-safe" when `reset` or `push_reference` is called from the control thread | two calls |
| app | Page and backend agree whatever is clicked or reloaded; late polls show nothing; every click takes effect; patient users leave no thread behind | three joins, three leaves, two reloads, three calls under way |
| app_orphan | violated: the bridge "Manages pipeline lifecycle" | Join clicked twice before the first answer |
| coordinator | The coordinator's list and discovery's dictionary agree; the list is exactly the records of the room, but for hosts whose lookup was missed; the gone are forgotten | two hosts, two rooms, four launches, three queued events, one browser followed; lookups and records are lost at will |
| relay | At most one frame after `disconnect`, the receive task ends only with the connection, numbers have no gaps, an exit without exception leaves nothing open, an interrupted run ends | five messages of every kind (frame, short, other, close, error), three numbers, so the field fills |
| training | What is `best.pt`, in all interleavings of epochs, NaN, kills, a second run and an export? Which clips can be trained on, and what can be exported at all? | all four trainers; two loss levels and NaN, three epochs of two batches, two runs; clips that do and do not fit, batches of every size up to full (`--batch_size` 3; 4, 8, 32 and 64 where the code fixes it) |

The bounds (`Max...`, `RxCap`) limit how often something happens, never which
steps are enabled together, except that a bounded kernel queue drops what does
not fit (so does the kernel's) and a browser's queue delays announcements.
Scaled constants keep the order of the real ones (frame < tier < fade; depth 2
is the real jitter depth). Deadlock checking is off where the bounds make every
behaviour end, or where the program may rest.

Fairness: the bus assumes that the event loop and its executor run what is
ready (`WF` of each receive task's steps) -- nothing about callers or the
network. The app assumes that React renders and handles answers, that the main
thread works through its queue and that the OS schedules the metric threads --
nothing about clicks or polls. The coordinator assumes that zeroconf handles
queued events and that the record of a dead service lapses (its time to live) --
nothing about announcements, exits or lookups that succeed. The relay assumes
that the event loop runs what is ready (`WF` of `Run`, which holds the
continuations of the awaits, and of `Receive`) -- nothing about the server, the
connection or who interrupts. Training states no fairness and claims no
liveness.

### Disagreements with the text

- `from_x3dh` gives both ends the same sending chain and the same receiving
  chain (session.py:60-65), so no end ever opens the other's frames. The tests
  use mirrored chains, where everything holds.
- The receiving socket does not block and `recvfrom` runs in an executor: the
  first time nothing is queued, `BlockingIOError` (an `OSError`) ends the
  receive task for good (reference_bus.py:82-96) on a bus that is running.
- reference_bus.py:32 comments two frames as a "40ms jitter buffer", line 8 asks
  for 20 ms. A frame is handed over as soon as the second is there
  (reference_bus.py:91), so it waits for one frame, 20 ms: the line of
  **DelayLine** is `JITTER_FRAMES - 1` long. Line 8 is right.
- `pipeline.h:22` says thread-safe; only `last_stats` is locked.
- `start_pipeline` replaces a running bridge (main.rs:26); dropping the sender
  is not a stop for the thread (pipeline_bridge.rs:62).
- A coordinator lists itself: discovery.py:65 says "other instances", but
  `_add_peer` does not skip its own announcement (`RecordsListed`, which is
  stated of every two hosts, those that are one included).
- Two of the four trainers stop at their first batch, whatever their options and
  data (`OnlyDefaultSeparator`): the PLC network hands a hidden state of `enc_hidden`
  to a GRU that needs `dec_hidden` (train_lpcnet.py:61-63), and the NRES loop
  permutes the spectra to (batch, frames, bins) for a network that reads
  (batch, bins, frames) (nres/train.py:191, 85). The network takes an input only
  if its first axis has `257 \div 2^layers` places and 2^layers divides its second
  (`DCCRNTakes`, `TrainableClips`). Permuted, the second axis is the 257 bins,
  which no power of two divides; without the permutation the first would be, and
  257 is not `257 \div 2^layers`, so it would still raise. The mask's second
  channel, which squeeze(1) keeps, is one more obstacle to the loss.
- "Causal Conv-TasNet" (train_separator.py:54): the convolutions are, but each
  block normalises over all frames twice, so every output frame depends on the
  whole clip (`CausalButForNorms`).

Group sessions agree on a key by their member lists alone (group.py:36-39), and a
nonce holds nothing but epoch and number (group.py:112). So two members of one
group, both at the same epoch, seal their frames of the same number under the
same key and the same nonce, from their first frames on. `NumbersFresh` says
only that no *single* session does so; across senders it does not hold, in the
code or in the model. Nor are ids delimited when they are joined: the lists
`{a, b}` and `{ab}` have one key and open each other's frames. `OpenedByRoom` says
that the lists join alike, and that they are equal where all ids have one
length.

Noted while reading, without a run: the fade makes a burst of `PLC_AI_MAX_MS`
end in zeros and LPCNet has no upper bound (plc_processor.h:11 gives it a
range); `process` with a null frame conceals only when `packet_lost` is given
(pipeline.h:35); `decode_fec` (plc_processor.h:10) is never called; relay.py:69
logs "will reconnect" and nothing does, so a client whose connection ended is
deaf and mute for the rest of the run; group.py:95 says only the current epoch
is supported, but a frame of an earlier epoch opens when the member list is the
same again; multicast loops a laptop's own frames back to it; the page's status
"error" cannot be reached with the present bridge; a checkpoint trained with
`--causal False` is exported as the causal network, since causality has no
parameters; a second run in one directory replaces a better `best.pt` with its
own first epoch; `--model`, `--loss` and `--latency_target_ms` are ignored; the
noise suppressor's trainer has no export script.

## 4. Proofs

| Module | Proved | From |
|---|---|---|
| SignalSessionProof | padding gives the fixed size, unpadding returns the text cut to it; types, `OpenedText`, `Lockstep`, `LossIsFinal`, refinement of LossyChannel | `MaxPlaintextAssumption`, `SessionAssumption` |
| GroupSessionProof | padding gives the fixed size, unpadding returns the text without its trailing zeros; member lists with ids of one length that join alike are equal (`JoinedInjective`); types, `NumbersFresh`, `OpenedByRoom`, `OpenedText` | `MaxPlaintextAssumption`, `GroupAssumption`: ids and texts are byte strings |
| ReferenceBusProof | types, `LastFrameAfterStop`, refinement of DelayLine | `BusAssumption` |
| PipelineProof | types; `SnapshotCoherent`, `BurstCounted`, `FadeEndsBurst`, `LpcnetByBurst`, `HistoryIsRecentGood`, `StatsOfLastCall` | `PipelineAssumption`; all but the types from `Serial`: only the audio thread calls `reset` and `push_reference` |
| CoordinatorProof | types, `ListsAgree`, `RecordsListed` | `CoordinatorAssumption`: the hosts are finitely many, and none of them, and no room, is called "none" |
| RelayClientProof | types, `ReceiverEnds`, `Numbered`, `SessionClosed` | `RelayAssumption` |
| AppBridgeProof | types, `PageAgrees`, `ShownIsCurrent`, `NoOrphan` | `AppBridgeAssumption` |
| TrainingProof | types, `KeepsLeast`, `SpoiltIsFinal`, `TrainableClips`, `OnlyDefaultSeparator`, `CausalButForNorms`; of the separator for all lengths and dilations: blocks keep the length, clips are whole strides, what a convolution and a block read; of DCCRN for all layers: which inputs it takes | `TrainingAssumption` |

The specifications bound nothing in the proofs: the `Max...` constants are
arbitrary.

Along which argument:

- *SignalSession.* `Lockstep` is inductive once the ratchet indices are tied to
  the histories: a sender's index is the number of frames it sent and the k-th
  frame is under key k; a receiver's index is the number of calls of `decrypt`.
  So a frame opens exactly at the call that bears its number, from which
  `LossIsFinal` and the channel's order follow. `OpenedText` cites the round
  trip of the padding (`SignalRoundTrip`).
- *GroupSession.* For some n, frames on the wire are numbered below the
  sender's present epoch and sequence number in lexicographic order; a change
  of members raises the epoch before the count restarts. The key always is
  that of the present list.
- *ReferenceBus.* `heard` is `played` followed by the jitter buffer (`Split`),
  and between two steps of the task the buffer is shorter than its depth: so
  the `maxlen` of the deque is never reached and each step of the task is a
  step of the line. That `stop` lets at most one frame through follows from the
  top of the loop being reached in the same step.
- *Pipeline.* `plc_loss_ms` is the frame length times the calls since the last
  good one; what the last call returned is `Concealed(lossMs)` as long as no
  good frame intervened; `last_stats` is torn only between the two steps that
  hold the mutex.

  `StatsOfLastCall` (`Figures`) adds in which order `reset` clears figures,
  history and statistics, and that a call that can publish is not fresh. Types
  hold without `Serial`.
- *GroupSession, texts.* `rstrip` stops at the last byte that is not zero; that
  there is such a place is the least-number principle (`LeastElement`, from the
  library's well-foundedness of `<`), applied to the set of lengths after which
  only zeros follow.
- *GroupSession, types.* That a session always has a key is the point: the key
  is made from the sorted member list, and `Sorted` is a choice. So there must be
  something to choose: the order of byte strings is transitive and total (they
  differ at a first place, or one ends there), hence a finite member list has a
  last element and can be sorted, and its members run together are a byte string
  (`BeforeTransitive`, `BeforeTotal`, `CanSort`, `JoinedBytes`). Lists stay finite
  and within the limit because `add_member` tests it before it adds.
- *GroupSession, member lists.* A frame has the key of its sender's list when it
  was sealed, and whoever opens it has a list with that key (`RoomInv`, `Read`), so
  the lists join alike. If all ids have one length l > 0, the joined bytes of n ids
  are n * l long, so the lists are of one size; cutting l bytes at a time off the
  end gives the same sorted ids (`Cancel`, `RunsAgree`), and sorting lists every
  member, since no id comes before itself (`SortedLists`).
- *Coordinator.* The two lists change together, so that they agree is easy but for
  "each once": `on_peer_added` appends without looking. The invariant therefore
  follows every host through the queue of each browser (`Queued`): its events
  alternate between added and removed, the first of them starts from what the
  lists know, the last ends at what zeroconf holds. So an added event never meets a
  host that is listed, a removed one takes it out of both lists, and when the queue
  holds nothing more of a host it is listed as its record says, unless a lookup
  missed it (`Listed`). `Without`, the list comprehension of `on_peer_removed`, is
  shown to keep exactly the other hosts, each once, by the least length at
  which it would not.
- *RelayClient.* The phase of `run` says what is open (`Life`): an exit without
  exception has passed every stop. A frame that is handed over after
  `disconnect` ends the loop in the same step, and numbers are the length of the
  wire until the connection is over.
- *AppBridge.* The invariant looks ahead along the answers under way: a bridge
  is held exactly when the page will be active once it has handled them
  (`Promised`), and statistics are answered only to a page that is active by
  then (`Asked`). As long as no click or reload was hasty, one start or stop at
  most is under way, from the click to its answer (`Single`), so Join never
  replaces a bridge, and statistics that are not the present bridge's have a
  stop behind them in the queue (`Current`). For the types, bridges are numbered by the
  joins: the bridges started and the starts in the queue are at most the clicks
  (`NumberInv`), so the next bridge always has a number.
- *Training.* `best` is the loss of the first least epoch of this run and
  `best.pt` is that epoch, is being written, or was when the run died
  (`BestKept`); weights that are spoilt when they are saved were spoilt by the
  last step, so every later sum is NaN (`SpoiltStays`). That NRES and PLC stop is
  a fact about shapes, for any number of layers but none, all sizes, batches and
  clips.
- *Training, DCCRN.* The encoder's axis after i layers is `w \div TwoTo(i)` and the
  decoder's `TwoTo(i) * k` (`EncodedShapes`, `DecodedShapes`): the closed forms
  satisfy the recursions, so those have a solution, and the least layer at which
  another solution differed would follow from one at which it does not. Skips and
  mask agree exactly if the strides divide w (`DCCRNTakes`).

Where an induction is needed, over lengths, layers or the size of a set, it is
the least-number principle (`LeastElement`), applied to the set of numbers at
which the claim fails: the library's induction theorems take an operator, which
the provers here cannot instantiate.

Every safety property that a run checks is proved. Only model-checked: liveness
(`StopEndsReceiver`, `LeavingEndsThreads`, `ClicksTakeEffect`, `GoneIsUnlisted`,
`InterruptEnds`), which is out of the prover's reach, and the four violations,
which are counterexamples.

## 5. Not modelled

Cryptographic primitives, Opus, PCM, and the numerical content of the stages
(filters, FFT, LPC, ONNX) and of training (weights, gradients, learning rates);
logging and layout; measurement and setup scripts; the separator stage, which
has no state. Room codes are not strings here, so `&room_code[..2]` on a
multi-byte first character (pipeline_bridge.rs:51) is only a listed hazard.

`KeepsLeast` does not protect an earlier checkpoint, because the code does not: a
run killed inside `torch.save` leaves a torn file where a whole one was, and a
rerun starts with best at infinity and replaces a better `best.pt`. The property
names both cases as exceptions and says what the file is in all others. The
decoding error that ends the bus's receive task (reference_bus.py:88) is a
disjunct of `ResumeEnds` in every run of the bus, but no property tells it apart
from the `BlockingIOError` that `ReceiverSurvives` is violated by.

Some steps are coarser than the code's: registering a service and opening the
browser, unregistering it and closing zeroconf (discovery.py:46-71), React's
commit and its passive effects (App.tsx:57-69). `Raise` may also fail in phase
"disconnect", which only adds behaviours. `run` hands the relay no `on_frame`, so
the default, which cannot raise, is what `Receive` calls. `istft` is modelled with
the shapes it takes; recent PyTorch refuses the real-valued input of
`combined_loss` (nres/train.py:134) in any shape, with the same outcome. For NRES
`--layers` is at least one: with none there is no convolution to give the shape.

The Maxine path is one step of Pipeline. Its retry timer (maxine_pipeline.cpp:83)
and the CPU fallback run only when `process` is called while the GPU is
inactive; Pipeline decides once, in `init`, and calls it only while it is active,
which nothing ever undoes. A model of the retry would show behaviours that the
program does not have; "Will retry" in fallback.cpp describes none either.

## 6. Plan

Done: FrameCodec, SignalSession, ReferenceBus, Pipeline, AppBridge with reloads,
GroupSession, Coordinator, RelayClient, Networks and Training, with the proofs
above. Left:

1. Proofs: what the safety parts of the liveness properties rest on (a step that
   is ready stays ready until it is taken), as action properties.
2. **Stages**: bootstrap and VAD freeze of the noise suppressor, sliding window
   indices of the echo canceller, as recursive functions against a reference.
