------------------------------- MODULE Training ------------------------------
(***************************************************************************)
(* The training scripts (training/*/train*.py) and the ONNX exports: one   *)
(* of the four trainers, run and rerun in one directory, and an export     *)
(* script beside it.  An optimiser step is an action, so is each half of   *)
(* torch.save: the file is emptied, then written.                          *)
(*                                                                         *)
(* Left out: the numbers.  A loss is a level; the number of batches is the *)
(* same in all epochs of a run, so averages compare as their sums do.      *)
(* Weights are finite or not: a loss that is NaN, or a gradient that       *)
(* overflows (clip_grad_norm_ then makes it NaN), spoils them for good.    *)
(* The schedules of the learning rate and wandb are left out, and so are   *)
(* networks without a layer (nres --layers 0).                             *)
(* An empty data directory raises in DataLoader, before anything is done.  *)
(***************************************************************************)
EXTENDS Networks

CONSTANTS
  Trainers,                  \* which of the scripts
  Losses,                    \* levels of a batch's loss
  Clips,                     \* lengths of the clips in the data of each
  Layers, Sizes, Speakers, GruLayers,  \* values of the options
  BatchSizes,                \* values of --batch_size, of nres only
  EpochCounts,               \* values of --epochs
  BatchCounts,               \* batches in an epoch: the size of the data
  MaxRuns                    \* bound

ASSUME TrainingAssumption ==
  /\ Trainers \subseteq {"nres", "lpcnet", "separator", "rnnoise"}
  /\ Losses \subseteq Nat /\ Clips \in [Trainers -> SUBSET Nat]
  /\ Layers \subseteq Nat \ {0} /\ Sizes \subseteq DOMAIN SIZE_CONFIG
  /\ {BatchSizes, EpochCounts, BatchCounts} \subseteq SUBSET (Nat \ {0}) /\ MaxRuns \in Nat

NaN == -1
Inf == -2

VARIABLES
  trainer,                   \* the script of this directory
  args,                      \* its options, and the batches in an epoch
  phase,                     \* where train is
  epoch, done, total, best,  \* of train; done: batches of this epoch
  weights,                   \* "finite" or "nan"
  clip,                      \* length of the last batch's clips
  file,                      \* best.pt
  held,                      \* what an export has loaded
  onnx,                      \* the exported network
  run,                       \* runs so far
  sums                       \* ghost: the totals of this run's epochs

loopVars == <<epoch, done, total, best, weights, clip, sums>>
exportVars == <<held, onnx>>
vars == <<trainer, args, phase, loopVars, file, exportVars, run>>

Absent == [state |-> "none"]
Torn == [state |-> "torn"]
Checkpoint ==
  [state |-> "whole", run |-> run, epoch |-> epoch, loss |-> total,
   weights |-> weights, model |-> args.model]

Options(models, sizes, epochs) ==
  [model : models, batch : sizes, epochs : epochs, batches : BatchCounts]

\* --fast-dev: two epochs, batches of four.
NresOptions == Options(Layers, BatchSizes, EpochCounts) \cup Options(Layers, {4}, {2})
LpcnetOptions == Options(Sizes, {32}, EpochCounts)
SeparatorOptions == Options(Speakers \X BOOLEAN, {8}, EpochCounts)
RnnoiseOptions == Options(GruLayers, {64}, EpochCounts)

OptionsOf(t) ==
  CASE t = "nres" -> NresOptions [] t = "lpcnet" -> LpcnetOptions
    [] t = "separator" -> SeparatorOptions [] t = "rnnoise" -> RnnoiseOptions

Init ==
  /\ trainer \in Trainers /\ args \in OptionsOf(trainer)
  /\ phase = "off" /\ run = 0
  /\ epoch = 0 /\ done = 0 /\ total = 0 /\ best = Inf
  /\ weights = "finite" /\ clip = 0 /\ sums = <<>>
  /\ file = Absent /\ held = Absent /\ onnx = Absent

-----------------------------------------------------------------------------
(* train *)

\* Up to the loop: new weights, the directory, best = inf.
Launch ==
  /\ phase \in {"off", "done", "failed"} /\ run < MaxRuns
  /\ args' \in OptionsOf(trainer)
  /\ phase' = "epoch" /\ run' = run + 1
  /\ epoch' = 1 /\ done' = 0 /\ total' = 0 /\ best' = Inf
  /\ weights' = "finite" /\ clip' = 0 /\ sums' = <<>>
  /\ UNCHANGED <<trainer, file, exportVars>>

\* Forward and loss of each loop do not raise, for b clips of length c.
NresTakes(c, b) ==
  LET out == NresInput(args.model, b, c)
  IN  out # Raises /\ CombinedLossTakes(out)
LpcnetTakes(b) == LPCNetPLC(args.model, b) # Raises
SeparatorTakes(c, b) ==
  LET out == ConvTasNet(b, c, args.model[2])
  IN  out # Raises /\ SiSnrTakes(out, c)
RnnoiseTakes(c, b) == RNNoiseGRU(b, c, N_BANDS) # Raises

Takes(c, b) ==
  CASE trainer = "nres" -> NresTakes(c, b)
    [] trainer = "lpcnet" -> LpcnetTakes(b)
    [] trainer = "separator" -> SeparatorTakes(c, b)
    [] trainer = "rnnoise" -> RnnoiseTakes(c, b)

Add(t, l) == IF NaN \in {t, l} THEN NaN ELSE t + l

\* A batch of b clips of length c: the loss l is added, and the optimiser step
\* leaves the weights w.
Batch(c, b) ==
  /\ phase = "epoch" /\ done < args.batches
  /\ Takes(c, b)
  /\ \E l \in Losses \cup {NaN}, w \in {"finite", "nan"} :
       /\ weights = "nan" => l = NaN
       /\ l = NaN => w = "nan"
       /\ total' = Add(total, l) /\ weights' = w
  /\ clip' = c /\ done' = done + 1
  /\ UNCHANGED <<trainer, args, phase, epoch, best, sums, file, exportVars, run>>

BatchRaises(c, b) ==
  /\ phase = "epoch" /\ done < args.batches
  /\ ~Takes(c, b)
  /\ clip' = c /\ phase' = "failed"
  /\ UNCHANGED <<trainer, args, epoch, done, total, best, weights, sums, file,
                 exportVars, run>>

\* Mutant: one epoch too many.
ProceedOneMore ==
  IF epoch <= args.epochs
  THEN phase' = "epoch" /\ epoch' = epoch + 1 /\ done' = 0 /\ total' = 0
  ELSE phase' = "done" /\ UNCHANGED <<epoch, done, total>>

\* The next epoch, or the end of train.
Proceed ==
  IF epoch < args.epochs
  THEN phase' = "epoch" /\ epoch' = epoch + 1 /\ done' = 0 /\ total' = 0
  ELSE phase' = "done" /\ UNCHANGED <<epoch, done, total>>

\* Mutant: the comparison is turned round, so that NaN passes it.
LessNegated(a, b) == a = NaN \/ b = Inf \/ (b # NaN /\ a < b)

\* Mutant: an epoch as good as the best replaces it.
LessOrEqual(a, b) == a # NaN /\ (b = Inf \/ a <= b)

\* avg < best, for floats.
Less(a, b) == a # NaN /\ (b = Inf \/ a < b)

\* The end of an epoch; torch.save, if it comes to it, first empties best.pt.
EpochEnds ==
  /\ phase = "epoch" /\ done = args.batches
  /\ sums' = Append(sums, total)
  /\ IF Less(total, best)
     THEN /\ best' = total /\ phase' = "saving" /\ file' = Torn
          /\ UNCHANGED <<epoch, done, total>>
     ELSE Proceed /\ UNCHANGED <<best, file>>
  /\ UNCHANGED <<trainer, args, weights, clip, exportVars, run>>

\* torch.save is through.
Saved ==
  /\ phase = "saving"
  /\ file' = Checkpoint
  /\ Proceed
  /\ UNCHANGED <<trainer, args, best, weights, clip, sums, exportVars, run>>

\* Killed, out of memory, or the disk is full.
Die ==
  /\ phase \in {"epoch", "saving"}
  /\ phase' = "failed"
  /\ UNCHANGED <<trainer, args, loopVars, file, exportVars, run>>

-----------------------------------------------------------------------------
(* export, which builds the network with its defaults; none for rnnoise.  *)
(* load_state_dict compares the shapes of the parameters.                 *)

NresExport(model) == model = 4 /\ DCCRN(4, 1, 257, 32) # Raises
LpcnetExport(model) == model = "small" /\ LPCNetPLC("small", 1) # Raises
\* Mutant: load_state_dict with strict=False.
SeparatorExportUnchecked(model) == ConvTasNet(1, 16000, TRUE) # Raises

SeparatorExport(model) == model[1] = 4 /\ ConvTasNet(1, 16000, TRUE) # Raises
Exports(model) ==
  CASE trainer = "nres" -> NresExport(model)
    [] trainer = "lpcnet" -> LpcnetExport(model)
    [] trainer = "separator" -> SeparatorExport(model)
    [] trainer = "rnnoise" -> FALSE

\* torch.load: raises for a file that is absent or torn.
Load ==
  /\ held.state = "none" /\ file.state = "whole" /\ trainer # "rnnoise"
  /\ held' = file
  /\ UNCHANGED <<trainer, args, phase, loopVars, file, onnx, run>>

\* load_state_dict, and torch.onnx.export with the dummy input; or they raise.
Export ==
  /\ held.state = "whole"
  /\ onnx' = IF Exports(held.model) THEN held ELSE onnx
  /\ held' = Absent
  /\ UNCHANGED <<trainer, args, phase, loopVars, file, run>>

-----------------------------------------------------------------------------
\* Only the last batch of an epoch may be less than full; the size of each
\* batch is left open here.
Train ==
  \/ \E c \in Clips[trainer], b \in 1 .. args.batch :
       Batch(c, b) \/ BatchRaises(c, b)
  \/ EpochEnds \/ Saved

Next == Launch \/ Train \/ Die \/ Load \/ Export

Spec == Init /\ [][Next]_vars

-----------------------------------------------------------------------------
Phases == {"off", "epoch", "saving", "done", "failed"}
Whole ==
  [state : {"whole"}, run : Nat, epoch : Nat, loss : Nat \cup {NaN},
   weights : {"finite", "nan"}, model : { a.model : a \in OptionsOf(trainer) }]

\* The state has its types, and the counters are within the options.
TypeOK ==
  /\ trainer \in Trainers /\ args \in OptionsOf(trainer)
  /\ phase \in Phases /\ run \in Nat
  /\ epoch \in 0 .. args.epochs /\ done \in 0 .. args.batches
  /\ total \in Nat \cup {NaN} /\ best \in Nat \cup {Inf}
  /\ weights \in {"finite", "nan"} /\ clip \in Clips[trainer] \cup {0}
  /\ sums \in Seq(Nat \cup {NaN})
  /\ file \in Whole \cup {Absent, Torn}
  /\ {held, onnx} \subseteq Whole \cup {Absent}

Epochs == DOMAIN sums
Least(i) ==
  /\ sums[i] # NaN
  /\ \A j \in Epochs : sums[j] # NaN => sums[i] <= sums[j] /\ (j < i => sums[i] < sums[j])

\* Outside a save, and unless the run died in one, best.pt is the first epoch
\* of least loss among the finite ones of this run, if it has any, whatever an
\* earlier run had left there (train_separator.py:131-148).
KeepsLeast ==
  \A i \in Epochs :
    Least(i) /\ phase # "saving" =>
      \/ phase = "failed" /\ file = Torn
      \/ /\ file.state = "whole"
         /\ file.run = run /\ file.epoch = i /\ file.loss = sums[i]

\* A checkpoint's loss is a number.  Its weights need not be: the last step of
\* its epoch may have spoilt them after the last loss was taken; then every
\* later epoch is NaN, and nothing replaces it (train_separator.py:136-148).
SpoiltIsFinal ==
  file.state = "whole" =>
    /\ file.loss # NaN
    /\ file.weights = "nan" /\ file.run = run
         => \A i \in Epochs : i > file.epoch => sums[i] = NaN

\* What a forward pass takes, in closed form.  The separator: clips of whole
\* strides, or si_snr meets two lengths.  The PLC network: none, of any size.
\* DCCRN: as many frames as bins are left after the encoder, and an axis that
\* the strides divide, which 257 bins never do (nres/train.py:84-116).
TrainableClips ==
  clip # 0 =>
    CASE trainer = "separator" -> SeparatorTakes(clip, 1) <=> clip >= 16 /\ clip % 8 = 0
      [] trainer = "lpcnet" -> ~LpcnetTakes(1)
      [] trainer = "rnnoise" -> RnnoiseTakes(clip, 1)
      [] trainer = "nres" ->
           /\ ~NresTakes(clip, 1)
           /\ \A w \in {256, 257} :
                DCCRN(args.model, 1, Frames(clip), w) # Raises
                  <=> Frames(clip) = Bins \div TwoTo(args.model) /\ w % TwoTo(args.model) = 0

\* The NRES and PLC trainers stop at their first batch, whatever the options
\* (for NRES at least one layer) and the data, and leave nothing to export (nres/train.py:194,
\* train_lpcnet.py:104).
NothingToExport ==
  trainer \in {"nres", "lpcnet"} =>
    file = Absent /\ onnx = Absent /\ epoch <= 1 /\ done = 0

\* What is exported is a network with the default options, from a best.pt that
\* was whole when it was read, even if it is being replaced meanwhile; but
\* causality has no parameters, so load_state_dict cannot tell it
\* (separation/export_onnx.py:7-11).
ExportIsDefault ==
  onnx.state = "whole" =>
    trainer = "separator" /\ onnx.model[1] = 4 /\ onnx.loss # NaN /\ onnx.run <= run

\* Whatever is trained, killed, rerun and exported, in any order: two of the
\* trainers come to nothing, and of the others only a separator with the
\* default options is ever exported.
OnlyDefaultSeparator == NothingToExport /\ ExportIsDefault

\* The separator's convolutions read no later frame exactly if causal (one
\* frame looks nowhere else); with its GroupNorms, which run over all frames,
\* every frame reads the whole clip (train_separator.py:32-50).
CausalButForNorms ==
  trainer = "separator" /\ clip >= 16 =>
    LET n == EncoderLen(clip)
    IN  \A d \in {1, 2} :
          /\ (\A t \in 1 .. n : Taps(n, t, d, args.model[2]) \subseteq 1 .. t)
               <=> (args.model[2] \/ n <= d)
          /\ \A t \in 1 .. n : BlockReads(n, d, args.model[2])[t] = 1 .. n
=============================================================================
