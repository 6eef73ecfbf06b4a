------------------------------- MODULE Networks ------------------------------
(***************************************************************************)
(* The four networks of training/ as algebra on tensor shapes: what a      *)
(* forward pass returns for an input of a given shape, or that PyTorch     *)
(* raises; and which input frames an output frame of the separator reads.  *)
(* Weights and values are left out.  A shape is a tuple of axes.           *)
(***************************************************************************)
EXTENDS Integers, Sequences

Raises == <<>>

Wider(a, b) == IF a = 1 THEN b ELSE a

\* 2 ** n, as a recursion that can be reasoned about.
TwoTo(n) ==
  LET f[i \in 0 .. n] == IF i = 0 THEN 1 ELSE 2 * f[i - 1]
  IN  f[n]

-----------------------------------------------------------------------------
(* PyTorch (external) *)

Broadcast(a, b) == a = b \/ a = 1 \/ b = 1

\* Length of one axis after Conv1d/2d and ConvTranspose1d/2d.
ConvLen(n, kernel, stride, pad, dilation) ==
  (n + 2 * pad - dilation * (kernel - 1) - 1) \div stride + 1
ConvTLen(n, kernel, stride, pad) == (n - 1) * stride - 2 * pad + kernel

\* torch.stft with center=True: frames of a clip.
Frames(clip) == clip \div 256 + 1

\* torch.istft wants (batch, bins, frames).  Recent releases refuse a real-valued
\* input, as combined_loss gives them, whatever its shape.
IstftTakes(shape) == Len(shape) = 3 /\ shape[2] = 257

-----------------------------------------------------------------------------
(* nres/train.py: DCCRN *)

Bins == 512 \div 2 + 1

\* One encoder layer on the last two axes, kernel (3, 2), stride (1, 2).
ComplexConv2d(x) == <<ConvLen(x[1], 3, 1, 1, 1), ConvLen(x[2], 2, 2, 0, 1)>>

\* One decoder layer on the last two axes.
Decoder(x) == <<ConvTLen(x[1], 3, 1, 1), ConvTLen(x[2], 2, 2, 0)>>

\* Input size of the LSTM.
LstmInput(layers) == 2 * (TwoTo(layers) * (Bins \div TwoTo(layers)))

\* forward for an input (batch, h, w), layers > 0.  The bottleneck's last axis
\* is channels times h; each decoder layer is concatenated with its skip; the
\* mask has two channels, which squeeze(1) keeps.
DCCRN(layers, batch, h, w) ==
  LET enc[i \in 0 .. layers] == IF i = 0 THEN <<h, w>> ELSE ComplexConv2d(enc[i - 1])
      dec[i \in 0 .. layers] == IF i = 0 THEN enc[layers] ELSE Decoder(dec[i - 1])
      mask == dec[layers]
  IN  IF /\ 2 * TwoTo(layers) * enc[layers][1] = LstmInput(layers)
         /\ \A i \in 0 .. layers - 1 : dec[i] = enc[layers - i]
         /\ Broadcast(batch, 2) /\ Broadcast(h, mask[1]) /\ Broadcast(w, mask[2])
      THEN <<batch, Wider(batch, 2), Wider(h, mask[1]), Wider(w, mask[2])>>
      ELSE Raises

\* The batch of the loop: the spectra are permuted to (batch, frames, bins).
NresInput(layers, batch, clip) == DCCRN(layers, batch, Frames(clip), Bins)

\* si_snr_loss of the two istft, which combined_loss takes first.
CombinedLossTakes(shape) == IstftTakes(shape)

-----------------------------------------------------------------------------
(* lpcnet/train_lpcnet.py: LPCNetPLC *)

FRAME_SAMPLES == 160
SIZE_CONFIG ==
  [small |-> [enc |-> 64, dec |-> 128], medium |-> [enc |-> 128, dec |-> 256],
   large |-> [enc |-> 256, dec |-> 512]]

\* Mutant: the context's hidden state is as wide as the decoder's.
LPCNetPLCMatched(size, batch) == <<batch, FRAME_SAMPLES>>

\* forward: the hidden state of context_gru is frame_gru's initial one.
LPCNetPLC(size, batch) ==
  IF SIZE_CONFIG[size].enc = SIZE_CONFIG[size].dec THEN <<batch, FRAME_SAMPLES>> ELSE Raises

-----------------------------------------------------------------------------
(* noise/train_rnnoise.py: RNNoiseGRU *)

N_BANDS == 22

\* forward: a mask for (batch, frames, bands).
RNNoiseGRU(batch, frames, bands) ==
  IF bands = N_BANDS THEN <<batch, frames, N_BANDS>> ELSE Raises

-----------------------------------------------------------------------------
(* separation/train_separator.py: ConvTasNet *)

Pad(dilation, causal) == IF causal THEN 2 * dilation ELSE (2 * dilation) \div 2
Trim(dilation, causal) == IF causal THEN 2 * dilation ELSE 0

\* forward of DepthwiseSeparableConv keeps the length, or x + out raises.
BlockFits(n, dilation, causal) ==
  ConvLen(n, 3, 1, Pad(dilation, causal), dilation) - Trim(dilation, causal) = n

\* Mutant: the trim takes the first frames.
TapsTrimmedInFront(n, t, dilation, causal) ==
  { t + Trim(dilation, causal) + j * dilation - Pad(dilation, causal) : j \in 0 .. 2 } \cap 1 .. n

\* The frames the dilated convolution reads for frame t: padded on both sides,
\* the last frames trimmed.
Taps(n, t, dilation, causal) ==
  { t + j * dilation - Pad(dilation, causal) : j \in 0 .. 2 } \cap 1 .. n

\* GroupNorm(1, channels) normalises over channels and frames.
Normed(reads) == [t \in DOMAIN reads |-> UNION { reads[u] : u \in DOMAIN reads }]

\* What each frame reads after the block's norm, convolution and norm.
BlockReads(n, dilation, causal) ==
  LET before == Normed([t \in 1 .. n |-> {t}])
  IN  Normed([t \in 1 .. n |-> UNION { before[u] : u \in Taps(n, t, dilation, causal) }])

\* Mutant: the encoder pads by half a kernel.
EncoderLenPadded(clip) == ConvLen(clip, 16, 8, 8, 1)

EncoderLen(clip) == ConvLen(clip, 16, 8, 0, 1)
Dilations == { TwoTo(b) : b \in 0 .. 7 }

\* forward for a mixture (batch, 1, clip): the first source.
ConvTasNet(batch, clip, causal) ==
  IF /\ clip >= 16
     /\ \A d \in Dilations : BlockFits(EncoderLen(clip), d, causal)
  THEN <<batch, 1, ConvTLen(EncoderLen(clip), 16, 8, 0)>>
  ELSE Raises

\* si_snr multiplies the prediction by the target, frame by frame.
SiSnrTakes(shape, clip) == Broadcast(shape[3], clip)
=============================================================================
