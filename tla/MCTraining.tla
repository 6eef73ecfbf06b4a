------------------------------ MODULE MCTraining -----------------------------
\* Clips, in samples: for NRES of 16 and 33 frames and of two seconds (the
\* default of AECDataset); for the separator too short, not of whole
\* strides, and of four frames.
EXTENDS Training

ClipsOf ==
  [nres |-> {4000, 8200, 32000}, lpcnet |-> {160}, separator |-> {8, 28, 40},
   rnnoise |-> {10}]
=============================================================================
