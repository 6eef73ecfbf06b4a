----------------------------- MODULE FrameCodec -----------------------------
(***************************************************************************)
(* The fixed-size padding that both encryption layers apply to a frame     *)
(* before AES-GCM: encryption/signal/session.py (length prefix) and        *)
(* encryption/mls/group.py (zero padding, stripped on the way out).        *)
(* A byte string is a sequence of bytes.                                   *)
(***************************************************************************)
EXTENDS Integers, Sequences

CONSTANT MaxPlaintext        \* bytes under the AEAD: 228 in the code

\* A length prefix is one byte, so MaxPlaintext - 1 must fit in it.
ASSUME MaxPlaintextAssumption == MaxPlaintext \in 2..256

Byte  == 0..255
Bytes == Seq(Byte)
Plain == [1..MaxPlaintext -> Byte]      \* what AES-GCM is given

Zeros(n) == [i \in 1..n |-> 0]

\* The plaintext cut to n bytes, plaintext[:n].
Clip(m, n) == SubSeq(m, 1, IF Len(m) <= n THEN Len(m) ELSE n)

-----------------------------------------------------------------------------
\* Mutant: the frame is padded but never cut.
SignalPadUncut(m) ==
  <<Len(m)>> \o m \o Zeros(MaxPlaintext - 1 - Len(m))

\* Signal: length byte, text, zeros.
SignalPad(m) ==
  LET t == Clip(m, MaxPlaintext - 1)
  IN  <<Len(t)>> \o t \o Zeros(MaxPlaintext - 1 - Len(t))

\* Mutant: the slice stops at the length instead of one past it.
SignalUnpadShort(s) == SubSeq(s, 2, s[1])

\* padded[1 : 1 + length]
SignalUnpad(s) == SubSeq(s, 2, 1 + s[1])

-----------------------------------------------------------------------------
\* MLS group: text, zeros.
GroupPad(m) ==
  LET t == Clip(m, MaxPlaintext)
  IN  t \o Zeros(MaxPlaintext - Len(t))

LastNonZero(s) ==
  CHOOSE n \in 0..Len(s) : /\ n > 0 => s[n] # 0
                           /\ \A i \in (n + 1)..Len(s) : s[i] = 0

\* Mutant: zeros are stripped at both ends.
GroupUnpadStrip(s) ==
  LET n == LastNonZero(s)
  IN  SubSeq(s, CHOOSE i \in 1..(n + 1) : /\ i <= n => s[i] # 0
                                         /\ \A j \in 1..(i - 1) : s[j] = 0, n)

\* padded.rstrip(b"\x00")
GroupUnpad(s) == SubSeq(s, 1, LastNonZero(s))
=============================================================================
