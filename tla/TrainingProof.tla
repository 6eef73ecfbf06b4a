---------------------------- MODULE TrainingProof ----------------------------
(***************************************************************************)
(* Theorems about Training and Networks, for every data, option and number *)
(* of runs.  The inductive invariant ties best to the losses of this run's *)
(* epochs and to best.pt, and weights that are spoilt to the losses that   *)
(* follow.                                                                 *)
(***************************************************************************)
EXTENDS Training, SequenceTheorems, WellFoundedInduction, TLAPS

Loss == Nat \cup {NaN}

\* Epoch i of the losses s is the first of the least that are numbers.
LeastOf(s, i) ==
  /\ i \in DOMAIN s /\ s[i] # NaN
  /\ \A j \in DOMAIN s : s[j] # NaN => s[i] <= s[j] /\ (j < i => s[i] < s[j])

AllNaN(s) == \A j \in DOMAIN s : s[j] = NaN

Counters ==
  /\ phase = "epoch" => epoch = Len(sums) + 1 /\ (done = 0 => total = 0)
  /\ phase = "saving" => epoch = Len(sums) /\ total = best /\ best # Inf

\* best.pt is that of epoch i, or is being written, or was when the run died.
Kept(i) ==
  \/ phase = "saving" /\ i = epoch /\ file = Torn
  \/ phase = "failed" /\ file = Torn
  \/ /\ phase # "saving" /\ file.state = "whole"
     /\ file.run = run /\ file.epoch = i /\ file.loss = best

BestKept ==
  \/ best = Inf /\ AllNaN(sums)
  \/ best # Inf /\ \E i \in DOMAIN sums : LeastOf(sums, i) /\ sums[i] = best /\ Kept(i)

Spoilt ==
  \A c \in {file, held, onnx} : c.state = "whole" => c.loss # NaN /\ c.run <= run

SpoiltStays ==
  file.state = "whole" /\ file.run = run =>
    /\ file.epoch <= Len(sums)
    /\ file.weights = "nan" =>
         /\ weights = "nan"
         /\ phase = "epoch" /\ done > 0 => total = NaN
         /\ \A i \in DOMAIN sums : i > file.epoch => sums[i] = NaN

\* No forward pass of these two returns what its loss takes.
Stopped ==
  trainer \in {"nres", "lpcnet"} =>
    file = Absent /\ held = Absent /\ onnx = Absent /\ epoch <= 1 /\ done = 0

Exported ==
  onnx.state = "whole" => trainer = "separator" /\ onnx.model[1] = 4

TrainingInv ==
  /\ TypeOK /\ Counters /\ BestKept /\ Spoilt /\ SpoiltStays /\ Stopped /\ Exported

-----------------------------------------------------------------------------
LEMMA OptionsFacts ==
  ASSUME NEW t \in Trainers, NEW a \in OptionsOf(t)
  PROVE  /\ a.epochs \in Nat \ {0} /\ a.batches \in Nat \ {0}
         /\ t = "separator" => a.model \in Speakers \X BOOLEAN
         /\ t = "lpcnet" => a.model \in DOMAIN SIZE_CONFIG
         /\ t = "nres" => a.model \in Nat \ {0}
<1>1. t \in {"nres", "lpcnet", "separator", "rnnoise"}
  BY TrainingAssumption
<1>2. EpochCounts \subseteq Nat \ {0} /\ BatchCounts \subseteq Nat \ {0}
  BY TrainingAssumption
<1>3. CASE t = "nres"
  BY <1>2, <1>3, TrainingAssumption DEF OptionsOf, NresOptions, Options
<1>4. CASE t = "lpcnet"
  BY <1>2, <1>4, TrainingAssumption DEF OptionsOf, LpcnetOptions, Options
<1>5. CASE t = "separator"
  BY <1>2, <1>5 DEF OptionsOf, SeparatorOptions, Options
<1>6. CASE t = "rnnoise"
  BY <1>2, <1>6 DEF OptionsOf, RnnoiseOptions, Options
<1> QED BY <1>1, <1>3, <1>4, <1>5, <1>6

LEMMA AppendLoss ==
  ASSUME NEW s \in Seq(Loss), NEW n \in Nat, Len(s) = n, NEW v \in Loss
  PROVE  /\ Append(s, v) \in Seq(Loss) /\ Len(Append(s, v)) = n + 1
         /\ DOMAIN s = 1 .. n /\ DOMAIN Append(s, v) = 1 .. n + 1
         /\ Append(s, v)[n + 1] = v
         /\ \A i \in 1 .. n : Append(s, v)[i] = s[i] /\ s[i] \in Loss
<1>1. /\ Append(s, v) \in Seq(Loss) /\ Len(Append(s, v)) = n + 1
      /\ DOMAIN s = 1 .. n /\ DOMAIN Append(s, v) = 1 .. n + 1
  OBVIOUS
<1>2. Append(s, v)[n + 1] = v
  OBVIOUS
<1>3. \A i \in 1 .. n : Append(s, v)[i] = s[i] /\ s[i] \in Loss
  OBVIOUS
<1> QED BY <1>1, <1>2, <1>3

\* A new epoch is the least if it is less than the least so far; if not, that
\* stays the least.
LEMMA LeastAppend ==
  ASSUME NEW s \in Seq(Loss), NEW n \in Nat, Len(s) = n, NEW v \in Loss
  PROVE  /\ AllNaN(s) /\ v # NaN => LeastOf(Append(s, v), n + 1)
         /\ AllNaN(s) /\ v = NaN => AllNaN(Append(s, v))
         /\ \A i \in DOMAIN s : LeastOf(s, i) =>
              /\ v # NaN /\ v < s[i] => LeastOf(Append(s, v), n + 1)
              /\ v = NaN \/ s[i] <= v => LeastOf(Append(s, v), i) /\ Append(s, v)[i] = s[i]
<1> DEFINE q == Append(s, v)
<1>1. /\ DOMAIN s = 1 .. n /\ DOMAIN q = 1 .. n + 1 /\ q[n + 1] = v
      /\ \A i \in 1 .. n : q[i] = s[i] /\ s[i] \in Loss
  BY AppendLoss
<1> HIDE DEF q
<1>2. \A j \in 1 .. n + 1 : j \in 1 .. n \/ j = n + 1
  OBVIOUS
<1>3. \A x \in Loss : x # NaN => x \in Nat
  BY DEF Loss
<1>4. AllNaN(s) /\ v # NaN => LeastOf(q, n + 1)
  BY <1>1, <1>2, <1>3 DEF AllNaN, LeastOf
<1>5. AllNaN(s) /\ v = NaN => AllNaN(q)
  BY <1>1, <1>2 DEF AllNaN
<1>6. ASSUME NEW i \in DOMAIN s, LeastOf(s, i)
      PROVE  /\ v # NaN /\ v < s[i] => LeastOf(q, n + 1)
             /\ v = NaN \/ s[i] <= v => LeastOf(q, i) /\ q[i] = s[i]
  <2>1. i \in 1 .. n /\ q[i] = s[i] /\ s[i] \in Nat
    BY <1>1, <1>3, <1>6 DEF LeastOf
  <2>2. ASSUME v # NaN, v < s[i] PROVE LeastOf(q, n + 1)
    <3>1. \A j \in 1 .. n : q[j] # NaN => v < q[j]
      BY <1>1, <1>3, <1>6, <2>1, <2>2 DEF LeastOf
    <3> QED BY <1>1, <1>2, <1>3, <2>2, <3>1 DEF LeastOf
  <2>3. ASSUME v = NaN \/ s[i] <= v PROVE LeastOf(q, i)
    BY <1>1, <1>2, <1>3, <1>6, <2>1, <2>3 DEF LeastOf
  <2> QED BY <2>1, <2>2, <2>3
<1> QED BY <1>4, <1>5, <1>6 DEF q

LEMMA LeastUnique ==
  ASSUME NEW s \in Seq(Loss), NEW i, NEW j, LeastOf(s, i), LeastOf(s, j)
  PROVE  i = j
<1>1. PICK n \in Nat : Len(s) = n
  OBVIOUS
<1>2. i \in 1 .. n /\ j \in 1 .. n /\ s[i] \in Nat /\ s[j] \in Nat
  BY <1>1 DEF LeastOf, Loss
<1>3. ~(i < j) /\ ~(j < i)
  BY <1>2 DEF LeastOf
<1> QED BY <1>2, <1>3

-----------------------------------------------------------------------------
(* Powers of two, and what the strides of DCCRN leave of an axis. *)

\* A set of natural numbers that is not empty has a least element: the
\* library's well-foundedness of <, in a form that can be cited.
LEMMA LeastElement ==
  ASSUME NEW S \in SUBSET Nat, S # {}
  PROVE  \E x \in S : \A y \in S : x <= y
<1>1. \E R : IsWellFoundedOn(R, Nat) /\ \A x, y \in Nat : <<y, x>> \in R <=> y < x
  <2>1. \A x, y \in Nat : <<y, x>> \in OpToRel(<, Nat) <=> y < x
    BY DEF OpToRel
  <2> QED BY <2>1, NatLessThanWellFounded
<1>2. PICK R : IsWellFoundedOn(R, Nat) /\ \A x, y \in Nat : <<y, x>> \in R <=> y < x
  BY <1>1
<1>3. \E x \in S : \A y \in S : ~(<<y, x>> \in R)
  BY <1>2, WFMin
<1>4. \A x, y \in Nat : ~(<<y, x>> \in R) => x <= y
  BY <1>2
<1> QED BY ONLY <1>3, <1>4, S \in SUBSET Nat

Doubling(n, f) == f = [i \in 0 .. n |-> IF i = 0 THEN 1 ELSE 2 * f[i - 1]]

LEMMA DoublingExists ==
  ASSUME NEW n \in Nat
  PROVE  \E f : Doubling(n, f)
<1> DEFINE Bad == {k \in Nat : ~\E f : Doubling(k, f)}
<1> SUFFICES ASSUME Bad # {} PROVE FALSE
  OBVIOUS
<1>1. PICK k \in Bad : \A y \in Bad : k <= y
  BY LeastElement
<1>2. k # 0
  <2>1. Doubling(0, [i \in 0 .. 0 |-> 1])
    BY DEF Doubling
  <2> QED BY <2>1
<1>3. k \in Nat /\ k - 1 \in Nat /\ ~(k <= k - 1)
  BY <1>2
<1>4. PICK f : Doubling(k - 1, f)
  BY <1>1, <1>3
<1> DEFINE last == 2 * f[k - 1]
           g == [i \in 0 .. k |-> IF i = k THEN last ELSE f[i]]
<1>5. \A i \in 0 .. k - 1 : f[i] = IF i = 0 THEN 1 ELSE 2 * f[i - 1]
  BY <1>4 DEF Doubling
<1>6. \A i \in 0 .. k - 1 : g[i] = f[i]
  BY <1>3
<1>7. g[k] = last
  BY <1>3
<1>8. \A i \in 0 .. k : g[i] = IF i = 0 THEN 1 ELSE 2 * g[i - 1]
  <2> TAKE i \in 0 .. k
  <2> HIDE DEF g
  <2>1. CASE i = k
    <3>1. k - 1 \in 0 .. k - 1
      BY <1>3
    <3> QED BY <1>2, <1>6, <1>7, <2>1, <3>1
  <2>2. CASE i # k
    <3>1. i \in 0 .. k - 1 /\ (i # 0 => i - 1 \in 0 .. k - 1)
      BY <1>3, <2>2
    <3> QED BY <1>5, <1>6, <3>1
  <2> QED BY <2>1, <2>2
<1>9. Doubling(k, g)
  <2>1. g = [i \in 0 .. k |-> g[i]]
    OBVIOUS
  <2> HIDE DEF g
  <2> QED BY <1>8, <2>1 DEF Doubling
<1> QED BY <1>1, <1>9

\* Two of these functions agree where both are defined, on positive numbers.
LEMMA DoublingUnique ==
  ASSUME NEW n \in Nat, NEW m \in Nat, n <= m, NEW f, NEW g, Doubling(n, f), Doubling(m, g)
  PROVE  f[n] = g[n] /\ f[n] \in Nat \ {0}
<1> DEFINE Bad == {i \in 0 .. n : ~(f[i] = g[i] /\ f[i] \in Nat \ {0})}
<1>1. \A i \in 0 .. n : f[i] = IF i = 0 THEN 1 ELSE 2 * f[i - 1]
  BY DEF Doubling
<1>2. \A i \in 0 .. n : g[i] = IF i = 0 THEN 1 ELSE 2 * g[i - 1]
  BY DEF Doubling
<1>3. Bad = {}
  <2> SUFFICES ASSUME Bad # {} PROVE FALSE
    OBVIOUS
  <2>1. Bad \in SUBSET Nat
    OBVIOUS
  <2>2. PICK i \in Bad : \A y \in Bad : i <= y
    <3> HIDE DEF Bad
    <3> QED BY <2>1, LeastElement
  <2>3. i \in 0 .. n
    OBVIOUS
  <2>4. i # 0
    BY <1>1, <1>2, <2>3
  <2>5. i - 1 \in 0 .. n /\ ~(i <= i - 1)
    BY <2>3, <2>4
  <2>6. f[i - 1] = g[i - 1] /\ f[i - 1] \in Nat \ {0}
    BY <2>2, <2>5
  <2>7. f[i] = 2 * f[i - 1] /\ g[i] = 2 * g[i - 1]
    BY <1>1, <1>2, <2>3, <2>4
  <2>8. f[i] = g[i] /\ f[i] \in Nat \ {0}
    BY <2>6, <2>7
  <2> QED BY <2>8
<1> QED BY <1>3

LEMMA TwoToFacts ==
  /\ TwoTo(0) = 1
  /\ \A n \in Nat : TwoTo(n) \in Nat \ {0} /\ TwoTo(n + 1) = 2 * TwoTo(n)
<1> DEFINE f(n) == CHOOSE f : Doubling(n, f)
<1>1. \A n \in Nat : Doubling(n, f(n))
  BY DoublingExists
<1>2. \A n : TwoTo(n) = f(n)[n]
  BY DEF TwoTo, Doubling
<1> HIDE DEF f
<1>3. TwoTo(0) = 1
  BY <1>1, <1>2 DEF Doubling
<1>4. ASSUME NEW n \in Nat PROVE TwoTo(n) \in Nat \ {0} /\ TwoTo(n + 1) = 2 * TwoTo(n)
  <2>1. Doubling(n, f(n)) /\ Doubling(n + 1, f(n + 1)) /\ n + 1 \in Nat /\ n <= n + 1
    BY <1>1
  <2>2. f(n)[n] = f(n + 1)[n] /\ f(n)[n] \in Nat \ {0}
    BY <2>1, DoublingUnique
  <2>3. f(n + 1)[n + 1] = 2 * f(n + 1)[n]
    BY <2>1 DEF Doubling
  <2> QED BY <1>2, <2>2, <2>3
<1> QED BY <1>3, <1>4

\* TwoTo(n) is TwoTo(i) times TwoTo(n - i).
LEMMA TwoToSplits ==
  ASSUME NEW n \in Nat
  PROVE  \A i \in 0 .. n : TwoTo(i) * TwoTo(n - i) = TwoTo(n)
<1> DEFINE Bad == {i \in 0 .. n : TwoTo(i) * TwoTo(n - i) # TwoTo(n)}
<1> SUFFICES ASSUME Bad # {} PROVE FALSE
  OBVIOUS
<1>1. Bad \in SUBSET Nat
  OBVIOUS
<1>2. PICK i \in Bad : \A y \in Bad : i <= y
  <2> HIDE DEF Bad
  <2> QED BY <1>1, LeastElement
<1>3. i \in 0 .. n /\ TwoTo(i) * TwoTo(n - i) # TwoTo(n)
  OBVIOUS
<1>4. i # 0
  <2>1. TwoTo(0) = 1 /\ TwoTo(n) \in Nat
    BY TwoToFacts
  <2>2. n - 0 = n
    OBVIOUS
  <2>3. 1 * TwoTo(n) = TwoTo(n)
    BY ONLY <2>1
  <2>4. TwoTo(0) * TwoTo(n - 0) = TwoTo(n)
    BY <2>1, <2>2, <2>3
  <2> QED BY <1>3, <2>4
<1> DEFINE j == i - 1
           k == n - i
<1>5. j \in 0 .. n /\ j \in Nat /\ k \in Nat /\ j + 1 = i /\ n - j = k + 1 /\ ~(i <= j)
  BY <1>3, <1>4
<1>6. TwoTo(j) * TwoTo(n - j) = TwoTo(n)
  BY <1>2, <1>5
<1> HIDE DEF j, k
<1>7. /\ TwoTo(j) \in Nat /\ TwoTo(k) \in Nat
      /\ TwoTo(i) = 2 * TwoTo(j) /\ TwoTo(n - j) = 2 * TwoTo(k)
  BY <1>5, TwoToFacts
<1>8. \A a, b \in Nat : a * (2 * b) = (2 * a) * b
  OBVIOUS
<1>9. TwoTo(i) * TwoTo(k) = TwoTo(n)
  BY ONLY <1>6, <1>7, <1>8
<1> QED BY <1>3, <1>9 DEF k

\* Division, for any divisor.
LEMMA DivisionFacts ==
  ASSUME NEW w \in Nat, NEW p \in Nat \ {0}
  PROVE  /\ w \div p \in Nat /\ w % p \in 0 .. p - 1
         /\ w = p * (w \div p) + (w % p)
         /\ (w \div p) \div 2 = w \div (2 * p)
         /\ \A k \in Nat : w = p * k => w \div p = k /\ w % p = 0
<1>1. w \div p \in Nat /\ w % p \in 0 .. p - 1 /\ w = p * (w \div p) + (w % p)
  OBVIOUS
<1>2. (w \div p) \div 2 = w \div (2 * p)
  OBVIOUS
<1>3. \A k \in Nat : w = p * k => w \div p = k /\ w % p = 0
  OBVIOUS
<1> QED BY <1>1, <1>2, <1>3

LEMMA LayerFacts ==
  ASSUME NEW h \in Nat, NEW w \in Nat
  PROVE  ComplexConv2d(<<h, w>>) = <<h, w \div 2>> /\ Decoder(<<h, w>>) = <<h, 2 * w>>
<1>1. ConvLen(h, 3, 1, 1, 1) = h /\ ConvTLen(h, 3, 1, 1) = h
  BY DEF ConvLen, ConvTLen
<1>2. ConvLen(w, 2, 2, 0, 1) = w \div 2 /\ ConvTLen(w, 2, 2, 0) = 2 * w
  BY DEF ConvLen, ConvTLen
<1>3. <<h, w>>[1] = h /\ <<h, w>>[2] = w
  OBVIOUS
<1> QED BY <1>1, <1>2, <1>3 DEF ComplexConv2d, Decoder

Encoded(layers, h, w, f) ==
  f = [i \in 0 .. layers |-> IF i = 0 THEN <<h, w>> ELSE ComplexConv2d(f[i - 1])]
Decoded(layers, x, f) ==
  f = [i \in 0 .. layers |-> IF i = 0 THEN x ELSE Decoder(f[i - 1])]

\* Each encoder layer halves the axis, rounding down.
LEMMA EncodedShapes ==
  ASSUME NEW layers \in Nat, NEW h \in Nat, NEW w \in Nat
  PROVE  /\ \E f : Encoded(layers, h, w, f)
         /\ \A f : Encoded(layers, h, w, f) => \A i \in 0 .. layers : f[i] = <<h, w \div TwoTo(i)>>
<1> DEFINE c == [i \in 0 .. layers |-> <<h, w \div TwoTo(i)>>]
<1>1. w \div TwoTo(0) = w
  <2>1. TwoTo(0) = 1 /\ w \div 1 = w
    BY TwoToFacts
  <2> QED BY <2>1
<1>2. ASSUME NEW i \in 0 .. layers, i # 0
      PROVE  ComplexConv2d(<<h, w \div TwoTo(i - 1)>>) = <<h, w \div TwoTo(i)>>
  <2>1. i - 1 \in Nat /\ (i - 1) + 1 = i
    BY <1>2
  <2>2. TwoTo(i - 1) \in Nat \ {0} /\ TwoTo(i) = 2 * TwoTo(i - 1)
    BY <2>1, TwoToFacts
  <2> DEFINE a == TwoTo(i - 1)
             b == w \div a
  <2>3. b \in Nat
    BY <2>2, DivisionFacts
  <2>4. b \div 2 = w \div (2 * a)
    <3>1. a \in Nat \ {0}
      BY <2>2
    <3> HIDE DEF a
    <3> QED BY <3>1, DivisionFacts
  <2> HIDE DEF b
  <2>5. ComplexConv2d(<<h, b>>) = <<h, b \div 2>>
    BY <2>3, LayerFacts
  <2> QED BY <2>2, <2>4, <2>5 DEF b
<1>3. Encoded(layers, h, w, c)
  <2>1. \A i \in 0 .. layers :
          c[i] = IF i = 0 THEN <<h, w>> ELSE ComplexConv2d(c[i - 1])
    <3> TAKE i \in 0 .. layers
    <3>1. i # 0 => i - 1 \in 0 .. layers
      OBVIOUS
    <3> QED BY <1>1, <1>2, <3>1
  <2>2. c = [i \in 0 .. layers |-> c[i]]
    OBVIOUS
  <2> HIDE DEF c
  <2> QED BY <2>1, <2>2 DEF Encoded
<1> HIDE DEF c
<1>4. SUFFICES ASSUME NEW f, Encoded(layers, h, w, f) PROVE \A i \in 0 .. layers : f[i] = <<h, w \div TwoTo(i)>>
  BY <1>3
<1>5. \A i \in 0 .. layers : f[i] = IF i = 0 THEN <<h, w>> ELSE ComplexConv2d(f[i - 1])
  BY <1>4 DEF Encoded
<1> DEFINE Bad == {i \in 0 .. layers : f[i] # <<h, w \div TwoTo(i)>>}
<1> SUFFICES ASSUME Bad # {} PROVE FALSE
  OBVIOUS
<1>6. Bad \in SUBSET Nat
  OBVIOUS
<1>7. PICK i \in Bad : \A y \in Bad : i <= y
  <2> HIDE DEF Bad
  <2> QED BY <1>6, LeastElement
<1>8. i \in 0 .. layers /\ f[i] # <<h, w \div TwoTo(i)>>
  OBVIOUS
<1>9. i # 0
  BY <1>1, <1>5, <1>8
<1>10. i - 1 \in 0 .. layers /\ ~(i <= i - 1)
  BY <1>8, <1>9
<1>11. f[i - 1] = <<h, w \div TwoTo(i - 1)>>
  BY <1>7, <1>10
<1> QED BY <1>2, <1>5, <1>8, <1>9, <1>11

\* Each decoder layer doubles it.
LEMMA DecodedShapes ==
  ASSUME NEW layers \in Nat, NEW h \in Nat, NEW k \in Nat
  PROVE  /\ \E f : Decoded(layers, <<h, k>>, f)
         /\ \A f : Decoded(layers, <<h, k>>, f) => \A i \in 0 .. layers : f[i] = <<h, TwoTo(i) * k>>
<1> DEFINE c == [i \in 0 .. layers |-> <<h, TwoTo(i) * k>>]
<1>1. TwoTo(0) * k = k
  <2>1. TwoTo(0) = 1 /\ 1 * k = k
    BY TwoToFacts
  <2> QED BY <2>1
<1>2. ASSUME NEW i \in 0 .. layers, i # 0
      PROVE  Decoder(<<h, TwoTo(i - 1) * k>>) = <<h, TwoTo(i) * k>>
  <2>1. i - 1 \in Nat /\ (i - 1) + 1 = i
    BY <1>2
  <2>2. TwoTo(i - 1) \in Nat \ {0} /\ TwoTo(i) = 2 * TwoTo(i - 1)
    BY <2>1, TwoToFacts
  <2>3. TwoTo(i - 1) * k \in Nat /\ 2 * (TwoTo(i - 1) * k) = TwoTo(i) * k
    <3>1. \A a, b \in Nat : a * b \in Nat /\ 2 * (a * b) = (2 * a) * b
      OBVIOUS
    <3> QED BY <2>2, <3>1
  <2> QED BY <2>3, LayerFacts
<1>3. Decoded(layers, <<h, k>>, c)
  <2>1. \A i \in 0 .. layers : c[i] = IF i = 0 THEN <<h, k>> ELSE Decoder(c[i - 1])
    <3> TAKE i \in 0 .. layers
    <3>1. i # 0 => i - 1 \in 0 .. layers
      OBVIOUS
    <3> QED BY <1>1, <1>2, <3>1
  <2>2. c = [i \in 0 .. layers |-> c[i]]
    OBVIOUS
  <2> HIDE DEF c
  <2> QED BY <2>1, <2>2 DEF Decoded
<1> HIDE DEF c
<1>4. SUFFICES ASSUME NEW f, Decoded(layers, <<h, k>>, f) PROVE \A i \in 0 .. layers : f[i] = <<h, TwoTo(i) * k>>
  BY <1>3
<1>5. \A i \in 0 .. layers : f[i] = IF i = 0 THEN <<h, k>> ELSE Decoder(f[i - 1])
  BY <1>4 DEF Decoded
<1> DEFINE Bad == {i \in 0 .. layers : f[i] # <<h, TwoTo(i) * k>>}
<1> SUFFICES ASSUME Bad # {} PROVE FALSE
  OBVIOUS
<1>6. Bad \in SUBSET Nat
  OBVIOUS
<1>7. PICK i \in Bad : \A y \in Bad : i <= y
  <2> HIDE DEF Bad
  <2> QED BY <1>6, LeastElement
<1>8. i \in 0 .. layers /\ f[i] # <<h, TwoTo(i) * k>>
  OBVIOUS
<1>9. i # 0
  BY <1>1, <1>5, <1>8
<1>10. i - 1 \in 0 .. layers /\ ~(i <= i - 1)
  BY <1>8, <1>9
<1>11. f[i - 1] = <<h, TwoTo(i - 1) * k>>
  BY <1>7, <1>10
<1> QED BY <1>2, <1>5, <1>8, <1>9, <1>11

\* DCCRN takes one clip of h frames and w bins exactly if h is the number of
\* bins the encoder leaves, which its LSTM was built for, and its strides
\* divide w, for any number of layers (nres/train.py:68-72, 84-116).
THEOREM DCCRNTakes ==
  ASSUME NEW layers \in Nat, layers # 0, NEW h \in Nat, NEW w \in Nat, w # 1
  PROVE  DCCRN(layers, 1, h, w) # Raises
           <=> h = Bins \div TwoTo(layers) /\ w % TwoTo(layers) = 0
<1> DEFINE p == TwoTo(layers)
           k == w \div p
           enc == CHOOSE g : Encoded(layers, h, w, g)
           dec == CHOOSE g : Decoded(layers, enc[layers], g)
           skips == \A i \in 0 .. layers - 1 : dec[i] = enc[layers - i]
           ok == /\ 2 * p * enc[layers][1] = LstmInput(layers)
                 /\ skips
                 /\ Broadcast(1, 2) /\ Broadcast(h, dec[layers][1]) /\ Broadcast(w, dec[layers][2])
<1>1. p \in Nat \ {0} /\ p # 1
  <2>1. layers - 1 \in Nat /\ (layers - 1) + 1 = layers
    OBVIOUS
  <2>2. TwoTo(layers - 1) \in Nat \ {0} /\ TwoTo(layers) = 2 * TwoTo(layers - 1)
    BY <2>1, TwoToFacts
  <2> QED BY <2>2
<1>2. DCCRN(layers, 1, h, w) # Raises <=> ok
  <2>1. DCCRN(layers, 1, h, w) =
          IF ok THEN <<1, Wider(1, 2), Wider(h, dec[layers][1]), Wider(w, dec[layers][2])>>
                ELSE Raises
    BY DEF DCCRN, Encoded, Decoded
  <2>2. \A a, b, c, d : <<a, b, c, d>> # <<>>
    OBVIOUS
  <2> HIDE DEF ok
  <2> QED BY <2>1, <2>2 DEF Raises
<1>3. k \in Nat /\ w % p \in 0 .. p - 1 /\ w = p * k + (w % p)
  BY <1>1, DivisionFacts
<1>4. \A i \in 0 .. layers : enc[i] = <<h, w \div TwoTo(i)>>
  <2>1. Encoded(layers, h, w, enc)
    BY EncodedShapes
  <2>2. \A f : Encoded(layers, h, w, f) => \A i \in 0 .. layers : f[i] = <<h, w \div TwoTo(i)>>
    BY EncodedShapes
  <2> HIDE DEF enc
  <2> QED BY ONLY <2>1, <2>2
<1>5. enc[layers] = <<h, k>>
  BY <1>4
<1> HIDE DEF enc, k, p
<1>6. \A i \in 0 .. layers : dec[i] = <<h, TwoTo(i) * k>>
  <2>1. Decoded(layers, <<h, k>>, dec)
    BY <1>3, <1>5, DecodedShapes
  <2> HIDE DEF dec
  <2> QED BY <1>3, <2>1, DecodedShapes
<1> HIDE DEF dec
<1>7. enc[layers][1] = h /\ dec[layers][1] = h /\ dec[layers][2] = p * k
  BY <1>5, <1>6 DEF p
<1>8. 2 * p * h = LstmInput(layers) <=> h = Bins \div p
  <2>1. Bins \div p \in Nat
    BY <1>1, DivisionFacts DEF Bins
  <2>2. \A a, b \in Nat : 2 * p * a = 2 * (p * b) <=> a = b
    BY <1>1
  <2> QED BY <2>1, <2>2 DEF LstmInput, p
<1>9. Broadcast(w, p * k) <=> w % p = 0
  <2>1. p * k # 1
    BY <1>1, <1>3
  <2> QED BY <1>1, <1>3, <2>1 DEF Broadcast
<1>10. ASSUME w % p = 0 PROVE skips
  <2> SUFFICES ASSUME NEW i \in 0 .. layers - 1
               PROVE  TwoTo(i) * k = w \div TwoTo(layers - i)
    <3>1. \A i \in 0 .. layers - 1 : i \in 0 .. layers /\ layers - i \in 0 .. layers
      OBVIOUS
    <3> QED BY <1>4, <1>6, <3>1
  <2> DEFINE a == TwoTo(i)
             b == TwoTo(layers - i)
  <2>1. a \in Nat \ {0} /\ b \in Nat \ {0}
    BY TwoToFacts
  <2>2. a * b = p
    BY TwoToSplits DEF p
  <2> HIDE DEF a, b
  <2>3. w = b * (a * k) /\ a * k \in Nat
    <3>1. w = (a * b) * k
      BY <1>1, <1>3, <1>10, <2>2
    <3>2. (a * b) * k = b * (a * k) /\ a * k \in Nat
      BY ONLY <1>3, <2>1
    <3> QED BY <3>1, <3>2
  <2> DEFINE c == a * k
  <2>4. w = b * c /\ c \in Nat
    BY <2>3
  <2> HIDE DEF c
  <2>5. w \div b = c
    BY <2>1, <2>4, DivisionFacts
  <2> QED BY <2>5 DEF a, b, c
<1>11. Broadcast(1, 2) /\ Broadcast(h, h)
  BY DEF Broadcast
<1> HIDE DEF skips
<1> QED BY <1>2, <1>7, <1>8, <1>9, <1>10, <1>11 DEF p

-----------------------------------------------------------------------------
(* Networks *)

\* Neither network of these two trainers returns what its loss takes: the PLC
\* decoder is wider than its context for every size, and the mask of DCCRN
\* keeps its two channels.
LEMMA NothingTakes ==
  ASSUME TypeOK, trainer \in {"nres", "lpcnet"}, NEW c, NEW b
  PROVE  ~Takes(c, b)
<1>1. CASE trainer = "lpcnet"
  <2>1. args.model \in DOMAIN SIZE_CONFIG
    BY <1>1, OptionsFacts DEF TypeOK
  <2>2. \A z \in DOMAIN SIZE_CONFIG : SIZE_CONFIG[z].enc # SIZE_CONFIG[z].dec
    BY DEF SIZE_CONFIG
  <2> QED BY <1>1, <2>1, <2>2 DEF Takes, LpcnetTakes, LPCNetPLC
<1>2. CASE trainer = "nres"
  <2>1. \A w, x, y, z : Len(<<w, x, y, z>>) # 3
    OBVIOUS
  <2>2. ~NresTakes(c, b)
    BY <2>1 DEF NresTakes, NresInput, DCCRN, CombinedLossTakes, IstftTakes
  <2> QED BY <1>2, <2>2 DEF Takes
<1> QED BY <1>1, <1>2

\* A block of the separator keeps the length, for every dilation.
THEOREM BlockFitsAlways ==
  ASSUME NEW n \in Nat, NEW d \in Nat, NEW causal \in BOOLEAN
  PROVE  BlockFits(n, d, causal)
<1>1. (2 * d) \div 2 = d
  OBVIOUS
<1>2. \A p \in Nat : ConvLen(n, 3, 1, p, d) = n + 2 * p - 2 * d
  BY DEF ConvLen
<1> QED BY <1>1, <1>2 DEF BlockFits, Pad, Trim

\* The separator's loss takes clips of whole strides only, of any length.
THEOREM WholeStrides ==
  ASSUME NEW clip_ \in Nat, clip_ >= 16
  PROVE  /\ EncoderLen(clip_) \in Nat \ {0}
         /\ SiSnrTakes(<<1, 1, ConvTLen(EncoderLen(clip_), 16, 8, 0)>>, clip_) <=> clip_ % 8 = 0
<1>1. PICK q \in Nat, r \in 0 .. 7 : clip_ = 8 * q + r /\ q >= 2
  <2>1. clip_ = 8 * (clip_ \div 8) + (clip_ % 8) /\ clip_ % 8 \in 0 .. 7 /\ clip_ \div 8 \in Nat
    OBVIOUS
  <2>2. \A x \in Nat, y \in 0 .. 7 : 8 * x + y >= 16 => x >= 2
    OBVIOUS
  <2> QED BY <2>1, <2>2
<1>2. EncoderLen(clip_) = q - 1
  BY <1>1 DEF EncoderLen, ConvLen
<1>3. ConvTLen(q - 1, 16, 8, 0) = 8 * q
  BY <1>1 DEF ConvTLen
<1>4. clip_ % 8 = r
  BY <1>1
<1> QED BY <1>1, <1>2, <1>3, <1>4 DEF SiSnrTakes, Broadcast

\* The separator's step raises for every other clip.
LEMMA SeparatorTakesWhole ==
  ASSUME NEW c \in Nat, args.model[2] \in BOOLEAN
  PROVE  SeparatorTakes(c, 1) <=> c >= 16 /\ c % 8 = 0
<1> DEFINE causal == args.model[2]
           out == ConvTasNet(1, c, causal)
           n == EncoderLen(c)
<1>1. CASE c < 16
  <2>1. ~(c >= 16)
    BY <1>1
  <2>2. out = Raises
    BY <2>1 DEF ConvTasNet
  <2> QED BY <2>1, <2>2 DEF SeparatorTakes
<1>2. CASE c >= 16
  <2>1. n \in Nat /\ (SiSnrTakes(<<1, 1, ConvTLen(n, 16, 8, 0)>>, c) <=> c % 8 = 0)
    BY <1>2, WholeStrides
  <2>2. \A d \in Dilations : d \in Nat
    BY TwoToFacts DEF Dilations
  <2>3. causal \in BOOLEAN
    OBVIOUS
  <2> HIDE DEF n, causal
  <2>4. \A d \in Dilations : BlockFits(n, d, causal)
    BY <2>1, <2>2, <2>3, BlockFitsAlways
  <2>5. out = <<1, 1, ConvTLen(n, 16, 8, 0)>>
    BY <1>2, <2>4 DEF ConvTasNet, n
  <2>6. <<1, 1, ConvTLen(n, 16, 8, 0)>> # <<>>
    OBVIOUS
  <2>7. SeparatorTakes(c, 1) <=> out # Raises /\ SiSnrTakes(out, c)
    BY DEF SeparatorTakes, causal
  <2> HIDE DEF out
  <2> QED BY <1>2, <2>1, <2>5, <2>6, <2>7 DEF Raises
<1> QED BY <1>1, <1>2

\* The dilated convolution reads no later frame exactly if causal, unless
\* there is none that far.
THEOREM TapsCausal ==
  ASSUME NEW n \in Nat \ {0}, NEW d \in Nat \ {0}, NEW causal \in BOOLEAN
  PROVE  (\A t \in 1 .. n : Taps(n, t, d, causal) \subseteq 1 .. t) <=> (causal \/ n <= d)
<1>1. \A t \in 1 .. n : Taps(n, t, d, TRUE) \subseteq 1 .. t
  BY DEF Taps, Pad
<1>2. (2 * d) \div 2 = d
  OBVIOUS
<1>3. \A t \in 1 .. n : Taps(n, t, d, FALSE) = {t - d, t, t + d} \cap 1 .. n
  <2> SUFFICES ASSUME NEW t \in 1 .. n
               PROVE  Taps(n, t, d, FALSE) = {t - d, t, t + d} \cap 1 .. n
    OBVIOUS
  <2>1. {t + j * d - d : j \in 0 .. 2} = {t - d, t, t + d}
    <3>1. 0 .. 2 = {0, 1, 2}
      OBVIOUS
    <3>2. t + 0 * d - d = t - d /\ t + 1 * d - d = t /\ t + 2 * d - d = t + d
      OBVIOUS
    <3> QED BY <3>1, <3>2
  <2> QED BY <1>2, <2>1 DEF Taps, Pad
<1>4. (\A t \in 1 .. n : Taps(n, t, d, FALSE) \subseteq 1 .. t) <=> n <= d
  <2>1. ASSUME n <= d, NEW t \in 1 .. n PROVE Taps(n, t, d, FALSE) \subseteq 1 .. t
    <3> SUFFICES ASSUME NEW u \in {t - d, t, t + d} \cap 1 .. n PROVE u \in 1 .. t
      BY <1>3
    <3>1. u # t + d
      BY <2>1
    <3> QED BY <3>1
  <2>2. ASSUME n > d, \A t \in 1 .. n : Taps(n, t, d, FALSE) \subseteq 1 .. t PROVE FALSE
    <3>1. 1 \in 1 .. n /\ 1 + d \in 1 .. n /\ 1 + d \notin 1 .. 1
      BY <2>2
    <3>2. Taps(n, 1, d, FALSE) = {1 - d, 1, 1 + d} \cap 1 .. n
      BY <1>3, <3>1
    <3> QED BY <2>2, <3>1, <3>2
  <2>3. n <= d \/ n > d
    OBVIOUS
  <2> QED BY <2>1, <2>2, <2>3
<1> QED BY <1>1, <1>4

\* GroupNorm makes every frame of a block read the whole clip.
THEOREM BlockReadsAll ==
  ASSUME NEW n \in Nat \ {0}, NEW d \in Nat \ {0}, NEW causal \in BOOLEAN
  PROVE  \A t \in 1 .. n : BlockReads(n, d, causal)[t] = 1 .. n
<1> DEFINE one == [t \in 1 .. n |-> {t}]
           before == Normed(one)
           conv == [t \in 1 .. n |-> UNION { before[u] : u \in Taps(n, t, d, causal) }]
<1>1. \A t \in 1 .. n : before[t] = 1 .. n
  BY DEF Normed
<1>2. DOMAIN before = 1 .. n
  BY DEF Normed
<1>3. \A t \in 1 .. n : conv[t] \subseteq 1 .. n
  <2>1. \A t \in 1 .. n : Taps(n, t, d, causal) \subseteq 1 .. n
    BY DEF Taps
  <2> HIDE DEF before
  <2> QED BY <1>1, <2>1
<1>4. \A t \in 1 .. n : t \in Taps(n, t, d, causal)
  <2>1. CASE causal = TRUE
    <3>1. \A t \in 1 .. n : t + 2 * d - 2 * d = t /\ 2 \in 0 .. 2
      OBVIOUS
    <3> QED BY <2>1, <3>1 DEF Taps, Pad
  <2>2. CASE causal = FALSE
    <3>1. (2 * d) \div 2 = d /\ \A t \in 1 .. n : t + 1 * d - d = t /\ 1 \in 0 .. 2
      OBVIOUS
    <3> QED BY <2>2, <3>1 DEF Taps, Pad
  <2> QED BY <2>1, <2>2
<1>5. \A t \in 1 .. n : conv[t] = 1 .. n
  <2> HIDE DEF before
  <2>1. \A t \in 1 .. n : 1 .. n \subseteq conv[t]
    BY <1>1, <1>4
  <2> QED BY <1>3, <2>1
<1>6. BlockReads(n, d, causal) = Normed(conv)
  BY DEF BlockReads
<1>7. DOMAIN conv = 1 .. n
  OBVIOUS
<1> HIDE DEF conv
<1> QED BY <1>5, <1>6, <1>7 DEF Normed

-----------------------------------------------------------------------------
LEMMA InitInv == Init => TrainingInv
<1> SUFFICES ASSUME Init PROVE TrainingInv
  OBVIOUS
<1>1. args.epochs \in Nat \ {0} /\ args.batches \in Nat \ {0}
  BY OptionsFacts DEF Init
<1>2. /\ phase = "off" /\ run = 0 /\ epoch = 0 /\ done = 0 /\ total = 0 /\ best = Inf
      /\ weights = "finite" /\ clip = 0 /\ sums = <<>>
      /\ file = Absent /\ held = Absent /\ onnx = Absent
      /\ trainer \in Trainers /\ args \in OptionsOf(trainer)
  BY DEF Init
<1>3. TypeOK
  BY <1>1, <1>2 DEF TypeOK, Phases
<1>4. Counters /\ BestKept /\ Stopped
  BY <1>2 DEF Counters, BestKept, AllNaN, Stopped
<1>5. Spoilt /\ SpoiltStays /\ Exported
  BY <1>2 DEF Spoilt, SpoiltStays, Exported, Absent
<1> QED BY <1>3, <1>4, <1>5 DEF TrainingInv

LEMMA LaunchInv == ASSUME TrainingInv, Launch PROVE TrainingInv'
<1> USE DEF TrainingInv
<1>1. /\ run' = run + 1 /\ phase' = "epoch" /\ epoch' = 1 /\ done' = 0 /\ total' = 0
      /\ best' = Inf /\ weights' = "finite" /\ clip' = 0 /\ sums' = <<>>
      /\ trainer' = trainer /\ file' = file /\ held' = held /\ onnx' = onnx
      /\ args' \in OptionsOf(trainer) /\ run \in Nat /\ trainer \in Trainers
  BY DEF Launch, exportVars, TypeOK
<1>2. args'.epochs \in Nat \ {0} /\ args'.batches \in Nat \ {0}
  BY <1>1, OptionsFacts
<1>3. TypeOK'
  <2>1. Whole' = Whole
    BY <1>1 DEF Whole
  <2>2. epoch' \in 0 .. args'.epochs /\ done' \in 0 .. args'.batches
    BY <1>1, <1>2
  <2>3. sums' \in Seq(Nat \cup {NaN})
    BY <1>1
  <2> QED BY <1>1, <2>1, <2>2, <2>3 DEF TypeOK, Phases
<1>4. Counters' /\ BestKept' /\ Stopped'
  <2>1. Len(<<>>) = 0 /\ DOMAIN <<>> = {}
    OBVIOUS
  <2> QED BY <1>1, <2>1 DEF Counters, BestKept, AllNaN, Stopped
<1>5. Spoilt' /\ SpoiltStays' /\ Exported'
  <2>1. \A c \in {file, held, onnx} : c.state = "whole" => c.run \in Nat
    BY DEF TypeOK, Whole, Absent, Torn
  <2>2. Spoilt' /\ (file.state = "whole" => file.run # run')
    BY <1>1, <2>1 DEF Spoilt
  <2> QED BY <1>1, <2>2 DEF SpoiltStays, Exported
<1> QED BY <1>3, <1>4, <1>5

LEMMA BatchInv ==
  ASSUME TrainingInv, NEW c \in Clips[trainer], NEW b, Batch(c, b)
  PROVE  TrainingInv'
<1> USE DEF TrainingInv
<1>0. PICK l \in Losses \cup {NaN}, w \in {"finite", "nan"} :
        /\ weights = "nan" => l = NaN
        /\ l = NaN => w = "nan"
        /\ total' = Add(total, l) /\ weights' = w
  BY DEF Batch
<1>1. /\ phase = "epoch" /\ done < args.batches
      /\ weights = "nan" => l = NaN
      /\ l = NaN => w = "nan"
      /\ clip' = c /\ total' = Add(total, l) /\ done' = done + 1 /\ weights' = w
      /\ trainer' = trainer /\ args' = args /\ phase' = phase /\ epoch' = epoch
      /\ best' = best /\ sums' = sums /\ file' = file /\ held' = held /\ onnx' = onnx
      /\ run' = run
  BY <1>0 DEF Batch, exportVars
<1>2. Takes(c, b)
  BY DEF Batch
<1>3. trainer \notin {"nres", "lpcnet"}
  BY <1>2, NothingTakes
<1>4. l \in Nat \cup {NaN} /\ total \in Nat \cup {NaN}
  BY TrainingAssumption DEF TypeOK
<1>5. Add(total, l) \in Nat \cup {NaN} /\ (l = NaN => Add(total, l) = NaN)
      /\ (total = NaN => Add(total, l) = NaN)
  BY <1>4 DEF Add
<1>6. args.batches \in Nat /\ done \in Nat
  BY OptionsFacts DEF TypeOK
<1>7. TypeOK'
  <2>1. Whole' = Whole
    BY <1>1 DEF Whole
  <2>2. done' \in 0 .. args.batches
    BY <1>1, <1>6
  <2>3. clip' \in Clips[trainer] \cup {0}
    BY <1>1
  <2> QED BY <1>1, <1>5, <2>1, <2>2, <2>3 DEF TypeOK
<1>8. Counters' /\ Stopped'
  BY <1>1, <1>3, <1>6 DEF Counters, Stopped
<1>9. BestKept'
  <2>1. \A i : Kept(i) => Kept(i)'
    BY <1>1 DEF Kept
  <2> QED BY <1>1, <2>1 DEF BestKept
<1>10. Spoilt' /\ Exported'
  BY <1>1 DEF Spoilt, Exported
<1>11. SpoiltStays'
  <2>1. weights = "nan" => weights' = "nan" /\ total' = NaN
    BY <1>1, <1>5
  <2> QED BY <1>1, <2>1 DEF SpoiltStays
<1> QED BY <1>7, <1>8, <1>9, <1>10, <1>11

\* A run that stops short keeps what there is.
LEMMA FailedInv ==
  ASSUME TrainingInv, phase \in {"epoch", "saving"}, phase' = "failed",
         clip' \in Clips[trainer] \cup {0},
         UNCHANGED <<trainer, args, epoch, done, total, best, weights, sums, file,
                     exportVars, run>>
  PROVE  TrainingInv'
<1> USE DEF TrainingInv
<1>1. /\ trainer' = trainer /\ args' = args /\ epoch' = epoch /\ done' = done
      /\ total' = total /\ best' = best /\ weights' = weights /\ sums' = sums
      /\ file' = file /\ held' = held /\ onnx' = onnx /\ run' = run
  BY DEF exportVars
<1>2. TypeOK'
  <2>1. Whole' = Whole
    BY <1>1 DEF Whole
  <2> QED BY <1>1, <2>1 DEF TypeOK, Phases
<1>3. Counters' /\ Stopped' /\ Spoilt' /\ Exported' /\ SpoiltStays'
  BY <1>1 DEF Counters, Stopped, Spoilt, Exported, SpoiltStays
<1>4. BestKept'
  <2>1. \A i : Kept(i) => Kept(i)'
    BY <1>1 DEF Kept
  <2> QED BY <1>1, <2>1 DEF BestKept
<1> QED BY <1>2, <1>3, <1>4

LEMMA ProceedFacts ==
  ASSUME TypeOK, epoch >= 1, Proceed
  PROVE  /\ phase' \in {"epoch", "done"}
         /\ phase' = "epoch" => epoch' = epoch + 1 /\ done' = 0 /\ total' = 0
         /\ epoch' \in 0 .. args.epochs /\ done' \in 0 .. args.batches
         /\ total' \in Nat \cup {NaN}
<1>1. args.batches \in Nat /\ args.epochs \in Nat /\ epoch \in Nat
  BY OptionsFacts DEF TypeOK
<1> QED BY <1>1 DEF Proceed, TypeOK

LEMMA EpochEndsInv == ASSUME TrainingInv, EpochEnds PROVE TrainingInv'
<1> USE DEF TrainingInv
<1>1. /\ phase = "epoch" /\ done = args.batches /\ sums' = Append(sums, total)
      /\ trainer' = trainer /\ args' = args /\ weights' = weights /\ clip' = clip
      /\ held' = held /\ onnx' = onnx /\ run' = run
  BY DEF EpochEnds, exportVars
<1>2. PICK n \in Nat : Len(sums) = n
  BY DEF TypeOK
<1>3. sums \in Seq(Loss) /\ total \in Loss
  BY DEF TypeOK, Loss
<1>4. /\ sums' \in Seq(Loss) /\ Len(sums') = n + 1
      /\ DOMAIN sums = 1 .. n /\ DOMAIN sums' = 1 .. n + 1
      /\ sums'[n + 1] = total /\ \A i \in 1 .. n : sums'[i] = sums[i]
  BY <1>1, <1>2, <1>3, AppendLoss
<1>5. done > 0 /\ done # 0 /\ epoch = n + 1 /\ epoch >= 1
  BY <1>1, <1>2, OptionsFacts DEF TypeOK, Counters
<1>6. trainer \notin {"nres", "lpcnet"}
  BY <1>5 DEF Stopped
<1>7. Whole' = Whole
  BY <1>1 DEF Whole
<1>8. best \in Nat \cup {Inf}
  BY DEF TypeOK
<1>9. CASE Less(total, best)
  <2>1. /\ best' = total /\ phase' = "saving" /\ file' = Torn
        /\ epoch' = epoch /\ done' = done /\ total' = total
    BY <1>9 DEF EpochEnds
  <2>2. total \in Nat /\ total # NaN /\ total # Inf
    BY <1>3, <1>9 DEF Less, Loss, NaN, Inf
  <2>3. TypeOK'
    BY <1>1, <1>4, <1>7, <2>1, <2>2 DEF TypeOK, Phases, Loss
  <2>4. Counters' /\ Stopped'
    BY <1>1, <1>4, <1>5, <1>6, <2>1, <2>2 DEF Counters, Stopped
  <2>5. Spoilt' /\ Exported' /\ SpoiltStays'
    BY <1>1, <2>1 DEF Spoilt, Exported, SpoiltStays, Torn
  <2>6. LeastOf(sums', n + 1)
    <3>1. CASE best = Inf
      BY <1>1, <1>2, <1>3, <2>2, <3>1, LeastAppend DEF BestKept
    <3>2. CASE best # Inf
      <4>1. PICK i \in DOMAIN sums : LeastOf(sums, i) /\ sums[i] = best
        BY <3>2 DEF BestKept
      <4>2. total < sums[i]
        BY <1>9, <3>2, <4>1 DEF Less
      <4> QED BY <1>1, <1>2, <1>3, <2>2, <4>1, <4>2, LeastAppend
    <3> QED BY <3>1, <3>2
  <2>7. BestKept'
    <3>1. Kept(n + 1)'
      BY <1>5, <2>1 DEF Kept
    <3>2. n + 1 \in DOMAIN sums'
      BY <1>4
    <3> QED BY <1>4, <2>1, <2>2, <2>6, <3>1, <3>2 DEF BestKept
  <2> QED BY <2>3, <2>4, <2>5, <2>7
<1>10. CASE ~Less(total, best)
  <2>1. Proceed /\ best' = best /\ file' = file
    BY <1>10 DEF EpochEnds
  <2>2. /\ phase' \in {"epoch", "done"}
        /\ phase' = "epoch" => epoch' = epoch + 1 /\ done' = 0 /\ total' = 0
        /\ epoch' \in 0 .. args.epochs /\ done' \in 0 .. args.batches
        /\ total' \in Nat \cup {NaN}
    BY <1>5, <2>1, ProceedFacts
  <2>3. TypeOK'
    BY <1>1, <1>4, <1>7, <2>1, <2>2 DEF TypeOK, Phases, Loss
  <2>4. Counters' /\ Stopped'
    BY <1>4, <1>1, <1>5, <1>6, <2>2 DEF Counters, Stopped
  <2>5. Spoilt' /\ Exported'
    BY <1>1, <2>1 DEF Spoilt, Exported
  <2>6. SpoiltStays'
    <3> SUFFICES ASSUME file.state = "whole", file.run = run
                 PROVE  /\ file.epoch <= Len(sums')
                        /\ file.weights = "nan" =>
                             /\ weights = "nan"
                             /\ phase' = "epoch" /\ done' > 0 => total' = NaN
                             /\ \A i \in DOMAIN sums' : i > file.epoch => sums'[i] = NaN
      BY <1>1, <2>1 DEF SpoiltStays
    <3>1. file.epoch \in Nat /\ file.epoch <= n
      BY <1>2 DEF SpoiltStays, TypeOK, Whole, Absent, Torn
    <3>2. file.weights = "nan" => total = NaN /\ weights = "nan"
      BY <1>1, <1>5 DEF SpoiltStays
    <3>3. \A i \in 1 .. n + 1 : i \in 1 .. n \/ i = n + 1
      OBVIOUS
    <3>4. ASSUME file.weights = "nan", NEW i \in DOMAIN sums', i > file.epoch
          PROVE  sums'[i] = NaN
      BY <1>4, <3>2, <3>3, <3>4 DEF SpoiltStays
    <3>5. phase' = "epoch" => ~(done' > 0)
      BY <2>2
    <3>6. file.epoch <= Len(sums')
      BY <1>4, <3>1
    <3> QED BY <3>2, <3>4, <3>5, <3>6
  <2>7. BestKept'
    <3>1. CASE best = Inf
      <4>1. total = NaN
        BY <1>10, <3>1 DEF Less
      <4>2. AllNaN(sums')
        BY <1>1, <1>2, <1>3, <3>1, <4>1, LeastAppend DEF BestKept
      <4> QED BY <2>1, <3>1, <4>2 DEF BestKept
    <3>2. CASE best # Inf
      <4>1. PICK i \in DOMAIN sums : LeastOf(sums, i) /\ sums[i] = best /\ Kept(i)
        BY <3>2 DEF BestKept
      <4>2. total = NaN \/ sums[i] <= total
        BY <1>3, <1>8, <1>10, <3>2, <4>1 DEF Less, Loss
      <4>3. LeastOf(sums', i) /\ sums'[i] = sums[i]
        BY <1>1, <1>2, <1>3, <4>1, <4>2, LeastAppend
      <4>4. Kept(i)'
        BY <1>1, <2>1, <2>2, <4>1 DEF Kept
      <4>5. i \in DOMAIN sums'
        BY <4>3 DEF LeastOf
      <4> QED BY <2>1, <3>2, <4>1, <4>3, <4>4, <4>5 DEF BestKept
    <3> QED BY <3>1, <3>2
  <2> QED BY <2>3, <2>4, <2>5, <2>6, <2>7
<1> QED BY <1>9, <1>10

LEMMA SavedInv == ASSUME TrainingInv, Saved PROVE TrainingInv'
<1> USE DEF TrainingInv
<1>1. /\ phase = "saving" /\ file' = Checkpoint /\ Proceed
      /\ trainer' = trainer /\ args' = args /\ best' = best /\ weights' = weights
      /\ clip' = clip /\ sums' = sums /\ held' = held /\ onnx' = onnx /\ run' = run
  BY DEF Saved, exportVars
<1>2. /\ epoch = Len(sums) /\ total = best /\ best # Inf /\ best \in Nat
      /\ run \in Nat /\ epoch \in Nat
  BY <1>1, OptionsFacts DEF Counters, TypeOK
<1>3. PICK i \in DOMAIN sums : LeastOf(sums, i) /\ sums[i] = best /\ Kept(i)
  BY <1>2 DEF BestKept
<1>4. i = epoch /\ epoch >= 1 /\ sums \in Seq(Loss)
  BY <1>1, <1>3 DEF Kept, TypeOK, Loss
<1>5. /\ phase' \in {"epoch", "done"}
      /\ phase' = "epoch" => epoch' = epoch + 1 /\ done' = 0 /\ total' = 0
      /\ epoch' \in 0 .. args.epochs /\ done' \in 0 .. args.batches
      /\ total' \in Nat \cup {NaN}
  BY <1>1, <1>4, ProceedFacts
<1>6. /\ file'.state = "whole" /\ file'.run = run /\ file'.epoch = epoch
      /\ file'.loss = best /\ file'.weights = weights
  BY <1>1, <1>2 DEF Checkpoint
<1>7. file' \in Whole
  <2>1. args.model \in { a.model : a \in OptionsOf(trainer) }
    BY DEF TypeOK
  <2> QED BY <1>1, <1>2, <2>1 DEF Checkpoint, Whole, TypeOK
<1>8. TypeOK'
  <2>1. Whole' = Whole
    BY <1>1 DEF Whole
  <2> QED BY <1>1, <1>5, <1>7, <2>1 DEF TypeOK, Phases
<1>9. trainer \notin {"nres", "lpcnet"}
  BY <1>1, <1>3, <1>4 DEF Stopped, Kept, Torn, Absent
<1>10. Counters' /\ Stopped' /\ Exported'
  BY <1>1, <1>2, <1>5, <1>9 DEF Counters, Stopped, Exported
<1>11. Spoilt'
  BY <1>1, <1>2, <1>6 DEF Spoilt, NaN
<1>12. SpoiltStays'
  <2>1. \A j \in DOMAIN sums : ~(j > epoch)
    BY <1>2, <1>4
  <2>2. phase' = "epoch" => ~(done' > 0)
    BY <1>5
  <2> QED BY <1>1, <1>2, <1>6, <2>1, <2>2 DEF SpoiltStays
<1>13. BestKept'
  <2>1. Kept(i)'
    BY <1>1, <1>4, <1>5, <1>6 DEF Kept
  <2> QED BY <1>1, <1>2, <1>3, <2>1 DEF BestKept
<1> QED BY <1>8, <1>10, <1>11, <1>12, <1>13

LEMMA ExportsInv == ASSUME TrainingInv, Load \/ Export PROVE TrainingInv'
<1> USE DEF TrainingInv
<1>1. /\ trainer' = trainer /\ args' = args /\ phase' = phase /\ epoch' = epoch
      /\ done' = done /\ total' = total /\ best' = best /\ weights' = weights
      /\ clip' = clip /\ sums' = sums /\ file' = file /\ run' = run
  BY DEF Load, Export, loopVars
<1>2. Whole' = Whole
  BY <1>1 DEF Whole
<1>3. Counters' /\ SpoiltStays'
  BY <1>1 DEF Counters, SpoiltStays
<1>4. BestKept'
  <2>1. \A i : Kept(i) => Kept(i)'
    BY <1>1 DEF Kept
  <2> QED BY <1>1, <2>1 DEF BestKept
<1>5. Absent.state # "whole"
  BY DEF Absent
<1>6. CASE Load
  <2>1. held' = file /\ onnx' = onnx /\ file.state = "whole"
    BY <1>6 DEF Load
  <2>2. TypeOK'
    BY <1>1, <1>2, <2>1 DEF TypeOK, Torn
  <2>3. Spoilt' /\ Exported' /\ Stopped'
    BY <1>1, <1>5, <2>1 DEF Spoilt, Exported, Stopped
  <2> QED BY <1>3, <1>4, <2>2, <2>3
<1>7. CASE Export
  <2>1. /\ held.state = "whole" /\ held' = Absent
        /\ onnx' = IF Exports(held.model) THEN held ELSE onnx
    BY <1>7 DEF Export
  <2>2. trainer \notin {"nres", "lpcnet"}
    BY <1>5, <2>1 DEF Stopped
  <2>3. trainer \in {"nres", "lpcnet", "separator", "rnnoise"}
    BY TrainingAssumption DEF TypeOK
  <2>4. Exports(held.model) => trainer = "separator" /\ held.model[1] = 4
    <3>1. CASE trainer = "separator"
      BY <3>1 DEF Exports, SeparatorExport
    <3>2. CASE trainer = "rnnoise"
      BY <3>2 DEF Exports
    <3> QED BY <2>2, <2>3, <3>1, <3>2
  <2>5. TypeOK'
    BY <1>1, <1>2, <2>1 DEF TypeOK
  <2>6. Spoilt' /\ Exported' /\ Stopped'
    BY <1>1, <1>5, <2>1, <2>2, <2>4 DEF Spoilt, Exported, Stopped
  <2> QED BY <1>3, <1>4, <2>5, <2>6
<1> QED BY <1>6, <1>7

LEMMA NextInv == TrainingInv /\ [Next]_vars => TrainingInv'
<1> SUFFICES ASSUME TrainingInv, [Next]_vars PROVE TrainingInv'
  OBVIOUS
<1>1. ASSUME NEW c \in Clips[trainer], NEW b, BatchRaises(c, b)
      PROVE  TrainingInv'
  BY <1>1, FailedInv DEF BatchRaises
<1>2. CASE Die
  BY <1>2, FailedInv DEF Die, loopVars, TrainingInv, TypeOK
<1>3. CASE UNCHANGED vars
  <2>1. /\ trainer' = trainer /\ args' = args /\ phase' = phase /\ epoch' = epoch
        /\ done' = done /\ total' = total /\ best' = best /\ weights' = weights
        /\ clip' = clip /\ sums' = sums /\ file' = file /\ run' = run
        /\ held' = held /\ onnx' = onnx
    BY <1>3 DEF vars, loopVars, exportVars
  <2>2. TypeOK'
    <3>1. Whole' = Whole
      BY <2>1 DEF Whole
    <3> QED BY <2>1, <3>1 DEF TrainingInv, TypeOK
  <2>3. BestKept'
    <3>1. \A i : Kept(i) => Kept(i)'
      BY <2>1 DEF Kept
    <3> QED BY <2>1, <3>1 DEF TrainingInv, BestKept
  <2>4. Counters' /\ Spoilt' /\ SpoiltStays' /\ Stopped' /\ Exported'
    BY <2>1 DEF TrainingInv, Counters, Spoilt, SpoiltStays, Stopped, Exported
  <2> QED BY <2>2, <2>3, <2>4 DEF TrainingInv
<1> QED BY <1>1, <1>2, <1>3, LaunchInv, BatchInv, EpochEndsInv, SavedInv, ExportsInv DEF Next, Train

-----------------------------------------------------------------------------
\* TrainingInv holds throughout.
THEOREM TrainingInvariant == Spec => []TrainingInv
<1> QED BY InitInv, NextInv, PTL DEF Spec

\* Types, with the counters within the options.
THEOREM TypeCorrect == Spec => []TypeOK
<1>1. TrainingInv => TypeOK
  BY DEF TrainingInv
<1> QED BY <1>1, TrainingInvariant, PTL

\* best.pt is the first epoch of least finite loss of the present run.
THEOREM KeepsLeastHolds == Spec => []KeepsLeast
<1>1. TrainingInv => KeepsLeast
  <2> SUFFICES ASSUME TrainingInv, NEW i \in DOMAIN sums, Least(i), phase # "saving"
               PROVE  \/ phase = "failed" /\ file = Torn
                      \/ /\ file.state = "whole"
                         /\ file.run = run /\ file.epoch = i /\ file.loss = sums[i]
    BY DEF KeepsLeast, Epochs
  <2>1. LeastOf(sums, i)
    BY DEF Least, LeastOf, Epochs
  <2>2. ~AllNaN(sums)
    BY <2>1 DEF AllNaN, LeastOf
  <2>3. PICK j \in DOMAIN sums : LeastOf(sums, j) /\ sums[j] = best /\ Kept(j)
    BY <2>2 DEF TrainingInv, BestKept
  <2>4. sums \in Seq(Loss)
    BY DEF TrainingInv, TypeOK, Loss
  <2>5. i = j
    BY <2>1, <2>3, <2>4, LeastUnique
  <2> QED BY <2>3, <2>5 DEF Kept
<1> QED BY <1>1, TrainingInvariant, PTL

\* A checkpoint of spoilt weights is never replaced by its run.
THEOREM SpoiltIsFinalHolds == Spec => []SpoiltIsFinal
<1>1. TrainingInv => SpoiltIsFinal
  BY DEF TrainingInv, Spoilt, SpoiltStays, SpoiltIsFinal, Epochs
<1> QED BY <1>1, TrainingInvariant, PTL

\* The NRES and PLC trainers never leave anything to export, and what is
\* exported is a separator of four speakers and a finite loss.
THEOREM OnlyDefaultSeparatorHolds == Spec => []OnlyDefaultSeparator
<1>1. TrainingInv => NothingToExport
  BY DEF TrainingInv, Stopped, NothingToExport
<1>2. TrainingInv => ExportIsDefault
  BY DEF TrainingInv, Spoilt, Exported, ExportIsDefault
<1>3. TrainingInv => OnlyDefaultSeparator
  BY <1>1, <1>2 DEF OnlyDefaultSeparator
<1> QED BY <1>3, TrainingInvariant, PTL

\* The separator's convolutions look ahead exactly if not causal, its norms
\* always.
THEOREM CausalButForNormsHolds == Spec => []CausalButForNorms
<1>1. TrainingInv => CausalButForNorms
  <2> SUFFICES ASSUME TrainingInv, trainer = "separator", clip >= 16,
                      NEW d \in {1, 2}
               PROVE  LET n == EncoderLen(clip)
                      IN  /\ (\A t \in 1 .. n : Taps(n, t, d, args.model[2]) \subseteq 1 .. t)
                               <=> (args.model[2] \/ n <= d)
                          /\ \A t \in 1 .. n : BlockReads(n, d, args.model[2])[t] = 1 .. n
    BY DEF CausalButForNorms
  <2>1. clip \in Nat
    BY TrainingAssumption DEF TrainingInv, TypeOK
  <2>2. EncoderLen(clip) \in Nat \ {0}
    BY <2>1, WholeStrides
  <2>3. args.model \in Speakers \X BOOLEAN
    BY OptionsFacts DEF TrainingInv, TypeOK
  <2>4. args.model[2] \in BOOLEAN
    BY <2>3
  <2>5. d \in Nat \ {0}
    OBVIOUS
  <2> DEFINE m == EncoderLen(clip)
             causal == args.model[2]
  <2>6. m \in Nat \ {0} /\ causal \in BOOLEAN
    BY <2>2, <2>4
  <2> HIDE DEF m, causal
  <2>7. /\ (\A t \in 1 .. m : Taps(m, t, d, causal) \subseteq 1 .. t) <=> (causal \/ m <= d)
        /\ \A t \in 1 .. m : BlockReads(m, d, causal)[t] = 1 .. m
    <3>1. (\A t \in 1 .. m : Taps(m, t, d, causal) \subseteq 1 .. t) <=> (causal \/ m <= d)
      BY ONLY <2>5, <2>6, TapsCausal
    <3>2. \A t \in 1 .. m : BlockReads(m, d, causal)[t] = 1 .. m
      BY ONLY <2>5, <2>6, BlockReadsAll
    <3> QED BY ONLY <3>1, <3>2
  <2> QED BY ONLY <2>7 DEF m, causal
<1> QED BY <1>1, TrainingInvariant, PTL

\* What the scripts' forward passes take: the separator, clips of whole strides;
\* the noise suppressor, any; the PLC network and DCCRN's own loop, none; and
\* DCCRN itself only as many frames as bins are left after its encoder.
THEOREM TrainableClipsHolds == Spec => []TrainableClips
<1>1. TrainingInv => TrainableClips
  <2> SUFFICES ASSUME TypeOK, clip # 0 PROVE TrainableClips
    BY DEF TrainingInv, TrainableClips
  <2>1. clip \in Nat /\ trainer \in {"nres", "lpcnet", "separator", "rnnoise"}
    BY TrainingAssumption DEF TypeOK
  <2>2. args \in OptionsOf(trainer)
    BY DEF TypeOK
  <2>3. CASE trainer = "separator"
    <3>1. args.model[2] \in BOOLEAN
      <4>1. args.model \in Speakers \X BOOLEAN
        BY <2>1, <2>2, <2>3, OptionsFacts DEF TypeOK
      <4> QED BY <4>1
    <3>2. SeparatorTakes(clip, 1) <=> clip >= 16 /\ clip % 8 = 0
      BY <2>1, <3>1, SeparatorTakesWhole
    <3> QED BY <2>3, <3>2 DEF TrainableClips
  <2>4. CASE trainer = "lpcnet"
    <3>1. ~Takes(clip, 1)
      BY <2>4, NothingTakes
    <3>2. ~LpcnetTakes(1)
      BY <2>4, <3>1 DEF Takes
    <3> QED BY <2>4, <3>2 DEF TrainableClips
  <2>5. CASE trainer = "rnnoise"
    <3>1. <<1, clip, N_BANDS>> # <<>>
      OBVIOUS
    <3>2. RnnoiseTakes(clip, 1)
      BY <3>1 DEF RnnoiseTakes, RNNoiseGRU, Raises
    <3> QED BY <2>5, <3>2 DEF TrainableClips
  <2>6. CASE trainer = "nres"
    <3>1. ~NresTakes(clip, 1)
      <4>1. ~Takes(clip, 1)
        BY <2>6, NothingTakes
      <4> QED BY <2>6, <4>1 DEF Takes
    <3>2. args.model \in Nat /\ args.model # 0
      BY <2>1, <2>2, <2>6, OptionsFacts DEF TypeOK
    <3>3. Frames(clip) \in Nat
      BY <2>1 DEF Frames
    <3>4. \A w \in {256, 257} :
            DCCRN(args.model, 1, Frames(clip), w) # Raises
              <=> Frames(clip) = Bins \div TwoTo(args.model) /\ w % TwoTo(args.model) = 0
      <4> DEFINE l == args.model
                 h == Frames(clip)
      <4>1. l \in Nat /\ l # 0 /\ h \in Nat
        BY <3>2, <3>3
      <4> HIDE DEF l, h
      <4>2. 256 \in Nat /\ 257 \in Nat /\ 256 # 1 /\ 257 # 1
        OBVIOUS
      <4>3. DCCRN(l, 1, h, 256) # Raises <=> h = Bins \div TwoTo(l) /\ 256 % TwoTo(l) = 0
        BY ONLY <4>1, <4>2, DCCRNTakes
      <4>4. DCCRN(l, 1, h, 257) # Raises <=> h = Bins \div TwoTo(l) /\ 257 % TwoTo(l) = 0
        BY ONLY <4>1, <4>2, DCCRNTakes
      <4> QED BY <4>3, <4>4 DEF l, h
    <3> QED BY <2>6, <3>1, <3>4 DEF TrainableClips
  <2> QED BY <2>1, <2>3, <2>4, <2>5, <2>6
<1> QED BY <1>1, TrainingInvariant, PTL
=============================================================================
