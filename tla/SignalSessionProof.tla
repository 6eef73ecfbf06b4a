------------------------- MODULE SignalSessionProof -------------------------
(***************************************************************************)
(* Proofs about SignalSession, for every pair of parties, every set of     *)
(* plaintexts, every frame size and every number of frames and calls, and  *)
(* whichever way the two sessions were bootstrapped.                       *)
(***************************************************************************)
EXTENDS SignalSession, TLAPS

\* Each ratchet counts its own calls: frames sealed, frames handed to decrypt.
RatchetsCount ==
  \A p \in Peers :
    /\ local[p]  = [root |-> SendRoot(p), idx |-> Len(wire[p])]
    /\ remote[p] = [root |-> RecvRoot(p), idx |-> Len(seen[p])]

\* Frame i is plaintext i, padded and sealed under key i of its direction.
FramesSealed ==
  \A p \in Peers :
    /\ Len(sent[p]) = Len(wire[p])
    /\ \A i \in 1..Len(wire[p]) :
         wire[p][i] = [key |-> <<SendRoot(p), i>>, padded |-> SignalPad(sent[p][i])]

\* Only frames that were sent are handed to decrypt.
SeenWereSent ==
  \A p \in Peers : \A j \in 1..Len(seen[p]) :
    seen[p][j].frame \in 1..Len(wire[Other(p)])

\* Frame numbers of an orderly transport grow at least as fast as the calls.
Spaced ==
  \A p \in Peers : InOrder(p) =>
    \A a, b \in 1..Len(seen[p]) :
      a < b => seen[p][b].frame - seen[p][a].frame >= b - a

\* And so frame numbers never fall behind the calls.
NeverBehind ==
  \A p \in Peers : InOrder(p) =>
    \A a \in 1..Len(seen[p]) : seen[p][a].frame >= a

\* The inductive invariant.
SessionInv ==
  /\ TypeOK
  /\ RatchetsCount
  /\ FramesSealed
  /\ SeenWereSent
  /\ Spaced
  /\ NeverBehind
  /\ Lockstep
  /\ OpenedText

-----------------------------------------------------------------------------
(* The padding, for every byte string. *)

\* Clip(m, n) is the first n bytes of m, or all of it.
LEMMA ClipFacts ==
  ASSUME NEW m \in Bytes, NEW n \in Nat
  PROVE  /\ Clip(m, n) \in Bytes
         /\ Len(Clip(m, n)) \in 0..n
         /\ Len(m) <= n => Clip(m, n) = m
         /\ Len(m) > n => Len(Clip(m, n)) = n
         /\ \A i \in 1..Len(Clip(m, n)) : Clip(m, n)[i] = m[i]
<1>1. CASE Len(m) <= n
  <2>1. Clip(m, n) = m
    BY <1>1 DEF Clip, Bytes
  <2> QED BY <1>1, <2>1 DEF Bytes
<1>2. CASE Len(m) > n
  <2>1. Clip(m, n) = SubSeq(m, 1, n)
    BY <1>2 DEF Clip, Bytes
  <2>2. /\ SubSeq(m, 1, n) \in Seq(Byte)
        /\ Len(SubSeq(m, 1, n)) = n
        /\ \A i \in 1..n : SubSeq(m, 1, n)[i] = m[i]
    BY <1>2 DEF Bytes
  <2> QED BY <1>2, <2>1, <2>2 DEF Bytes
<1>3. Len(m) \in Nat
  BY DEF Bytes
<1> QED BY <1>1, <1>2, <1>3

LEMMA ZerosFacts ==
  ASSUME NEW n \in Nat
  PROVE  /\ Zeros(n) \in Bytes
         /\ Len(Zeros(n)) = n
         /\ \A i \in 1..n : Zeros(n)[i] = 0
  BY DEF Zeros, Bytes, Byte

LEMMA ConcatFacts ==
  ASSUME NEW S, NEW a \in Seq(S), NEW b \in Seq(S)
  PROVE  /\ a \o b \in Seq(S)
         /\ Len(a \o b) = Len(a) + Len(b)
         /\ \A i \in 1..Len(a) : (a \o b)[i] = a[i]
<1>1. a \o b \in Seq(S)
  OBVIOUS
<1>2. Len(a \o b) = Len(a) + Len(b)
  OBVIOUS
<1>3. \A i \in 1..Len(a) : (a \o b)[i] = a[i]
  OBVIOUS
<1> QED BY <1>1, <1>2, <1>3

\* A padded plaintext has the fixed size, starts with the length and then the
\* text (session.py:72-73).
LEMMA SignalPadFacts ==
  ASSUME NEW m \in Bytes
  PROVE  LET t == Clip(m, MaxPlaintext - 1)
         IN  /\ SignalPad(m) \in Seq(Byte)
             /\ Len(SignalPad(m)) = MaxPlaintext
             /\ SignalPad(m)[1] = Len(t)
             /\ \A i \in 1..Len(t) : SignalPad(m)[i + 1] = t[i]
<1> DEFINE t == Clip(m, MaxPlaintext - 1)
           z == Zeros(MaxPlaintext - 1 - Len(t))
           h == <<Len(t)>> \o t
<1>1. t \in Seq(Byte) /\ Len(t) \in 0..(MaxPlaintext - 1)
  <2>1. MaxPlaintext - 1 \in Nat
    BY MaxPlaintextAssumption
  <2> QED BY <2>1, ClipFacts DEF Bytes
<1>2. z \in Seq(Byte) /\ Len(z) = MaxPlaintext - 1 - Len(t)
  <2> HIDE DEF t
  <2>1. MaxPlaintext - 1 - Len(t) \in Nat
    BY <1>1, MaxPlaintextAssumption
  <2> QED BY <2>1, ZerosFacts DEF Bytes
<1>3. Len(t) \in Byte
  <2>1. \A x \in 0..(MaxPlaintext - 1) : x \in Byte
    BY MaxPlaintextAssumption DEF Byte
  <2> QED BY <1>1, <2>1
<1>4. /\ h \in Seq(Byte)
      /\ Len(h) = 1 + Len(t)
      /\ h[1] = Len(t)
      /\ \A i \in 1..Len(t) : h[i + 1] = t[i]
  <2> HIDE DEF t
  <2> QED BY <1>1, <1>3
<1>5. /\ h \o z \in Seq(Byte)
      /\ Len(h \o z) = MaxPlaintext
      /\ \A i \in 1..Len(h) : (h \o z)[i] = h[i]
  <2> HIDE DEF h, z, t
  <2>1. /\ h \o z \in Seq(Byte)
        /\ Len(h \o z) = Len(h) + Len(z)
        /\ \A i \in 1..Len(h) : (h \o z)[i] = h[i]
    BY <1>2, <1>4, ConcatFacts
  <2>2. Len(h) + Len(z) = MaxPlaintext
    BY <1>1, <1>2, <1>4, MaxPlaintextAssumption
  <2> QED BY <2>1, <2>2
<1>6. SignalPad(m) = h \o z
  BY DEF SignalPad
<1> QED
  <2> HIDE DEF h, z, t
  <2>1. /\ SignalPad(m) \in Seq(Byte)
        /\ Len(SignalPad(m)) = MaxPlaintext
        /\ SignalPad(m)[1] = Len(t)
        /\ \A i \in 1..Len(t) : SignalPad(m)[i + 1] = t[i]
    BY <1>1, <1>4, <1>5, <1>6
  <2> QED BY <2>1 DEF t

\* What is sealed always has the fixed size (session.py:72-73, 78).
THEOREM SignalPadFixedSize ==
  ASSUME NEW m \in Bytes
  PROVE  SignalPad(m) \in Plain
<1>1. SignalPad(m) \in Seq(Byte) /\ Len(SignalPad(m)) = MaxPlaintext
  BY SignalPadFacts
<1> QED BY <1>1, MaxPlaintextAssumption DEF Plain

\* Unpadding returns the text, cut to the frame size, and nothing else, even
\* when the text ends with zero bytes (session.py:70-73, 94-95).
THEOREM SignalRoundTrip ==
  ASSUME NEW m \in Bytes
  PROVE  SignalUnpad(SignalPad(m)) = Clip(m, MaxPlaintext - 1)
<1> DEFINE t == Clip(m, MaxPlaintext - 1)
           s == SignalPad(m)
<1>1. t \in Seq(Byte) /\ Len(t) \in 0..(MaxPlaintext - 1)
  <2>1. MaxPlaintext - 1 \in Nat
    BY MaxPlaintextAssumption
  <2> QED BY <2>1, ClipFacts DEF Bytes
<1>2. /\ s \in Seq(Byte)
      /\ Len(s) = MaxPlaintext
      /\ s[1] = Len(t)
      /\ \A i \in 1..Len(t) : s[i + 1] = t[i]
  BY SignalPadFacts
<1> HIDE DEF t, s
<1>3. /\ SubSeq(s, 2, 1 + s[1]) \in Seq(Byte)
      /\ Len(SubSeq(s, 2, 1 + s[1])) = Len(t)
      /\ \A i \in 1..Len(t) : SubSeq(s, 2, 1 + s[1])[i] = s[i + 1]
  BY <1>1, <1>2, MaxPlaintextAssumption
<1>4. SubSeq(s, 2, 1 + s[1]) = t
  BY <1>1, <1>2, <1>3
<1> QED BY <1>4 DEF SignalUnpad, s, t

-----------------------------------------------------------------------------
LEMMA PeersFacts ==
  /\ Alice \in Peers /\ Bob \in Peers
  /\ \A p \in Peers : /\ Other(p) \in Peers
                      /\ Other(p) # p
                      /\ Other(Other(p)) = p
                      /\ SendRoot(p) \in Roots
                      /\ RecvRoot(p) \in Roots
  BY SessionAssumption DEF Peers, Other, SendRoot, RecvRoot, Roots

LEMMA AppendFacts ==
  ASSUME NEW S, NEW s \in Seq(S), NEW e \in S
  PROVE  /\ Append(s, e) \in Seq(S)
         /\ Len(Append(s, e)) = Len(s) + 1
         /\ \A i \in 1..Len(s) : Append(s, e)[i] = s[i]
         /\ Append(s, e)[Len(s) + 1] = e
         /\ DOMAIN Append(s, e) = 1..(Len(s) + 1)
         /\ DOMAIN s = 1..Len(s)
         /\ Len(s) \in Nat
  OBVIOUS

-----------------------------------------------------------------------------
\* Init establishes the inductive invariant.
LEMMA InitInv == Init => SessionInv
<1> SUFFICES ASSUME Init PROVE SessionInv
  OBVIOUS
<1> USE PeersFacts
<1>1. TypeOK
  BY DEF Init, TypeOK, Ratchet
<1>2. RatchetsCount
  BY DEF Init, RatchetsCount
<1>3. FramesSealed
  BY DEF Init, FramesSealed
<1>4. SeenWereSent /\ Spaced /\ NeverBehind
  BY DEF Init, SeenWereSent, Spaced, NeverBehind
<1>5. Lockstep /\ OpenedText
  BY DEF Init, Lockstep, OpenedText
<1> QED BY <1>1, <1>2, <1>3, <1>4, <1>5 DEF SessionInv

-----------------------------------------------------------------------------
\* What a call of encrypt does to the state, as equations.
LEMMA EncryptEffect ==
  ASSUME SessionInv, NEW p \in Peers, NEW m \in Payloads, Encrypt(p, m)
  PROVE  /\ local' = [local EXCEPT ![p] =
                        [root |-> SendRoot(p), idx |-> Len(wire[p]) + 1]]
         /\ wire' = [wire EXCEPT ![p] = Append(wire[p],
                        [key |-> <<SendRoot(p), Len(wire[p]) + 1>>,
                         padded |-> SignalPad(m)])]
         /\ sent' = [sent EXCEPT ![p] = Append(sent[p], m)]
         /\ UNCHANGED <<remote, seen, opened>>
<1>1. local[p] = [root |-> SendRoot(p), idx |-> Len(wire[p])]
  BY DEF SessionInv, RatchetsCount
<1>2. Advance(local[p]) = [root |-> SendRoot(p), idx |-> Len(wire[p]) + 1]
  BY <1>1 DEF Advance
<1>3. MessageKey(Advance(local[p])) = <<SendRoot(p), Len(wire[p]) + 1>>
  BY <1>2 DEF MessageKey
<1> QED BY <1>2, <1>3 DEF Encrypt

\* The inductive invariant survives a call of encrypt.
LEMMA EncryptInv ==
  ASSUME SessionInv, NEW p \in Peers, NEW m \in Payloads, Encrypt(p, m)
  PROVE  SessionInv'
<1> DEFINE n == Len(wire[p]) + 1
           f == [key |-> <<SendRoot(p), n>>, padded |-> SignalPad(m)]
<1>1. /\ local' = [local EXCEPT ![p] = [root |-> SendRoot(p), idx |-> n]]
      /\ wire' = [wire EXCEPT ![p] = Append(wire[p], f)]
      /\ sent' = [sent EXCEPT ![p] = Append(sent[p], m)]
      /\ UNCHANGED <<remote, seen, opened>>
  BY EncryptEffect
<1>2. /\ wire \in [Peers -> Seq(Frame)] /\ sent \in [Peers -> Seq(Payloads)]
      /\ seen \in [Peers -> Seq(Call)] /\ opened \in [Peers -> Seq(Opened)]
      /\ local \in [Peers -> Ratchet] /\ remote \in [Peers -> Ratchet]
  BY DEF SessionInv, TypeOK
<1>3. n \in Nat \ {0}
  BY <1>2
<1>4. f \in Frame
  <2>1. SignalPad(m) \in Plain
    BY SignalPadFixedSize, SessionAssumption
  <2> QED BY <2>1, <1>3, PeersFacts DEF Frame
<1> HIDE DEF f
<1>5. /\ Append(wire[p], f) \in Seq(Frame)
      /\ Len(Append(wire[p], f)) = n
      /\ \A i \in 1..Len(wire[p]) : Append(wire[p], f)[i] = wire[p][i]
      /\ Append(wire[p], f)[n] = f
  BY <1>2, <1>4, AppendFacts
<1>6. /\ Append(sent[p], m) \in Seq(Payloads)
      /\ Len(Append(sent[p], m)) = n
      /\ \A i \in 1..Len(wire[p]) : Append(sent[p], m)[i] = sent[p][i]
      /\ Append(sent[p], m)[n] = m
  BY <1>2, AppendFacts DEF SessionInv, FramesSealed
<1>7. TypeOK'
  BY <1>1, <1>2, <1>3, <1>5, <1>6, PeersFacts DEF TypeOK, Ratchet
<1>8. RatchetsCount'
  BY <1>1, <1>2, <1>5 DEF SessionInv, RatchetsCount
<1>9. FramesSealed'
  <2> SUFFICES ASSUME NEW q \in Peers
               PROVE  /\ Len(sent'[q]) = Len(wire'[q])
                      /\ \A i \in 1..Len(wire'[q]) :
                           wire'[q][i] = [key |-> <<SendRoot(q), i>>,
                                          padded |-> SignalPad(sent'[q][i])]
    BY DEF FramesSealed
  <2>1. CASE q # p
    BY <2>1, <1>1, <1>2 DEF SessionInv, FramesSealed
  <2>2. CASE q = p
    <3>1. wire'[p] = Append(wire[p], f) /\ sent'[p] = Append(sent[p], m)
      BY <1>1, <1>2
    <3>2. \A i \in 1..n : i \in 1..Len(wire[p]) \/ i = n
      BY <1>2
    <3>3. Len(sent'[p]) = n /\ Len(wire'[p]) = n
      BY <3>1, <1>5, <1>6
    <3>4. ASSUME NEW i \in 1..Len(wire[p])
          PROVE  wire'[p][i] = [key |-> <<SendRoot(p), i>>, padded |-> SignalPad(sent'[p][i])]
      BY <3>1, <1>5, <1>6 DEF SessionInv, FramesSealed
    <3>5. wire'[p][n] = [key |-> <<SendRoot(p), n>>, padded |-> SignalPad(sent'[p][n])]
      BY <3>1, <1>5, <1>6 DEF f
    <3> QED BY ONLY <2>2, <3>2, <3>3, <3>4, <3>5
  <2> QED BY <2>1, <2>2
<1>10. SeenWereSent'
  <2>1. \A q \in Peers : Len(wire'[q]) \in Nat /\ Len(wire[q]) \in Nat
                          /\ Len(wire'[q]) >= Len(wire[q])
    BY <1>1, <1>2, <1>5
  <2>2. \A q \in Peers : \A j \in 1..Len(seen[q]) :
           /\ seen[q][j].frame \in Nat
           /\ seen[q][j].frame \in 1..Len(wire[Other(q)])
    <3> TAKE q \in Peers
    <3> TAKE j \in 1..Len(seen[q])
    <3>1. seen[q][j].frame \in 1..Len(wire[Other(q)])
      BY DEF SessionInv, SeenWereSent
    <3>2. \A k : \A i \in 1..k : i \in Nat
      OBVIOUS
    <3> QED BY <3>1, <3>2
  <2> QED BY <2>1, <2>2, <1>1, PeersFacts DEF SeenWereSent
<1>11. Spaced' /\ NeverBehind' /\ Lockstep'
  <2>1. seen' = seen /\ opened' = opened
    BY <1>1
  <2>2. Spaced' /\ NeverBehind'
    BY <2>1 DEF SessionInv, Spaced, NeverBehind, InOrder
  <2>3. Lockstep'
    <3>1. SUFFICES ASSUME NEW q \in Peers
                   PROVE  {opened[q][k].frame : k \in DOMAIN opened[q]}
                            = {j \in DOMAIN seen[q] :
                                 Paired(q) /\ seen[q][j] = [frame |-> j, intact |-> TRUE]}
      BY <2>1 DEF Lockstep, Paired
    <3> QED BY DEF SessionInv, Lockstep
  <2> QED BY <2>2, <2>3
<1>12. OpenedText'
  <2> SUFFICES ASSUME NEW q \in Peers, NEW k \in DOMAIN opened[q]
               PROVE  LET o == opened[q][k]
                      IN  /\ o.frame \in DOMAIN sent'[Other(q)]
                          /\ o.text = Clip(sent'[Other(q)][o.frame], MaxPlaintext - 1)
    BY <1>1 DEF OpenedText
  <2>1. LET o == opened[q][k]
        IN  /\ o.frame \in DOMAIN sent[Other(q)]
            /\ o.text = Clip(sent[Other(q)][o.frame], MaxPlaintext - 1)
    BY DEF SessionInv, OpenedText
  <2>2. \A r \in Peers : \A i \in DOMAIN sent[r] :
           i \in DOMAIN sent'[r] /\ sent'[r][i] = sent[r][i]
    <3>1. /\ DOMAIN Append(sent[p], m) = 1..(Len(sent[p]) + 1)
          /\ DOMAIN sent[p] = 1..Len(sent[p])
          /\ \A i \in 1..Len(sent[p]) : Append(sent[p], m)[i] = sent[p][i]
          /\ Len(sent[p]) \in Nat
      BY <1>2, AppendFacts
    <3> QED BY <3>1, <1>1, <1>2
  <2> QED BY <2>1, <2>2, PeersFacts
<1> QED
  BY <1>7, <1>8, <1>9, <1>10, <1>11, <1>12 DEF SessionInv

-----------------------------------------------------------------------------
\* The call of decrypt that p is about to make opens frame i.
InTurn(p, i, intact) == intact /\ Paired(p) /\ i = Len(seen[p]) + 1

\* decrypt opens frame i exactly when the frame is undamaged, i is the number
\* of the call and the two chains are the same.
LEMMA OpensInTurn ==
  ASSUME SessionInv, NEW p \in Peers, NEW i \in DOMAIN wire[Other(p)],
         NEW intact \in BOOLEAN
  PROVE  LET f == wire[Other(p)][i]
         IN  /\ Opens(Advance(remote[p]), f, intact) <=> InTurn(p, i, intact)
             /\ SignalUnpad(f.padded) = Clip(sent[Other(p)][i], MaxPlaintext - 1)
<1> DEFINE n == Len(seen[p]) + 1
           q == Other(p)
           r == Advance(remote[p])
<1>1. wire \in [Peers -> Seq(Frame)] /\ sent \in [Peers -> Seq(Payloads)]
  BY DEF SessionInv, TypeOK
<1>2. q \in Peers
  BY PeersFacts
<1>3. i \in 1..Len(wire[q]) /\ Len(sent[q]) = Len(wire[q])
  BY <1>1, <1>2 DEF SessionInv, FramesSealed
<1>4. remote[p] = [root |-> RecvRoot(p), idx |-> Len(seen[p])]
  BY DEF SessionInv, RatchetsCount
<1>5. r = [root |-> RecvRoot(p), idx |-> n]
  BY <1>4 DEF Advance
<1>6. wire[q][i] = [key |-> <<SendRoot(q), i>>, padded |-> SignalPad(sent[q][i])]
  BY <1>2, <1>3 DEF SessionInv, FramesSealed
<1>7. Opens(r, wire[q][i], intact) <=> InTurn(p, i, intact)
  BY <1>5, <1>6 DEF Opens, MessageKey, Paired, InTurn
<1>8. SignalUnpad(wire[q][i].padded) = Clip(sent[q][i], MaxPlaintext - 1)
  <2>1. sent[q][i] \in Bytes
    BY <1>1, <1>2, <1>3, SessionAssumption
  <2> QED BY <2>1, <1>6, SignalRoundTrip
<1> QED BY <1>7, <1>8

\* What a call of decrypt does to the state, as equations.
LEMMA DecryptEffect ==
  ASSUME SessionInv, NEW p \in Peers, NEW i \in DOMAIN wire[Other(p)],
         NEW intact \in BOOLEAN, Decrypt(p, i, intact)
  PROVE  /\ remote' = [remote EXCEPT ![p] =
                         [root |-> RecvRoot(p), idx |-> Len(seen[p]) + 1]]
         /\ seen' = [seen EXCEPT ![p] =
                       Append(seen[p], [frame |-> i, intact |-> intact])]
         /\ InTurn(p, i, intact) =>
              opened' = [opened EXCEPT ![p] = Append(opened[p],
                [frame |-> i, text |-> Clip(sent[Other(p)][i], MaxPlaintext - 1)])]
         /\ ~InTurn(p, i, intact) => opened' = opened
         /\ UNCHANGED <<local, wire, sent>>
<1> DEFINE f == wire[Other(p)][i]
           r == Advance(remote[p])
<1>1. r = [root |-> RecvRoot(p), idx |-> Len(seen[p]) + 1]
  <2>1. remote[p] = [root |-> RecvRoot(p), idx |-> Len(seen[p])]
    BY DEF SessionInv, RatchetsCount
  <2> QED BY <2>1 DEF Advance
<1>2. Opens(r, f, intact) <=> InTurn(p, i, intact)
  BY OpensInTurn
<1>3. SignalUnpad(f.padded) = Clip(sent[Other(p)][i], MaxPlaintext - 1)
  BY OpensInTurn
<1>4. /\ remote' = [remote EXCEPT ![p] = r]
      /\ opened' = IF Opens(r, f, intact)
                   THEN [opened EXCEPT ![p] = Append(opened[p],
                          [frame |-> i, text |-> SignalUnpad(f.padded)])]
                   ELSE opened
      /\ seen' = [seen EXCEPT ![p] =
                    Append(seen[p], [frame |-> i, intact |-> intact])]
      /\ UNCHANGED <<local, wire, sent>>
  BY DEF Decrypt
<1> HIDE DEF r
<1> QED BY <1>1, <1>2, <1>3, <1>4

\* The inductive invariant survives a call of decrypt.
LEMMA DecryptInv ==
  ASSUME SessionInv, NEW p \in Peers, NEW i \in DOMAIN wire[Other(p)],
         NEW intact \in BOOLEAN, Decrypt(p, i, intact)
  PROVE  SessionInv'
<1> DEFINE n == Len(seen[p]) + 1
           c == [frame |-> i, intact |-> intact]
           t == Clip(sent[Other(p)][i], MaxPlaintext - 1)
           o == [frame |-> i, text |-> t]
           good == InTurn(p, i, intact)
<1>1. /\ remote' = [remote EXCEPT ![p] = [root |-> RecvRoot(p), idx |-> n]]
      /\ seen' = [seen EXCEPT ![p] = Append(seen[p], c)]
      /\ good => opened' = [opened EXCEPT ![p] = Append(opened[p], o)]
      /\ ~good => opened' = opened
      /\ UNCHANGED <<local, wire, sent>>
  BY DecryptEffect
<1>2. /\ wire \in [Peers -> Seq(Frame)] /\ sent \in [Peers -> Seq(Payloads)]
      /\ seen \in [Peers -> Seq(Call)] /\ opened \in [Peers -> Seq(Opened)]
      /\ local \in [Peers -> Ratchet] /\ remote \in [Peers -> Ratchet]
  BY DEF SessionInv, TypeOK
<1>3. /\ n \in Nat \ {0}
      /\ Other(p) \in Peers
      /\ i \in 1..Len(wire[Other(p)])
      /\ i \in DOMAIN sent[Other(p)]
  BY <1>2, PeersFacts DEF SessionInv, FramesSealed
<1>4. c \in Call
  BY <1>2, <1>3 DEF Call
<1>5. o \in Opened
  <2>1. sent[Other(p)][i] \in Bytes
    BY <1>2, <1>3, SessionAssumption
  <2>2. MaxPlaintext - 1 \in Nat
    BY MaxPlaintextAssumption
  <2>3. t \in Bytes
    BY <2>1, <2>2, ClipFacts
  <2>4. i \in Nat \ {0}
    BY <1>2, <1>3
  <2> QED BY <2>3, <2>4 DEF Opened
<1> HIDE DEF t
<1>6. /\ Append(seen[p], c) \in Seq(Call)
      /\ Len(Append(seen[p], c)) = n
      /\ DOMAIN Append(seen[p], c) = 1..n
      /\ DOMAIN seen[p] = 1..Len(seen[p])
      /\ \A j \in 1..Len(seen[p]) : Append(seen[p], c)[j] = seen[p][j]
      /\ Append(seen[p], c)[n] = c
  BY <1>2, <1>4, AppendFacts
<1>7. LET m == Len(opened[p]) + 1
      IN  /\ Append(opened[p], o) \in Seq(Opened)
          /\ DOMAIN Append(opened[p], o) = 1..m
          /\ DOMAIN opened[p] = 1..Len(opened[p])
          /\ \A j \in 1..Len(opened[p]) : Append(opened[p], o)[j] = opened[p][j]
          /\ Append(opened[p], o)[m] = o
          /\ Len(opened[p]) \in Nat
  BY <1>2, <1>5, AppendFacts
<1>8. seen'[p] = Append(seen[p], c) /\ \A q \in Peers : q # p => seen'[q] = seen[q]
  BY <1>1, <1>2
<1>8a. \A a \in 1..Len(seen[p]) : seen[p][a].frame \in Nat
  <2>1. \A a \in 1..Len(seen[p]) : seen[p][a] \in Call
    BY <1>2
  <2> QED BY <2>1 DEF Call
<1>9. TypeOK'
  <2>1. [root |-> RecvRoot(p), idx |-> n] \in Ratchet
    BY <1>3, PeersFacts DEF Ratchet
  <2>2. remote' \in [Peers -> Ratchet]
    BY <1>1, <1>2, <2>1
  <2>3. seen' \in [Peers -> Seq(Call)]
    BY <1>1, <1>2, <1>6
  <2>4. opened' \in [Peers -> Seq(Opened)]
    BY <1>1, <1>2, <1>7
  <2> QED BY <1>1, <1>2, <2>2, <2>3, <2>4 DEF TypeOK
<1>10. RatchetsCount'
  BY <1>1, <1>2, <1>6 DEF SessionInv, RatchetsCount
<1>11. FramesSealed'
  BY <1>1 DEF SessionInv, FramesSealed
<1>12. SeenWereSent'
  <2> SUFFICES ASSUME NEW q \in Peers, NEW j \in 1..Len(seen'[q])
               PROVE  seen'[q][j].frame \in 1..Len(wire[Other(q)])
    BY <1>1 DEF SeenWereSent
  <2>1. CASE q # p
    BY <2>1, <1>8 DEF SessionInv, SeenWereSent
  <2>2. CASE q = p /\ j \in 1..Len(seen[p])
    BY <2>2, <1>6, <1>8 DEF SessionInv, SeenWereSent
  <2>3. CASE q = p /\ j = n
    BY <2>3, <1>3, <1>6, <1>8
  <2> QED BY <2>1, <2>2, <2>3, <1>2, <1>6, <1>8
<1>13. InOrder(p)' => /\ InOrder(p)
                      /\ \A a \in 1..Len(seen[p]) : seen[p][a].frame < i
  <2> SUFFICES ASSUME InOrder(p)'
               PROVE  /\ InOrder(p)
                      /\ \A a \in 1..Len(seen[p]) : seen[p][a].frame < i
    OBVIOUS
  <2>1. \A a, b \in 1..n : a < b => seen'[p][a].frame < seen'[p][b].frame
    BY <1>6, <1>8 DEF InOrder
  <2>2. \A a \in 1..Len(seen[p]) : a \in 1..n /\ a < n
    BY <1>2
  <2>3. n \in 1..n
    BY <1>3
  <2>4. \A a \in 1..Len(seen[p]) : seen'[p][a] = seen[p][a]
    BY <1>6, <1>8
  <2>5. seen'[p][n].frame = i
    BY <1>6, <1>8
  <2> QED BY <2>1, <2>2, <2>3, <2>4, <2>5, <1>6 DEF InOrder
<1>14. \A q \in Peers : q # p => (InOrder(q)' <=> InOrder(q))
  BY <1>8 DEF InOrder
<1>15. NeverBehind'
  <2> SUFFICES ASSUME NEW q \in Peers, InOrder(q)', NEW a \in 1..Len(seen'[q])
               PROVE  seen'[q][a].frame >= a
    BY DEF NeverBehind
  <2>1. CASE q # p
    BY <2>1, <1>8, <1>14 DEF SessionInv, NeverBehind
  <2>2. CASE q = p /\ a \in 1..Len(seen[p])
    BY <2>2, <1>6, <1>8, <1>13 DEF SessionInv, NeverBehind
  <2>3. CASE q = p /\ a = n
    <3>1. i \in Nat /\ Len(seen[p]) \in Nat /\ i >= 1
      <4>1. Len(seen[p]) \in Nat
        BY <1>2
      <4>2. i \in 1..Len(wire[Other(p)])
        BY <1>3
      <4>3. \A k : \A j \in 1..k : j \in Nat /\ j >= 1
        OBVIOUS
      <4> QED BY ONLY <4>1, <4>2, <4>3
    <3>2. CASE Len(seen[p]) = 0
      <4>1. n = 1 /\ seen'[p][n].frame = i
        BY <3>1, <3>2, <1>6, <1>8
      <4> QED BY <2>3, <3>1, <4>1
    <3>3. CASE Len(seen[p]) > 0
      <4> DEFINE l == Len(seen[p])
      <4>1. InOrder(p) /\ l \in 1..Len(seen[p]) /\ seen[p][l].frame < i
        BY <2>3, <3>1, <3>3, <1>13
      <4>2. seen[p][l].frame >= l
        BY <4>1 DEF SessionInv, NeverBehind
      <4>3. seen[p][l].frame \in Nat
        BY <1>8a, <3>1, <3>3
      <4>4. i >= n
        BY <4>1, <4>2, <4>3, <3>1
      <4> QED BY <4>4, <2>3, <1>6, <1>8
    <3> QED BY <3>1, <3>2, <3>3
  <2> QED BY <2>1, <2>2, <2>3, <1>2, <1>6, <1>8
<1>16. Spaced'
  <2> SUFFICES ASSUME NEW q \in Peers, InOrder(q)',
                      NEW a \in 1..Len(seen'[q]), NEW b \in 1..Len(seen'[q]), a < b
               PROVE  seen'[q][b].frame - seen'[q][a].frame >= b - a
    BY DEF Spaced
  <2>1. CASE q # p
    BY <2>1, <1>8, <1>14 DEF SessionInv, Spaced
  <2>2. CASE q = p /\ b \in 1..Len(seen[p])
    <3>1. a \in 1..Len(seen[p])
      BY <2>2, <1>2
    <3> QED BY <2>2, <3>1, <1>6, <1>8, <1>13 DEF SessionInv, Spaced
  <2>3. CASE q = p /\ b = n
    <3> DEFINE l == Len(seen[p])
    <3>1. l \in Nat /\ a \in 1..l /\ l \in 1..l
      BY <2>3, <1>2, <1>6, <1>8
    <3>2. /\ seen[p][a].frame \in Nat /\ seen[p][l].frame \in Nat
          /\ i \in Nat /\ seen[p][l].frame < i
      BY <3>1, <1>2, <1>3, <1>13, <1>8a, <2>3
    <3>3. seen[p][l].frame - seen[p][a].frame >= l - a
      <4>1. CASE a = l
        BY <4>1, <3>1, <3>2
      <4>2. CASE a < l
        BY <4>2, <3>1, <1>13, <2>3 DEF SessionInv, Spaced
      <4> QED BY <4>1, <4>2, <3>1
    <3>4. i - seen[p][a].frame >= n - a
      BY <3>1, <3>2, <3>3
    <3>5. seen'[p][a] = seen[p][a] /\ seen'[p][n].frame = i
      BY <3>1, <1>6, <1>8
    <3> QED BY <3>4, <3>5, <2>3
  <2> QED BY <2>1, <2>2, <2>3, <1>2, <1>6, <1>8
<1>17. Lockstep'
  <2> SUFFICES ASSUME NEW q \in Peers
               PROVE  {opened'[q][k].frame : k \in DOMAIN opened'[q]}
                        = {j \in DOMAIN seen'[q] :
                             Paired(q) /\ seen'[q][j] = [frame |-> j, intact |-> TRUE]}
    BY DEF Lockstep, Paired
  <2> DEFINE Before == {opened[q][k].frame : k \in DOMAIN opened[q]}
             After  == {opened'[q][k].frame : k \in DOMAIN opened'[q]}
             Turn(s, j) == Paired(q) /\ s[j] = [frame |-> j, intact |-> TRUE]
  <2>1. Before = {j \in DOMAIN seen[q] : Turn(seen[q], j)}
    BY DEF SessionInv, Lockstep
  <2>2. CASE q # p
    <3>1. opened'[q] = opened[q]
      BY <2>2, <1>1, <1>2
    <3> QED BY <2>1, <2>2, <3>1, <1>8
  <2>3. CASE q = p
    <3>1. {j \in DOMAIN seen'[q] : Turn(seen'[q], j)}
            = Before \cup (IF good THEN {n} ELSE {})
      <4>1. \A j : j \in DOMAIN seen'[q] <=> j \in DOMAIN seen[q] \/ j = n
        BY <2>3, <1>2, <1>6, <1>8
      <4>2. \A j \in DOMAIN seen[q] : Turn(seen'[q], j) <=> Turn(seen[q], j)
        BY <2>3, <1>6, <1>8
      <4>3. Turn(seen'[q], n) <=> good
        <5>1. seen'[q][n] = c
          BY <2>3, <1>6, <1>8
        <5>2. c = [frame |-> n, intact |-> TRUE] <=> intact = TRUE /\ i = n
          OBVIOUS
        <5> QED BY <5>1, <5>2, <2>3, Zenon DEF InTurn
      <4> HIDE DEF Turn, good, Before
      <4> QED BY <4>1, <4>2, <4>3, <2>1
    <3>2. CASE good
      <4>1. opened'[q] = Append(opened[p], o)
        BY <3>2, <2>3, <1>1, <1>2
      <4>2. \A k : k \in DOMAIN opened'[q]
                    <=> k \in DOMAIN opened[q] \/ k = Len(opened[p]) + 1
        BY <4>1, <2>3, <1>7
      <4>3. \A k \in DOMAIN opened[q] : opened'[q][k] = opened[q][k]
        BY <4>1, <2>3, <1>7
      <4>4. opened'[q][Len(opened[p]) + 1].frame = n
        BY <4>1, <3>2, <1>7 DEF InTurn
      <4>5. After = Before \cup {n}
        BY <4>2, <4>3, <4>4
      <4> QED BY <4>5, <3>1, <3>2
    <3>3. CASE ~good
      BY <3>1, <3>3, <1>1
    <3> QED BY <3>2, <3>3
  <2> QED BY <2>2, <2>3
<1>18. OpenedText'
  <2> SUFFICES ASSUME NEW q \in Peers, NEW k \in DOMAIN opened'[q]
               PROVE  LET e == opened'[q][k]
                      IN  /\ e.frame \in DOMAIN sent[Other(q)]
                          /\ e.text = Clip(sent[Other(q)][e.frame], MaxPlaintext - 1)
    BY <1>1 DEF OpenedText
  <2>1. CASE k \in DOMAIN opened[q] /\ opened'[q][k] = opened[q][k]
    BY <2>1 DEF SessionInv, OpenedText
  <2>2. CASE q = p /\ opened'[q][k] = o
    BY <2>2, <1>3 DEF t
  <2>3. \/ k \in DOMAIN opened[q] /\ opened'[q][k] = opened[q][k]
        \/ q = p /\ opened'[q][k] = o
    <3>1. CASE ~good \/ q # p
      <4>1. opened'[q] = opened[q]
        BY <3>1, <1>1, <1>2
      <4> QED BY <4>1
    <3>2. CASE good /\ q = p
      <4>1. opened'[q] = Append(opened[p], o)
        BY <3>2, <1>1, <1>2
      <4> QED BY <4>1, <3>2, <1>7
    <3> QED BY <3>1, <3>2
  <2> QED BY <2>1, <2>2, <2>3
<1> QED
  BY <1>9, <1>10, <1>11, <1>12, <1>15, <1>16, <1>17, <1>18 DEF SessionInv

-----------------------------------------------------------------------------
\* The inductive invariant holds in every reachable state.
THEOREM SessionInvariant == Spec => []SessionInv
<1>1. SessionInv /\ [Next]_vars => SessionInv'
  <2> SUFFICES ASSUME SessionInv, [Next]_vars PROVE SessionInv'
    OBVIOUS
  <2>1. CASE Next
    BY <2>1, EncryptInv, DecryptInv DEF Next
  <2>2. CASE UNCHANGED vars
    <3>1. /\ local' = local /\ remote' = remote /\ wire' = wire
          /\ sent' = sent /\ seen' = seen /\ opened' = opened
      BY <2>2 DEF vars
    <3>2. TypeOK' /\ RatchetsCount' /\ FramesSealed' /\ SeenWereSent'
      BY <3>1 DEF SessionInv, TypeOK, RatchetsCount, FramesSealed, SeenWereSent
    <3>3. Spaced' /\ NeverBehind' /\ OpenedText'
      BY <3>1 DEF SessionInv, Spaced, NeverBehind, InOrder, OpenedText
    <3>4. Lockstep'
      <4> SUFFICES ASSUME NEW q \in Peers
                   PROVE  {opened[q][k].frame : k \in DOMAIN opened[q]}
                            = {j \in DOMAIN seen[q] :
                                 Paired(q) /\ seen[q][j] = [frame |-> j, intact |-> TRUE]}
        BY <3>1 DEF Lockstep, Paired
      <4> QED BY DEF SessionInv, Lockstep
    <3> QED BY <3>2, <3>3, <3>4 DEF SessionInv
  <2> QED BY <2>1, <2>2
<1> QED BY <1>1, InitInv, PTL DEF Spec

\* Type correctness: every frame on the wire has the one fixed size.
THEOREM TypeCorrect == Spec => []TypeOK
<1>1. SessionInv => TypeOK
  BY DEF SessionInv
<1> QED BY <1>1, SessionInvariant, PTL

\* decrypt returns the plaintext, exactly (session.py:67-73, 94-95).
THEOREM OpenedTextHolds == Spec => []OpenedText
<1>1. SessionInv => OpenedText
  BY DEF SessionInv
<1> QED BY <1>1, SessionInvariant, PTL

\* A frame opens exactly when it is handed over in its own turn, undamaged,
\* between paired sessions (session.py:76, 92-93).
THEOREM LockstepHolds == Spec => []Lockstep
<1>1. SessionInv => Lockstep
  BY DEF SessionInv
<1> QED BY <1>1, SessionInvariant, PTL

\* One lost frame silences the rest of the session (session.py:92).
THEOREM LossIsFinalHolds == Spec => []LossIsFinal
<1>1. SessionInv => LossIsFinal
  <2> SUFFICES ASSUME SessionInv, NEW p \in Peers, NEW j \in DOMAIN seen[p],
                      InOrder(p), seen[p][j].frame # j,
                      NEW k \in DOMAIN opened[p]
               PROVE  opened[p][k].frame < j
    BY DEF LossIsFinal
  <2> DEFINE m == opened[p][k].frame
  <2>1. /\ seen[p] \in Seq(Call)
        /\ DOMAIN seen[p] = 1..Len(seen[p])
        /\ Len(seen[p]) \in Nat
    BY DEF SessionInv, TypeOK
  <2>2. m \in DOMAIN seen[p] /\ seen[p][m] = [frame |-> m, intact |-> TRUE]
    <3>1. m \in {opened[p][l].frame : l \in DOMAIN opened[p]}
      OBVIOUS
    <3>2. {opened[p][l].frame : l \in DOMAIN opened[p]}
            = {l \in DOMAIN seen[p] :
                 Paired(p) /\ seen[p][l] = [frame |-> l, intact |-> TRUE]}
      BY DEF SessionInv, Lockstep
    <3> HIDE DEF m
    <3> QED BY <3>1, <3>2
  <2> HIDE DEF m
  <2>3. /\ m \in 1..Len(seen[p]) /\ j \in 1..Len(seen[p])
        /\ seen[p][m].frame = m
    BY <2>1, <2>2
  <2>4. seen[p][j].frame \in Nat /\ seen[p][j].frame >= j
    <3>1. seen[p][j] \in Call
      BY <2>1, <2>3
    <3> QED BY <3>1, <2>3 DEF SessionInv, NeverBehind, Call
  <2>5. ~(j < m)
    <3> SUFFICES ASSUME j < m PROVE FALSE
      OBVIOUS
    <3>1. m - seen[p][j].frame >= m - j
      BY <2>3 DEF SessionInv, Spaced
    <3> QED BY <3>1, <2>1, <2>3, <2>4
  <2>6. m # j
    BY <2>3
  <2>7. m < j
    BY <2>1, <2>3, <2>5, <2>6
  <2> QED BY <2>7 DEF m
<1> QED BY <1>1, SessionInvariant, PTL

-----------------------------------------------------------------------------
\* The frame opened last is none later than the last call of decrypt.
LEMMA LastOpenedBound ==
  ASSUME SessionInv, NEW p \in Peers
  PROVE  Len(seen[p]) + 1 > Channel!LastOpened(p)
<1>1. seen[p] \in Seq(Call) /\ opened[p] \in Seq(Opened)
  BY DEF SessionInv, TypeOK
<1>2. CASE opened[p] = <<>>
  BY <1>1, <1>2 DEF Channel!LastOpened
<1>3. CASE opened[p] # <<>>
  <2> DEFINE l == Len(opened[p])
             m == opened[p][l].frame
  <2>1. l \in DOMAIN opened[p]
    BY <1>1, <1>3
  <2>2. m \in {opened[p][k].frame : k \in DOMAIN opened[p]}
    BY <2>1
  <2>3. m \in DOMAIN seen[p]
    BY <2>2 DEF SessionInv, Lockstep
  <2>4. Channel!LastOpened(p) = m
    BY <1>3 DEF Channel!LastOpened
  <2> HIDE DEF m
  <2> QED BY <1>1, <2>3, <2>4
<1> QED BY <1>2, <1>3

\* Encrypt is a Send of the channel; a decrypt that succeeds is a Receive, and
\* one that fails leaves the channel as it is.
THEOREM ImplementsChannelHolds == Spec => ImplementsChannel
<1>1. Init => Channel!ChannelInit
  BY DEF Init, Channel!ChannelInit, Channel!Peers, Peers
<1>2. SessionInv /\ [Next]_vars => [Channel!ChannelNext]_<<sent, opened>>
  <2> SUFFICES ASSUME SessionInv, [Next]_vars
               PROVE  [Channel!ChannelNext]_<<sent, opened>>
    OBVIOUS
  <2>1. ASSUME NEW p \in Peers, NEW m \in Payloads, Encrypt(p, m)
        PROVE  Channel!ChannelNext
    <3>1. Channel!Send(p, m)
      BY <2>1, EncryptEffect DEF Channel!Send
    <3> QED BY <3>1 DEF Channel!ChannelNext, Channel!Peers, Peers
  <2>2. ASSUME NEW p \in Peers, NEW i \in DOMAIN wire[Other(p)],
               NEW intact \in BOOLEAN, Decrypt(p, i, intact)
        PROVE  [Channel!ChannelNext]_<<sent, opened>>
    <3>1. CASE InTurn(p, i, intact)
      <4>1. i \in DOMAIN sent[Other(p)]
        BY PeersFacts DEF SessionInv, TypeOK, FramesSealed
      <4>2. Channel!Receive(p, i)
        BY <2>2, <3>1, DecryptEffect, LastOpenedBound
           DEF InTurn, Channel!Receive, Channel!Clip, Clip, Channel!Other, Other
      <4> QED BY <4>1, <4>2 DEF Channel!ChannelNext, Channel!Peers, Peers,
                               Channel!Other, Other
    <3>2. CASE ~InTurn(p, i, intact)
      <4>1. opened' = opened
        BY <2>2, <3>2, OpensInTurn DEF Decrypt
      <4>2. sent' = sent
        BY <2>2 DEF Decrypt
      <4> QED BY <4>1, <4>2
    <3> QED BY <3>1, <3>2
  <2>3. CASE UNCHANGED vars
    BY <2>3 DEF vars
  <2> QED BY <2>1, <2>2, <2>3 DEF Next
<1> QED
  BY <1>1, <1>2, SessionInvariant, PTL DEF Spec, ImplementsChannel, Channel!ChannelSpec
=============================================================================
