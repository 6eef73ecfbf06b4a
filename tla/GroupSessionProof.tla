-------------------------- MODULE GroupSessionProof --------------------------
(***************************************************************************)
(* Theorems about GroupSession, for every set of sessions, ids and texts.  *)
(* The inductive invariant says that the key in use is always the key of   *)
(* the present member list, and that each frame on the wire lies below its *)
(* sender's position (epoch, then number).  That there always is such a    *)
(* key needs the order of byte strings: a finite member list can be        *)
(* sorted, and run together it is a byte string.  That the bytes give the  *)
(* list back holds for ids of one length: then the last id can be cut off  *)
(* the end, and the one before it, down to the first.                      *)
(***************************************************************************)
EXTENDS GroupSession, FiniteSetTheorems, WellFoundedInduction, TLAPS

Types ==
  /\ members \in [Sessions -> SUBSET Ids]
  /\ epoch \in [Sessions -> Nat] /\ sendSeq \in [Sessions -> Nat]
  /\ epochKey \in [Sessions -> {Joined(ids) : ids \in SUBSET Ids}]

KeyOfMembers == \A s \in Sessions : epochKey[s] = Joined(members[s])

Position == [from : Sessions, epoch : Nat, seq : Nat]

\* Position p is before the place of its sender, at epochs e and numbers q.
Past(p, e, q) ==
  \/ p.epoch < e[p.from]
  \/ p.epoch = e[p.from] /\ p.seq < q[p.from]

At(f) == [from |-> f.from, epoch |-> f.epoch, seq |-> f.seq]

\* The frames, in terms of the length n and the positions.
Numbered(n) ==
  /\ n \in Nat /\ DOMAIN wire = 1 .. n
  /\ \A i \in 1 .. n : At(wire[i]) \in Position /\ Past(At(wire[i]), epoch, sendSeq)
  /\ \A i, j \in 1 .. n : i # j => At(wire[i]) # At(wire[j])

Read ==
  \E n \in Nat :
    /\ DOMAIN opened = 1 .. n
    /\ \A k \in 1 .. n : /\ opened[k].frame \in DOMAIN wire
                         /\ wire[opened[k].frame].key = Joined(opened[k].members)

IsSeq(q) == q \in Seq({q[i] : i \in DOMAIN q})

GroupInv ==
  /\ Types
  /\ KeyOfMembers
  /\ IsSeq(wire) /\ IsSeq(opened)
  /\ \E n \in Nat : Numbered(n)
  /\ Read

-----------------------------------------------------------------------------
(* The padding, for every byte string. *)

\* Clip(m, n) is the first n bytes of m, or all of it.
LEMMA ClipFacts ==
  ASSUME NEW m \in Bytes, NEW n \in Nat
  PROVE  /\ Clip(m, n) \in Bytes
         /\ Len(Clip(m, n)) \in 0..n
         /\ Len(m) <= n => Clip(m, n) = m
         /\ Len(m) > n => Len(Clip(m, n)) = n
         /\ \A i \in 1..Len(Clip(m, n)) : Clip(m, n)[i] = m[i]
<1>1. CASE Len(m) <= n
  <2>1. Clip(m, n) = m
    BY <1>1 DEF Clip, Bytes
  <2> QED BY <1>1, <2>1 DEF Bytes
<1>2. CASE Len(m) > n
  <2>1. Clip(m, n) = SubSeq(m, 1, n)
    BY <1>2 DEF Clip, Bytes
  <2>2. /\ SubSeq(m, 1, n) \in Seq(Byte)
        /\ Len(SubSeq(m, 1, n)) = n
        /\ \A i \in 1..n : SubSeq(m, 1, n)[i] = m[i]
    BY <1>2 DEF Bytes
  <2> QED BY <1>2, <2>1, <2>2 DEF Bytes
<1>3. Len(m) \in Nat
  BY DEF Bytes
<1> QED BY <1>1, <1>2, <1>3

LEMMA ZerosFacts ==
  ASSUME NEW n \in Nat
  PROVE  /\ Zeros(n) \in Bytes
         /\ Len(Zeros(n)) = n
         /\ \A i \in 1..n : Zeros(n)[i] = 0
  BY DEF Zeros, Bytes, Byte

LEMMA ConcatFacts ==
  ASSUME NEW S, NEW a \in Seq(S), NEW b \in Seq(S)
  PROVE  /\ a \o b \in Seq(S)
         /\ Len(a \o b) = Len(a) + Len(b)
         /\ \A i \in 1..Len(a) : (a \o b)[i] = a[i]
<1>1. a \o b \in Seq(S)
  OBVIOUS
<1>2. Len(a \o b) = Len(a) + Len(b)
  OBVIOUS
<1>3. \A i \in 1..Len(a) : (a \o b)[i] = a[i]
  OBVIOUS
<1> QED BY <1>1, <1>2, <1>3

LEMMA ConcatTail ==
  ASSUME NEW S, NEW a \in Seq(S), NEW b \in Seq(S), NEW i \in 1 .. Len(b)
  PROVE  (a \o b)[Len(a) + i] = b[i]
<1>1. Len(a) \in Nat /\ Len(b) \in Nat
  OBVIOUS
<1>2. Len(a) + i \in Len(a) + 1 .. Len(a) + Len(b) /\ (Len(a) + i) - Len(a) = i
  BY <1>1
<1>3. \A j \in Len(a) + 1 .. Len(a) + Len(b) : (a \o b)[j] = b[j - Len(a)]
  OBVIOUS
<1> QED BY <1>2, <1>3

\* A set of natural numbers that is not empty has a least element: the
\* library's well-foundedness of <, in a form that can be cited.
LEMMA LeastElement ==
  ASSUME NEW S \in SUBSET Nat, S # {}
  PROVE  \E x \in S : \A y \in S : x <= y
<1>1. \E R : IsWellFoundedOn(R, Nat) /\ \A x, y \in Nat : <<y, x>> \in R <=> y < x
  <2>1. \A x, y \in Nat : <<y, x>> \in OpToRel(<, Nat) <=> y < x
    BY DEF OpToRel
  <2> QED BY <2>1, NatLessThanWellFounded
<1>2. PICK R : IsWellFoundedOn(R, Nat) /\ \A x, y \in Nat : <<y, x>> \in R <=> y < x
  BY <1>1
<1>3. \E x \in S : \A y \in S : ~(<<y, x>> \in R)
  BY <1>2, WFMin
<1>4. \A x, y \in Nat : ~(<<y, x>> \in R) => x <= y
  BY <1>2
<1> QED BY ONLY <1>3, <1>4, S \in SUBSET Nat

\* What rstrip looks for is there in every byte string: the end of the
\* shortest prefix that only zeros follow.
LEMMA LastNonZeroFacts ==
  ASSUME NEW s \in Bytes, NEW k \in Nat, Len(s) = k
  PROVE  /\ LastNonZero(s) \in 0..k
         /\ LastNonZero(s) > 0 => s[LastNonZero(s)] # 0
         /\ \A i \in (LastNonZero(s) + 1)..k : s[i] = 0
<1> DEFINE S == {n \in 0..k : \A i \in (n + 1)..k : s[i] = 0}
           P(n) == (n > 0 => s[n] # 0) /\ \A i \in (n + 1)..k : s[i] = 0
<1>1. S \in SUBSET Nat /\ k \in S
  OBVIOUS
<1>2. PICK x \in S : \A y \in S : x <= y
  <2> HIDE DEF S
  <2> QED BY <1>1, LeastElement
<1>3. x \in 0..k /\ \A i \in (x + 1)..k : s[i] = 0
  OBVIOUS
<1>4. ASSUME x > 0 PROVE s[x] # 0
  <2> SUFFICES ASSUME s[x] = 0 PROVE FALSE
    OBVIOUS
  <2>1. \A i \in x..k : i = x \/ i \in (x + 1)..k
    BY <1>3
  <2>2. x - 1 \in 0..k /\ (x - 1) + 1 = x
    BY <1>3, <1>4
  <2>3. x - 1 \in S
    BY <1>3, <2>1, <2>2
  <2>4. ~(x <= x - 1)
    BY <1>3
  <2> QED BY <1>2, <2>3, <2>4
<1>5. \E n \in 0..k : P(n)
  BY <1>3, <1>4
<1>6. LastNonZero(s) = CHOOSE n \in 0..k : P(n)
  BY DEF LastNonZero
<1> HIDE DEF P
<1>7. LastNonZero(s) \in 0..k /\ P(LastNonZero(s))
  BY <1>5, <1>6
<1> QED BY <1>7 DEF P

\* A padded plaintext is the text, then zeros (group.py:82-84).
LEMMA GroupPadFacts ==
  ASSUME NEW m \in Bytes, NEW l \in Nat, l = Len(Clip(m, MaxPlaintext))
  PROVE  /\ GroupPad(m) \in Bytes /\ Len(GroupPad(m)) = MaxPlaintext
         /\ l <= MaxPlaintext /\ Clip(m, MaxPlaintext) \in Bytes
         /\ \A i \in 1..l : GroupPad(m)[i] = Clip(m, MaxPlaintext)[i]
         /\ \A i \in (l + 1)..MaxPlaintext : GroupPad(m)[i] = 0
<1> DEFINE t == Clip(m, MaxPlaintext)
           z == Zeros(MaxPlaintext - l)
<1>1. MaxPlaintext \in Nat
  BY MaxPlaintextAssumption
<1>2. t \in Seq(Byte) /\ l <= MaxPlaintext
  BY <1>1, ClipFacts DEF Bytes
<1>3. z \in Seq(Byte) /\ Len(z) = MaxPlaintext - l /\ \A i \in 1..(MaxPlaintext - l) : z[i] = 0
  <2>1. MaxPlaintext - l \in Nat
    BY <1>1, <1>2
  <2> QED BY <2>1, ZerosFacts DEF Bytes
<1>4. GroupPad(m) = t \o z
  BY DEF GroupPad
<1>5. Len(t) = l
  OBVIOUS
<1> HIDE DEF t, z
<1>6. /\ t \o z \in Seq(Byte) /\ Len(t \o z) = l + (MaxPlaintext - l)
      /\ \A i \in 1..l : (t \o z)[i] = t[i]
  BY <1>2, <1>3, <1>5, ConcatFacts
<1>7. \A i \in (l + 1)..MaxPlaintext : (t \o z)[i] = z[i - l] /\ i - l \in 1..(MaxPlaintext - l)
  BY <1>1, <1>2, <1>3, <1>5
<1>8. l + (MaxPlaintext - l) = MaxPlaintext
  BY <1>1
<1> QED BY <1>2, <1>3, <1>4, <1>6, <1>7, <1>8 DEF Bytes, t

\* What is sealed always has the fixed size (group.py:82-84, 87).
THEOREM GroupPadFixedSize ==
  ASSUME NEW m \in Bytes
  PROVE  GroupPad(m) \in Plain
<1>1. MaxPlaintext \in Nat
  BY MaxPlaintextAssumption
<1>2. Len(Clip(m, MaxPlaintext)) \in Nat
  BY <1>1, ClipFacts
<1>3. GroupPad(m) \in Seq(Byte) /\ Len(GroupPad(m)) = MaxPlaintext
  BY <1>2, GroupPadFacts DEF Bytes
<1> QED BY <1>3 DEF Plain

\* Unpadding returns the text, cut to the frame size, without its trailing
\* zero bytes: they are taken for padding (group.py:82-84, 99).
THEOREM GroupRoundTrip ==
  ASSUME NEW m \in Bytes
  PROVE  \E n \in 0..Len(Clip(m, MaxPlaintext)) :
           /\ GroupUnpad(GroupPad(m)) = SubSeq(Clip(m, MaxPlaintext), 1, n)
           /\ n > 0 => Clip(m, MaxPlaintext)[n] # 0
           /\ \A i \in (n + 1)..Len(Clip(m, MaxPlaintext)) : Clip(m, MaxPlaintext)[i] = 0
<1> DEFINE c == Clip(m, MaxPlaintext)
           p == GroupPad(m)
           n == LastNonZero(p)
<1>1. MaxPlaintext \in Nat
  BY MaxPlaintextAssumption
<1>2. PICK l \in Nat : l = Len(c)
  BY <1>1, ClipFacts
<1>3. /\ p \in Bytes /\ Len(p) = MaxPlaintext /\ l <= MaxPlaintext /\ c \in Bytes
      /\ \A i \in 1..l : p[i] = c[i]
      /\ \A i \in (l + 1)..MaxPlaintext : p[i] = 0
  BY <1>2, GroupPadFacts
<1> HIDE DEF c, p
<1>4. /\ n \in 0..MaxPlaintext /\ (n > 0 => p[n] # 0)
      /\ \A i \in (n + 1)..MaxPlaintext : p[i] = 0
  BY <1>1, <1>3, LastNonZeroFacts
<1> HIDE DEF n
<1>5. n \in 0..l
  <2>1. ~(n \in (l + 1)..MaxPlaintext)
    BY <1>3, <1>4
  <2> QED BY <1>1, <1>4, <2>1
<1>6. SubSeq(p, 1, n) = SubSeq(c, 1, n)
  <2>1. /\ SubSeq(p, 1, n) \in Seq(Byte) /\ Len(SubSeq(p, 1, n)) = n
        /\ \A i \in 1..n : SubSeq(p, 1, n)[i] = p[i]
    BY <1>1, <1>3, <1>4 DEF Bytes
  <2>2. /\ SubSeq(c, 1, n) \in Seq(Byte) /\ Len(SubSeq(c, 1, n)) = n
        /\ \A i \in 1..n : SubSeq(c, 1, n)[i] = c[i]
    BY <1>2, <1>3, <1>5 DEF Bytes
  <2>3. \A i \in 1..n : p[i] = c[i]
    BY <1>3, <1>5
  <2> QED BY <2>1, <2>2, <2>3
<1>7. n > 0 => c[n] # 0
  BY <1>3, <1>4, <1>5
<1>8. \A i \in (n + 1)..l : c[i] = 0
  BY <1>1, <1>3, <1>4, <1>5
<1>9. GroupUnpad(p) = SubSeq(c, 1, n)
  BY <1>6 DEF GroupUnpad, n
<1> QED BY <1>2, <1>5, <1>7, <1>8, <1>9 DEF c, p

-----------------------------------------------------------------------------
LEMMA AppendFacts ==
  ASSUME NEW q, IsSeq(q), NEW n \in Nat, DOMAIN q = 1 .. n, NEW e
  PROVE  /\ IsSeq(Append(q, e))
         /\ DOMAIN Append(q, e) = 1 .. n + 1
         /\ Append(q, e)[n + 1] = e
         /\ \A i \in 1 .. n : Append(q, e)[i] = q[i]
<1> DEFINE S == {q[i] : i \in DOMAIN q}
           T == S \cup {e}
<1>1. q \in Seq(S)
  BY DEF IsSeq
<1>2. q \in Seq(T)
  BY <1>1
<1> HIDE DEF S, T
<1>3. Len(q) = n
  BY <1>1
<1>4. /\ DOMAIN Append(q, e) = 1 .. n + 1
      /\ Append(q, e)[n + 1] = e
      /\ \A i \in 1 .. n : Append(q, e)[i] = q[i]
  BY <1>2, <1>3 DEF T
<1>5. T = {Append(q, e)[i] : i \in 1 .. n + 1}
  BY <1>4 DEF S, T
<1>6. Append(q, e) \in Seq(T)
  BY <1>2 DEF T
<1>7. IsSeq(Append(q, e))
  BY <1>4, <1>5, <1>6 DEF IsSeq
<1> QED BY <1>4, <1>7

LEMMA InitInv == Init => GroupInv
<1> SUFFICES ASSUME Init PROVE GroupInv
  OBVIOUS
<1>1. Types /\ KeyOfMembers
  BY DEF Init, Types, KeyOfMembers
<1>2. IsSeq(wire) /\ IsSeq(opened)
  BY DEF Init, IsSeq
<1>3. Numbered(0)
  BY DEF Init, Numbered
<1>4. Read
  <2>1. DOMAIN opened = 1 .. 0 /\ 0 \in Nat /\ 1 .. 0 = {}
    BY DEF Init
  <2> QED BY <2>1, Zenon DEF Read
<1> QED BY <1>1, <1>2, <1>3, <1>4 DEF GroupInv

\* A change of members leaves every frame behind.
LEMMA RotateInv ==
  ASSUME GroupInv, NEW s \in Sessions, NEW ids \in SUBSET Ids, Rotate(s, ids)
  PROVE  GroupInv'
<1>1. /\ members' = [members EXCEPT ![s] = ids]
      /\ epochKey' = [epochKey EXCEPT ![s] = Joined(ids)]
      /\ epoch' = [epoch EXCEPT ![s] = epoch[s] + 1]
      /\ sendSeq' = [sendSeq EXCEPT ![s] = 0]
      /\ wire' = wire /\ opened' = opened
  BY DEF Rotate
<1>2. Types /\ KeyOfMembers
  BY DEF GroupInv
<1>3. Types'
  BY <1>1, <1>2 DEF Types
<1>4. KeyOfMembers'
  BY <1>1, <1>2 DEF Types, KeyOfMembers
<1>5. PICK n \in Nat : Numbered(n)
  BY DEF GroupInv
<1>6. Numbered(n)'
  <2>1. \A f \in Position : Past(f, epoch, sendSeq) => Past(f, epoch', sendSeq')
    BY <1>1, <1>2 DEF Types, Position, Past
  <2>2. \A i \in 1 .. n : At(wire[i]) \in Position /\ Past(At(wire[i]), epoch', sendSeq')
    BY <1>5, <2>1 DEF Numbered
  <2> QED BY <1>1, <1>5, <2>2 DEF Numbered
<1>7. Read'
  BY <1>1 DEF GroupInv, Read
<1>8. IsSeq(wire)' /\ IsSeq(opened)'
  BY <1>1 DEF GroupInv, IsSeq
<1> QED BY <1>3, <1>4, <1>6, <1>7, <1>8 DEF GroupInv

LEMMA NextInv == GroupInv /\ [Next]_vars => GroupInv'
<1> SUFFICES ASSUME GroupInv, [Next]_vars PROVE GroupInv'
  OBVIOUS
<1>0. Types /\ KeyOfMembers /\ IsSeq(wire) /\ IsSeq(opened) /\ Read
  BY DEF GroupInv
<1>1. ASSUME NEW s \in Sessions, NEW id \in Ids, AddMember(s, id) PROVE GroupInv'
  <2>1. members[s] \cup {id} \in SUBSET Ids
    BY <1>0 DEF Types
  <2> QED BY <1>1, <2>1, RotateInv DEF AddMember
<1>2. ASSUME NEW s \in Sessions, NEW id \in Ids, RemoveMember(s, id) PROVE GroupInv'
  <2>1. members[s] \ {id} \in SUBSET Ids
    BY <1>0 DEF Types
  <2> QED BY <1>2, <2>1, RotateInv DEF RemoveMember
<1>3. ASSUME NEW s \in Sessions, NEW m \in Texts, Encrypt(s, m) PROVE GroupInv'
  <2> DEFINE f == [from |-> s, key |-> epochKey[s], epoch |-> epoch[s],
                   seq |-> sendSeq[s], padded |-> GroupPad(m)]
  <2>1. /\ wire' = Append(wire, f)
        /\ sendSeq' = [sendSeq EXCEPT ![s] = sendSeq[s] + 1]
        /\ UNCHANGED <<members, epoch, epochKey, opened>>
    BY <1>3 DEF Encrypt
  <2>2. Types' /\ KeyOfMembers'
    BY <1>0, <2>1 DEF Types, KeyOfMembers
  <2>3. PICK n \in Nat : Numbered(n)
    BY DEF GroupInv
  <2>4. At(f) = [from |-> s, epoch |-> epoch[s], seq |-> sendSeq[s]] /\ At(f) \in Position
    BY <1>0 DEF At, Types, Position
  <2> HIDE DEF f
  <2>5. /\ IsSeq(wire') /\ DOMAIN wire' = 1 .. n + 1 /\ wire'[n + 1] = f
        /\ \A i \in 1 .. n : wire'[i] = wire[i]
    BY <1>0, <2>1, <2>3, AppendFacts DEF Numbered
  <2>6. \A p \in Position : Past(p, epoch, sendSeq) => Past(p, epoch', sendSeq') /\ p # At(f)
    BY <1>0, <2>1, <2>4 DEF Types, Position, Past
  <2>7. Past(At(f), epoch', sendSeq')
    BY <1>0, <2>1, <2>4 DEF Types, Past
  <2>8. \A i \in 1 .. n : /\ At(wire[i]) \in Position
                          /\ Past(At(wire[i]), epoch', sendSeq') /\ At(wire[i]) # At(f)
    BY <2>3, <2>6 DEF Numbered
  <2>9. Numbered(n + 1)'
    <3>1. \A i \in 1 .. n + 1 : i = n + 1 \/ i \in 1 .. n
      OBVIOUS
    <3>2. \A i \in 1 .. n + 1 :
            At(wire'[i]) \in Position /\ Past(At(wire'[i]), epoch', sendSeq')
      <4> SUFFICES ASSUME NEW i \in 1 .. n + 1
                   PROVE  At(wire'[i]) \in Position /\ Past(At(wire'[i]), epoch', sendSeq')
        OBVIOUS
      <4>1. CASE i = n + 1
        BY <4>1, <2>4, <2>5, <2>7
      <4>2. CASE i \in 1 .. n
        BY <4>2, <2>5, <2>8
      <4> QED BY <3>1, <4>1, <4>2
    <3>3. \A i, j \in 1 .. n + 1 : i # j => At(wire'[i]) # At(wire'[j])
      <4> SUFFICES ASSUME NEW i \in 1 .. n + 1, NEW j \in 1 .. n + 1, i # j
                   PROVE  At(wire'[i]) # At(wire'[j])
        OBVIOUS
      <4>1. CASE i \in 1 .. n /\ j \in 1 .. n
        BY <4>1, <2>3, <2>5 DEF Numbered
      <4>2. CASE i = n + 1 /\ j \in 1 .. n
        BY <4>2, <2>5, <2>8
      <4>3. CASE j = n + 1 /\ i \in 1 .. n
        BY <4>3, <2>5, <2>8
      <4> QED BY <3>1, <4>1, <4>2, <4>3
    <3> QED BY <2>5, <3>2, <3>3 DEF Numbered
  <2>10. Read'
    <3>1. DOMAIN wire = 1 .. n /\ \A i \in DOMAIN wire : i \in DOMAIN wire' /\ wire'[i] = wire[i]
      BY <2>3, <2>5 DEF Numbered
    <3>2. opened' = opened
      BY <2>1
    <3>3. PICK k \in Nat :
            /\ DOMAIN opened = 1 .. k
            /\ \A i \in 1 .. k : /\ opened[i].frame \in DOMAIN wire
                                 /\ wire[opened[i].frame].key = Joined(opened[i].members)
      BY <1>0 DEF Read
    <3>4. \A i \in 1 .. k : /\ opened[i].frame \in DOMAIN wire'
                            /\ wire'[opened[i].frame].key = Joined(opened[i].members)
      BY <3>1, <3>3
    <3> QED BY <3>2, <3>3, <3>4 DEF Read
  <2> QED BY <1>0, <2>1, <2>2, <2>5, <2>9, <2>10 DEF GroupInv
<1>4. ASSUME NEW s \in Sessions, NEW i \in DOMAIN wire, Decrypt(s, i) PROVE GroupInv'
  <2> DEFINE o == [frame |-> i, text |-> GroupUnpad(wire[i].padded),
                   members |-> members[s]]
  <2>1. /\ wire[i].key = epochKey[s] /\ opened' = Append(opened, o)
        /\ UNCHANGED <<keyVars, wire, sent>>
    BY <1>4 DEF Decrypt
  <2>2. o.frame = i /\ wire[i].key = Joined(o.members)
    BY <1>0, <2>1 DEF KeyOfMembers
  <2> HIDE DEF o
  <2>3. Types' /\ KeyOfMembers' /\ IsSeq(wire)'
    BY <1>0, <2>1 DEF Types, KeyOfMembers, keyVars, IsSeq
  <2>4. \E n \in Nat : Numbered(n)'
    BY <2>1 DEF GroupInv, Numbered, keyVars
  <2>5. PICK n \in Nat :
          /\ DOMAIN opened = 1 .. n
          /\ \A k \in 1 .. n : /\ opened[k].frame \in DOMAIN wire
                               /\ wire[opened[k].frame].key = Joined(opened[k].members)
    BY <1>0 DEF Read
  <2>6. /\ IsSeq(opened') /\ DOMAIN opened' = 1 .. n + 1 /\ opened'[n + 1] = o
        /\ \A k \in 1 .. n : opened'[k] = opened[k]
    <3>1. opened' = Append(opened, o) /\ IsSeq(opened) /\ DOMAIN opened = 1 .. n
      BY <1>0, <2>1, <2>5
    <3> QED BY ONLY <3>1, n \in Nat, AppendFacts
  <2>7. Read'
    <3>1. \A k \in 1 .. n + 1 : k = n + 1 \/ k \in 1 .. n
      OBVIOUS
    <3>2. \A k \in 1 .. n + 1 :
             /\ opened'[k].frame \in DOMAIN wire
             /\ wire[opened'[k].frame].key = Joined(opened'[k].members)
      BY <2>2, <2>5, <2>6, <3>1
    <3> QED BY <2>1, <2>6, <3>2 DEF Read
  <2> QED BY <2>3, <2>4, <2>6, <2>7 DEF GroupInv
<1>5. CASE UNCHANGED vars
  <2>1. Types' /\ KeyOfMembers' /\ IsSeq(wire)' /\ IsSeq(opened)' /\ Read'
    BY <1>0, <1>5 DEF Types, KeyOfMembers, IsSeq, Read, vars, keyVars
  <2>2. \E n \in Nat : Numbered(n)'
    BY <1>5 DEF GroupInv, Numbered, vars, keyVars
  <2> QED BY <2>1, <2>2 DEF GroupInv
<1> QED BY <1>1, <1>2, <1>3, <1>4, <1>5 DEF Next

-----------------------------------------------------------------------------
\* GroupInv holds throughout: the key in use is always the key of the present
\* member list, and every frame lies behind its sender's position.
THEOREM GroupInvariant == Spec => []GroupInv
<1> QED BY InitInv, NextInv, PTL DEF Spec

\* No session ever numbers two frames alike under one key.
THEOREM NumbersFreshHolds == Spec => []NumbersFresh
<1>1. GroupInv => NumbersFresh
  <2> SUFFICES ASSUME GroupInv, NEW i \in DOMAIN wire, NEW j \in DOMAIN wire, i # j,
                      wire[i].from = wire[j].from
               PROVE  <<wire[i].epoch, wire[i].seq>> # <<wire[j].epoch, wire[j].seq>>
    BY DEF NumbersFresh
  <2>1. At(wire[i]) # At(wire[j])
    BY DEF GroupInv, Numbered
  <2> QED BY <2>1 DEF At
<1> QED BY <1>1, GroupInvariant, PTL

-----------------------------------------------------------------------------
\* Each frame carries its text, and what was opened is what the frame carries.
TextInv ==
  /\ IsSeq(sent) /\ DOMAIN sent = DOMAIN wire
  /\ \A i \in DOMAIN wire : sent[i].text \in Texts /\ wire[i].padded = GroupPad(sent[i].text)
  /\ \A k \in DOMAIN opened :
       /\ opened[k].frame \in DOMAIN wire
       /\ opened[k].text = GroupUnpad(wire[opened[k].frame].padded)

LEMMA InitText == Init => TextInv
  BY DEF Init, TextInv, IsSeq

LEMMA TextStep == GroupInv /\ TextInv /\ [Next]_vars => TextInv'
<1> SUFFICES ASSUME GroupInv, TextInv, [Next]_vars PROVE TextInv'
  OBVIOUS
<1>0. IsSeq(wire) /\ IsSeq(opened) /\ IsSeq(sent)
  BY DEF GroupInv, TextInv
<1>1. PICK n \in Nat : DOMAIN wire = 1 .. n
  BY DEF GroupInv, Numbered
<1>2. PICK k \in Nat : DOMAIN opened = 1 .. k
  BY DEF GroupInv, Read
<1>3. ASSUME NEW s \in Sessions, NEW ids, Rotate(s, ids) PROVE TextInv'
  BY <1>3 DEF Rotate, TextInv, IsSeq
<1>4. ASSUME NEW s \in Sessions, NEW m \in Texts, Encrypt(s, m) PROVE TextInv'
  <2> DEFINE f == [from |-> s, key |-> epochKey[s], epoch |-> epoch[s],
                   seq |-> sendSeq[s], padded |-> GroupPad(m)]
             h == [text |-> m, members |-> members[s]]
  <2>1. wire' = Append(wire, f) /\ sent' = Append(sent, h) /\ opened' = opened
    BY <1>4 DEF Encrypt
  <2>2. f.padded = GroupPad(m) /\ h.text = m
    OBVIOUS
  <2> HIDE DEF f, h
  <2>3. /\ DOMAIN wire' = 1 .. n + 1 /\ wire'[n + 1] = f
        /\ \A i \in 1 .. n : wire'[i] = wire[i]
    BY <1>0, <1>1, <2>1, AppendFacts
  <2>4. /\ IsSeq(sent') /\ DOMAIN sent' = 1 .. n + 1 /\ sent'[n + 1] = h
        /\ \A i \in 1 .. n : sent'[i] = sent[i]
    <3>1. DOMAIN sent = 1 .. n
      BY <1>1 DEF TextInv
    <3> QED BY <1>0, <2>1, <3>1, AppendFacts
  <2>5. \A i \in 1 .. n + 1 : i \in 1 .. n \/ i = n + 1
    OBVIOUS
  <2>6. \A i \in 1 .. n + 1 :
          sent'[i].text \in Texts /\ wire'[i].padded = GroupPad(sent'[i].text)
    BY <1>1, <2>2, <2>3, <2>4, <2>5 DEF TextInv
  <2>7. \A i \in 1 .. n : i \in 1 .. n + 1
    OBVIOUS
  <2>8. \A j \in DOMAIN opened' :
          /\ opened'[j].frame \in DOMAIN wire'
          /\ opened'[j].text = GroupUnpad(wire'[opened'[j].frame].padded)
    BY <1>1, <2>1, <2>3, <2>7 DEF TextInv
  <2> QED BY <2>3, <2>4, <2>6, <2>8 DEF TextInv
<1>5. ASSUME NEW s \in Sessions, NEW i \in DOMAIN wire, Decrypt(s, i) PROVE TextInv'
  <2> DEFINE o == [frame |-> i, text |-> GroupUnpad(wire[i].padded),
                   members |-> members[s]]
  <2>1. opened' = Append(opened, o) /\ wire' = wire /\ sent' = sent
    BY <1>5 DEF Decrypt
  <2>2. o.frame = i /\ o.text = GroupUnpad(wire[i].padded)
    OBVIOUS
  <2> HIDE DEF o
  <2>3. /\ DOMAIN opened' = 1 .. k + 1 /\ opened'[k + 1] = o
        /\ \A j \in 1 .. k : opened'[j] = opened[j]
    BY <1>0, <1>2, <2>1, AppendFacts
  <2>4. \A j \in 1 .. k + 1 : j \in 1 .. k \/ j = k + 1
    OBVIOUS
  <2>5. \A j \in 1 .. k + 1 :
          /\ opened'[j].frame \in DOMAIN wire
          /\ opened'[j].text = GroupUnpad(wire[opened'[j].frame].padded)
    BY <1>2, <2>2, <2>3, <2>4 DEF TextInv
  <2>6. IsSeq(sent')
    BY <1>0, <2>1 DEF IsSeq
  <2> QED BY <2>1, <2>3, <2>5, <2>6 DEF TextInv
<1>6. CASE UNCHANGED vars
  BY <1>6 DEF vars, keyVars, TextInv, IsSeq
<1> QED BY <1>3, <1>4, <1>5, <1>6 DEF Next, AddMember, RemoveMember

\* decrypt returns the text that was sealed, cut to the frame size and without
\* its trailing zero bytes.
THEOREM OpenedTextHolds == Spec => []OpenedText
<1>1. TextInv => OpenedText
  <2> SUFFICES ASSUME TextInv, NEW k \in DOMAIN opened
               PROVE  LET m == Clip(sent[opened[k].frame].text, MaxPlaintext)
                          t == opened[k].text
                      IN  /\ IsPrefix(t, m)
                          /\ t # <<>> => t[Len(t)] # 0
                          /\ \A i \in Len(t) + 1 .. Len(m) : m[i] = 0
    BY DEF OpenedText
  <2> DEFINE s == sent[opened[k].frame].text
             m == Clip(s, MaxPlaintext)
             t == opened[k].text
  <2>1. s \in Bytes /\ t = GroupUnpad(GroupPad(s))
    BY GroupAssumption DEF TextInv
  <2>2. m \in Bytes
    <3> HIDE DEF s
    <3>1. MaxPlaintext \in Nat
      BY MaxPlaintextAssumption
    <3> QED BY <2>1, <3>1, ClipFacts
  <2>3. PICK n \in 0 .. Len(m) :
          /\ t = SubSeq(m, 1, n)
          /\ n > 0 => m[n] # 0
          /\ \A i \in (n + 1) .. Len(m) : m[i] = 0
    <3> HIDE DEF s, t
    <3> QED BY <2>1, GroupRoundTrip
  <2> HIDE DEF m, t
  <2>4. Len(m) \in Nat
    BY <2>2 DEF Bytes
  <2>5. /\ t \in Seq(Byte) /\ Len(t) = n
        /\ \A i \in 1 .. n : t[i] = m[i]
    BY <2>2, <2>3, <2>4 DEF Bytes
  <2>6. IsPrefix(t, m)
    <3>1. SubSeq(t, 1, n) = t
      BY <2>3, <2>4, <2>5
    <3> QED BY <2>3, <2>4, <2>5, <3>1 DEF IsPrefix
  <2>7. t # <<>> => t[Len(t)] # 0
    <3>1. t # <<>> => n \in 1 .. n
      BY <2>3, <2>4, <2>5
    <3> QED BY <2>3, <2>5, <3>1
  <2> QED BY <2>3, <2>5, <2>6, <2>7 DEF m, t
<1> QED BY <1>1, InitText, GroupInvariant, TextStep, PTL DEF Spec

-----------------------------------------------------------------------------
(* The order of byte strings: sorted() has something to sort by. *)

\* Place k is the first where a and b differ, and there a ends or is smaller.
Differ(a, b, k) ==
  /\ k \in 1 .. Len(b) /\ k <= Len(a) + 1
  /\ \A j \in 1 .. k - 1 : a[j] = b[j]
  /\ k <= Len(a) => a[k] < b[k]

LEMMA BytesNumbers ==
  ASSUME NEW a \in Bytes
  PROVE  Len(a) \in Nat /\ \A i \in 1 .. Len(a) : a[i] \in Nat
<1>1. \A i \in 1 .. Len(a) : a[i] \in Byte
  BY DEF Bytes
<1>2. Byte \subseteq Nat
  BY DEF Byte
<1>3. Len(a) \in Nat
  BY DEF Bytes
<1> QED BY <1>1, <1>2, <1>3

LEMMA BeforePoints ==
  ASSUME NEW a \in Bytes, NEW b \in Bytes
  PROVE  Before(a, b) <=> \E k \in Nat : Differ(a, b, k)
<1>1. /\ a \in Seq(Byte) /\ b \in Seq(Byte) /\ Len(a) \in Nat /\ Len(b) \in Nat
      /\ DOMAIN a = 1 .. Len(a) /\ DOMAIN b = 1 .. Len(b)
  BY DEF Bytes
<1>2. SubSeq(a, 1, Len(a)) = a
  BY <1>1
<1>3. ASSUME IsStrictPrefix(a, b) PROVE \E k \in Nat : Differ(a, b, k)
  <2>1. Len(a) <= Len(b) /\ a = SubSeq(b, 1, Len(a)) /\ a # b
    BY <1>2, <1>3 DEF IsStrictPrefix, IsPrefix
  <2>2. \A j \in 1 .. Len(a) : SubSeq(b, 1, Len(a))[j] = b[j]
    BY <1>1, <2>1
  <2>3. Len(a) # Len(b)
    <3> SUFFICES ASSUME Len(a) = Len(b) PROVE FALSE
      OBVIOUS
    <3>1. SubSeq(b, 1, Len(b)) = b
      BY <1>1
    <3> QED BY <2>1, <3>1
  <2>4. Len(a) + 1 \in 1 .. Len(b) /\ (Len(a) + 1) - 1 = Len(a)
    <3>1. Len(a) <= Len(b)
      BY <2>1
    <3>2. \A m, n \in Nat : m <= n /\ m # n => m + 1 \in 1 .. n /\ (m + 1) - 1 = m
      OBVIOUS
    <3>3. Len(a) \in Nat /\ Len(b) \in Nat
      BY <1>1
    <3> QED BY ONLY <2>3, <3>1, <3>2, <3>3
  <2>5. \A j \in 1 .. Len(a) : a[j] = b[j]
    BY <2>1, <2>2
  <2>6. Differ(a, b, Len(a) + 1)
    BY <1>1, <2>4, <2>5 DEF Differ
  <2> QED BY <1>1, <2>6
<1>4. ASSUME NEW i \in DOMAIN a \cap DOMAIN b, a[i] < b[i], \A j \in 1 .. i - 1 : a[j] = b[j]
      PROVE  \E k \in Nat : Differ(a, b, k)
  <2>1. i \in 1 .. Len(a) /\ i \in 1 .. Len(b)
    BY <1>1
  <2>2. Differ(a, b, i)
    BY <1>1, <1>4, <2>1 DEF Differ
  <2> QED BY <1>1, <2>1, <2>2
<1>5. ASSUME NEW k \in Nat, Differ(a, b, k) PROVE Before(a, b)
  <2>1. /\ k \in 1 .. Len(b) /\ k <= Len(a) + 1
        /\ \A j \in 1 .. k - 1 : a[j] = b[j]
        /\ k <= Len(a) => a[k] < b[k]
    BY <1>5 DEF Differ
  <2>2. CASE k <= Len(a)
    <3>1. k \in DOMAIN a \cap DOMAIN b
      BY <1>1, <2>1, <2>2
    <3> QED BY <2>1, <2>2, <3>1 DEF Before
  <2>3. CASE k = Len(a) + 1
    <3>1. Len(a) < Len(b) /\ \A j \in 1 .. Len(a) : a[j] = b[j]
      BY <1>1, <2>1, <2>3
    <3>2. /\ SubSeq(b, 1, Len(a)) \in Seq(Byte) /\ Len(SubSeq(b, 1, Len(a))) = Len(a)
          /\ \A j \in 1 .. Len(a) : SubSeq(b, 1, Len(a))[j] = b[j]
      BY <1>1, <3>1
    <3>3. SubSeq(b, 1, Len(a)) = a
      BY <1>1, <3>1, <3>2
    <3>4. IsStrictPrefix(a, b)
      BY <1>1, <1>2, <3>1, <3>3 DEF IsStrictPrefix, IsPrefix
    <3> QED BY <3>4 DEF Before
  <2> QED BY <1>1, <2>1, <2>2, <2>3
<1>6. Before(a, b) => \E k \in Nat : Differ(a, b, k)
  BY <1>3, <1>4 DEF Before
<1> QED BY <1>5, <1>6

LEMMA BeforeTransitive ==
  ASSUME NEW a \in Bytes, NEW b \in Bytes, NEW c \in Bytes, Before(a, b), Before(b, c)
  PROVE  Before(a, c)
<1>1. /\ Len(a) \in Nat /\ Len(b) \in Nat /\ Len(c) \in Nat
      /\ \A i \in 1 .. Len(a) : a[i] \in Nat
      /\ \A i \in 1 .. Len(b) : b[i] \in Nat
      /\ \A i \in 1 .. Len(c) : c[i] \in Nat
  BY BytesNumbers
<1>2. PICK k \in Nat : Differ(a, b, k)
  BY BeforePoints
<1>3. PICK l \in Nat : Differ(b, c, l)
  BY BeforePoints
<1>4. /\ k \in 1 .. Len(b) /\ k <= Len(a) + 1
      /\ \A j \in 1 .. k - 1 : a[j] = b[j]
      /\ k <= Len(a) => a[k] < b[k]
  BY <1>2 DEF Differ
<1>5. /\ l \in 1 .. Len(c) /\ l <= Len(b) + 1
      /\ \A j \in 1 .. l - 1 : b[j] = c[j]
      /\ l <= Len(b) => b[l] < c[l]
  BY <1>3 DEF Differ
<1>6. CASE k <= l
  <2>1. k \in 1 .. Len(c) /\ \A j \in 1 .. k - 1 : j \in 1 .. l - 1
    BY <1>4, <1>5, <1>6
  <2>2. \A j \in 1 .. k - 1 : a[j] = c[j]
    BY <1>4, <1>5, <2>1
  <2>3. b[k] <= c[k] /\ b[k] \in Nat /\ c[k] \in Nat
    <3>1. CASE k = l
      BY <1>1, <1>4, <1>5, <2>1, <3>1
    <3>2. CASE k < l
      <4>1. k \in 1 .. l - 1
        BY <1>4, <3>2
      <4> QED BY <1>1, <1>4, <1>5, <4>1
    <3> QED BY <1>6, <3>1, <3>2
  <2>4. k <= Len(a) => a[k] < c[k]
    BY <1>1, <1>4, <2>3
  <2>5. Differ(a, c, k)
    BY <1>4, <2>1, <2>2, <2>4 DEF Differ
  <2> QED BY <2>5, BeforePoints
<1>7. CASE l < k
  <2>1. l \in 1 .. k - 1 /\ l <= Len(a) + 1 /\ l <= Len(b) /\ \A j \in 1 .. l - 1 : j \in 1 .. k - 1
    BY <1>1, <1>4, <1>5, <1>7
  <2>2. \A j \in 1 .. l - 1 : a[j] = c[j]
    BY <1>4, <1>5, <2>1
  <2>3. a[l] < c[l]
    BY <1>4, <1>5, <2>1
  <2>4. Differ(a, c, l)
    BY <1>5, <2>1, <2>2, <2>3 DEF Differ
  <2> QED BY <2>4, BeforePoints
<1> QED BY <1>6, <1>7

LEMMA BeforeTotal ==
  ASSUME NEW a \in Bytes, NEW b \in Bytes, a # b
  PROVE  Before(a, b) \/ Before(b, a)
<1>1. /\ Len(a) \in Nat /\ Len(b) \in Nat
      /\ a \in Seq(Byte) /\ b \in Seq(Byte)
      /\ \A i \in 1 .. Len(a) : a[i] \in Nat
      /\ \A i \in 1 .. Len(b) : b[i] \in Nat
  BY BytesNumbers DEF Bytes
<1> DEFINE S == {k \in Nat \ {0} : k > Len(a) \/ k > Len(b) \/ a[k] # b[k]}
<1>2. S \in SUBSET Nat /\ Len(a) + 1 \in S
  BY <1>1
<1>3. PICK k \in S : \A y \in S : k <= y
  <2> HIDE DEF S
  <2> QED BY <1>2, LeastElement
<1>4. k \in Nat \ {0} /\ (k > Len(a) \/ k > Len(b) \/ a[k] # b[k])
  OBVIOUS
<1>5. ASSUME NEW j \in 1 .. k - 1 PROVE j <= Len(a) /\ j <= Len(b) /\ a[j] = b[j]
  <2>1. j \in Nat \ {0} /\ ~(k <= j)
    BY <1>4
  <2>2. j \notin S
    BY <1>3, <2>1
  <2> QED BY <1>1, <2>1, <2>2
<1>6. k - 1 <= Len(a) /\ k - 1 <= Len(b)
  <2>1. CASE k = 1
    BY <1>1, <2>1
  <2>2. CASE k # 1
    <3>1. k - 1 \in 1 .. k - 1
      BY <1>4, <2>2
    <3> QED BY <1>5, <3>1
  <2> QED BY <2>1, <2>2
<1>7. ~(k > Len(a) /\ k > Len(b))
  <2> SUFFICES ASSUME k > Len(a), k > Len(b) PROVE FALSE
    OBVIOUS
  <2>1. Len(a) = k - 1 /\ Len(b) = k - 1
    BY <1>1, <1>4, <1>6
  <2>2. \A j \in 1 .. Len(a) : a[j] = b[j]
    BY <1>5, <2>1
  <2>3. a = b
    BY <1>1, <2>1, <2>2
  <2> QED BY <2>3
<1> HIDE DEF S
<1>8. CASE k > Len(a)
  <2>1. Differ(a, b, k)
    BY <1>1, <1>4, <1>5, <1>6, <1>7, <1>8 DEF Differ
  <2> QED BY <1>4, <2>1, BeforePoints
<1>9. CASE k > Len(b)
  <2>1. \A j \in 1 .. k - 1 : b[j] = a[j]
    BY <1>5
  <2>2. Differ(b, a, k)
    BY <1>1, <1>4, <1>6, <1>7, <1>9, <2>1 DEF Differ
  <2> QED BY <1>4, <2>2, BeforePoints
<1>10. CASE k <= Len(a) /\ k <= Len(b)
  <2>1. a[k] < b[k] \/ b[k] < a[k]
    BY <1>1, <1>4, <1>10
  <2>2. \A j \in 1 .. k - 1 : a[j] = b[j] /\ b[j] = a[j]
    BY <1>5
  <2>3. Differ(a, b, k) \/ Differ(b, a, k)
    BY <1>1, <1>4, <1>6, <1>10, <2>1, <2>2 DEF Differ
  <2> QED BY <1>4, <2>3, BeforePoints
<1> QED BY <1>1, <1>4, <1>8, <1>9, <1>10

\* A finite set of byte strings has a last one.
LEMMA HasLast ==
  ASSUME NEW S \in SUBSET Bytes, IsFiniteSet(S), S # {}
  PROVE  \E m \in S : \A x \in S : x = m \/ Before(x, m)
<1> DEFINE EndsIn(T) == \E m \in T : \A x \in T : x = m \/ Before(x, m)
           Bad == {n \in Nat : \E T \in SUBSET Bytes :
                     IsFiniteSet(T) /\ Cardinality(T) = n /\ T # {} /\ ~EndsIn(T)}
<1> SUFFICES ASSUME ~EndsIn(S) PROVE FALSE
  OBVIOUS
<1>1. Cardinality(S) \in Bad
  BY FS_CardinalityType
<1>2. PICK n \in Bad : \A y \in Bad : n <= y
  <2>1. Bad \in SUBSET Nat
    OBVIOUS
  <2> HIDE DEF Bad
  <2> QED BY <1>1, <2>1, LeastElement
<1>3. n \in Nat
  OBVIOUS
<1>4. PICK T \in SUBSET Bytes : IsFiniteSet(T) /\ Cardinality(T) = n /\ T # {} /\ ~EndsIn(T)
  OBVIOUS
<1>5. PICK x \in T : TRUE
  BY <1>4
<1>6. IsFiniteSet(T \ {x}) /\ Cardinality(T \ {x}) = n - 1 /\ T \ {x} \in SUBSET Bytes
  BY <1>4, <1>5, FS_RemoveElement
<1>7. n - 1 \in Nat /\ ~(n <= n - 1)
  BY <1>3, <1>6, FS_CardinalityType
<1>8. n - 1 \notin Bad
  BY <1>2, <1>7
<1>9. T \ {x} = {} \/ EndsIn(T \ {x})
  BY <1>6, <1>7, <1>8
<1> HIDE DEF Bad
<1>10. CASE T \ {x} = {}
  <2>1. \A y \in T : y = x
    BY <1>10
  <2> QED BY <1>4, <1>5, <2>1
<1>11. CASE EndsIn(T \ {x})
  <2>1. PICK m \in T \ {x} : \A y \in T \ {x} : y = m \/ Before(y, m)
    BY <1>11
  <2>2. m \in Bytes /\ x \in Bytes /\ m # x
    BY <1>5, <2>1
  <2>3. CASE Before(x, m)
    <3>1. \A y \in T : y = m \/ Before(y, m)
      BY <2>1, <2>3
    <3> QED BY <1>4, <2>1, <3>1
  <2>4. CASE Before(m, x)
    <3>1. \A y \in T : y = x \/ Before(y, x)
      <4> TAKE y \in T
      <4>1. CASE y # x
        <5>1. y = m \/ Before(y, m)
          BY <2>1, <4>1
        <5> QED BY <2>2, <2>4, <5>1, BeforeTransitive
      <4> QED BY <4>1
    <3> QED BY <1>4, <1>5, <3>1
  <2> QED BY <2>2, <2>3, <2>4, BeforeTotal
<1> QED BY <1>9, <1>10, <1>11

Ordered(q, n, S) ==
  q \in [1 .. n -> S] /\ \A i, j \in 1 .. n : i < j => Before(q[i], q[j])

\* A finite set of byte strings can be sorted.
LEMMA CanSort ==
  ASSUME NEW S \in SUBSET Bytes, IsFiniteSet(S)
  PROVE  \E q : Ordered(q, Cardinality(S), S)
<1> DEFINE Bad == {n \in Nat : \E T \in SUBSET Bytes :
                     IsFiniteSet(T) /\ Cardinality(T) = n /\ ~\E q : Ordered(q, n, T)}
<1> SUFFICES ASSUME ~\E q : Ordered(q, Cardinality(S), S) PROVE FALSE
  OBVIOUS
<1>1. Cardinality(S) \in Bad
  BY FS_CardinalityType
<1>2. PICK n \in Bad : \A y \in Bad : n <= y
  <2>1. Bad \in SUBSET Nat
    OBVIOUS
  <2> HIDE DEF Bad
  <2> QED BY <1>1, <2>1, LeastElement
<1>3. n \in Nat
  OBVIOUS
<1>4. PICK T \in SUBSET Bytes : IsFiniteSet(T) /\ Cardinality(T) = n /\ ~\E q : Ordered(q, n, T)
  OBVIOUS
<1>5. T # {}
  <2> SUFFICES ASSUME T = {} PROVE FALSE
    OBVIOUS
  <2>1. n = 0
    BY <1>4, FS_EmptySet
  <2>2. Ordered([i \in 1 .. 0 |-> 0], 0, T)
    BY DEF Ordered
  <2> QED BY <1>4, <2>1, <2>2
<1>6. PICK m \in T : \A x \in T : x = m \/ Before(x, m)
  BY <1>4, <1>5, HasLast
<1>7. IsFiniteSet(T \ {m}) /\ Cardinality(T \ {m}) = n - 1 /\ T \ {m} \in SUBSET Bytes
  BY <1>4, <1>6, FS_RemoveElement
<1>8. n - 1 \in Nat /\ ~(n <= n - 1)
  BY <1>3, <1>7, FS_CardinalityType
<1>9. n - 1 \notin Bad
  BY <1>2, <1>8
<1>10. PICK p : Ordered(p, n - 1, T \ {m})
  BY <1>7, <1>8, <1>9
<1> HIDE DEF Bad
<1> DEFINE q == [i \in 1 .. n |-> IF i = n THEN m ELSE p[i]]
<1>11. \A i \in 1 .. n : i = n \/ i \in 1 .. n - 1
  BY <1>3
<1>12. /\ \A i \in 1 .. n - 1 : p[i] \in T \ {m} /\ q[i] = p[i]
       /\ \A i, j \in 1 .. n - 1 : i < j => Before(p[i], p[j])
  <2>1. /\ \A i \in 1 .. n - 1 : p[i] \in T \ {m}
        /\ \A i, j \in 1 .. n - 1 : i < j => Before(p[i], p[j])
    BY <1>10 DEF Ordered
  <2>2. \A i \in 1 .. n - 1 : i \in 1 .. n /\ i # n
    BY <1>3
  <2>3. \A i \in 1 .. n - 1 : q[i] = p[i]
    BY <2>2
  <2> QED BY <2>1, <2>3
<1>13. n \in 1 .. n /\ q[n] = m
  <2>1. n \in 1 .. n
    BY <1>3, <1>8
  <2> QED BY <2>1
<1>14. q \in [1 .. n -> T]
  BY <1>6, <1>11, <1>12
<1> HIDE DEF q
<1>15. ASSUME NEW i \in 1 .. n, NEW j \in 1 .. n, i < j PROVE Before(q[i], q[j])
  <2>1. i \in 1 .. n - 1
    BY <1>3, <1>15
  <2>2. CASE j = n
    BY <1>6, <1>12, <1>13, <2>1, <2>2
  <2>3. CASE j \in 1 .. n - 1
    BY <1>12, <1>15, <2>1, <2>3
  <2> QED BY <1>11, <2>2, <2>3
<1>16. Ordered(q, n, T)
  BY <1>14, <1>15 DEF Ordered
<1> QED BY <1>4, <1>16

LEMMA SortedFacts ==
  ASSUME NEW S \in SUBSET Bytes, IsFiniteSet(S)
  PROVE  Ordered(Sorted(S), Cardinality(S), S)
<1> DEFINE n == Cardinality(S)
           P(q) == \A i, j \in 1 .. n : i < j => Before(q[i], q[j])
<1>1. \E q \in [1 .. n -> S] : P(q)
  BY CanSort DEF Ordered
<1>2. Sorted(S) = CHOOSE q \in [1 .. n -> S] : P(q)
  BY DEF Sorted
<1> HIDE DEF P
<1>3. Sorted(S) \in [1 .. n -> S] /\ P(Sorted(S))
  BY <1>1, <1>2
<1> QED BY <1>3 DEF Ordered, P

-----------------------------------------------------------------------------
(* Byte strings run together are a byte string. *)

RunUpTo(q, n, f) ==
  f = [i \in 1 .. n |-> IF i = 1 THEN q[i] ELSE f[i - 1] \o q[i]]

LEMMA RunExists ==
  ASSUME NEW q, NEW n \in Nat
  PROVE  \E f : RunUpTo(q, n, f)
<1> DEFINE Bad == {k \in Nat : ~\E f : RunUpTo(q, k, f)}
<1> SUFFICES ASSUME Bad # {} PROVE FALSE
  OBVIOUS
<1>1. PICK k \in Bad : \A y \in Bad : k <= y
  BY LeastElement
<1>2. k # 0
  <2>1. RunUpTo(q, 0, [i \in 1 .. 0 |-> 0])
    BY DEF RunUpTo
  <2> QED BY <2>1
<1>3. k \in Nat /\ k - 1 \in Nat /\ ~(k <= k - 1)
  BY <1>2
<1>4. PICK f : RunUpTo(q, k - 1, f)
  BY <1>1, <1>3
<1> DEFINE last == IF k = 1 THEN q[k] ELSE f[k - 1] \o q[k]
           g == [i \in 1 .. k |-> IF i = k THEN last ELSE f[i]]
<1>5. \A i \in 1 .. k - 1 : f[i] = IF i = 1 THEN q[i] ELSE f[i - 1] \o q[i]
  BY <1>4 DEF RunUpTo
<1>6. \A i \in 1 .. k - 1 : g[i] = f[i]
  BY <1>3
<1>7. g[k] = last
  BY <1>2, <1>3
<1>8. \A i \in 1 .. k : g[i] = IF i = 1 THEN q[i] ELSE g[i - 1] \o q[i]
  <2> TAKE i \in 1 .. k
  <2> HIDE DEF g
  <2>1. CASE i = k
    <3>1. k # 1 => k - 1 \in 1 .. k - 1
      BY <1>2, <1>3
    <3> QED BY <1>6, <1>7, <2>1, <3>1
  <2>2. CASE i # k
    <3>1. i \in 1 .. k - 1 /\ (i # 1 => i - 1 \in 1 .. k - 1)
      BY <1>3, <2>2
    <3> QED BY <1>5, <1>6, <3>1
  <2> QED BY <2>1, <2>2
<1>9. RunUpTo(q, k, g)
  <2>1. g = [i \in 1 .. k |-> g[i]]
    OBVIOUS
  <2> HIDE DEF g
  <2> QED BY <1>8, <2>1 DEF RunUpTo
<1> QED BY <1>1, <1>9

\* The joined ids, one more id at a time.
LEMMA JoinedRun ==
  ASSUME NEW S \in SUBSET Bytes, IsFiniteSet(S)
  PROVE  \E f : /\ \A i \in 1 .. Cardinality(S) :
                     f[i] = IF i = 1 THEN Sorted(S)[i] ELSE f[i - 1] \o Sorted(S)[i]
                /\ Joined(S) = IF Cardinality(S) = 0 THEN <<>> ELSE f[Cardinality(S)]
<1> DEFINE q == Sorted(S)
           n == Cardinality(S)
           f == CHOOSE f : RunUpTo(q, n, f)
<1>1. n \in Nat /\ q \in [1 .. n -> S]
  BY SortedFacts, FS_CardinalityType DEF Ordered
<1> HIDE DEF q, n
<1>2. q \in Seq(S) /\ Len(q) = n /\ (n = 0 => q = <<>>)
  BY <1>1
<1>3. Joined(S) = IF n = 0 THEN q ELSE f[n]
  BY <1>2 DEF Joined, FlattenSeq, RunUpTo, q
<1>4. \A i \in 1 .. n : f[i] = IF i = 1 THEN q[i] ELSE f[i - 1] \o q[i]
  <2>1. RunUpTo(q, n, f)
    BY <1>1, RunExists
  <2> HIDE DEF f
  <2> QED BY <2>1 DEF RunUpTo
<1> HIDE DEF f
<1> QED BY <1>2, <1>3, <1>4 DEF n, q

LEMMA JoinedBytes ==
  ASSUME NEW S \in SUBSET Bytes, IsFiniteSet(S)
  PROVE  Joined(S) \in Bytes
<1> DEFINE q == Sorted(S)
           n == Cardinality(S)
<1>1. n \in Nat /\ q \in [1 .. n -> S]
  BY SortedFacts, FS_CardinalityType DEF Ordered
<1>2. PICK f : /\ \A i \in 1 .. n : f[i] = IF i = 1 THEN q[i] ELSE f[i - 1] \o q[i]
               /\ Joined(S) = IF n = 0 THEN <<>> ELSE f[n]
  BY JoinedRun
<1> DEFINE Bad == {i \in 1 .. n : f[i] \notin Bytes}
<1> HIDE DEF q, n
<1>3. \A i \in 1 .. n : f[i] = IF i = 1 THEN q[i] ELSE f[i - 1] \o q[i]
  BY <1>2
<1>4. n = 0 => Joined(S) = <<>>
  BY <1>2
<1>5. \A i \in 1 .. n : q[i] \in Bytes
  BY <1>1
<1>6. Bad = {}
  <2> SUFFICES ASSUME Bad # {} PROVE FALSE
    OBVIOUS
  <2>1. Bad \in SUBSET Nat
    BY <1>1
  <2>2. PICK i \in Bad : \A y \in Bad : i <= y
    BY <2>1, LeastElement
  <2>3. i \in 1 .. n /\ f[i] \notin Bytes
    OBVIOUS
  <2>4. i # 1
    BY <1>3, <1>5, <2>3
  <2>5. i - 1 \in 1 .. n /\ ~(i <= i - 1)
    BY <1>1, <2>3, <2>4
  <2>6. f[i - 1] \in Bytes
    BY <2>2, <2>5
  <2>7. f[i] = f[i - 1] \o q[i]
    BY <1>3, <2>3, <2>4
  <2>8. f[i - 1] \o q[i] \in Bytes
    <3>1. f[i - 1] \in Seq(Byte) /\ q[i] \in Seq(Byte)
      BY <1>5, <2>3, <2>6 DEF Bytes
    <3> QED BY <3>1, ConcatFacts DEF Bytes
  <2> QED BY <2>3, <2>7, <2>8
<1>7. CASE n = 0
  BY <1>4, <1>7 DEF Bytes
<1>8. CASE n # 0
  <2>1. n \in 1 .. n
    BY <1>1, <1>8
  <2>2. Joined(S) = f[n]
    BY <1>2, <1>8
  <2> QED BY <1>6, <2>1, <2>2
<1> QED BY <1>7, <1>8

-----------------------------------------------------------------------------
(* Types.  The member lists stay finite, so each has its key. *)

Typed == TypeOK /\ \A s \in Sessions : IsFiniteSet(members[s])

\* What a session may list: finite, within the limit.
LEMMA RotateTyped ==
  ASSUME Typed, NEW s \in Sessions, NEW ids \in SUBSET Ids,
         IsFiniteSet(ids), Cardinality(ids) <= MAX_MEMBERS, Rotate(s, ids)
  PROVE  Typed'
<1>1. /\ members' = [members EXCEPT ![s] = ids]
      /\ epochKey' = [epochKey EXCEPT ![s] = Joined(ids)]
      /\ epoch' = [epoch EXCEPT ![s] = epoch[s] + 1]
      /\ sendSeq' = [sendSeq EXCEPT ![s] = 0]
      /\ wire' = wire /\ sent' = sent /\ opened' = opened
  BY DEF Rotate
<1>2. Joined(ids) \in Bytes
  <2>1. ids \in SUBSET Bytes
    BY GroupAssumption
  <2> QED BY <2>1, JoinedBytes
<1>3. /\ members' \in [Sessions -> SUBSET Ids]
      /\ \A t \in Sessions : Cardinality(members'[t]) <= MAX_MEMBERS
      /\ \A t \in Sessions : IsFiniteSet(members'[t])
  BY <1>1 DEF Typed, TypeOK
<1>4. epoch' \in [Sessions -> Nat] /\ sendSeq' \in [Sessions -> Nat]
  BY <1>1 DEF Typed, TypeOK
<1>5. epochKey' \in [Sessions -> Bytes]
  BY <1>1, <1>2 DEF Typed, TypeOK
<1> QED BY <1>1, <1>3, <1>4, <1>5 DEF Typed, TypeOK

\* rstrip of a padded plaintext is a byte string.
LEMMA GroupUnpadBytes ==
  ASSUME NEW p \in Plain
  PROVE  GroupUnpad(p) \in Bytes
<1>1. MaxPlaintext \in Nat
  BY MaxPlaintextAssumption
<1>2. p \in Bytes /\ Len(p) = MaxPlaintext
  BY <1>1 DEF Plain, Bytes
<1>3. LastNonZero(p) \in 0 .. MaxPlaintext
  BY <1>1, <1>2, LastNonZeroFacts
<1> DEFINE k == LastNonZero(p)
<1> HIDE DEF k
<1>4. SubSeq(p, 1, k) \in Seq(Byte)
  <2>1. p \in Seq(Byte) /\ k \in 0 .. Len(p)
    BY <1>2, <1>3 DEF Bytes, k
  <2> QED BY <2>1
<1> QED BY <1>4 DEF GroupUnpad, Bytes, k

LEMMA TypedStep == Typed /\ [Next]_vars => Typed'
<1> SUFFICES ASSUME Typed, [Next]_vars PROVE Typed'
  OBVIOUS
<1>0. TypeOK /\ \A s \in Sessions : IsFiniteSet(members[s])
  BY DEF Typed
<1>1. ASSUME NEW s \in Sessions, NEW id \in Ids, AddMember(s, id) PROVE Typed'
  <2> DEFINE ids == members[s] \cup {id}
  <2>1. ids \in SUBSET Ids /\ Cardinality(members[s]) < MAX_MEMBERS /\ Rotate(s, ids)
    BY <1>0, <1>1 DEF TypeOK, AddMember
  <2>2. Cardinality(members[s]) \in Nat /\ MAX_MEMBERS \in Nat
    BY <1>0, FS_CardinalityType, GroupAssumption
  <2>3. /\ IsFiniteSet(ids)
        /\ Cardinality(ids) \in {Cardinality(members[s]), Cardinality(members[s]) + 1}
    BY <1>0, FS_AddElement
  <2> HIDE DEF ids
  <2>4. Cardinality(ids) <= MAX_MEMBERS
    BY <2>1, <2>2, <2>3
  <2> QED BY <2>1, <2>3, <2>4, RotateTyped
<1>2. ASSUME NEW s \in Sessions, NEW id \in Ids, RemoveMember(s, id) PROVE Typed'
  <2> DEFINE ids == members[s] \ {id}
  <2>1. /\ ids \in SUBSET Ids /\ Cardinality(members[s]) <= MAX_MEMBERS
        /\ Rotate(s, ids)
    BY <1>0, <1>2 DEF TypeOK, RemoveMember
  <2>2. Cardinality(members[s]) \in Nat /\ MAX_MEMBERS \in Nat
    BY <1>0, FS_CardinalityType, GroupAssumption
  <2>3. /\ IsFiniteSet(ids)
        /\ Cardinality(ids) \in {Cardinality(members[s]), Cardinality(members[s]) - 1}
    BY <1>0, FS_RemoveElement
  <2> HIDE DEF ids
  <2>4. Cardinality(ids) <= MAX_MEMBERS
    BY <2>1, <2>2, <2>3
  <2> QED BY <2>1, <2>3, <2>4, RotateTyped
<1>3. ASSUME NEW s \in Sessions, NEW m \in Texts, Encrypt(s, m) PROVE Typed'
  <2> DEFINE f == [from |-> s, key |-> epochKey[s], epoch |-> epoch[s],
                   seq |-> sendSeq[s], padded |-> GroupPad(m)]
  <2>1. /\ wire' = Append(wire, f)
        /\ sent' = Append(sent, [text |-> m, members |-> members[s]])
        /\ sendSeq' = [sendSeq EXCEPT ![s] = sendSeq[s] + 1]
        /\ epoch[s] < EPOCH_LIMIT /\ sendSeq[s] < SEQ_LIMIT
        /\ UNCHANGED <<members, epoch, epochKey, opened>>
    BY <1>3 DEF Encrypt
  <2>2. GroupPad(m) \in Plain
    BY GroupAssumption, GroupPadFixedSize
  <2>3. epoch[s] \in 0 .. EPOCH_LIMIT - 1 /\ sendSeq[s] \in 0 .. SEQ_LIMIT - 1
    <3>1. /\ epoch[s] \in Nat /\ EPOCH_LIMIT \in Nat
          /\ sendSeq[s] \in Nat /\ SEQ_LIMIT \in Nat
      BY <1>0, GroupAssumption DEF TypeOK
    <3> QED BY <2>1, <3>1
  <2>4. f \in Frame
    BY <1>0, <2>2, <2>3 DEF TypeOK, Frame
  <2> HIDE DEF f
  <2>5. wire' \in Seq(Frame)
    BY <1>0, <2>1, <2>4 DEF TypeOK
  <2>6. sent' \in Seq(Sent)
    <3>1. [text |-> m, members |-> members[s]] \in Sent
      BY <1>0 DEF TypeOK, Sent
    <3> QED BY <1>0, <2>1, <3>1 DEF TypeOK
  <2>7. sendSeq' \in [Sessions -> Nat]
    BY <1>0, <2>1 DEF TypeOK
  <2> QED BY <1>0, <2>1, <2>5, <2>6, <2>7 DEF Typed, TypeOK
<1>4. ASSUME NEW s \in Sessions, NEW i \in DOMAIN wire, Decrypt(s, i) PROVE Typed'
  <2> DEFINE o == [frame |-> i, text |-> GroupUnpad(wire[i].padded),
                   members |-> members[s]]
  <2>1. opened' = Append(opened, o) /\ UNCHANGED <<keyVars, wire, sent>>
    BY <1>4 DEF Decrypt
  <2>2. wire[i] \in Frame /\ i \in Nat \ {0}
    BY <1>0 DEF TypeOK
  <2>3. GroupUnpad(wire[i].padded) \in Bytes
    BY <2>2, GroupUnpadBytes DEF Frame
  <2>4. o \in Opened
    BY <1>0, <2>2, <2>3 DEF TypeOK, Opened
  <2> HIDE DEF o
  <2>5. opened' \in Seq(Opened)
    BY <1>0, <2>1, <2>4 DEF TypeOK
  <2> QED BY <1>0, <2>1, <2>5 DEF Typed, TypeOK, keyVars
<1>5. CASE UNCHANGED vars
  BY <1>0, <1>5 DEF Typed, TypeOK, vars, keyVars
<1> QED BY <1>1, <1>2, <1>3, <1>4, <1>5 DEF Next

LEMMA InitTyped == Init => Typed
<1> SUFFICES ASSUME Init PROVE Typed
  OBVIOUS
<1>1. Joined({}) \in Bytes
  BY JoinedBytes, FS_EmptySet
<1>2. IsFiniteSet({}) /\ Cardinality({}) <= MAX_MEMBERS
  BY FS_EmptySet, GroupAssumption
<1>3. wire = <<>> /\ sent = <<>> /\ opened = <<>>
  BY DEF Init
<1>4. wire \in Seq(Frame) /\ sent \in Seq(Sent) /\ opened \in Seq(Opened)
  BY <1>3
<1>5. epochKey \in [Sessions -> Bytes]
  BY <1>1 DEF Init
<1>6. /\ members \in [Sessions -> SUBSET Ids]
      /\ epoch \in [Sessions -> Nat] /\ sendSeq \in [Sessions -> Nat]
      /\ \A s \in Sessions : members[s] = {}
  BY DEF Init
<1> QED BY <1>2, <1>4, <1>5, <1>6 DEF Typed, TypeOK

\* Every frame has its fixed size, an epoch and a number that fit the nonce,
\* no session ever lists more than MAX_MEMBERS members, and a key is always
\* there to seal with (group.py:36-39, 62-68, 71-99, 112).
THEOREM GroupTypes == Spec => []TypeOK
<1>1. Typed => TypeOK
  BY DEF Typed
<1> QED BY <1>1, InitTyped, TypedStep, PTL DEF Spec

-----------------------------------------------------------------------------
(* Ids of one length: the joined bytes give the member list back. *)

\* Sorting lists every member.
LEMMA SortedLists ==
  ASSUME NEW S \in SUBSET Bytes, IsFiniteSet(S)
  PROVE  \A x \in S : \E i \in 1 .. Cardinality(S) : Sorted(S)[i] = x
<1> DEFINE n == Cardinality(S)
           q == Sorted(S)
<1>1. n \in Nat
  BY FS_CardinalityType
<1>2. q \in [1 .. n -> S] /\ \A i, j \in 1 .. n : i < j => Before(q[i], q[j])
  BY SortedFacts DEF Ordered
<1> HIDE DEF n, q
<1>3. \A x \in Bytes : ~Before(x, x)
  <2> SUFFICES ASSUME NEW x \in Bytes, Before(x, x) PROVE FALSE
    OBVIOUS
  <2>1. PICK k \in Nat : Differ(x, x, k)
    BY BeforePoints
  <2>2. k \in 1 .. Len(x) /\ x[k] < x[k]
    BY <2>1 DEF Differ
  <2> QED BY <2>2, BytesNumbers
<1>4. ASSUME NEW i \in 1 .. n, NEW j \in 1 .. n, q[i] = q[j] PROVE i = j
  <2> SUFFICES ASSUME i # j PROVE FALSE
    OBVIOUS
  <2>1. i < j \/ j < i
    BY <1>1
  <2>2. Before(q[i], q[i])
    BY <1>2, <1>4, <2>1
  <2>3. q[i] \in Bytes
    BY <1>2
  <2> QED BY <1>3, <2>2, <2>3
<1>5. q \in Injection(1 .. n, S)
  BY <1>2, <1>4 DEF Injection, IsInjective
<1>6. IsFiniteSet(1 .. n) /\ Cardinality(1 .. n) = n
  BY <1>1, FS_Interval
<1>7. q \in Surjection(1 .. n, S)
  BY <1>5, <1>6, FS_Injection DEF n
<1> QED BY <1>7 DEF Surjection, n, q

\* Two runs of ids of one length: they are as long as each other at each id.
Runs(f, q, n, l) ==
  /\ \A i \in 1 .. n : q[i] \in Bytes /\ Len(q[i]) = l
  /\ \A i \in 1 .. n : f[i] = IF i = 1 THEN q[i] ELSE f[i - 1] \o q[i]

LEMMA RunLength ==
  ASSUME NEW f, NEW q, NEW n \in Nat, NEW l \in Nat, Runs(f, q, n, l)
  PROVE  \A i \in 1 .. n : f[i] \in Bytes /\ Len(f[i]) = i * l
<1> DEFINE Bad == {i \in 1 .. n : ~(f[i] \in Bytes /\ Len(f[i]) = i * l)}
<1> SUFFICES ASSUME Bad # {} PROVE FALSE
  OBVIOUS
<1>1. PICK i \in Bad : \A y \in Bad : i <= y
  <2>1. Bad \in SUBSET Nat
    OBVIOUS
  <2> HIDE DEF Bad
  <2> QED BY <2>1, LeastElement
<1>2. i \in 1 .. n /\ ~(f[i] \in Bytes /\ Len(f[i]) = i * l)
  OBVIOUS
<1>3. q[i] \in Bytes /\ Len(q[i]) = l
  BY <1>2 DEF Runs
<1>4. i # 1
  <2> SUFFICES ASSUME i = 1 PROVE FALSE
    OBVIOUS
  <2>1. f[i] = q[i]
    BY <1>2 DEF Runs
  <2>2. i * l = l
    OBVIOUS
  <2> QED BY <1>2, <1>3, <2>1, <2>2
<1>5. i - 1 \in 1 .. n /\ ~(i <= i - 1)
  BY <1>2, <1>4
<1>6. f[i - 1] \in Bytes /\ Len(f[i - 1]) = (i - 1) * l
  BY <1>1, <1>5
<1>7. f[i] = f[i - 1] \o q[i]
  BY <1>2, <1>4 DEF Runs
<1>8. f[i] \in Bytes /\ Len(f[i]) = (i - 1) * l + l
  <2>1. f[i - 1] \in Seq(Byte) /\ q[i] \in Seq(Byte)
    BY <1>3, <1>6 DEF Bytes
  <2>2. /\ f[i - 1] \o q[i] \in Seq(Byte)
        /\ Len(f[i - 1] \o q[i]) = Len(f[i - 1]) + Len(q[i])
    BY ONLY <2>1, ConcatFacts
  <2> QED BY <1>3, <1>6, <1>7, <2>2 DEF Bytes
<1>9. (i - 1) * l + l = i * l
  <2>1. \A a, b \in Int : (a - 1) * b + b = a * b
    OBVIOUS
  <2> QED BY <1>2, <2>1
<1> QED BY <1>2, <1>8, <1>9

\* Of two strings put together, the second of a known length, each is known.
LEMMA Cancel ==
  ASSUME NEW a \in Bytes, NEW b \in Bytes, NEW c \in Bytes, NEW d \in Bytes,
         Len(b) = Len(d), a \o b = c \o d
  PROVE  a = c /\ b = d
<1>1. /\ a \in Seq(Byte) /\ b \in Seq(Byte) /\ c \in Seq(Byte) /\ d \in Seq(Byte)
      /\ Len(a) \in Nat /\ Len(b) \in Nat /\ Len(c) \in Nat
  BY DEF Bytes
<1>2. Len(a \o b) = Len(a) + Len(b) /\ Len(c \o d) = Len(c) + Len(d)
  BY <1>1, ConcatFacts
<1>3. Len(a) = Len(c)
  BY <1>1, <1>2
<1>4. \A i \in 1 .. Len(a) : a[i] = c[i]
  <2>1. /\ \A i \in 1 .. Len(a) : (a \o b)[i] = a[i]
        /\ \A i \in 1 .. Len(c) : (c \o d)[i] = c[i]
    BY <1>1, ConcatFacts
  <2> QED BY <1>3, <2>1
<1>5. \A i \in 1 .. Len(b) : b[i] = d[i]
  <2>1. \A i \in 1 .. Len(b) : (a \o b)[Len(a) + i] = b[i]
    BY <1>1, ConcatTail
  <2>2. \A i \in 1 .. Len(d) : (c \o d)[Len(c) + i] = d[i]
    BY <1>1, ConcatTail
  <2> QED BY <1>3, <2>1, <2>2
<1>6. a = c
  BY <1>1, <1>3, <1>4
<1>7. b = d
  BY <1>1, <1>5
<1> QED BY <1>6, <1>7

\* Runs of equal lengths that end in the same bytes are made of the same ids.
LEMMA RunsAgree ==
  ASSUME NEW f, NEW g, NEW q, NEW p, NEW n \in Nat, NEW l \in Nat,
         Runs(f, q, n, l), Runs(g, p, n, l), n # 0 => f[n] = g[n]
  PROVE  \A i \in 1 .. n : q[i] = p[i]
<1>0. \A a, b, c, d \in Bytes : Len(b) = Len(d) /\ a \o b = c \o d => a = c /\ b = d
  BY Cancel
<1>1. \A i \in 1 .. n : f[i] \in Bytes /\ g[i] \in Bytes
  BY RunLength
<1>2. \A i \in 1 .. n : /\ q[i] \in Bytes /\ p[i] \in Bytes /\ Len(q[i]) = Len(p[i])
                        /\ f[i] = IF i = 1 THEN q[i] ELSE f[i - 1] \o q[i]
                        /\ g[i] = IF i = 1 THEN p[i] ELSE g[i - 1] \o p[i]
  BY DEF Runs
<1> DEFINE Bad == {k \in 0 .. n - 1 : f[n - k] # g[n - k]}
<1>3. Bad = {}
  <2> SUFFICES ASSUME Bad # {} PROVE FALSE
    OBVIOUS
  <2>1. PICK k \in Bad : \A y \in Bad : k <= y
    <3>1. Bad \in SUBSET Nat
      OBVIOUS
    <3> HIDE DEF Bad
    <3> QED BY <3>1, LeastElement
  <2>2. k \in 0 .. n - 1 /\ f[n - k] # g[n - k]
    OBVIOUS
  <2>3. k # 0
    BY <2>2
  <2>4. /\ k - 1 \in 0 .. n - 1 /\ ~(k <= k - 1)
        /\ n - (k - 1) = (n - k) + 1
        /\ n - k \in 1 .. n /\ (n - k) + 1 \in 1 .. n
        /\ (n - k) + 1 # 1 /\ ((n - k) + 1) - 1 = n - k
    BY <2>2, <2>3
  <2>5. f[(n - k) + 1] = g[(n - k) + 1]
    BY <2>1, <2>4
  <2> DEFINE i == n - k
  <2>6. /\ i \in 1 .. n /\ i + 1 \in 1 .. n /\ i + 1 # 1 /\ (i + 1) - 1 = i
        /\ f[i + 1] = g[i + 1] /\ f[i] # g[i]
    BY <2>2, <2>4, <2>5
  <2> HIDE DEF i
  <2>7. f[i] \o q[i + 1] = g[i] \o p[i + 1]
    BY <1>2, <2>6
  <2>8. /\ f[i] \in Bytes /\ g[i] \in Bytes /\ q[i + 1] \in Bytes /\ p[i + 1] \in Bytes
        /\ Len(q[i + 1]) = Len(p[i + 1])
    BY <1>1, <1>2, <2>6
  <2>9. f[i] = g[i]
    <3> DEFINE a == f[i]
               b == q[i + 1]
               c == g[i]
               d == p[i + 1]
    <3>1. /\ a \in Bytes /\ b \in Bytes /\ c \in Bytes /\ d \in Bytes
          /\ Len(b) = Len(d) /\ a \o b = c \o d
      BY <2>7, <2>8
    <3> HIDE DEF a, b, c, d
    <3>2. a = c
      BY ONLY <1>0, <3>1
    <3> QED BY <3>2 DEF a, c
  <2> QED BY <2>6, <2>9
<1>4. \A i \in 1 .. n : f[i] = g[i]
  <2> TAKE i \in 1 .. n
  <2>1. n - i \in 0 .. n - 1 /\ n - (n - i) = i
    OBVIOUS
  <2> QED BY <1>3, <2>1
<1>5. SUFFICES ASSUME NEW i \in 1 .. n PROVE q[i] = p[i]
  OBVIOUS
<1>6. CASE i = 1
  BY <1>2, <1>4, <1>6
<1>7. CASE i # 1
  <2>1. i - 1 \in 1 .. n
    BY <1>7
  <2>2. f[i - 1] \o q[i] = g[i - 1] \o p[i]
    BY <1>2, <1>4, <1>7
  <2>3. /\ f[i - 1] \in Bytes /\ g[i - 1] \in Bytes /\ q[i] \in Bytes /\ p[i] \in Bytes
        /\ Len(q[i]) = Len(p[i])
    BY <1>1, <1>2, <2>1
  <2> DEFINE a == f[i - 1]
             b == q[i]
             c == g[i - 1]
             d == p[i]
  <2>4. /\ a \in Bytes /\ b \in Bytes /\ c \in Bytes /\ d \in Bytes
        /\ Len(b) = Len(d) /\ a \o b = c \o d
    BY <2>2, <2>3
  <2> HIDE DEF a, b, c, d
  <2>5. b = d
    BY ONLY <1>0, <2>4
  <2> QED BY <2>5 DEF b, d
<1> QED BY <1>6, <1>7

\* Member lists whose ids have one length run together alike only when they
\* are the same list.
THEOREM JoinedInjective ==
  ASSUME NEW S \in SUBSET Bytes, NEW T \in SUBSET Bytes, IsFiniteSet(S), IsFiniteSet(T),
         OneLength(S \cup T), Joined(S) = Joined(T)
  PROVE  S = T
<1> DEFINE n == Cardinality(S)
           m == Cardinality(T)
           q == Sorted(S)
           p == Sorted(T)
<1>1. PICK l \in Nat \ {0} : \A a \in S \cup T : Len(a) = l
  <2>1. CASE S \cup T = {}
    BY <2>1
  <2>2. CASE S \cup T # {}
    <3>1. PICK a \in S \cup T : TRUE
      BY <2>2
    <3>2. Len(a) \in Nat \ {0}
      BY <3>1, BytesNumbers DEF OneLength
    <3> QED BY <3>1, <3>2 DEF OneLength
  <2> QED BY <2>1, <2>2
<1>2. /\ n \in Nat /\ m \in Nat
      /\ q \in [1 .. n -> S] /\ p \in [1 .. m -> T]
  BY SortedFacts, FS_CardinalityType DEF Ordered
<1>3. PICK f : /\ \A i \in 1 .. n : f[i] = IF i = 1 THEN q[i] ELSE f[i - 1] \o q[i]
               /\ Joined(S) = IF n = 0 THEN <<>> ELSE f[n]
  BY JoinedRun
<1>4. PICK g : /\ \A i \in 1 .. m : g[i] = IF i = 1 THEN p[i] ELSE g[i - 1] \o p[i]
               /\ Joined(T) = IF m = 0 THEN <<>> ELSE g[m]
  BY JoinedRun
<1>5. /\ \A x \in S : \E i \in 1 .. n : q[i] = x
      /\ \A x \in T : \E i \in 1 .. m : p[i] = x
  BY SortedLists
<1> HIDE DEF n, m, q, p
<1>6. Runs(f, q, n, l) /\ Runs(g, p, m, l)
  BY <1>1, <1>2, <1>3, <1>4 DEF Runs
<1>7. l \in Nat
  BY <1>1
<1>8. Len(Joined(S)) = n * l /\ Len(Joined(T)) = m * l
  <2>1. \A i \in 1 .. n : Len(f[i]) = i * l
    BY <1>2, <1>6, <1>7, RunLength
  <2>2. \A i \in 1 .. m : Len(g[i]) = i * l
    BY <1>2, <1>6, <1>7, RunLength
  <2>3. (n = 0 => n * l = 0) /\ (m = 0 => m * l = 0) /\ Len(<<>>) = 0
    BY <1>2, <1>7
  <2>4. (n # 0 => n \in 1 .. n) /\ (m # 0 => m \in 1 .. m)
    BY <1>2
  <2> QED BY <1>3, <1>4, <2>1, <2>2, <2>3, <2>4
<1>9. n = m
  <2>1. n * l = m * l
    BY <1>8
  <2>2. \A a, b, c \in Int : c # 0 /\ a * c = b * c => a = b
    OBVIOUS
  <2> QED BY ONLY <1>1, <1>2, <2>1, <2>2
<1>10. n # 0 => f[n] = g[n]
  BY <1>3, <1>4, <1>9
<1>11. \A i \in 1 .. n : q[i] = p[i]
  BY <1>2, <1>6, <1>7, <1>9, <1>10, RunsAgree
<1>12. \A x \in S : x \in T
  BY <1>2, <1>5, <1>9, <1>11
<1>13. \A x \in T : x \in S
  BY <1>2, <1>5, <1>9, <1>11
<1> QED BY <1>12, <1>13

\* Each frame has the key of its sender's member list, and the lists are finite.
RoomInv ==
  /\ \A i \in DOMAIN wire : /\ wire[i].key = Joined(sent[i].members)
                            /\ sent[i].members \in SUBSET Ids
                            /\ IsFiniteSet(sent[i].members)
  /\ \A k \in DOMAIN opened : opened[k].members \in SUBSET Ids /\ IsFiniteSet(opened[k].members)

LEMMA RoomStep == GroupInv /\ TextInv /\ Typed /\ RoomInv /\ [Next]_vars => RoomInv'
<1> SUFFICES ASSUME GroupInv, TextInv, Typed, RoomInv, [Next]_vars PROVE RoomInv'
  OBVIOUS
<1>0. /\ IsSeq(wire) /\ IsSeq(opened) /\ IsSeq(sent) /\ KeyOfMembers
      /\ members \in [Sessions -> SUBSET Ids] /\ \A s \in Sessions : IsFiniteSet(members[s])
  BY DEF GroupInv, TextInv, Typed, TypeOK
<1>1. PICK n \in Nat : DOMAIN wire = 1 .. n /\ DOMAIN sent = 1 .. n
  BY DEF GroupInv, Numbered, TextInv
<1>2. PICK k \in Nat : DOMAIN opened = 1 .. k
  BY DEF GroupInv, Read
<1>3. ASSUME NEW s \in Sessions, NEW ids, Rotate(s, ids) PROVE RoomInv'
  BY <1>3 DEF Rotate, RoomInv
<1>4. ASSUME NEW s \in Sessions, NEW m \in Texts, Encrypt(s, m) PROVE RoomInv'
  <2> DEFINE f == [from |-> s, key |-> epochKey[s], epoch |-> epoch[s],
                   seq |-> sendSeq[s], padded |-> GroupPad(m)]
             h == [text |-> m, members |-> members[s]]
  <2>1. wire' = Append(wire, f) /\ sent' = Append(sent, h) /\ opened' = opened
    BY <1>4 DEF Encrypt
  <2>2. /\ f.key = Joined(h.members)
        /\ h.members \in SUBSET Ids /\ IsFiniteSet(h.members)
    BY <1>0 DEF KeyOfMembers
  <2> HIDE DEF f, h
  <2>3. /\ DOMAIN wire' = 1 .. n + 1 /\ wire'[n + 1] = f
        /\ \A i \in 1 .. n : wire'[i] = wire[i]
    BY <1>0, <1>1, <2>1, AppendFacts
  <2>4. sent'[n + 1] = h /\ \A i \in 1 .. n : sent'[i] = sent[i]
    BY <1>0, <1>1, <2>1, AppendFacts
  <2>5. \A i \in 1 .. n + 1 : i \in 1 .. n \/ i = n + 1
    OBVIOUS
  <2>6. \A i \in 1 .. n + 1 : /\ wire'[i].key = Joined(sent'[i].members)
                              /\ sent'[i].members \in SUBSET Ids
                              /\ IsFiniteSet(sent'[i].members)
    BY <1>1, <2>2, <2>3, <2>4, <2>5 DEF RoomInv
  <2> QED BY <2>1, <2>3, <2>6 DEF RoomInv
<1>5. ASSUME NEW s \in Sessions, NEW i \in DOMAIN wire, Decrypt(s, i) PROVE RoomInv'
  <2> DEFINE o == [frame |-> i, text |-> GroupUnpad(wire[i].padded),
                   members |-> members[s]]
  <2>1. opened' = Append(opened, o) /\ wire' = wire /\ sent' = sent
    BY <1>5 DEF Decrypt
  <2>2. o.members \in SUBSET Ids /\ IsFiniteSet(o.members)
    BY <1>0
  <2> HIDE DEF o
  <2>3. /\ DOMAIN opened' = 1 .. k + 1 /\ opened'[k + 1] = o
        /\ \A j \in 1 .. k : opened'[j] = opened[j]
    BY <1>0, <1>2, <2>1, AppendFacts
  <2>4. \A j \in 1 .. k + 1 : j \in 1 .. k \/ j = k + 1
    OBVIOUS
  <2>5. \A j \in 1 .. k + 1 : opened'[j].members \in SUBSET Ids /\ IsFiniteSet(opened'[j].members)
    BY <1>2, <2>2, <2>3, <2>4 DEF RoomInv
  <2> QED BY <2>1, <2>3, <2>5 DEF RoomInv
<1>6. CASE UNCHANGED vars
  BY <1>6 DEF vars, keyVars, RoomInv
<1> QED BY <1>3, <1>4, <1>5, <1>6 DEF Next, AddMember, RemoveMember

\* A frame is opened only under a member list that runs together to the bytes
\* its sender's list had when it was sealed; with ids of one length that is the
\* sender's list itself (group.py:36-39, 61-76, 87, 98).
THEOREM OpenedByRoomHolds == Spec => []OpenedByRoom
<1>1. Init => RoomInv
  BY DEF Init, RoomInv
<1>2. GroupInv /\ RoomInv => OpenedByRoom
  <2> SUFFICES ASSUME GroupInv, RoomInv, NEW k \in DOMAIN opened
               PROVE  LET room   == sent[opened[k].frame].members
                          opener == opened[k].members
                      IN  /\ Joined(opener) = Joined(room)
                          /\ OneLength(opener \cup room) => opener = room
    BY DEF OpenedByRoom
  <2> DEFINE room   == sent[opened[k].frame].members
             opener == opened[k].members
  <2>1. opened[k].frame \in DOMAIN wire /\ wire[opened[k].frame].key = Joined(opener)
    BY DEF GroupInv, Read
  <2>2. /\ wire[opened[k].frame].key = Joined(room)
        /\ room \in SUBSET Ids /\ IsFiniteSet(room)
        /\ opener \in SUBSET Ids /\ IsFiniteSet(opener)
    BY <2>1 DEF RoomInv
  <2>3. Joined(opener) = Joined(room)
    BY <2>1, <2>2
  <2> HIDE DEF room, opener
  <2>4. room \in SUBSET Bytes /\ opener \in SUBSET Bytes
    BY <2>2, GroupAssumption
  <2>5. OneLength(opener \cup room) => opener = room
    BY <2>2, <2>3, <2>4, JoinedInjective
  <2> QED BY <2>3, <2>5 DEF room, opener
<1> QED BY <1>1, <1>2, InitTyped, InitText, GroupInvariant, TextStep, TypedStep, RoomStep, PTL DEF Spec
=============================================================================
