---------------------------- MODULE SignalSession ---------------------------
(***************************************************************************)
(* A pair of SignalSession objects (encryption/signal/session.py), one at  *)
(* each end of a call, and the unreliable transport between them.          *)
(*                                                                         *)
(* A frame carries no index: the receiver's ratchet advances once for each *)
(* call of decrypt, whichever frame the transport hands it.  The transport *)
(* may lose, repeat, reorder or damage frames, so Decrypt takes any frame  *)
(* the peer ever sent.  A frame of the wrong size raises ValueError before *)
(* any state changes: that call is a stutter.                              *)
(*                                                                         *)
(* HKDF is taken to be injective and AES-GCM to reject a frame that is     *)
(* damaged or sealed under another key (InvalidTag).                       *)
(***************************************************************************)
EXTENDS FrameCodec

CONSTANTS Alice, Bob,        \* the two parties
          Payloads,          \* plaintexts handed to encrypt
          FromX3DH,          \* both sessions come from from_x3dh(secret);
                             \* otherwise from mirrored chain keys
          MaxFrames,         \* bound on the frames sent, both ways together
          MaxCalls           \* bound on the calls of decrypt, both together

ASSUME SessionAssumption ==
  /\ Alice # Bob
  /\ Payloads \subseteq Bytes
  /\ FromX3DH \in BOOLEAN

Peers == {Alice, Bob}

Other(p) == IF p = Alice THEN Bob ELSE Alice

VARIABLES local,             \* local[p]: p's sending ratchet
          remote,            \* remote[p]: p's receiving ratchet
          wire,              \* wire[p]: the frames p sent, [key, padded]
          sent,              \* history: the plaintexts p handed to encrypt
          seen,              \* history: p's calls of decrypt, [frame, intact]
          opened             \* history: what p's decrypt returned, [frame, text]

vars == <<local, remote, wire, sent, seen, opened>>

-----------------------------------------------------------------------------
(* The ratchet: a chain is named by its root, a chain key by its position. *)

Roots   == {"send", "recv"} \cup Peers
Ratchet == [root : Roots, idx : Nat]

\* Mutant: the chain key is derived but not stored.
AdvanceForgotten(r) == r

Advance(r) == [r EXCEPT !.idx = @ + 1]

MessageKey(r) == <<r.root, r.idx>>

SendRoot(p) == IF FromX3DH THEN "send" ELSE p
RecvRoot(p) == IF FromX3DH THEN "recv" ELSE Other(p)

\* The receiving chain of p is the sending chain of its peer.
Paired(p) == RecvRoot(p) = SendRoot(Other(p))

-----------------------------------------------------------------------------
Total(f) == Len(f[Alice]) + Len(f[Bob])

Init ==
  /\ local  = [p \in Peers |-> [root |-> SendRoot(p), idx |-> 0]]
  /\ remote = [p \in Peers |-> [root |-> RecvRoot(p), idx |-> 0]]
  /\ wire   = [p \in Peers |-> <<>>]
  /\ sent   = [p \in Peers |-> <<>>]
  /\ seen   = [p \in Peers |-> <<>>]
  /\ opened = [p \in Peers |-> <<>>]

Encrypt(p, m) ==
  /\ Total(wire) < MaxFrames
  /\ LET r == Advance(local[p])
     IN  /\ local' = [local EXCEPT ![p] = r]
         /\ wire'  = [wire EXCEPT ![p] =
                        Append(@, [key |-> MessageKey(r), padded |-> SignalPad(m)])]
  /\ sent' = [sent EXCEPT ![p] = Append(@, m)]
  /\ UNCHANGED <<remote, seen, opened>>

\* AESGCM(key).decrypt succeeds on frame f.
Opens(r, f, intact) == intact /\ MessageKey(r) = f.key

\* p hands frame i of its peer to decrypt.  The ratchet advances first, and
\* stays advanced when the tag is refused.
Decrypt(p, i, intact) ==
  /\ Total(seen) < MaxCalls
  /\ LET r == Advance(remote[p])
         f == wire[Other(p)][i]
     IN  /\ remote' = [remote EXCEPT ![p] = r]
         /\ opened' = IF Opens(r, f, intact)
                      THEN [opened EXCEPT ![p] = Append(@,
                              [frame |-> i, text |-> SignalUnpad(f.padded)])]
                      ELSE opened
  /\ seen' = [seen EXCEPT ![p] = Append(@, [frame |-> i, intact |-> intact])]
  /\ UNCHANGED <<local, wire, sent>>

Next ==
  \E p \in Peers :
    \/ \E m \in Payloads : Encrypt(p, m)
    \/ \E i \in DOMAIN wire[Other(p)], intact \in BOOLEAN : Decrypt(p, i, intact)

Spec == Init /\ [][Next]_vars

-----------------------------------------------------------------------------
Frame  == [key : Roots \X Nat, padded : Plain]
Call   == [frame : Nat \ {0}, intact : BOOLEAN]
Opened == [frame : Nat \ {0}, text : Bytes]

\* The state has its types; every sealed plaintext is exactly MaxPlaintext
\* bytes whatever was handed to encrypt (the fixed 256-byte wire frame).
TypeOK ==
  /\ local  \in [Peers -> Ratchet]
  /\ remote \in [Peers -> Ratchet]
  /\ wire   \in [Peers -> Seq(Frame)]
  /\ sent   \in [Peers -> Seq(Payloads)]
  /\ seen   \in [Peers -> Seq(Call)]
  /\ opened \in [Peers -> Seq(Opened)]

\* decrypt returns exactly the bytes handed to encrypt, cut to the frame
\* size, zero bytes at either end included (session.py:67-73, 94-95).
OpenedText ==
  \A p \in Peers : \A k \in DOMAIN opened[p] :
    LET o == opened[p][k]
    IN  /\ o.frame \in DOMAIN sent[Other(p)]
        /\ o.text = Clip(sent[Other(p)][o.frame], MaxPlaintext - 1)

\* The frames p has opened are exactly those it was handed, undamaged, at the
\* call that has the frame's own number: one ratchet step per call of decrypt.
Lockstep ==
  \A p \in Peers :
    {opened[p][k].frame : k \in DOMAIN opened[p]}
      = {j \in DOMAIN seen[p] : Paired(p) /\ seen[p][j] = [frame |-> j, intact |-> TRUE]}

\* The transport has kept the order and repeated nothing towards p.
InOrder(p) ==
  \A a, b \in DOMAIN seen[p] : a < b => seen[p][a].frame < seen[p][b].frame

\* Once one frame is skipped by a transport that keeps order and does not
\* repeat, no later frame opens: nothing on the wire lets the receiver skip.
LossIsFinal ==
  \A p \in Peers : \A j \in DOMAIN seen[p] :
    InOrder(p) /\ seen[p][j].frame # j
    => \A k \in DOMAIN opened[p] : opened[p][k].frame < j

\* "Decrypt a 256-byte wire frame -> original plaintext" (session.py:87), on
\* the most favourable transport: a frame handed over undamaged, in its turn,
\* is opened.
DecryptReturnsOriginal ==
  \A p \in Peers :
    (\A j \in DOMAIN seen[p] : seen[p][j] = [frame |-> j, intact |-> TRUE])
      => Len(opened[p]) = Len(seen[p])

\* A pair of sessions implements the lossy in-order channel: what the
\* application receives is in sending order without repeats, however the
\* transport reorders and repeats frames.
Channel == INSTANCE LossyChannel
ImplementsChannel == Channel!ChannelSpec
=============================================================================
