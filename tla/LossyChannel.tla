---------------------------- MODULE LossyChannel ----------------------------
(***************************************************************************)
(* What a two-party audio session promises its users: a receiver gets some *)
(* of the frames the other party sent, each cut to the frame size, each at *)
(* most once and in the order they were sent.  Frames may be lost.         *)
(***************************************************************************)
EXTENDS FrameCodec

CONSTANTS Alice, Bob,        \* the two parties
          Payloads           \* the plaintexts they may send

Peers == {Alice, Bob}

Other(p) == IF p = Alice THEN Bob ELSE Alice

VARIABLES sent,              \* sent[p]: the plaintexts p handed to encrypt
          opened             \* opened[p]: what p got back, [frame, text]

LastOpened(p) ==
  IF opened[p] = <<>> THEN 0 ELSE opened[p][Len(opened[p])].frame

ChannelInit ==
  /\ sent = [p \in Peers |-> <<>>]
  /\ opened = [p \in Peers |-> <<>>]

Send(p, m) ==
  /\ sent' = [sent EXCEPT ![p] = Append(@, m)]
  /\ UNCHANGED opened

Receive(p, i) ==
  /\ i > LastOpened(p)
  /\ opened' = [opened EXCEPT ![p] = Append(@,
        [frame |-> i, text |-> Clip(sent[Other(p)][i], MaxPlaintext - 1)])]
  /\ UNCHANGED sent

ChannelNext ==
  \E p \in Peers :
    \/ \E m \in Payloads : Send(p, m)
    \/ \E i \in DOMAIN sent[Other(p)] : Receive(p, i)

ChannelSpec == ChannelInit /\ [][ChannelNext]_<<sent, opened>>
=============================================================================
