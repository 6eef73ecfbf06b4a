---------------------------- MODULE GroupSession ----------------------------
(***************************************************************************)
(* MLSGroupSession objects (encryption/mls/group.py) that share one        *)
(* _init_secret, each told of joins and leaves by its own application, and *)
(* the unreliable transport between them.                                  *)
(*                                                                         *)
(* Unlike a SignalSession, decrypt keeps no position: the caller hands it  *)
(* the sender's epoch and sequence number with the frame.  So the          *)
(* transport may lose, repeat and reorder frames at will, and Decrypt      *)
(* takes any frame sent so far.                                            *)
(*                                                                         *)
(* HMAC is taken to be injective in its message and AES-GCM to refuse a    *)
(* frame that is damaged, sealed under another key, or handed over with    *)
(* another nonce.  A member id is the sequence of its bytes: the key is    *)
(* made from the sorted ids run together.                                  *)
(***************************************************************************)
EXTENDS FrameCodec, FiniteSets, SequencesExt

CONSTANTS Sessions,
          Ids,               \* member ids
          Texts,             \* plaintexts handed to encrypt
          MAX_MEMBERS,       \* 50 in the code
          EPOCH_LIMIT,       \* of the nonce's 32-bit epoch: 2^32
          SEQ_LIMIT,         \* of the nonce's 64-bit number: 2^64
          MaxEpoch,          \* bound on the membership changes of a session
          MaxFrames,         \* bound on the frames sent
          MaxOpened          \* bound on the frames opened

ASSUME GroupAssumption ==
  /\ Ids \subseteq Bytes
  /\ Texts \subseteq Bytes
  /\ MAX_MEMBERS \in Nat /\ EPOCH_LIMIT \in Nat /\ SEQ_LIMIT \in Nat

VARIABLES members,           \* _members, the ids
          epoch, sendSeq,    \* _epoch, _send_seq
          epochKey,          \* _epoch_key, by the message it is the HMAC of
          wire,              \* frames sent: [from, key, epoch, seq, padded]
          sent,              \* history: the plaintext of each frame, the sender's members
          opened             \* history: what decrypt returned

keyVars == <<members, epoch, epochKey, sendSeq>>
vars == <<keyVars, wire, sent, opened>>

-----------------------------------------------------------------------------
\* Byte strings in the order of sorted().
Before(a, b) ==
  \/ IsStrictPrefix(a, b)
  \/ \E i \in DOMAIN a \cap DOMAIN b :
       a[i] < b[i] /\ \A j \in 1 .. i - 1 : a[j] = b[j]

\* sorted(member_ids)
Sorted(ids) ==
  CHOOSE q \in [1 .. Cardinality(ids) -> ids] :
    \A i, j \in 1 .. Cardinality(ids) : i < j => Before(q[i], q[j])

\* b"".join(sorted(member_ids))
Joined(ids) == FlattenSeq(Sorted(ids))

Init ==
  /\ members = [s \in Sessions |-> {}]
  /\ epoch = [s \in Sessions |-> 0]
  /\ sendSeq = [s \in Sessions |-> 0]
  /\ epochKey = [s \in Sessions |-> Joined({})]
  /\ wire = <<>> /\ sent = <<>> /\ opened = <<>>

\* Mutant: the new key starts a new count of frames, but no new epoch.
RotateSameEpoch(s, ids) ==
  /\ epoch[s] < MaxEpoch
  /\ members' = [members EXCEPT ![s] = ids]
  /\ epochKey' = [epochKey EXCEPT ![s] = Joined(ids)]
  /\ epoch' = epoch
  /\ sendSeq' = [sendSeq EXCEPT ![s] = 0]
  /\ UNCHANGED <<wire, sent, opened>>

\* The new member list, then _rotate_epoch.
Rotate(s, ids) ==
  /\ epoch[s] < MaxEpoch
  /\ members' = [members EXCEPT ![s] = ids]
  /\ epochKey' = [epochKey EXCEPT ![s] = Joined(ids)]
  /\ epoch' = [epoch EXCEPT ![s] = @ + 1]
  /\ sendSeq' = [sendSeq EXCEPT ![s] = 0]
  /\ UNCHANGED <<wire, sent, opened>>

\* Mutant: the limit is tested one member late.
AddPastLimit(s, id) ==
  /\ Cardinality(members[s]) <= MAX_MEMBERS
  /\ Rotate(s, members[s] \cup {id})

\* At the limit OverflowError is raised before anything changes, even for an
\* id that is already a member.
AddMember(s, id) ==
  /\ Cardinality(members[s]) < MAX_MEMBERS
  /\ Rotate(s, members[s] \cup {id})

\* Mutant: the member goes, the key stays.
RemoveWithoutRotate(s, id) ==
  /\ epoch[s] < MaxEpoch
  /\ members' = [members EXCEPT ![s] = @ \ {id}]
  /\ UNCHANGED <<epoch, epochKey, sendSeq, wire, sent, opened>>

\* Whether or not id is a member.
RemoveMember(s, id) == Rotate(s, members[s] \ {id})

\* Mutant: the epoch is not held to its field.
EncryptUnlimited(s, m) ==
  /\ Len(wire) < MaxFrames
  /\ sendSeq[s] < SEQ_LIMIT
  /\ wire' = Append(wire, [from |-> s, key |-> epochKey[s], epoch |-> epoch[s],
                           seq |-> sendSeq[s], padded |-> GroupPad(m)])
  /\ sent' = Append(sent, [text |-> m, members |-> members[s]])
  /\ sendSeq' = [sendSeq EXCEPT ![s] = @ + 1]
  /\ UNCHANGED <<members, epoch, epochKey, opened>>

\* _seq_nonce raises, before anything has changed, once the epoch or the
\* number has outgrown its field.
Encrypt(s, m) ==
  /\ Len(wire) < MaxFrames
  /\ epoch[s] < EPOCH_LIMIT /\ sendSeq[s] < SEQ_LIMIT
  /\ wire' = Append(wire, [from |-> s, key |-> epochKey[s], epoch |-> epoch[s],
                           seq |-> sendSeq[s], padded |-> GroupPad(m)])
  /\ sent' = Append(sent, [text |-> m, members |-> members[s]])
  /\ sendSeq' = [sendSeq EXCEPT ![s] = @ + 1]
  /\ UNCHANGED <<members, epoch, epochKey, opened>>

\* An undamaged frame with its own epoch and number; any other call raises
\* and changes nothing.
Decrypt(s, i) ==
  /\ Len(opened) < MaxOpened
  /\ wire[i].key = epochKey[s]
  /\ opened' = Append(opened, [frame |-> i, text |-> GroupUnpad(wire[i].padded),
                               members |-> members[s]])
  /\ UNCHANGED <<keyVars, wire, sent>>

Next ==
  \E s \in Sessions :
    \/ \E id \in Ids : AddMember(s, id) \/ RemoveMember(s, id)
    \/ \E m \in Texts : Encrypt(s, m)
    \/ \E i \in DOMAIN wire : Decrypt(s, i)

Spec == Init /\ [][Next]_vars

-----------------------------------------------------------------------------
Frame  == [from : Sessions, key : Bytes,
           epoch : 0 .. EPOCH_LIMIT - 1, seq : 0 .. SEQ_LIMIT - 1, padded : Plain]
Sent   == [text : Texts, members : SUBSET Ids]
Opened == [frame : Nat \ {0}, text : Bytes, members : SUBSET Ids]

\* The state has its types; every sealed plaintext has the one fixed size and
\* an epoch and a number that fit their fields, and no session lists more than MAX_MEMBERS
\* members.
TypeOK ==
  /\ members \in [Sessions -> SUBSET Ids]
  /\ \A s \in Sessions : Cardinality(members[s]) <= MAX_MEMBERS
  /\ epoch \in [Sessions -> Nat]
  /\ sendSeq \in [Sessions -> Nat]
  /\ epochKey \in [Sessions -> Bytes]
  /\ wire \in Seq(Frame)
  /\ sent \in Seq(Sent)
  /\ opened \in Seq(Opened)

\* A session never numbers two frames alike under one key, though every change
\* of the members restarts _send_seq and an old member list brings back its
\* old key (group.py:71-76, 85-86).  Of one session only: two sessions with
\* one member list have one key and count their frames alike.
NumbersFresh ==
  \A i, j \in DOMAIN wire :
    /\ i # j
    /\ wire[i].from = wire[j].from
    /\ wire[i].key = wire[j].key
    => <<wire[i].epoch, wire[i].seq>> # <<wire[j].epoch, wire[j].seq>>

\* Member ids of one length, none of them empty.
OneLength(ids) == \A a, b \in ids : Len(a) = Len(b) /\ Len(a) # 0

\* Whatever was joined or left meanwhile, a frame is opened only by a session
\* whose member list runs together to the same bytes as the sender's list did
\* when the frame was sealed; and where the ids of the two lists have one
\* length, the lists are the same.  Where they have not, they may differ:
\* {"a", "b"} and {"ab"} open each other's frames (group.py:36-39, 61-76,
\* 87, 98).
OpenedByRoom ==
  \A k \in DOMAIN opened :
    LET room   == sent[opened[k].frame].members
        opener == opened[k].members
    IN  /\ Joined(opener) = Joined(room)
        /\ OneLength(opener \cup room) => opener = room

\* decrypt returns the plaintext cut to the frame size and without its
\* trailing zero bytes; zero bytes anywhere else survive (group.py:82-84, 99).
OpenedText ==
  \A k \in DOMAIN opened :
    LET m == Clip(sent[opened[k].frame].text, MaxPlaintext)
        t == opened[k].text
    IN  /\ IsPrefix(t, m)
        /\ t # <<>> => t[Len(t)] # 0
        /\ \A i \in Len(t) + 1 .. Len(m) : m[i] = 0
=============================================================================
