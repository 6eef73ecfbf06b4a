------------------------------ MODULE DelayLine -----------------------------
(***************************************************************************)
(* What the receiving half of each reference bus promises: the frames come *)
(* out in the order they came in, each exactly once, Delay frames late.    *)
(***************************************************************************)
EXTENDS Integers, Sequences

CONSTANTS Nodes, Frames, Delay

VARIABLES heard, played      \* per node: frames taken in, frames given out

DelayInit ==
  /\ heard = [n \in Nodes |-> <<>>]
  /\ played = [n \in Nodes |-> <<>>]

\* All but the Delay newest frames of s.
Released(s) == SubSeq(s, 1, IF Len(s) > Delay THEN Len(s) - Delay ELSE 0)

Hear(n, f) ==
  /\ heard' = [heard EXCEPT ![n] = Append(@, f)]
  /\ played' = [played EXCEPT ![n] = Released(Append(heard[n], f))]

DelayNext == \E n \in Nodes, f \in Frames : Hear(n, f)

DelaySpec == DelayInit /\ [][DelayNext]_<<heard, played>>
=============================================================================
