----------------------------- MODULE FirstSeen -----------------------------
(***************************************************************************)
(* What the first-seen policy promises (module documentation of            *)
(* affinidi-keri/src/judge.rs): for each identifier and sequence number    *)
(* the first event seen there is the one that counts, for ever, and the    *)
(* events of an identifier are seen from its inception on without a gap.   *)
(***************************************************************************)
EXTENDS Naturals

CONSTANTS Prefix, SeqNo, Digest, NoSaid

VARIABLE seen  \* seen[p][s]: the SAID of the first event seen, or NoSaid

Init == seen = [p \in Prefix |-> [s \in SeqNo |-> NoSaid]]

See(p, s, d) ==
  /\ seen[p][s] = NoSaid
  /\ s > 0 => s - 1 \in SeqNo /\ seen[p][s - 1] # NoSaid
  /\ seen' = [seen EXCEPT ![p][s] = d]

Next == \E p \in Prefix, s \in SeqNo, d \in Digest : See(p, s, d)

Spec == Init /\ [][Next]_seen
=============================================================================
