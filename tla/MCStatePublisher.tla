-------------------------- MODULE MCStatePublisher --------------------------
(* Small instances of StatePublisher. *)
EXTENDS StatePublisher, TLC

CONSTANTS r1, r2, v

OneRelay == {r1}
TwoRelays == {r1, r2}
RelaySymmetry == Permutations(TwoRelays)

\* A relay gains and loses a NIP and its version and goes up and down; its score
\* stays, deltas having nothing to do with it.
TwoStates == {
  [version |-> v, nips |-> {}, score |-> 0, online |-> TRUE],
  [version |-> None, nips |-> {1}, score |-> 0, online |-> FALSE]}

\* A relay that gains a NIP and a version, moves by half the threshold, goes
\* offline and loses the version again.
FewStates == {
  [version |-> None, nips |-> {}, score |-> 0, online |-> TRUE],
  [version |-> v, nips |-> {1}, score |-> 1, online |-> TRUE],
  [version |-> None, nips |-> {1}, score |-> 2, online |-> FALSE]}

\* Bounds: each of the first cycles ends before the next begins, the very first
\* with both relays; the fourth begins while a batch is under way or after one;
\* and what deltas do not depend on gets out: transitions, and up to the fourth
\* cycle the assertions.
Batched == last.kind1066 > 0 \/ \E s \in Slots : cycle[s].phase \in {"batch", "beat"}
Warm ==
  /\ tick > 1 => Present(previous) = Relays
  /\ tick < 4 => Cardinality(InFlight) < 2 /\ off.score = {}
  /\ tick = 4 => Batched
  /\ off.status = {}
=============================================================================
