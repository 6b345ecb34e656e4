---------------------------- MODULE MCCheckCycle ----------------------------
(* Small instances of CheckCycle. *)
EXTENDS CheckCycle

CONSTANTS r1, r2, r3, s1, s2

NoRelay == {}
OneRelay == {r1}
TwoRelays == {r1, r2}
ThreeRelays == {r1, r2, r3}
SecondRelay == {r2}
ThirdRelay == {r3}
OneSlot == {s1}
TwoSlots == {s1, s2}
=============================================================================
