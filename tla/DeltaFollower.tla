---------------------------- MODULE DeltaFollower ----------------------------
(***************************************************************************)
(* What the kind 1066 events of rstate are for: whoever begins with a      *)
(* relay's state and applies its deltas lags behind the relay, but is only *)
(* ever brought to a state that the relay is in.                           *)
(***************************************************************************)
CONSTANTS
  Relays,  \* relay URLs
  None     \* no state, no version

VARIABLES
  state,   \* the state each relay was last found in: [version, nips]
  known,   \* what those who follow it make of it
  lost     \* relays of which an event is missing, for good

vars == <<state, known, lost>>

Init ==
  /\ state = [r \in Relays |-> None] /\ known = state
  /\ lost = {}

\* The relay is found in another state; its followers do not know yet.
Changes(r) == state'[r] # None /\ known'[r] = known[r]

\* A follower is brought to the state the relay is in. A version that is gone
\* has no tag, and who knows one goes on with it.
Told(x, old) == [x EXCEPT !.version = IF @ = None /\ old # None THEN old.version ELSE @]

Hears(r) ==
  /\ state[r] # None /\ state'[r] = state[r]
  /\ known'[r] = Told(state[r], known[r])

Next ==
  /\ lost \subseteq lost'
  /\ \A r \in Relays \ lost' :
       (state'[r] = state[r] /\ known'[r] = known[r]) \/ Changes(r) \/ Hears(r)

Spec == Init /\ [][Next]_vars
=============================================================================
