----------------------- MODULE OutConnectorParameters -----------------------
(* The parameters of OutConnectorHealth, in a module of their own so that a  *)
(* module that runs OutConnectorHealth beside other components can take them. *)
EXTENDS Integers

CONSTANTS
  Workers,       \* processes that run out connector jobs
  Admins,        \* requests of the management API that may overlap
  NumMaxRetries, \* NUM_MAX_RETRIES
  Window,        \* CONNECTOR_DEACTIVATION_WINDOW_SECONDS, in ticks
  MaxKills       \* bound on jobs killed (time limit, restart)

ASSUME HealthAssumption ==
  /\ NumMaxRetries \in Nat \ {0}
  /\ Window \in Nat \ {0}
  /\ MaxKills \in Nat
=============================================================================
