---------------------------- MODULE MCTelemetry ----------------------------
(***************************************************************************)
(* Small instances of Telemetry for TLC: the events of one execution, with *)
(* times out of step with any order of arrival, a restamped retry, two     *)
(* contradicting outcomes, and one event of a second execution.            *)
(***************************************************************************)
EXTENDS Telemetry, TLC

CONSTANTS a, b, c, d, x, y, t, E, K

Event(id, execution, status, at, errorCode, correlation) ==
  [id |-> id, execution |-> execution, target |-> t, status |-> status,
   at |-> at, errorCode |-> errorCode, correlation |-> correlation]

\* What the platforms send, and a success that still carries an error code.
SentEvents ==
  { Event(a, x, "STARTED", 2, Null, Null),
    Event(b, x, "FAILED", 3, E, K),
    Event(b, x, "FAILED", 4, E, K),
    Event(c, x, "SUCCEEDED", 1, Null, Null),
    Event(c, x, "SUCCEEDED", 1, E, Null),
    Event(d, y, "STARTED", 1, Null, Null) }

\* A failure that names no error code is refused by the contract already.
ContractEvents ==
  { Event(a, x, "STARTED", 1, Null, Null),
    Event(b, x, "SUCCEEDED", 2, E, K),
    Event(c, x, "FAILED", 2, Null, Null) }

Symmetry == Permutations(Requests)
=============================================================================
