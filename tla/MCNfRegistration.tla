-------------------------- MODULE MCNfRegistration --------------------------
(* Instances of NfRegistration for TLC. *)
EXTENDS NfRegistration

CONSTANTS c1, c2, empty, w1, w2, b1

\* With one list that is not empty, an empty one cancels every registration
\* before the next is started, and two slots are enough for the service never
\* to wait for a slot for good.
MCOneConfig == {empty, c1}
MCTwoConfigs == {empty, c1, c2}
MCWorkers == {w1, w2}
MCOneBeat == {b1}
=============================================================================
