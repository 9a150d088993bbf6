-------------------------- MODULE MCSubscriptions --------------------------
(* Instance of Subscriptions for TLC. *)
EXTENDS Subscriptions

CONSTANTS h1, h2

MCHandlers == {h1, h2}

\* No subscription; no hole; holes as in test/conf/test_nssf_config.yaml; every
\* id taken; ids that do not ascend; ids that wrap, to 1 and to 3; an id that is
\* no number.
MCInitialLists ==
    { <<>>, <<1, 2>>, <<1, 3, 4>>, <<1, 2, 3, 4>>, <<2, 1>>, <<1, 3, 2>>,
      <<6, 7>>, <<1, 2, 8, 9>>, <<-4, 2>>, <<1, NotANumber>>, <<2, NotANumber, 4>> }

MCNamedIds == {1, 2, 3, NotANumber}
=============================================================================
