--------------------------- MODULE MCPlmnPolling ---------------------------
(* Instance of PlmnPolling for TLC: two PLMNs, two S-NSSAIs, two handlers. *)
EXTENDS PlmnPolling

CONSTANTS p1, p2, s1, s2, h1, h2

MCPlmnIds == {p1, p2}
MCSnssais == {s1, s2}
MCHandlers == {h1, h2}

Entry(p, s) == [plmn |-> p, snssais |-> s]

\* Nothing; one PLMN; the same PLMN with another slice; two PLMNs; one PLMN
\* listed twice, where the last entry decides.
MCWebuiConfigs ==
    { <<>>,
      <<Entry(p1, {s1})>>,
      <<Entry(p1, {s1, s2})>>,
      <<Entry(p1, {s1}), Entry(p2, {s2})>>,
      <<Entry(p1, {s1}), Entry(p1, {s2})>> }
=============================================================================
