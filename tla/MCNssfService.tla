--------------------------- MODULE MCNssfService ---------------------------
(* Instance of NssfService for TLC. *)
EXTENDS NssfService

CONSTANTS p1, p2, s1, s2, h1, w1, w2, b1

MCPlmnIds == {p1, p2}
MCSnssais == {s1, s2}
MCHandlers == {h1}
MCOneWorker == {w1}
MCWorkers == {w1, w2}
MCBeats == {b1}
MCNoBeats == {}

Entry(p, s) == [plmn |-> p, snssais |-> s]

\* Nothing, or a configuration of two PLMNs, or of one.
MCTwoPlmns == {<<>>, <<Entry(p1, {s1}), Entry(p2, {s2})>>}
MCOnePlmn == {<<>>, <<Entry(p1, {s1})>>}
=============================================================================
