------------------------ MODULE MCNssaiAvailability ------------------------
(* Instance of NssaiAvailability for TLC. *)
EXTENDS NssaiAvailability, TLC

CONSTANTS h1, h2, amf1, amf2, i1

MCHandlers == {h1, h2}
MCNfIds == {amf1, amf2}
MCItems == {i1}

\* The configuration file lists one AMF.
MCInitialAmfList == <<[nfId |-> amf1, data |-> {i1}]>>

\* Safety only: the handlers are interchangeable.
MCSymmetry == Permutations(Handlers)
=============================================================================
