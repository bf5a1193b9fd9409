---------------------------- MODULE MCSynaptics ----------------------------
(* Synaptics identifying among up to two prints.                             *)
EXTENDS Synaptics

MCGalleries == {<<>>, <<TRUE>>, <<TRUE, TRUE>>}
=============================================================================
