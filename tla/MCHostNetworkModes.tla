------------------------ MODULE MCHostNetworkModes ------------------------
(* HostNetworkModes over the two plans of MCHostNetwork; where everything   *)
(* may fail, the one that writes the more files is saved.                   *)
EXTENDS HostNetworkModes, MCHostNetwork
=============================================================================
