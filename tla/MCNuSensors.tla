---------------------------- MODULE MCNuSensors ----------------------------
(* NuSensors on small instances. *)
EXTENDS NuSensors

MCProximityLis == <<"proximity", "lis">>
MCLightLis == <<"light", "lis">>
=============================================================================
