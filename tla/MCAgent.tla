-------------------------------- MODULE MCAgent --------------------------------
(* Two mount points, of which one may hang; two attempts to register.        *)
EXTENDS Agent
=============================================================================
