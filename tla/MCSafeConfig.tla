---------------------------- MODULE MCSafeConfig ----------------------------
(* Instances of SafeConfig for TLC; the constants are in the .cfg files.       *)
EXTENDS SafeConfig, TLC
=============================================================================
