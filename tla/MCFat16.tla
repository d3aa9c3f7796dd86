-------------------------------- MODULE MCFat16 --------------------------------
(***************************************************************************)
(* The instance of Fat16 for crashes: two files, one in a subdirectory,      *)
(* share three clusters; two crashes and a failed command, at any point.     *)
(***************************************************************************)
EXTENDS Fat16
================================================================================
