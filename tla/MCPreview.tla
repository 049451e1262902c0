-------------------------------- MODULE MCPreview --------------------------------
(* Values for the model-checking run of Preview.                           *)
EXTENDS Preview
================================================================================
