--------------------------- MODULE MCArtifactCapture ---------------------------
(* Two outputs, the first one required, and one content that is invalid.      *)
EXTENDS ArtifactCapture

MCWrites   == <<"report", "notes">>
MCRequired == {"report"}
================================================================================
