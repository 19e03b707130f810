---- MODULE MCUploadPipeline ----
EXTENDS UploadPipeline

AllFaults == {"storage", "audit", "abort"}
====
