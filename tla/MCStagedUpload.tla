---------------------------- MODULE MCStagedUpload ----------------------------
(* StagedUpload for TLC: one upload, and a service that is started twice.    *)
EXTENDS StagedUpload
===============================================================================
