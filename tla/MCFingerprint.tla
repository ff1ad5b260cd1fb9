---------------------------- MODULE MCFingerprint ----------------------------
(* A gallery of two prints that share a secure slot.                       *)
EXTENDS FingerprintPrompt
SharedSlot == <<1, 1>>
=============================================================================
