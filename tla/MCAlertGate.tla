----------------------------- MODULE MCAlertGate -----------------------------
(* Bounded instances of AlertGate for TLC. *)
EXTENDS AlertGate, TLC
CONSTANTS t1, c1, c2
MCContents == Alert
MCBlank == NoAlert
MCAnyGroups == {{}, {"restore", "preview"}}
=============================================================================
