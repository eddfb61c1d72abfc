--------------------------- MODULE MCCaptureQueue ---------------------------
(***************************************************************************)
(* Three builds: a group of one snapshot, groups of four snapshots in two  *)
(* browsers, and three groups of a browser.                                *)
(***************************************************************************)
EXTENDS CaptureQueue

CH == [browser |-> "chromium", snapshots |-> 1]
FF == [browser |-> "firefox", snapshots |-> 2]
ThreeSizes ==
  [small |-> <<CH>>, browsers |-> <<CH, CH, FF>>, large |-> <<CH, CH, CH>>]
=============================================================================
