-------------------------- MODULE MCAnchoredSequencer --------------------------
(* Small instances of AnchoredSequencer, with the hash values of MCSequencer.   *)
EXTENDS AnchoredSequencer, TLC

MCSortKey(tx, r) == (tx + r) % 2
MCVrfOutput(proof) ==
  (proof.key + 2 * proof.seed.slot + (IF proof.seed.prevRoot = ZeroRoot THEN 0 ELSE 1)) % 2
===============================================================================
