--------------------------- MODULE ArpReconClaims ---------------------------
(***************************************************************************)
(* What docs/decisions/004-enhanced-arp-recon.md says arprecon detects.    *)
(***************************************************************************)
EXTENDS ArpRecon

(* ADR 004, line 14: "Duplicate detection + spoof events (multiple MACs    *)
(* for same IP)".  Two replies that claim one address with two MACs have   *)
(* therefore been counted as a duplicate; in the code the comparison       *)
(* stands inside the test for a free slot (arprecon.c:85), and a full      *)
(* table compares nothing any more.                                        *)
ConflictsAreDetected == ConflictingPairs(heard) # {} => stats.dups > 0
=============================================================================
