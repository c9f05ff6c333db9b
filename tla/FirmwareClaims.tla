-------------------------- MODULE FirmwareClaims --------------------------
(* What the comments of firmware.py say of booting the CPU and the code     *)
(* does not do.                                                             *)
EXTENDS FirmwareBoot

\* firmware.py:259, "Poll until DRAM_RDY", and :268, "CPUStatus after
\* successful boot": a normal return means the DRAM is up.  The code compares
\* status numbers, and the stages before DRAM_RDY have the larger ones.
OkMeansDramUp == result.out = "ok" => dramUp
=============================================================================
