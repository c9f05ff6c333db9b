--------------------------- MODULE MCGoyaDevice ---------------------------
(* Small instances of GoyaDevice for TLC: the configurations give the      *)
(* constants as model values; transfers are interchangeable.               *)
EXTENDS GoyaDeviceService, TLC

Symmetry == Permutations(Transfers)
=============================================================================
