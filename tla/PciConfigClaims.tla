-------------------------- MODULE PciConfigClaims --------------------------
(* What pci_config.py says of its parser and the parser does not do.        *)
EXTENDS PciConfig

\* The parser ends at the end of its data: it asks before it reads a full
\* resource descriptor whether one is left.  By the layout in its docstring,
\* pci_config.py:294-301, the part it then reads has 16 bytes; it asks for 12.
NoStructError == result.out # "struct.error"
=============================================================================
