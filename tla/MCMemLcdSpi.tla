---------------------------- MODULE MCMemLcdSpi ----------------------------
(* Instances of MemLcdSpi for TLC, which also evaluates the table of       *)
(* Msb2Lsb that formats what MemLcdSpi sends.                              *)
EXTENDS MemLcdSpi, Msb2Lsb
CONSTANTS w1, w2
=============================================================================
