--------------------------- MODULE MCChrdevBlkIo ---------------------------
(* The instance of ChrdevBlkIo that TLC checks.                            *)
EXTENDS ChrdevBlkIo
=============================================================================
