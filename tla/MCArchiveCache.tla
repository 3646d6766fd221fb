--------------------------- MODULE MCArchiveCache ---------------------------
(* The module that TLC's runs of ArchiveCache start from; the cfg files    *)
(* give all the values.                                                    *)
EXTENDS ArchiveCache
=============================================================================
