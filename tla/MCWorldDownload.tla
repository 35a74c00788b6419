--------------------------- MODULE MCWorldDownload ---------------------------
(* Five world bytes and one auxiliary byte in blocks of two: three world    *)
(* blocks, the last one padded, and a short auxiliary block; a window of    *)
(* two requests.                                                            *)
EXTENDS WorldDownload
=============================================================================
