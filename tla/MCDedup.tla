------------------------------- MODULE MCDedup -------------------------------
(* Every string of up to twelve bytes 0 and 1, as a file and as the data of  *)
(* each kind of packet, with chunks of two or three bytes, a window of two   *)
(* bytes, lists of two or three entries and LZ4 blocks of four bytes.        *)
EXTENDS NebulaPackets

MaxLength == 12
MCInputs == UNION {[1 .. n -> {0, 1}] : n \in 0 .. MaxLength}

\* An arbitrary property of keys: of chunks that start with 1, and of lists
\* with a repeated key.
MCMarked(key) ==
    LET d == Content(key)
    IN  IF d[1] = "raw" THEN d[2][1] = 1 ELSE ~IsInjective(d[3])
=============================================================================
