---------------------------- MODULE MCNebulaRelay ----------------------------
(* Two peers.  The first is sent a small message in two frames and a large *)
(* one with a ping inside; the second a large message that the game server *)
(* breaks off, the small one that follows it, and a large one in one frame. *)
EXTENDS NebulaRelay, TLC

CONSTANTS p1, p2

Ping == Frame("control", TRUE, <<>>, FALSE)

Pieces == {"a", "b", "c", "d", "e", "f", "g", "h"}

Scripts ==
    (p1 :> <<Frame("binary", FALSE, <<"a">>, FALSE), Frame("continuation", TRUE, <<"b">>, FALSE),
             Frame("binary", FALSE, <<"c">>, TRUE), Ping,
             Frame("continuation", TRUE, <<"d">>, FALSE)>>)
    @@
    (p2 :> <<Frame("binary", FALSE, <<"e">>, TRUE), Frame("binary", TRUE, <<"f">>, FALSE),
             Frame("binary", TRUE, <<"g", "h">>, TRUE)>>)
=============================================================================
