--------------------------- MODULE MCBlockServing ---------------------------
(* A world of three files, one of them empty and one that Factorio          *)
(* compressed itself, which needs 287 bytes: an original size of 300 leaves *)
(* padding once it is multiplied, one of 261 fits exactly, one of 260 is    *)
(* too small.  And a world of one file without auxiliary data that fills    *)
(* its last block exactly.  The announcements: a plain heartbeat, and the   *)
(* first fragment of one, with confirmations and two actions.               *)
EXTENDS BlockServing

MCLevelNames == {<<108>>}
MCFiles == <<[name |-> <<97>>, data |-> <<1, 2, 255>>],
             [name |-> <<108>>, data |-> <<7, 7, 9>>],
             [name |-> <<98>>, data |-> <<>>]>>

MCInfo(world_size, aux_size, world_crc) ==
    EncodeInfo([world_size |-> world_size, no_idea1 |-> <<9, 9, 0, 0>>, aux_size |-> aux_size,
                no_idea2 |-> <<0, 0, 0, 9>>, world_crc |-> world_crc])
MCPlain == <<7, 16, 4, 0, 0, 0, 1, 5>>
MCFragment == <<71, 3, 128, 0, 2, 0, 0, 0, 16, 16, 16, 4, 0, 0, 0, 255, 2, 0, 0, 0, 5>>

MCWorlds ==
    {[files |-> MCFiles, aux_data |-> <<5, 6>>,
      heartbeat |-> MCPlain \o MCInfo(size, 2, <<1, 128, 3, 200>>)] : size \in {260, 300}}
    \cup {[files |-> MCFiles, aux_data |-> <<5, 6>>,
           heartbeat |-> MCFragment \o MCInfo(261, 2, <<1, 128, 3, 200>>) \o <<8, 8>>],
          [files |-> SubSeq(MCFiles, 2, 2), aux_data |-> <<>>,
           heartbeat |-> MCPlain \o MCInfo(175, 0, <<0, 0, 0, 0>>)]}

\* A request in a packet of its own; in a last fragment with an id over 254, and
\* confirmations; in a last fragment without an id.
MCRequestHeaders ==
    {<<12>>, <<204, 5, 128, 255, 0, 1, 1, 0, 0, 0, 12>>, <<140, 5, 0>>}

\* Another type; and requests that are cut off, in the id, in the fragment id and
\* in the confirmations.
MCOtherPackets == {<<6, 1>>, <<12, 0>>, <<76, 5, 0, 255, 0>>, <<140, 5, 128, 9, 0, 0, 0, 1>>}
=============================================================================
