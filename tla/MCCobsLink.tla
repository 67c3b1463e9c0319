----------------------------- MODULE MCCobsLink -----------------------------
(* Bytes of four values, so that two bytes that are not zero fill a block.  *)
(* With its checksum a packet ends in a full block, in a zero, in neither;  *)
(* a zero follows a full block, or opens the packet.                        *)
EXTENDS CobsLink

Packets == {<<0>>, <<1, 1>>, <<1, 1, 0>>, <<1, 1, 1>>, <<0, 0, 1>>}

\* The packets in which a zero follows a full block are left to the run
\* CobsFullBlock.
FullThenZero == <<1, 1, 0>>
SomeReplies  == {<<0>>, <<1, 1, 1>>, <<0, 1, 1>>}
OneReply     == {FullThenZero}
=============================================================================
