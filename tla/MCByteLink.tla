----------------------------- MODULE MCByteLink -----------------------------
(* ByteLink with a payload that holds the sync bytes. *)
EXTENDS ByteLink
MCPayloads == {<<Sync0, Sync1>>}
=============================================================================
