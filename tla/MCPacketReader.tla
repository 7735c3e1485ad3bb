--------------------------- MODULE MCPacketReader -----------------------------
(* Small instances of PacketReader for TLC. *)
EXTENDS PacketReader

CONSTANT BodyLengths

\* One body of each length; its bytes look like length bytes, with and without mark.
MCBodies == {[i \in 1..n |-> (i + 1) % (2 * Base)] : n \in BodyLengths}
=============================================================================
