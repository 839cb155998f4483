--------------------------- MODULE MCChannelFeed ---------------------------
(***************************************************************************)
(* Instances of ChannelFeed for TLC. Bodies are the publisher's eras and   *)
(* the Reset Counts are the integers below the number of values, so that   *)
(* ResetCountOf is the wire value of an era.                               *)
(***************************************************************************)
EXTENDS ChannelFeed

OnePort == {"mktdata"}
Eras    == 0 .. MaxResets
=============================================================================
