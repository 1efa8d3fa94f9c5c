---------------------------- MODULE MCAggregator ----------------------------
(***************************************************************************)
(* AggregatorHistory with at most MaxOffered packets put in each direction. *)
(***************************************************************************)
EXTENDS AggregatorHistory

CONSTANT MaxOffered

MCPacket == 1..MaxOffered
=============================================================================
