--------------------------- MODULE MCSocketParty ---------------------------
(***************************************************************************)
(* Every configuration of a socket party, for TLC.                         *)
(***************************************************************************)
EXTENDS SocketParty

MCKinds == [transport : {"tcp", "udp"}, endpoint : {"open", "connect"},
            sole : BOOLEAN]

=============================================================================
