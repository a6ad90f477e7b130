---------------------------- MODULE MCQBittorrent ----------------------------
(***************************************************************************)
(* Instances of QBittorrent for TLC.                                       *)
(***************************************************************************)
EXTENDS QBittorrent

CONSTANT movies

\* Every client files its torrents under movies; adds may name another category.
AllMovies == [c \in Clients |-> movies]

=============================================================================
