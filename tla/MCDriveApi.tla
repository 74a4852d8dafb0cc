----------------------------- MODULE MCDriveApi -----------------------------
(* Two requests of a public link, one of them for a block, for TLC.        *)
EXTENDS DriveApi
=============================================================================
