------------------------------ MODULE MCStorage -------------------------------
(***************************************************************************)
(* Small instances of SledStorage.                                         *)
(***************************************************************************)
EXTENDS SledStorage

CONSTANTS command, member

OneCommand  == {command}
BothEntries == {command, member}
Members     == {member}
NoMembers   == {}
=============================================================================
