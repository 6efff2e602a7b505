-------------------------------- MODULE MCChat -------------------------------
(* Instances of Chat for TLC. *)
EXTENDS Chat

MCThird == {3}
MCFirst == {1}
MCLong == <<{2}, {1}, {}>>
==============================================================================
