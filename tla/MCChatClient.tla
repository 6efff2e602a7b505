---------------------------- MODULE MCChatClient ----------------------------
(* Instances of ChatClient for TLC. *)
EXTENDS ChatClient

MCLongLines == {3}
MCText == {"text"}
MCAllWhats == {"text", "connected"}
=============================================================================
