---------------------------- MODULE MCChatServer ----------------------------
(* Instances of ChatServer for TLC. *)
EXTENDS ChatServer

MCOneHost == {"here"}
MCTwoHosts == {"here", "there"}
MCText == {"text"}
MCAllWhats == {"text", "connected"}
=============================================================================
