------------------------------- MODULE MCChat -------------------------------
(* Small instances of ChatClient: two personas whose inbox shows one row     *)
(* each.                                                                     *)
EXTENDS ChatClient

TwoPersonas == <<"ada", "bob">>
=============================================================================
