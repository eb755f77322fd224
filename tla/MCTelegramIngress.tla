-------------------------- MODULE MCTelegramIngress --------------------------
(* A small instance: the owner sends a text, an album, a voice message and *)
(* a /stop, and a stranger sends a photo.                                  *)
EXTENDS TelegramIngress

Sent == <<"text", "photo", "photo", "slow", "stop">>

Sender == <<"owner", "owner", "stranger", "owner", "owner">>

=============================================================================
