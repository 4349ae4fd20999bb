---------------------------- MODULE MCConversation ----------------------------
(* A small instance of Conversation for TLC. *)
EXTENDS Conversation

\* bound: in a chat that becomes a pro's one request may end, in a customer's two
OneEndOfAPro == era <= 2 \/ (role = "customer" /\ state \notin Onboarding)
=============================================================================
