----------------------------- MODULE MCChatPage -----------------------------
EXTENDS ChatPage, TLC

\* Conversations and requests are interchangeable.
Symmetry == Permutations(Conversation) \cup Permutations(Request)
=============================================================================
