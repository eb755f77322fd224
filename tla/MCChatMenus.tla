----------------------------- MODULE MCChatMenus -----------------------------
EXTENDS ChatMenus
=============================================================================
