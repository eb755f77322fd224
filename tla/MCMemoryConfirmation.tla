------------------------ MODULE MCMemoryConfirmation ------------------------
EXTENDS MemoryConfirmation
=============================================================================
