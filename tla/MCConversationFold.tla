------------------------- MODULE MCConversationFold -------------------------
EXTENDS ConversationFold

=============================================================================
