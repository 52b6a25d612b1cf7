------------------------- MODULE MCMessageConverter -------------------------
EXTENDS MessageConverter
=============================================================================
