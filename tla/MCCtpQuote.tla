------------------------------ MODULE MCCtpQuote ------------------------------
\* Small instances of CtpQuote.
EXTENDS CtpQuote

MCThreeTopics == <<"au1812", "cu1901", "rb1901">>
=============================================================================
