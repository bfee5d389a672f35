------------------------------ MODULE MCCtpLogin ------------------------------
\* A small instance of CtpLogin.
EXTENDS CtpLogin
=============================================================================
