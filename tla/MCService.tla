------------------------------- MODULE MCService ------------------------------
EXTENDS Service, TLC
CONSTANTS web1, web2
=============================================================================
