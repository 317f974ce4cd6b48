------------------------------ MODULE MCGateway ------------------------------
\* A provider that was started with one of the two keys.
EXTENDS Gateway

CONSTANT k1

MCStartKeys == <<k1>>
==============================================================================
