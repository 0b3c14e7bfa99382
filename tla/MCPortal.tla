------------------------------ MODULE MCPortal ------------------------------
\* Portal on small instances: combos are pairs, which a cfg cannot write.
EXTENDS Portal
CONSTANTS h1, h2  \* two halves of a Swap Force figure
MCCombos == {<<h1, h2>>}
NoCombos == {}
=============================================================================
