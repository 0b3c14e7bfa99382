---------------------------- MODULE MCCheckpoint ----------------------------
\* Checkpoint on a small instance: combos are pairs, which a cfg cannot write.
EXTENDS Checkpoint
CONSTANTS h1, h2, h3  \* halves of Swap Force figures
MCCombos == {<<h1, h2>>, <<h1, h3>>}
=============================================================================
