----------------------------- MODULE MC_Intents -----------------------------
EXTENDS Intents

CONSTANTS d1, d2, va, vb, vc

MCDelegators == {d1, d2}
MCValidators == {va, vb}
MCValidators3 == {va, vb, vc}
=============================================================================
