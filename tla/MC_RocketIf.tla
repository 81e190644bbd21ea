----------------------------- MODULE MC_RocketIf -----------------------------
EXTENDS RocketIf

MCMaxSends == 3
MCMaxFrames == 3
=============================================================================
