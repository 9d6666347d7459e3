----------------------------- MODULE MCOutputDir -----------------------------
EXTENDS OutputDir

CONSTANTS s1, s2, f1

MCSeeds == <<s1, s2>>
MCFound == {f1}
=============================================================================
