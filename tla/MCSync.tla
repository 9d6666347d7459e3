------------------------------- MODULE MCSync -------------------------------
EXTENDS Sync

CONSTANTS fuzzer0, fuzzer1, c1, c2

MCInstances == {fuzzer0, fuzzer1}
MCCases == {c1, c2}
=============================================================================
