---------------------------- MODULE MCContainers ----------------------------
EXTENDS Containers, SequencesExt

CONSTANTS n1, n2, n3, n4, a, b

\* Three of five keys meet in one bucket of four, and four in one of seven.
MCHash == <<1, 5, 8, 15, 29>>

MCUnits == {0, 65, 128, 2048, 65535}
MCText == BoundedSeq(MCUnits, 2)

MCDeeds == {{}, {"large"}, {"nested"}, {"small"}, {"race"}}
=============================================================================
