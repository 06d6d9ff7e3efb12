----------------------------- MODULE MCProcesses -----------------------------
EXTENDS Processes

CONSTANTS s1, s2, b1, x1

MCProcesses == {s1, s2}
MCServers == {s1, s2}
MCBacktests == {b1}
MCExperiments == {x1}
=============================================================================
