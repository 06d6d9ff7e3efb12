\* Two servers, one backtest, one experiment, one detached call at a time, two faults.
SPECIFICATION FairSpec
CONSTANTS
  s1 = s1
  s2 = s2
  b1 = b1
  x1 = x1
  Processes <- MCProcesses
  Servers <- MCServers
  Backtests <- MCBacktests
  Experiments <- MCExperiments
  MaxDetached = 1
  MaxFaults = 2
INVARIANTS WorkUnderLease LiveRunsKept TestedOnce
PROPERTY SomeoneWorks
