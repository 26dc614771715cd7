\* The script, any number of times, on a system in use.
SPECIFICATION Spec
INVARIANTS SeededStateBalances SeededOrdersHaveJobs
