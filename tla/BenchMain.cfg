\* Three threads, two increments each; two runs of every variant, four items or round
\* trips; runs of length 2 and 3 tie in throughput.
CONSTANTS
  Threads = 3
  Total = 6
  NoArgument = NoArgument
  NotANumber = NotANumber
  Arguments <- MCArguments
  Runs = 2
  Items = 4
  Times = {1, 2, 3}
  Scale = 3
SPECIFICATION BenchSpec
INVARIANTS ReportsTotal DataRaceFree FiguresAreOfBestRun UsageHolds
