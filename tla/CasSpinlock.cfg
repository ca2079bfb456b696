\* Three threads and four trips: contention, early stops and a thread that makes every trip.
CONSTANTS
  Thread = {t1, t2, t3}
  RoundTrips = 4
SPECIFICATION MainSpec
INVARIANTS TypeOK MutualExclusion DataRaceFree ExitIsExact TripsAddUp Inv ReportIsComplete
PROPERTY AllJoin
