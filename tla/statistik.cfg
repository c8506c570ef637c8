SPECIFICATION StatistikSpec
CONSTANTS
    maxSizeStatistikQueue = 2
    MaxZeit = 3
    MaxLeser = 2
INVARIANT StatistikTypeOK
INVARIANT NothingForgotten
INVARIANT EveryRecordMailed
INVARIANT LastMailSent
PROPERTY RefillRecordsTrue
PROPERTY OsmoseRecordsTrue
