CONSTANT LastSeq = 4
CONSTANT MaxStarts = 2
SPECIFICATION TrackerSpec
INVARIANTS ListWellFormed FreedByRestartOnly RecordsExactlyAhead
