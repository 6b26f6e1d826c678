SPECIFICATION FairVoiceSpec
CONSTANTS
    MaxSentences = 4
    MaxMessages = 2
    MaxWorkers = 4
INVARIANTS OneVoiceOnALine
PROPERTIES HeardTurnByTurn SentencesSettle
CHECK_DEADLOCK FALSE
