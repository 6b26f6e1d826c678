SPECIFICATION FairSpec
CONSTANTS
    Calls = {c1, c2}
    Queries = {q1}
    MaxSaid = 1
    MaxConns = 2
    None = None
INVARIANTS WhatItReturns
PROPERTY AnsweredWithoutTimeouts
CHECK_DEADLOCK FALSE
