SPECIFICATION Spec
CONSTANTS
    Connects = {c1, c2}
    Requests = {r1, r2}
    Disconnects = {d1}
    Timed = {r1}
    Apis <- MCApis
    Opens = {c2}
    Habits = {"bye", "gone", "reset", "bad packet", "delete"}
    MaxSignals = 1
    SEQ_LIMIT = 100
VIEW MCView
INVARIANTS AnswersMatch SentInOrder WaitersAreListed HandshakeHolds OrderlyNeverAborts ResultsFit
CHECK_DEADLOCK FALSE
