SPECIFICATION SpeakSpec
CONSTANTS
    Setters = {p1, p2}
    Speakers = {s1}
INVARIANTS
    ModeInForce
    SpokenAsAsked
    VoiceVetted
CHECK_DEADLOCK FALSE
