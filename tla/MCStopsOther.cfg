SPECIFICATION Spec
CONSTANTS
    Conns = {c1, c2}
    Nobody = Nobody
    MaxSetups = 1
    Polite = c2
INVARIANT SessionKeepsPlaying
CHECK_DEADLOCK FALSE
