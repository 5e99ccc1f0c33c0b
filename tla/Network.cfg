SPECIFICATION NetworkSpec
CONSTANTS
    Buffers = {b1, b2}
    Users = {u1, u2, u3}
    MaxTimeouts = 1
    NoBuffer = NoBuffer
    Senders = {s1, s2}
    initial_credits = 2
    MaxAmount = 2
    MaxResets = 1
INVARIANTS BuffersAccounted NobodyForgotten CreditsAccounted SleepersLackCredits
