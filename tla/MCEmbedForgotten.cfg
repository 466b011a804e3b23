SPECIFICATION EmbedSpec
CONSTANTS
    Item = {i1, i2}
    Content = {c1}
    Model = {m1}
    BatchSize = 1
    MaxChanges = 1
    None = None
INVARIANT NothingForgottenIsSent
