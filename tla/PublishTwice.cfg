SPECIFICATION PreviewSpec
CONSTANTS
    Workers = {k1, k2}
    Kinds <- PublishKinds
    MaxMsgs = 3
    MaxAborts = 0
SYMMETRY Symmetry
INVARIANT
    OnePublishPerDraft
