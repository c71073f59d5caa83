SPECIFICATION Spec
CONSTANTS
    MaxWrites = 2
    Timestamps <- MCTimestamps
    TickNanos = 100
    EpochTicks = 2
INVARIANT TypeOK
INVARIANT OneImplementationPerBuild
INVARIANT AcknowledgedSyncIsDurable
INVARIANT PollReadyMeansReadable
PROPERTY TimesSetAsAsked
