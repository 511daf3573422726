\* Three calls on one connection or several, with malformed and oversized
\* requests, oversized and torn responses, and connections that break.
SPECIFICATION FairSpec
CONSTANTS
    Base = 16
    MAX_MESSAGE_SIZE = 28
    MAX_KEY_SIZE = 1
    MAX_VALUE_SIZE = 28
    TransferSize = 28
    Junk = {2, 9}
    Operations <- SomeOperations
    Found <- SomeValues
    Pairs <- SomePairs
    MaxCalls = 3
INVARIANT AnswersMatch
PROPERTY CallsEnd
