\* The run ends when the programs do, or when a rank has thrown.
CONSTANTS
    N = 4
    MaxGen = 1
    MaxSyncs = 13
    MaxCalls = 3
    QueueLen = 1
    Programs <- MCPrograms
    Scripts <- MCScripts
SPECIFICATION BrokerFairSpec
CHECK_DEADLOCK FALSE
INVARIANTS DataTypeOK ExchangeCorrect NoTornSlot FdsRouted NoFdLeak SocketsDrained SameCall
PROPERTIES ImplementsBarrier ExchangeReturns AllCallsReturn
