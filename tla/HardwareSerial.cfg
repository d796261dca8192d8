CONSTANTS
    rxBufferSize = 3
    txBufferSize = 2
    RxFifo = 2
    TxFifo = 1
    MaxRx = 5
    MaxTx = 2
SPECIFICATION FairSpec
INVARIANTS TypeOK TransmitsInOrder AvailableSound
PROPERTIES ReceivesInOrder CallsReturn
