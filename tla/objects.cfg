CONSTANTS
    a = a
    b = b
    c = c
    v0 = v0
    v1 = v1
    Ev = Ev
    MbRecv = MbRecv
    MbSend = MbSend
    MqRecv = MqRecv
    NoValue = NoValue
    Thread = {a, b, c}
    Priority <- RankedPriority
    WaitList = {Ev, MbRecv, MbSend, MqRecv}
    Value = {v0, v1}
    FLAG = 1
    size = 2
    max_msgs = 2
SPECIFICATION Spec
SYMMETRY Alike
INVARIANTS
    ReportsWhatWasSet
    SlotsConserved
    ReceivedInOrder
    
PROPERTY FlagsGoToReceivers
CHECK_DEADLOCK FALSE
