---------------------------- MODULE DevicesProofs ----------------------------
(***************************************************************************)
(* The safety properties of Devices, proved for any number of devices and  *)
(* names.  Counted says what the reference counts are in the middle of     *)
(* every call, and the rest of the invariant which flags and rings a       *)
(* device has at each step of an open or a close.                          *)
(***************************************************************************)
EXTENDS Devices, TLAPS

Busy(d, steps) == call.d = d /\ call.pc \in steps

\* The console has closed its old device and not yet opened the new one.
Switching == call.by = "console" /\ call.pc \in OpenSteps \cup {"closed"}

\* What ref_cnt counts: the application's opens, the console, and an open whose
\* close is under way.
ConsoleShare(d) == IF console = d /\ ~Switching THEN 1 ELSE 0
CloseShare(d) == IF Busy(d, {"close"}) /\ call.by # "console" THEN 1 ELSE 0

Counted(d) == ref_cnt[d] = opens[d] + ConsoleShare(d) + CloseShare(d)

\* The flags of a device, in the middle of a call too.
Flagged(d) ==
    /\ OPEN \in flag[d] <=> ref_cnt[d] > 0 \/ Busy(d, {"closed"})
    /\ ACTIVATED \in flag[d] <=>
          ref_cnt[d] > 0 \/ Busy(d, {"closed", "serial", "rx", "tx", "count"})
    /\ Busy(d, {"init", "activate", "rx", "tx", "closed"}) => ref_cnt[d] = 0

\* The rings it has.
Ringed(d) ==
    /\ ref_cnt[d] > 0 => d \in rx /\ d \in tx
    /\ Busy(d, {"tx"}) => d \in rx
    /\ Busy(d, {"count"}) => d \in rx /\ d \in tx
    /\ d \in irq \ rx => Busy(d, {"activate", "serial", "rx"})

\* A device that is not registered is used by nobody.
Unused(d) ==
    name[d] = NULL => opens[d] = 0 /\ console # d /\ shell # d

\* Whom a call is about.
CallSane ==
    /\ ~Quiet => call.d \in Device /\ name[call.d] # NULL
    /\ call.by # "app" => call.set \in Device /\ name[call.set] # NULL
    /\ call.by = "console" /\ call.pc \in OpenSteps => call.d = call.set /\ console # call.set
    /\ call.by = "console" /\ call.pc \in CloseSteps => call.d = console /\ console # call.set
    /\ call.by = "app" /\ call.pc \in OpenSteps => opens[call.d] < MaxOpens
    /\ Quiet => call = Idle

IInv ==
    /\ TypeOK
    /\ CallSane
    /\ \A d \in Device : Counted(d) /\ Flagged(d) /\ Ringed(d) /\ Unused(d)

USE DEF ACTIVATED, OPEN, RDWR, OpenSteps, CloseSteps, Caller, Idle, Quiet, Rest, At, AddFlag, port

\* A call moves on.
LEMMA Moves ==
    ASSUME TypeOK, NEW l \in {"idle"} \cup OpenSteps \cup CloseSteps, Goto(l)
    PROVE  /\ call' \in CallState
           /\ call'.pc = l
           /\ call'.by = call.by /\ call'.d = call.d /\ call'.set = call.set
BY DEF TypeOK, CallState, Goto

\* sk_console_set_device goes on from the device it has closed to the new one.
LEMMA Turns ==
    ASSUME TypeOK, call' = [call EXCEPT !.pc = "open", !.d = call.set]
    PROVE  /\ call' \in CallState
           /\ call'.pc = "open" /\ call'.by = call.by /\ call'.d = call.set /\ call'.set = call.set
BY Zenon DEF TypeOK, CallState

LEMMA OpenTestsKeeps == IInv /\ OpenTests => IInv'
<1> SUFFICES ASSUME IInv, OpenTests PROVE IInv'
    OBVIOUS
<1>1. call.pc = "open" /\ call.d \in Device
    BY DEF IInv, CallSane, OpenTests
<1>2. /\ call' \in CallState
      /\ call'.pc = IF ACTIVATED \in flag[call.d] THEN "serial" ELSE "init"
      /\ call'.by = call.by /\ call'.d = call.d /\ call'.set = call.set
    BY Moves DEF IInv, OpenTests
<1>3. TypeOK'
    BY <1>1, <1>2 DEF IInv, TypeOK, OpenTests
<1>4. CallSane'
    BY <1>1, <1>2 DEF IInv, CallSane, OpenTests
<1>5. ASSUME NEW d \in Device PROVE (Counted(d) /\ Flagged(d) /\ Ringed(d) /\ Unused(d))'
    BY <1>1, <1>2 DEF IInv, TypeOK, OpenTests, Counted, Flagged, Ringed, Unused, Busy,
       Switching, ConsoleShare, CloseShare
<1> QED
    BY <1>3, <1>4, <1>5 DEF IInv

LEMMA SerialInitKeeps == IInv /\ SerialInit => IInv'
<1> SUFFICES ASSUME IInv, SerialInit PROVE IInv'
    OBVIOUS
<1>1. call.pc = "init" /\ call.d \in Device
    BY DEF IInv, CallSane, SerialInit
<1>2. /\ call' \in CallState
      /\ call'.pc = "activate"
      /\ call'.by = call.by /\ call'.d = call.d /\ call'.set = call.set
    BY Moves DEF IInv, SerialInit
<1>3. TypeOK'
    BY <1>1, <1>2 DEF IInv, TypeOK, SerialInit
<1>4. CallSane'
    BY <1>1, <1>2 DEF IInv, CallSane, SerialInit
<1>5. ASSUME NEW d \in Device PROVE (Counted(d) /\ Flagged(d) /\ Ringed(d) /\ Unused(d))'
    BY <1>1, <1>2 DEF IInv, TypeOK, SerialInit, Counted, Flagged, Ringed, Unused, Busy,
       Switching, ConsoleShare, CloseShare
<1> QED
    BY <1>3, <1>4, <1>5 DEF IInv

LEMMA ActivateKeeps == IInv /\ Activate => IInv'
<1> SUFFICES ASSUME IInv, Activate PROVE IInv'
    OBVIOUS
<1>1. call.pc = "activate" /\ call.d \in Device
    BY DEF IInv, CallSane, Activate
<1>2. /\ call' \in CallState
      /\ call'.pc = "serial"
      /\ call'.by = call.by /\ call'.d = call.d /\ call'.set = call.set
    BY Moves DEF IInv, Activate
<1>3. TypeOK'
    BY <1>1, <1>2 DEF IInv, TypeOK, Activate
<1>4. CallSane'
    BY <1>1, <1>2 DEF IInv, CallSane, Activate
<1>5. ASSUME NEW d \in Device PROVE (Counted(d) /\ Flagged(d) /\ Ringed(d) /\ Unused(d))'
    BY <1>1, <1>2 DEF IInv, TypeOK, Activate, Counted, Flagged, Ringed, Unused, Busy,
       Switching, ConsoleShare, CloseShare
<1> QED
    BY <1>3, <1>4, <1>5 DEF IInv

LEMMA SerialOpenKeeps == IInv /\ SerialOpen => IInv'
<1> SUFFICES ASSUME IInv, SerialOpen PROVE IInv'
    OBVIOUS
<1>1. call.pc = "serial" /\ call.d \in Device
    BY DEF IInv, CallSane, SerialOpen
<1>2. /\ call' \in CallState
      /\ call'.pc = IF OPEN \in flag[call.d] THEN "count" ELSE "rx"
      /\ call'.by = call.by /\ call'.d = call.d /\ call'.set = call.set
    BY Moves DEF IInv, SerialOpen
<1>3. TypeOK'
    BY <1>1, <1>2 DEF IInv, TypeOK, SerialOpen
<1>4. CallSane'
    BY <1>1, <1>2 DEF IInv, CallSane, SerialOpen
<1>5. ASSUME NEW d \in Device PROVE (Counted(d) /\ Flagged(d) /\ Ringed(d) /\ Unused(d))'
    BY <1>1, <1>2 DEF IInv, TypeOK, SerialOpen, Counted, Flagged, Ringed, Unused, Busy,
       Switching, ConsoleShare, CloseShare
<1> QED
    BY <1>3, <1>4, <1>5 DEF IInv

LEMMA RxEnableKeeps == IInv /\ RxEnable => IInv'
<1> SUFFICES ASSUME IInv, RxEnable PROVE IInv'
    OBVIOUS
<1>1. call.pc = "rx" /\ call.d \in Device
    BY DEF IInv, CallSane, RxEnable
<1>2. /\ call' \in CallState
      /\ call'.pc = "tx"
      /\ call'.by = call.by /\ call'.d = call.d /\ call'.set = call.set
    BY Moves DEF IInv, RxEnable
<1>3. TypeOK'
    BY <1>1, <1>2 DEF IInv, TypeOK, RxEnable
<1>4. CallSane'
    BY <1>1, <1>2 DEF IInv, CallSane, RxEnable
<1>5. ASSUME NEW d \in Device PROVE (Counted(d) /\ Flagged(d) /\ Ringed(d) /\ Unused(d))'
    BY <1>1, <1>2 DEF IInv, TypeOK, RxEnable, Counted, Flagged, Ringed, Unused, Busy,
       Switching, ConsoleShare, CloseShare
<1> QED
    BY <1>3, <1>4, <1>5 DEF IInv

LEMMA TxEnableKeeps == IInv /\ TxEnable => IInv'
<1> SUFFICES ASSUME IInv, TxEnable PROVE IInv'
    OBVIOUS
<1>1. call.pc = "tx" /\ call.d \in Device
    BY DEF IInv, CallSane, TxEnable
<1>2. /\ call' \in CallState
      /\ call'.pc = "count"
      /\ call'.by = call.by /\ call'.d = call.d /\ call'.set = call.set
    BY Moves DEF IInv, TxEnable
<1>3. TypeOK'
    BY <1>1, <1>2 DEF IInv, TypeOK, TxEnable
<1>4. CallSane'
    BY <1>1, <1>2 DEF IInv, CallSane, TxEnable
<1>5. ASSUME NEW d \in Device PROVE (Counted(d) /\ Flagged(d) /\ Ringed(d) /\ Unused(d))'
    BY <1>1, <1>2 DEF IInv, TypeOK, TxEnable, Counted, Flagged, Ringed, Unused, Busy,
       Switching, ConsoleShare, CloseShare
<1> QED
    BY <1>3, <1>4, <1>5 DEF IInv

LEMMA CountKeeps == IInv /\ Count => IInv'
<1> SUFFICES ASSUME IInv, Count PROVE IInv'
    OBVIOUS
<1>1. call.pc = "count" /\ call.d \in Device
    BY DEF IInv, CallSane, Count
<1>2. CASE call.by = "app"
  <2>1. /\ call' \in CallState
        /\ call' = Idle
    BY <1>1, <1>2, Moves DEF IInv, TypeOK, CallState, CallSane, Count
  <2>2. TypeOK'
    <3>1. ref_cnt[call.d] \in 0 .. MaxOpens + 1 /\ opens[call.d] \in 0 .. MaxOpens - 1
      BY <1>1, <1>2, DevicesAssumption DEF IInv, TypeOK, CallSane, Counted, Busy,
         ConsoleShare, CloseShare
    <3> QED
      BY <1>1, <1>2, <2>1, <3>1, DevicesAssumption DEF IInv, TypeOK, Count
  <2>3. CallSane'
    BY <1>1, <1>2, <2>1 DEF IInv, TypeOK, CallSane, Count
  <2>4. ASSUME NEW d \in Device PROVE (Counted(d) /\ Flagged(d) /\ Ringed(d) /\ Unused(d))'
    BY <1>1, <1>2, <2>1 DEF IInv, TypeOK, CallSane, Count, Counted, Flagged, Ringed, Unused,
       Busy, Switching, ConsoleShare, CloseShare
  <2> QED
    BY <2>2, <2>3, <2>4 DEF IInv
<1>3. CASE call.by = "console"
  <2>1. /\ call' \in CallState
        /\ call' = Idle
    BY <1>1, <1>3, Moves DEF IInv, TypeOK, CallState, CallSane, Count
  <2>2. TypeOK'
    BY <1>1, <1>3, <2>1, DevicesAssumption DEF IInv, TypeOK, CallSane, Count, Counted,
       Flagged, Ringed, Unused, Busy, Switching, ConsoleShare, CloseShare
  <2>3. CallSane'
    BY <1>1, <1>3, <2>1 DEF IInv, TypeOK, CallSane, Count
  <2>4. ASSUME NEW d \in Device PROVE (Counted(d) /\ Flagged(d) /\ Ringed(d) /\ Unused(d))'
    BY <1>1, <1>3, <2>1 DEF IInv, TypeOK, CallSane, Count, Counted, Flagged, Ringed, Unused,
       Busy, Switching, ConsoleShare, CloseShare
  <2> QED
    BY <2>2, <2>3, <2>4 DEF IInv
<1>4. CASE call.by = "shell"
  <2>1. /\ call' \in CallState
        /\ call'.pc = "close" /\ call'.by = call.by /\ call'.d = call.d /\ call'.set = call.set
    BY <1>1, <1>4, Moves DEF IInv, TypeOK, CallState, CallSane, Count
  <2>2. TypeOK'
    BY <1>1, <1>4, <2>1, DevicesAssumption DEF IInv, TypeOK, CallSane, Count, Counted,
       Flagged, Ringed, Unused, Busy, Switching, ConsoleShare, CloseShare
  <2>3. CallSane'
    BY <1>1, <1>4, <2>1 DEF IInv, TypeOK, CallSane, Count
  <2>4. ASSUME NEW d \in Device PROVE (Counted(d) /\ Flagged(d) /\ Ringed(d) /\ Unused(d))'
    BY <1>1, <1>4, <2>1 DEF IInv, TypeOK, CallSane, Count, Counted, Flagged, Ringed, Unused,
       Busy, Switching, ConsoleShare, CloseShare
  <2> QED
    BY <2>2, <2>3, <2>4 DEF IInv
<1> QED
    BY <1>2, <1>3, <1>4 DEF IInv, TypeOK, CallState

LEMMA CloseCountsKeeps == IInv /\ CloseCounts => IInv'
<1> SUFFICES ASSUME IInv, CloseCounts PROVE IInv'
    OBVIOUS
<1>1. call.pc = "close" /\ call.d \in Device
    BY DEF IInv, CallSane, CloseCounts
<1>2. CASE ref_cnt[call.d] = 1
  <2>1. /\ call' \in CallState
        /\ call'.pc = "closed" /\ call'.by = call.by /\ call'.d = call.d /\ call'.set = call.set
    BY <1>1, <1>2, Moves DEF IInv, TypeOK, CallState, CallSane, CloseCounts
  <2>2. TypeOK'
    BY <1>1, <1>2, <2>1, DevicesAssumption DEF IInv, TypeOK, CallSane, CloseCounts, Counted,
       Flagged, Ringed, Unused, Busy, Switching, ConsoleShare, CloseShare
  <2>3. CallSane'
    BY <1>1, <1>2, <2>1 DEF IInv, TypeOK, CallSane, CloseCounts
  <2>4. ASSUME NEW d \in Device PROVE (Counted(d) /\ Flagged(d) /\ Ringed(d) /\ Unused(d))'
    BY <1>1, <1>2, <2>1 DEF IInv, TypeOK, CallSane, CloseCounts, Counted, Flagged, Ringed,
       Unused, Busy, Switching, ConsoleShare, CloseShare
  <2> QED
    BY <2>2, <2>3, <2>4 DEF IInv
<1>3. CASE call.by = "app" /\ ref_cnt[call.d] # 1
  <2>1. /\ call' \in CallState
        /\ call' = Idle
    BY <1>1, <1>3, Moves DEF IInv, TypeOK, CallState, CallSane, CloseCounts, Closed
  <2>2. TypeOK'
    BY <1>1, <1>3, <2>1, DevicesAssumption DEF IInv, TypeOK, CallSane, CloseCounts, Closed,
       Counted, Flagged, Ringed, Unused, Busy, Switching, ConsoleShare, CloseShare
  <2>3. CallSane'
    BY <1>1, <1>3, <2>1 DEF IInv, TypeOK, CallSane, CloseCounts, Closed
  <2>4. ASSUME NEW d \in Device PROVE (Counted(d) /\ Flagged(d) /\ Ringed(d) /\ Unused(d))'
    BY <1>1, <1>3, <2>1 DEF IInv, TypeOK, CallSane, CloseCounts, Closed, Counted, Flagged,
       Ringed, Unused, Busy, Switching, ConsoleShare, CloseShare
  <2> QED
    BY <2>2, <2>3, <2>4 DEF IInv
<1>4. CASE call.by = "console" /\ ref_cnt[call.d] # 1
  <2>1. /\ call' \in CallState
        /\ call'.pc = "open" /\ call'.by = call.by /\ call'.d = call.set /\ call'.set = call.set
    <3>1. call' = [call EXCEPT !.pc = "open", !.d = call.set]
      BY <1>4 DEF CloseCounts, Closed
    <3> QED
      BY <3>1, Turns DEF IInv
  <2>2. TypeOK'
    BY <1>1, <1>4, <2>1, DevicesAssumption DEF IInv, TypeOK, CallSane, CloseCounts, Closed,
       Counted, Flagged, Ringed, Unused, Busy, Switching, ConsoleShare, CloseShare
  <2>3. CallSane'
    BY <1>1, <1>4, <2>1 DEF IInv, TypeOK, CallSane, CloseCounts, Closed
  <2>4. ASSUME NEW d \in Device PROVE (Counted(d) /\ Flagged(d) /\ Ringed(d) /\ Unused(d))'
    BY <1>1, <1>4, <2>1 DEF IInv, TypeOK, CallSane, CloseCounts, Closed, Counted, Flagged,
       Ringed, Unused, Busy, Switching, ConsoleShare, CloseShare
  <2> QED
    BY <2>2, <2>3, <2>4 DEF IInv
<1>5. CASE call.by = "shell" /\ ref_cnt[call.d] # 1
  <2>1. /\ call' \in CallState
        /\ call' = Idle
    BY <1>1, <1>5, Moves DEF IInv, TypeOK, CallState, CallSane, CloseCounts, Closed
  <2>2. TypeOK'
    BY <1>1, <1>5, <2>1, DevicesAssumption DEF IInv, TypeOK, CallSane, CloseCounts, Closed,
       Counted, Flagged, Ringed, Unused, Busy, Switching, ConsoleShare, CloseShare
  <2>3. CallSane'
    BY <1>1, <1>5, <2>1 DEF IInv, TypeOK, CallSane, CloseCounts, Closed
  <2>4. ASSUME NEW d \in Device PROVE (Counted(d) /\ Flagged(d) /\ Ringed(d) /\ Unused(d))'
    BY <1>1, <1>5, <2>1 DEF IInv, TypeOK, CallSane, CloseCounts, Closed, Counted, Flagged,
       Ringed, Unused, Busy, Switching, ConsoleShare, CloseShare
  <2> QED
    BY <2>2, <2>3, <2>4 DEF IInv
<1> QED
    BY <1>2, <1>3, <1>4, <1>5 DEF IInv, TypeOK, CallState

LEMMA LastCloseKeeps == IInv /\ LastClose => IInv'
<1> SUFFICES ASSUME IInv, LastClose PROVE IInv'
    OBVIOUS
<1>1. call.pc = "closed" /\ call.d \in Device
    BY DEF IInv, CallSane, LastClose
<1>2. CASE call.by = "app"
  <2>1. /\ call' \in CallState
        /\ call' = Idle
    BY <1>1, <1>2, Moves DEF IInv, TypeOK, CallState, CallSane, LastClose, Closed
  <2>2. TypeOK'
    BY <1>1, <1>2, <2>1, DevicesAssumption DEF IInv, TypeOK, CallSane, LastClose, Closed,
       Counted, Flagged, Ringed, Unused, Busy, Switching, ConsoleShare, CloseShare
  <2>3. CallSane'
    BY <1>1, <1>2, <2>1 DEF IInv, TypeOK, CallSane, LastClose, Closed
  <2>4. ASSUME NEW d \in Device PROVE (Counted(d) /\ Flagged(d) /\ Ringed(d) /\ Unused(d))'
    BY <1>1, <1>2, <2>1 DEF IInv, TypeOK, CallSane, LastClose, Closed, Counted, Flagged,
       Ringed, Unused, Busy, Switching, ConsoleShare, CloseShare
  <2> QED
    BY <2>2, <2>3, <2>4 DEF IInv
<1>3. CASE call.by = "console"
  <2>1. /\ call' \in CallState
        /\ call'.pc = "open" /\ call'.by = call.by /\ call'.d = call.set /\ call'.set = call.set
    <3>1. call' = [call EXCEPT !.pc = "open", !.d = call.set]
      BY <1>3 DEF LastClose, Closed
    <3> QED
      BY <3>1, Turns DEF IInv
  <2>2. TypeOK'
    BY <1>1, <1>3, <2>1, DevicesAssumption DEF IInv, TypeOK, CallSane, LastClose, Closed,
       Counted, Flagged, Ringed, Unused, Busy, Switching, ConsoleShare, CloseShare
  <2>3. CallSane'
    BY <1>1, <1>3, <2>1 DEF IInv, TypeOK, CallSane, LastClose, Closed
  <2>4. ASSUME NEW d \in Device PROVE (Counted(d) /\ Flagged(d) /\ Ringed(d) /\ Unused(d))'
    BY <1>1, <1>3, <2>1 DEF IInv, TypeOK, CallSane, LastClose, Closed, Counted, Flagged,
       Ringed, Unused, Busy, Switching, ConsoleShare, CloseShare
  <2> QED
    BY <2>2, <2>3, <2>4 DEF IInv
<1>4. CASE call.by = "shell"
  <2>1. /\ call' \in CallState
        /\ call' = Idle
    BY <1>1, <1>4, Moves DEF IInv, TypeOK, CallState, CallSane, LastClose, Closed
  <2>2. TypeOK'
    BY <1>1, <1>4, <2>1, DevicesAssumption DEF IInv, TypeOK, CallSane, LastClose, Closed,
       Counted, Flagged, Ringed, Unused, Busy, Switching, ConsoleShare, CloseShare
  <2>3. CallSane'
    BY <1>1, <1>4, <2>1 DEF IInv, TypeOK, CallSane, LastClose, Closed
  <2>4. ASSUME NEW d \in Device PROVE (Counted(d) /\ Flagged(d) /\ Ringed(d) /\ Unused(d))'
    BY <1>1, <1>4, <2>1 DEF IInv, TypeOK, CallSane, LastClose, Closed, Counted, Flagged,
       Ringed, Unused, Busy, Switching, ConsoleShare, CloseShare
  <2> QED
    BY <2>2, <2>3, <2>4 DEF IInv
<1> QED
    BY <1>2, <1>3, <1>4 DEF IInv, TypeOK, CallState

\* What sk_device_find returns: a device of that name, or NULL.
LEMMA FindFinds ==
    ASSUME NEW n \in Name
    PROVE  sk_device_find(n) # NULL => sk_device_find(n) \in Device /\ name[sk_device_find(n)] = n
BY Zenon DEF sk_device_find

LEMMA RegisterKeeps == ASSUME NEW e \in Device, NEW n \in Name PROVE IInv /\ Register(e, n) => IInv'
<1> SUFFICES ASSUME IInv, Register(e, n) PROVE IInv'
    OBVIOUS
<1>1. CASE UNCHANGED vars
    BY <1>1 DEF vars, IInv, TypeOK, CallSane, Counted, Flagged, Ringed, Unused, Busy,
       Switching, ConsoleShare, CloseShare
<1>2. CASE /\ name' = [name EXCEPT ![e] = n]
           /\ flag' = [flag EXCEPT ![e] = {}] /\ ref_cnt' = [ref_cnt EXCEPT ![e] = 0]
  <2>1. TypeOK'
    BY <1>2, DevicesAssumption DEF IInv, TypeOK, Register
  <2>2. CallSane'
    BY <1>2 DEF IInv, TypeOK, CallSane, Register
  <2>3. ASSUME NEW d \in Device PROVE (Counted(d) /\ Flagged(d) /\ Ringed(d) /\ Unused(d))'
    BY <1>2, DevicesAssumption DEF IInv, TypeOK, CallSane, Register, Counted, Flagged,
       Ringed, Unused, Busy, Switching, ConsoleShare, CloseShare
  <2> QED
    BY <2>1, <2>2, <2>3 DEF IInv
<1> QED
    BY <1>1, <1>2 DEF Register, vars

LEMMA AppOpensKeeps == ASSUME NEW e \in Device PROVE IInv /\ AppOpens(e) => IInv'
<1> SUFFICES ASSUME IInv, AppOpens(e) PROVE IInv'
    OBVIOUS
<1>1. TypeOK'
    BY DevicesAssumption DEF IInv, TypeOK, CallState, AppOpens, Begin
<1>2. CallSane'
    BY DEF IInv, TypeOK, CallSane, AppOpens, Begin, Unused
<1>3. ASSUME NEW d \in Device PROVE (Counted(d) /\ Flagged(d) /\ Ringed(d) /\ Unused(d))'
    BY DEF IInv, TypeOK, CallSane, AppOpens, Begin, Counted, Flagged, Ringed, Unused, Busy,
       Switching, ConsoleShare, CloseShare
<1> QED
    BY <1>1, <1>2, <1>3 DEF IInv

LEMMA AppClosesKeeps == ASSUME NEW e \in Device PROVE IInv /\ AppCloses(e) => IInv'
<1> SUFFICES ASSUME IInv, AppCloses(e) PROVE IInv'
    OBVIOUS
<1>1. TypeOK'
    BY DevicesAssumption DEF IInv, TypeOK, CallState, AppCloses, Begin
<1>2. CallSane'
    BY DEF IInv, TypeOK, CallSane, AppCloses, Begin, Unused
<1>3. ASSUME NEW d \in Device PROVE (Counted(d) /\ Flagged(d) /\ Ringed(d) /\ Unused(d))'
    BY DEF IInv, TypeOK, CallSane, AppCloses, Begin, Counted, Flagged, Ringed, Unused, Busy,
       Switching, ConsoleShare, CloseShare
<1> QED
    BY <1>1, <1>2, <1>3 DEF IInv

LEMMA ConsoleKeeps == ASSUME NEW n \in Name PROVE IInv /\ sk_console_set_device(n) => IInv'
<1> SUFFICES ASSUME IInv, sk_console_set_device(n) PROVE IInv'
    OBVIOUS
<1> DEFINE new == sk_device_find(n)
<1>1. new \in Device /\ name[new] # NULL /\ new # console
    BY FindFinds, DevicesAssumption DEF sk_console_set_device
<1>2. Quiet /\ UNCHANGED <<name, port, console, shell, opens>>
    BY DEF sk_console_set_device, Begin
<1>3. call' = IF console = NULL THEN [pc |-> "open", by |-> "console", d |-> new, set |-> new]
                                ELSE [pc |-> "close", by |-> "console", d |-> console, set |-> new]
    BY DEF sk_console_set_device, Begin
<1> HIDE DEF new
<1>4. TypeOK'
    BY <1>1, <1>2, <1>3 DEF IInv, TypeOK, CallState
<1>5. CallSane'
    BY <1>1, <1>2, <1>3 DEF IInv, TypeOK, CallSane, Unused
<1>6. ASSUME NEW d \in Device PROVE (Counted(d) /\ Flagged(d) /\ Ringed(d) /\ Unused(d))'
    BY <1>1, <1>2, <1>3, DevicesAssumption DEF IInv, TypeOK, CallSane, Counted, Flagged,
       Ringed, Unused, Busy, Switching, ConsoleShare, CloseShare
<1> QED
    BY <1>4, <1>5, <1>6 DEF IInv

LEMMA ShellKeeps == ASSUME NEW n \in Name PROVE IInv /\ shell_set_device(n) => IInv'
<1> SUFFICES ASSUME IInv, shell_set_device(n) PROVE IInv'
    OBVIOUS
<1> DEFINE new == sk_device_find(n)
<1>1. new \in Device /\ name[new] # NULL
    BY FindFinds, DevicesAssumption DEF shell_set_device
<1>2. Quiet /\ UNCHANGED <<name, port, console, opens>>
    BY DEF shell_set_device, Begin
<1>3. \/ shell = NULL /\ shell' = new /\ call' = call
      \/ /\ shell # NULL /\ shell' = shell
         /\ call' = [pc |-> "open", by |-> "shell", d |-> shell, set |-> new]
    BY DEF shell_set_device, Begin
<1> HIDE DEF new
<1>4. TypeOK'
    BY <1>1, <1>2, <1>3 DEF IInv, TypeOK, CallState
<1>5. CallSane'
    BY <1>1, <1>2, <1>3 DEF IInv, TypeOK, CallSane, Unused
<1>6. ASSUME NEW d \in Device PROVE (Counted(d) /\ Flagged(d) /\ Ringed(d) /\ Unused(d))'
    BY <1>1, <1>2, <1>3, DevicesAssumption DEF IInv, TypeOK, CallSane, Counted, Flagged,
       Ringed, Unused, Busy, Switching, ConsoleShare, CloseShare
<1> QED
    BY <1>4, <1>5, <1>6 DEF IInv

LEMMA InitGood == Init => IInv
BY DevicesAssumption DEF Init, IInv, TypeOK, CallState, CallSane, Counted, Flagged, Ringed,
   Unused, Busy, Switching, ConsoleShare, CloseShare

LEMMA StutterKeeps == IInv /\ UNCHANGED vars => IInv'
BY DEF vars, IInv, TypeOK, CallSane, Counted, Flagged, Ringed, Unused, Busy, Switching,
   ConsoleShare, CloseShare

\* Every step of a call, and every call, keeps the invariant.
THEOREM Invariance == Spec => []IInv
<1>1. Init => IInv
    BY InitGood
<1>2. IInv /\ [Next]_vars => IInv'
  <2> SUFFICES ASSUME IInv, [Next]_vars PROVE IInv'
    OBVIOUS
  <2>1. CASE Open
    BY <2>1, OpenTestsKeeps, SerialInitKeeps, ActivateKeeps, SerialOpenKeeps, RxEnableKeeps,
       TxEnableKeeps, CountKeeps DEF Open
  <2>2. CASE Close
    BY <2>2, CloseCountsKeeps, LastCloseKeeps DEF Close
  <2>3. ASSUME NEW d \in Device, AppOpens(d) \/ AppCloses(d) \/ \E n \in Name : Register(d, n)
        PROVE IInv'
    BY <2>3, AppOpensKeeps, AppClosesKeeps, RegisterKeeps
  <2>4. ASSUME NEW n \in Name, sk_console_set_device(n) \/ shell_set_device(n)
        PROVE IInv'
    BY <2>4, ConsoleKeeps, ShellKeeps
  <2>5. CASE UNCHANGED vars
    BY <2>5, StutterKeeps
  <2> QED
    BY <2>1, <2>2, <2>3, <2>4, <2>5 DEF Next
<1> QED
    BY <1>1, <1>2, PTL DEF Spec

\* The types hold; above all ref_cnt, a sk_uint8_t, never goes below zero nor
\* above the application's opens and two (device.c:125, :148).
THEOREM TypeCorrect == Spec => []TypeOK
<1>1. IInv => TypeOK
    BY DEF IInv
<1> QED
    BY <1>1, Invariance, PTL

\* Whoever has opened a device finds it open and its rings there, at the test
\* of ref_cnt in sk_device_read and sk_device_write and ever after.
THEOREM RingsCorrect == Spec => []OpenerFindsRings
<1>1. ASSUME IInv, NEW d \in Device, HasOpen(d)
      PROVE ref_cnt[d] > 0 /\ d \in rx /\ d \in tx /\ OPEN \in flag[d]
  <2>1. ref_cnt[d] > 0
    BY <1>1 DEF IInv, TypeOK, Counted, HasOpen, Switching, ConsoleShare, CloseShare
  <2> QED
    BY <1>1, <2>1 DEF IInv, Flagged, Ringed
<1>2. IInv => OpenerFindsRings
    BY <1>1 DEF OpenerFindsRings
<1> QED
    BY <1>2, Invariance, PTL

\* sk_hw_serial_isr finds its ring outside the window of sk_serial_init.
THEOREM IsrCorrect == Spec => []IsrFindsRing
<1>1. IInv => IsrFindsRing
    BY DEF IInv, TypeOK, Ringed, Busy, IsrFindsRing
<1> QED
    BY <1>1, Invariance, PTL

=============================================================================
