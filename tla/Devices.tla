------------------------------- MODULE Devices -------------------------------
(***************************************************************************)
(* init/device.c over driver/serial/serial.c, with the three users of a    *)
(* device: the console, the shell and the application, which opens and     *)
(* closes devices in pairs.                                                *)
(*                                                                         *)
(* Opening and closing is one step per group of statements, since the UART *)
(* interrupt, a print or a read of the shell may come in between.  A call  *)
(* that opens, closes or switches ends before the next one starts: nothing *)
(* in the code keeps two of them apart.  An open finds memory for its      *)
(* rings: serial.c:104 and :123 do not test what sk_malloc returns.        *)
(***************************************************************************)
EXTENDS Integers, FiniteSets

CONSTANTS
    Device,      \* the serial devices of the board
    Name,
    NULL,
    MaxOpens     \* bound: how often the application has a device open

ASSUME DevicesAssumption ==
    /\ NULL \notin Device \cup Name
    /\ MaxOpens \in 0 .. 253       \* ref_cnt is a sk_uint8_t

VARIABLES
    name,       \* parent.name of the devices in the object list, else NULL
    flag,       \* the flags of each device
    ref_cnt,    \* its reference count
    rx, tx,     \* the devices whose serial_rx, serial_tx is there
    irq,        \* the devices whose receive interrupt the UART has enabled
    console,    \* _console_device
    shell,      \* shell->device
    opens,      \* how often the application has opened each device
    call        \* the call under way: where it is, the device it opens or
                \* closes, and the device that is to be set when that is done

port == <<flag, ref_cnt, rx, tx, irq>>
vars == <<name, port, console, shell, opens, call>>

ACTIVATED == "SK_DEVICE_FLAG_ACTIVATED"
OPEN == "SK_DEVICE_FLAG_OPEN"
RDWR == "SK_DEVICE_FLAG_RDWR"

OpenSteps == {"open", "init", "activate", "serial", "rx", "tx", "count"}
CloseSteps == {"close", "closed"}

\* Who makes the call; "console" and "shell" are sk_console_set_device and
\* shell_set_device.
Caller == {"app", "console", "shell"}
Idle == [pc |-> "idle", by |-> "app", d |-> NULL, set |-> NULL]

CallState ==
    [pc : {"idle"} \cup OpenSteps \cup CloseSteps, by : Caller,
     d : Device \cup {NULL}, set : Device \cup {NULL}]

TypeOK ==
    /\ name \in [Device -> Name \cup {NULL}]
    /\ flag \in [Device -> SUBSET {ACTIVATED, OPEN, RDWR}]
    /\ ref_cnt \in [Device -> 0 .. MaxOpens + 2]
    /\ rx \subseteq Device /\ tx \subseteq Device /\ irq \subseteq Device
    /\ console \in Device \cup {NULL}
    /\ shell \in Device \cup {NULL}
    /\ opens \in [Device -> 0 .. MaxOpens]
    /\ call \in CallState

Init ==
    /\ name = [d \in Device |-> NULL]
    /\ flag = [d \in Device |-> {}]
    /\ ref_cnt = [d \in Device |-> 0]
    /\ rx = {} /\ tx = {} /\ irq = {}
    /\ console = NULL
    /\ shell = NULL
    /\ opens = [d \in Device |-> 0]
    /\ call = Idle

Quiet == call.pc = "idle"

\* sk_device_find: the device in the list that has the name.
sk_device_find(n) ==
    IF \E d \in Device : name[d] = n THEN CHOOSE d \in Device : name[d] = n ELSE NULL

\* sk_hw_serial_register, for a device that is not registered; the name may be
\* taken.
Register(d, n) ==
    /\ Quiet
    /\ name[d] = NULL
    /\ IF sk_device_find(n) # NULL THEN UNCHANGED <<name, flag, ref_cnt>>
       ELSE /\ name' = [name EXCEPT ![d] = n]
            /\ flag' = [flag EXCEPT ![d] = {}]
            /\ ref_cnt' = [ref_cnt EXCEPT ![d] = 0]
    /\ UNCHANGED <<rx, tx, irq, console, shell, opens, call>>

-----------------------------------------------------------------------------
(* sk_device_open with sk_serial_init and sk_serial_open *)

At(label) == call.pc = label
Goto(label) == call' = [call EXCEPT !.pc = label]
AddFlag(f) == flag' = [flag EXCEPT ![call.d] = @ \cup {f}]
Rest == <<name, console, shell, opens>>

OpenTests ==
    /\ At("open")
    /\ Goto(IF ACTIVATED \in flag[call.d] THEN "serial" ELSE "init")
    /\ UNCHANGED <<port, Rest>>

\* sk_serial_init: the rings of an earlier life are forgotten, and configure
\* enables the receive interrupt.
SerialInit ==
    /\ At("init")
    /\ rx' = rx \ {call.d}
    /\ tx' = tx \ {call.d}
    /\ irq' = irq \cup {call.d}
    /\ Goto("activate")
    /\ UNCHANGED <<flag, ref_cnt, Rest>>

Activate ==
    /\ At("activate")
    /\ AddFlag(ACTIVATED)
    /\ Goto("serial")
    /\ UNCHANGED <<ref_cnt, rx, tx, irq, Rest>>

\* sk_serial_open has nothing to do for a device that is open.
SerialOpen ==
    /\ At("serial")
    /\ IF OPEN \in flag[call.d] THEN Goto("count") /\ UNCHANGED flag
       ELSE AddFlag(RDWR) /\ Goto("rx")
    /\ UNCHANGED <<ref_cnt, rx, tx, irq, Rest>>

\* Mutant: the receive ring is left out.
RxSkipped ==
    /\ At("rx")
    /\ Goto("tx")
    /\ UNCHANGED <<port, Rest>>

\* sk_serial_rx_enable and sk_serial_tx_enable, where the ring is missing
RxEnable ==
    /\ At("rx")
    /\ rx' = rx \cup {call.d}
    /\ Goto("tx")
    /\ UNCHANGED <<flag, ref_cnt, tx, irq, Rest>>

\* Mutant: the transmit ring is left out.
TxSkipped ==
    /\ At("tx")
    /\ Goto("count")
    /\ UNCHANGED <<port, Rest>>

TxEnable ==
    /\ At("tx")
    /\ tx' = tx \cup {call.d}
    /\ Goto("count")
    /\ UNCHANGED <<flag, ref_cnt, rx, irq, Rest>>

\* The device is open; the caller goes on.  The shell closes what it has just
\* opened: the device it had, not the one it is going to use.
Count ==
    /\ At("count")
    /\ AddFlag(OPEN)
    /\ ref_cnt' = [ref_cnt EXCEPT ![call.d] = @ + 1]
    /\ CASE call.by = "app" ->
              /\ opens' = [opens EXCEPT ![call.d] = @ + 1]
              /\ call' = Idle
              /\ UNCHANGED console
         [] call.by = "console" ->
              /\ console' = call.set
              /\ call' = Idle
              /\ UNCHANGED opens
         [] call.by = "shell" -> Goto("close") /\ UNCHANGED <<opens, console>>
    /\ UNCHANGED <<rx, tx, irq, name, shell>>

-----------------------------------------------------------------------------
(* sk_device_close *)

\* What the caller does after the close.
Closed ==
    CASE call.by = "app" -> call' = Idle /\ UNCHANGED shell
      [] call.by = "console" -> /\ call' = [call EXCEPT !.pc = "open", !.d = call.set]
                                /\ UNCHANGED shell
      [] call.by = "shell" -> shell' = call.set /\ call' = Idle

CloseCounts ==
    /\ At("close")
    /\ IF ref_cnt[call.d] = 0 THEN Closed /\ UNCHANGED ref_cnt
       ELSE /\ ref_cnt' = [ref_cnt EXCEPT ![call.d] = @ - 1]
            /\ IF ref_cnt[call.d] = 1 THEN Goto("closed") /\ UNCHANGED shell
               ELSE Closed
    /\ UNCHANGED <<flag, rx, tx, irq, name, console, opens>>

\* The flag loses SK_DEVICE_FLAG_ACTIVATED with all the others.
LastClose ==
    /\ At("closed")
    /\ flag' = [flag EXCEPT ![call.d] = {}]
    /\ Closed
    /\ UNCHANGED <<ref_cnt, rx, tx, irq, name, console, opens>>

-----------------------------------------------------------------------------
(* The callers *)

Begin(pc, by, d, set) ==
    /\ Quiet
    /\ call' = [pc |-> pc, by |-> by, d |-> d, set |-> set]
    /\ UNCHANGED <<name, port, console, shell>>

AppOpens(d) ==
    /\ name[d] # NULL
    /\ opens[d] < MaxOpens
    /\ Begin("open", "app", d, NULL)
    /\ UNCHANGED opens

AppCloses(d) ==
    /\ opens[d] > 0
    /\ opens' = [opens EXCEPT ![d] = @ - 1]
    /\ Begin("close", "app", d, NULL)

sk_console_set_device(n) ==
    LET new == sk_device_find(n)
    IN  /\ new \notin {NULL, console}
        /\ IF console = NULL THEN Begin("open", "console", new, new)
           ELSE Begin("close", "console", console, new)
        /\ UNCHANGED opens

\* The first time it is NULL that sk_device_open gets, and finds to be no device.
shell_set_device(n) ==
    LET new == sk_device_find(n)
    IN  /\ new \notin {NULL, shell}
        /\ \/ /\ shell # NULL
              /\ Begin("open", "shell", shell, new)
           \/ /\ shell = NULL
              /\ Quiet
              /\ shell' = new
              /\ UNCHANGED <<name, port, console, call>>
        /\ UNCHANGED opens

Open == OpenTests \/ SerialInit \/ Activate \/ SerialOpen \/ RxEnable \/ TxEnable \/ Count
Close == CloseCounts \/ LastClose

Next ==
    \/ Open \/ Close
    \/ \E d \in Device : AppOpens(d) \/ AppCloses(d) \/ \E n \in Name : Register(d, n)
    \/ \E n \in Name : sk_console_set_device(n) \/ shell_set_device(n)

Spec == Init /\ [][Next]_vars

-----------------------------------------------------------------------------
(* Properties *)

\* Device d is open for the application, or is the console and no
\* sk_console_set_device is under way.
HasOpen(d) == opens[d] > 0 \/ (console = d /\ call.by # "console")

\* Whoever has opened a device can read and print at any moment, also in the
\* middle of another's open or close and through any number of them: from the
\* test of ref_cnt (device.c:179, :206) to the use of the ring (serial.c:170,
\* :193) and beyond, the device stays open and its rings stay there.  The shell,
\* which has not opened its device, is not among them.
OpenerFindsRings ==
    \A d \in Device :
       HasOpen(d) => ref_cnt[d] > 0 /\ d \in rx /\ d \in tx /\ OPEN \in flag[d]

\* sk_hw_serial_isr uses serial_rx without a test.  Once the receive interrupt is
\* enabled it finds a ring, except in one window: from sk_serial_init, which
\* forgets the ring and enables the interrupt, to sk_serial_rx_enable
\* (serial.c:79-109).  Every open after a last close goes through it.
IsrFindsRing ==
    \A d \in irq \ rx :
       call.d = d /\ call.pc \in {"activate", "serial", "rx"}

\* Between calls ref_cnt counts everybody who uses a device: the application's
\* opens, the console, and the shell, which is to "open this device and set the
\* new device in shell" (shell.c:41).
RefsCounted ==
    LET uses == [console |-> console, shell |-> shell]
    IN  Quiet => \A d \in Device :
                    ref_cnt[d] = opens[d] + Cardinality({u \in DOMAIN uses : uses[u] = d})

=============================================================================
