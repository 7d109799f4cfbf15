---------------------------- MODULE BoardProofs ----------------------------
(***************************************************************************)
(* What is proved of the board.  The LED driver first, for any set of      *)
(* programs that hold its node open and of callers of set_led_state: its   *)
(* record and its pin part only where two callers have met in the driver,  *)
(* and a program faults in it only after led_remove.  Then, that the board *)
(* with its program and its button uses the driver as LedSpec allows; that *)
(* the I2C sender has its adapter and reports what it has sent; and that   *)
(* the program's threads end before it closes their descriptors.           *)
(***************************************************************************)
EXTENDS Board, TLAPS

\* The places and values of the callers, and the two copies of the LED's state.
CallersTyped ==
    /\ hw \in BOOLEAN
    /\ led_state \in BOOLEAN
    /\ led_pc \in [Caller -> {"out", "register", "record", "dead"}]
    /\ val \in [Caller -> BOOLEAN]
    /\ raced \in BOOLEAN

\* Unless the last to set the register met another, one that has set it and not
\* yet the record is alone there, and the pin has the value it will record.
AloneInside ==
    ~ raced =>
        \A c \in Caller : led_pc[c] = "record" =>
            /\ hw = val[c]
            /\ \A d \in Caller : led_pc[d] = "record" => d = c

LedInv == CallersTyped /\ AloneInside /\ DriftNeedsRace

\* Everything LedInv speaks of.
led_core == <<hw, led_state, led_pc, val, raced>>
-----------------------------------------------------------------------------
\* led_ioctl, led_write and set_led_state up to the register: the caller comes in.
LEMMA SetKeeps ==
    ASSUME LedInv, NEW c \in Caller, NEW v \in BOOLEAN, Set(c, v)
    PROVE  LedInv'
<1>1. CallersTyped'
  BY DEF LedInv, CallersTyped, Set
<1>2. \A d \in Caller : led_pc'[d] = "record" =>
          led_pc[d] = "record" /\ d # c /\ val'[d] = val[d]
  BY DEF LedInv, CallersTyped, Set
<1>3. \A d \in Caller : led_pc[d] = "record" => led_pc'[d] = "record"
  BY DEF LedInv, CallersTyped, Set
<1>4. hw' = hw /\ led_state' = led_state /\ raced' = raced
  BY DEF Set
<1>5. AloneInside'
  BY <1>2, <1>4 DEF LedInv, AloneInside
<1>6. DriftNeedsRace'
  BY <1>3, <1>4 DEF LedInv, DriftNeedsRace
<1> QED
  BY <1>1, <1>5, <1>6 DEF LedInv

\* writel: the pin changes, and a caller already past this point is a race.
LEMMA WriteRegisterKeeps ==
    ASSUME LedInv, NEW c \in Caller, WriteRegister(c)
    PROVE  LedInv'
<1>1. CallersTyped'
  BY DEF LedInv, CallersTyped, WriteRegister
<1>2. led_pc' = [led_pc EXCEPT ![c] = "record"] /\ hw' = val[c] /\ val' = val
  BY DEF WriteRegister
<1>3. raced' = (\E d \in Caller : led_pc[d] = "record")
  BY DEF WriteRegister
<1>4. led_pc'[c] = "record"
  BY <1>2 DEF LedInv, CallersTyped
<1>5. AloneInside'
  <2> SUFFICES ASSUME ~ raced', NEW d \in Caller, led_pc'[d] = "record"
               PROVE  d = c
    BY <1>2 DEF AloneInside
  <2>1. led_pc[d] # "record"
    BY <1>3
  <2> QED
    BY <2>1, <1>2 DEF LedInv, CallersTyped
<1>6. DriftNeedsRace'
  BY <1>4 DEF DriftNeedsRace
<1> QED
  BY <1>1, <1>5, <1>6 DEF LedInv

\* A write without a mapping changes neither copy.
LEMMA FaultKeeps ==
    ASSUME LedInv, NEW c \in Caller, Fault(c)
    PROVE  LedInv'
<1>1. CallersTyped'
  BY DEF LedInv, CallersTyped, Fault
<1>2. \A d \in Caller : led_pc'[d] = "record" <=> led_pc[d] = "record"
  BY DEF LedInv, CallersTyped, Fault
<1>3. \A d \in Caller : led_pc[d] = "record" => val'[d] = val[d]
  BY DEF LedInv, CallersTyped, Fault
<1>4. hw' = hw /\ led_state' = led_state /\ raced' = raced
  BY DEF Fault
<1> QED
  BY <1>1, <1>2, <1>3, <1>4 DEF LedInv, AloneInside, DriftNeedsRace

\* led.state is written: a caller alone there writes what the pin shows.
LEMMA WriteRecordKeeps ==
    ASSUME LedInv, NEW c \in Caller, WriteRecord(c)
    PROVE  LedInv'
<1>1. CallersTyped'
  BY DEF LedInv, CallersTyped, WriteRecord
<1>2. \A d \in Caller : led_pc'[d] = "record" =>
          led_pc[d] = "record" /\ d # c /\ val'[d] = val[d]
  BY DEF LedInv, CallersTyped, WriteRecord
<1>3. hw' = hw /\ led_state' = val[c] /\ raced' = raced /\ led_pc[c] = "record"
  BY DEF WriteRecord
<1>4. AloneInside'
  BY <1>2, <1>3 DEF LedInv, AloneInside
<1>5. DriftNeedsRace'
  BY <1>3 DEF LedInv, AloneInside, DriftNeedsRace
<1> QED
  BY <1>1, <1>4, <1>5 DEF LedInv

\* What leaves the callers and both copies alone.
LEMMA ElsewhereKeeps ==
    ASSUME LedInv, UNCHANGED led_core
    PROVE  LedInv'
  BY DEF led_core, LedInv, CallersTyped, AloneInside, DriftNeedsRace

\* Every step of the driver.
LEMMA LedKeeps == LedInv /\ [LedNext]_led_vars => LedInv'
<1> SUFFICES ASSUME LedInv, [LedNext]_led_vars
             PROVE  LedInv'
  OBVIOUS
<1>1. CASE Bind
  BY <1>1, ElsewhereKeeps
     DEF Bind, ProbeMap, ProbeNode, RemoveNode, RemoveUnmap, led_core
<1>2. ASSUME NEW c \in Caller, LedStep(c) PROVE LedInv'
  BY <1>2, WriteRegisterKeeps, FaultKeeps, WriteRecordKeeps DEF LedStep
<1>3. ASSUME NEW c \in Caller, Open(c) \/ Close(c) PROVE LedInv'
  BY <1>3, ElsewhereKeeps DEF Open, Close, led_core
<1>4. ASSUME NEW c \in Caller, NEW v \in BOOLEAN, Set(c, v) PROVE LedInv'
  BY <1>4, SetKeeps
<1>5. CASE UNCHANGED led_vars
  BY <1>5, ElsewhereKeeps DEF led_vars, led_core
<1> QED
  BY <1>1, <1>2, <1>3, <1>4, <1>5 DEF LedNext

\* However many programs and interrupt handlers set the LED of ledledled.c, and
\* whatever is bound, opened and removed meanwhile, led.state is the level of the
\* pin whenever nobody is inside, unless two callers have met between the two
\* writes: the missing lock is the only way to a wrong LED_IOCTL_GET.
THEOREM DriftOnlyFromRace == LedSpec => []DriftNeedsRace
<1>1. LedInit => LedInv
  BY DEF LedInit, LedInv, CallersTyped, AloneInside, DriftNeedsRace
<1>2. LedInv => DriftNeedsRace
  BY DEF LedInv
<1> QED
  BY <1>1, <1>2, LedKeeps, PTL DEF LedSpec
-----------------------------------------------------------------------------
\* The button driver's copy of the LED's state is one: what it calls
\* set_led_state with is a value of that function's parameter.
LEMMA ButtonStateTyped ==
    ASSUME button_state \in BOOLEAN, [Next]_vars
    PROVE  button_state' \in BOOLEAN
<1>1. CASE button_irq_handler
  BY <1>1 DEF button_irq_handler
<1>2. CASE UNCHANGED button_state
  BY <1>2
<1>3. CASE Drivers
  BY <1>1, <1>2, <1>3
     DEF Drivers, Button, ButtonProbe, ButtonRemove, button_vars
<1>4. CASE UNCHANGED button_vars
  BY <1>4, <1>2 DEF button_vars
<1>5. CASE Main
  BY <1>5, <1>4 DEF Main, OpenLed, OpenI2c, OpenI2cFails, KeyQuit, JoinLed,
                    JoinI2c, CloseLed, CloseI2c
<1>6. CASE \E v \in BOOLEAN : Key(v)
  BY <1>6, <1>4 DEF Key
<1>7. CASE LedLoop \/ led_status \/ I2cLoop \/ i2c_value
  BY <1>7, <1>4 DEF LedLoop, led_status, I2cLoop, i2c_value
<1>8. CASE UNCHANGED vars
  BY <1>8, <1>4 DEF vars
<1> QED
  BY <1>3, <1>5, <1>6, <1>7, <1>8 DEF Next
-----------------------------------------------------------------------------
\* Before the first probe no file is open; a bound device has its registers
\* mapped; a caller with a descriptor has it open.
MappedInv ==
    /\ led_pc \in [Caller -> {"out", "register", "record", "dead"}]
    /\ bound \in {"no", "probing", "yes", "leaving", "left"}
    /\ bound = "no" => opened = {}
    /\ bound \notin {"no", "left"} => base = "mapped"
    /\ \A c \in File : led_pc[c] \in {"register", "record"} => c \in opened

\* Binding and unbinding: led_remove does not go back to before the first probe.
LEMMA BindKeepsMapped ==
    ASSUME MappedInv, Bind
    PROVE  MappedInv'
<1>1. CASE ProbeMap
  BY <1>1 DEF ProbeMap, MappedInv
<1>2. CASE ProbeNode \/ RemoveNode
  BY <1>2 DEF ProbeNode, RemoveNode, MappedInv
<1>3. CASE RemoveUnmap
  BY <1>3 DEF RemoveUnmap, MappedInv
<1> QED
  BY <1>1, <1>2, <1>3 DEF Bind

\* The callers come in by an open file, and leave the mapping alone.
LEMMA CallersKeepMapped ==
    ASSUME MappedInv, NEW c \in Caller,
           LedStep(c) \/ Open(c) \/ Close(c) \/ \E v \in BOOLEAN : Set(c, v)
    PROVE  MappedInv'
<1>1. CASE WriteRegister(c) \/ WriteRecord(c)
  BY <1>1, CallerAssumption DEF WriteRegister, WriteRecord, MappedInv, Caller
<1>2. CASE Fault(c)
  BY <1>2, CallerAssumption DEF Fault, MappedInv, Caller
<1>3. CASE Open(c)
  BY <1>3 DEF Open, MappedInv, Caller
<1>4. CASE Close(c)
  BY <1>4 DEF Close, MappedInv, Caller
<1>5. ASSUME NEW v \in BOOLEAN, Set(c, v) PROVE MappedInv'
  BY <1>5, CallerAssumption DEF Set, MappedInv, Caller
<1> QED
  BY <1>1, <1>2, <1>3, <1>4, <1>5 DEF LedStep

\* A program that is about to write through a missing mapping in ledledled.c, on a
\* file that open gave it, does so after led_remove: the probe maps the registers
\* before it makes the node, and takes a failed mapping for what it is.
THEOREM FaultOnlyFromRemove == LedSpec => []FileFaultsNeedRemove
<1>1. LedInit => MappedInv
  BY DEF LedInit, MappedInv, Caller
<1>2. MappedInv /\ [LedNext]_led_vars => MappedInv'
  <2>1. MappedInv /\ UNCHANGED led_vars => MappedInv'
    BY DEF MappedInv, led_vars
  <2> QED
    BY <2>1, BindKeepsMapped, CallersKeepMapped DEF LedNext
<1>3. MappedInv => FileFaultsNeedRemove
  BY DEF MappedInv, FileFaultsNeedRemove
<1> QED
  BY <1>1, <1>2, <1>3, PTL DEF LedSpec
-----------------------------------------------------------------------------
\* A step of the board is a step of the LED driver or leaves it alone: the
\* control program and the interrupt handler only come in by ioctl, open, close
\* and set_led_state.
LEMMA BoardStepsLed ==
    ASSUME button_state \in BOOLEAN, [Next]_vars
    PROVE  [LedNext]_led_vars
<1>1. CASE Drivers
  <2>1. CASE Bind \/ \E c \in Caller : LedStep(c)
    BY <2>1 DEF LedNext
  <2>2. CASE button_irq_handler
    BY <2>2, IrqAssumption DEF button_irq_handler, LedNext, Caller
  <2>3. CASE ButtonProbe \/ ButtonRemove
    BY <2>3 DEF ButtonProbe, ButtonRemove
  <2> QED
    BY <1>1, <2>1, <2>2, <2>3 DEF Drivers, Button
<1>2. CASE Main
  <2>1. CASE OpenLed
    BY <2>1, AppAssumption DEF OpenLed, LedNext, Caller
  <2>2. CASE OpenI2cFails \/ CloseLed
    BY <2>2, AppAssumption DEF OpenI2cFails, CloseLed, LedNext, Caller
  <2>3. CASE OpenI2c \/ KeyQuit \/ JoinLed \/ JoinI2c \/ CloseI2c
    BY <2>3 DEF OpenI2c, KeyQuit, JoinLed, JoinI2c, CloseI2c
  <2> QED
    BY <1>2, <2>1, <2>2, <2>3 DEF Main
<1>3. CASE \E v \in BOOLEAN : Key(v)
  BY <1>3, AppAssumption DEF Key, LedNext, Caller
<1>4. CASE LedLoop \/ led_status \/ I2cLoop \/ i2c_value
  BY <1>4 DEF LedLoop, led_status, I2cLoop, i2c_value
<1>5. CASE UNCHANGED vars
  BY <1>5 DEF vars
<1> QED
  BY <1>1, <1>2, <1>3, <1>4, <1>5 DEF Next

\* The board, with the program of mock_application/test.c and the button, is one
\* of the surroundings LedSpec allows the driver.
THEOREM BoardDrivesLed == Spec => LedSpec
<1>1. Init => LedInit /\ button_state \in BOOLEAN
  BY DEF Init, ButtonInit
<1>2. button_state \in BOOLEAN /\ [Next]_vars => (button_state \in BOOLEAN)'
  BY ButtonStateTyped
<1>3. button_state \in BOOLEAN /\ [Next]_vars => [LedNext]_led_vars
  BY BoardStepsLed
<1> QED
  BY <1>1, <1>2, <1>3, PTL DEF Spec, LedSpec

\* So the program and the button alone cannot part the status shown and the LED
\* either, unless they meet in the driver.
THEOREM BoardDrift == Spec => []DriftNeedsRace
BY BoardDrivesLed, DriftOnlyFromRace, PTL
-----------------------------------------------------------------------------
\* The I2C driver: the adapter is held from its claim to the exit path, the thread
\* runs only between its start and the end of kthread_stop, and an acknowledged
\* value is the expander's output until it is recorded.
I2cInv ==
    /\ I2cTypeOK
    /\ adapter <=> loaded \in {"adapter", "node", "yes", "stopping"}
    /\ sender # "none" => loaded \in {"yes", "stopping"}
    /\ sender = "sent" => slave = value
    /\ ReportedIsSent

\* The sender's next value is one of the values.
LEMMA FollowingTyped == \A v \in 0 .. VALUES - 1 : Following(v) \in 0 .. VALUES - 1
BY ValuesAssumption DEF Following

\* The first value, and none.
LEMMA ValuesTyped == 0 \in 0 .. VALUES - 1 /\ VALUES \in 0 .. VALUES
BY ValuesAssumption

\* Loading and unloading, whoever holds the node open.
LEMMA LoadKeepsI2c ==
    ASSUME I2cInv, NEW held, I2cLoad(held)
    PROVE  I2cInv'
<1> USE DEF I2cInv, ReportedIsSent
<1>1. CASE GetAdapter
  <2>1. I2cTypeOK'
    BY <1>1 DEF GetAdapter, I2cTypeOK
  <2> QED BY <1>1, <2>1 DEF GetAdapter
<1>2. CASE CreateNode
  <2>1. I2cTypeOK'
    BY <1>2 DEF CreateNode, I2cTypeOK
  <2> QED BY <1>2, <2>1 DEF CreateNode
<1>3. CASE RunSender
  <2>1. I2cTypeOK'
    BY <1>3 DEF RunSender, I2cTypeOK
  <2> QED BY <1>3, <2>1 DEF RunSender
<1>4. CASE RunSenderFails
  <2>1. I2cTypeOK'
    BY <1>4 DEF RunSenderFails, I2cTypeOK
  <2> QED BY <1>4, <2>1 DEF RunSenderFails
<1>5. CASE StopSender
  <2>1. I2cTypeOK'
    BY <1>5 DEF StopSender, I2cTypeOK
  <2> QED BY <1>5, <2>1 DEF StopSender
<1>6. CASE PutAdapter
  <2>1. I2cTypeOK'
    BY <1>6 DEF PutAdapter, I2cTypeOK
  <2> QED BY <1>6, <2>1 DEF PutAdapter
<1>7. CASE DestroyNode
  <2>1. I2cTypeOK'
    BY <1>7, ValuesTyped DEF DestroyNode, I2cTypeOK
  <2> QED BY <1>7, <2>1 DEF DestroyNode
<1> QED
  BY <1>1, <1>2, <1>3, <1>4, <1>5, <1>6, <1>7 DEF I2cLoad

\* The thread: only an acknowledged transfer changes the expander, and only its
\* record what readers are given.
LEMMA SenderKeepsI2c ==
    ASSUME I2cInv, Sender
    PROVE  I2cInv'
<1>1. Following(value) \in 0 .. VALUES - 1
  BY FollowingTyped DEF I2cInv, I2cTypeOK
<1> USE DEF I2cInv, I2cTypeOK, ReportedIsSent
<1>2. CASE SenderLoop
  BY <1>2 DEF SenderLoop
<1>3. CASE Transfer
  BY <1>3, ValuesAssumption DEF Transfer
<1>4. CASE RecordSent
  BY <1>1, <1>4 DEF RecordSent
<1>5. CASE TransferFails
  BY <1>1, <1>5 DEF TransferFails
<1> QED
  BY <1>2, <1>3, <1>4, <1>5 DEF Sender

\* A step of the board is one of the I2C driver or leaves it alone.
LEMMA BoardStepsI2c ==
    ASSUME [Next]_vars
    PROVE  I2cLoad(i2c_open) \/ Sender \/ UNCHANGED i2c_vars
<1>1. CASE Drivers
  BY <1>1 DEF Drivers
<1>2. CASE Main
  BY <1>2 DEF Main, OpenLed, OpenI2c, OpenI2cFails, KeyQuit, JoinLed, JoinI2c,
              CloseLed, CloseI2c
<1>3. CASE \E v \in BOOLEAN : Key(v)
  BY <1>3 DEF Key
<1>4. CASE LedLoop \/ led_status \/ I2cLoop \/ i2c_value
  BY <1>4 DEF LedLoop, led_status, I2cLoop, i2c_value
<1>5. CASE UNCHANGED vars
  BY <1>5 DEF vars
<1> QED BY <1>1, <1>2, <1>3, <1>4, <1>5 DEF Next

\* Everything said of the I2C driver holds in every state of the board.
LEMMA I2cInvariance == Spec => []I2cInv
<1>1. Init => I2cInv
  <2>1. I2cInit => I2cTypeOK
    BY ValuesTyped DEF I2cInit, I2cTypeOK
  <2> QED BY <2>1 DEF Init, I2cInit, I2cInv, ReportedIsSent
<1>2. I2cInv /\ UNCHANGED i2c_vars => I2cInv'
  BY DEF I2cInv, I2cTypeOK, ReportedIsSent, i2c_vars
<1>3. I2cInv /\ [Next]_vars => I2cInv'
  BY <1>2, BoardStepsI2c, LoadKeepsI2c, SenderKeepsI2c
<1> QED BY <1>1, <1>3, PTL DEF Spec

\* kthread_stop comes before i2c_put_adapter, and a thread that could not be
\* started never used the adapter: a transfer always has it.
THEOREM TransferHasAdapter == Spec => []AdapterHeld
<1>1. I2cInv => AdapterHeld
  BY DEF I2cInv, I2cTypeOK, AdapterHeld
<1> QED BY <1>1, I2cInvariance, PTL

\* Readers of /dev/i2c_ledchar are given what the expander shows, through failed
\* transfers, reloads and a failed start.
THEOREM ReadersAreTold == Spec => []ReportedIsSent
<1>1. I2cInv => ReportedIsSent
  BY DEF I2cInv
<1> QED BY <1>1, I2cInvariance, PTL
-----------------------------------------------------------------------------
\* The control program: which descriptors main has open where, and which threads
\* may still run there.  main closes a descriptor behind both joins.
AppInv ==
    /\ main \in {"opened", "menu", "join_led", "join_i2c", "close"} => App \in opened
    /\ main \in {"menu", "join_led", "join_i2c", "close", "close_i2c"} => i2c_open
    /\ main \in {"start", "opened", "join_i2c", "close", "close_i2c", "exit"} =>
          led_thread \in {"none", "done"}
    /\ main \in {"start", "opened", "close", "close_i2c", "exit"} =>
          i2c_thread \in {"none", "done"}

\* Every place of main is named.
Places == main \in {"start", "opened", "menu", "join_led", "join_i2c", "close",
                    "close_i2c", "exit"}

\* Only main opens and closes the program's descriptor.
LEMMA OthersKeepOpened ==
    ASSUME Drivers \/ \E v \in BOOLEAN : Key(v)
    PROVE  UNCHANGED <<opened, main, i2c_open, led_thread, i2c_thread>>
<1>1. CASE \E v \in BOOLEAN : Key(v)
  BY <1>1 DEF Key, Set, app_vars
<1>2. CASE Drivers
  <2>1. CASE Bind \/ \E c \in Caller : LedStep(c)
    BY <1>2, <2>1
       DEF Drivers, Bind, ProbeMap, ProbeNode, RemoveNode, RemoveUnmap, LedStep,
           WriteRegister, Fault, WriteRecord, app_vars, Button, ButtonProbe,
           ButtonRemove, button_irq_handler, Set, led_vars
  <2>2. CASE Button
    BY <1>2, <2>2 DEF Drivers, Button, ButtonProbe, ButtonRemove, button_irq_handler,
                      Set, led_vars, app_vars
  <2>3. CASE UNCHANGED <<led_vars, button_vars, app_vars>>
    BY <2>3 DEF led_vars, app_vars
  <2> QED BY <1>2, <2>1, <2>2, <2>3 DEF Drivers
<1> QED BY <1>1, <1>2

\* Every step of the board.
LEMMA AppKeeps == Places /\ AppInv /\ [Next]_vars => Places' /\ AppInv'
<1> SUFFICES ASSUME Places, AppInv, [Next]_vars PROVE Places' /\ AppInv'
  OBVIOUS
<1> USE DEF Places, AppInv
<1>1. CASE Drivers \/ \E v \in BOOLEAN : Key(v)
  BY <1>1, OthersKeepOpened
<1>2. CASE OpenLed
  BY <1>2 DEF OpenLed, Open, threads, led_vars
<1>3. CASE OpenI2c
  BY <1>3 DEF OpenI2c, led_vars
<1>4. CASE OpenI2cFails
  BY <1>4 DEF OpenI2cFails, threads
<1>5. CASE KeyQuit
  BY <1>5 DEF KeyQuit, threads, led_vars
<1>6. CASE JoinLed
  BY <1>6 DEF JoinLed, threads, led_vars
<1>7. CASE JoinI2c
  BY <1>7 DEF JoinI2c, threads, led_vars
<1>8. CASE CloseLed
  BY <1>8 DEF CloseLed, threads
<1>9. CASE CloseI2c
  BY <1>9 DEF CloseI2c, threads
<1>10. CASE LedLoop \/ led_status
  BY <1>10 DEF LedLoop, led_status, led_vars
<1>11. CASE I2cLoop \/ i2c_value
  BY <1>11 DEF I2cLoop, i2c_value, led_vars
<1>12. CASE UNCHANGED vars
  BY <1>12 DEF vars, app_vars, led_vars
<1> QED
  BY <1>1, <1>2, <1>3, <1>4, <1>5, <1>6, <1>7, <1>8, <1>9, <1>10, <1>11, <1>12
     DEF Next, Main

\* No thread of the control program is in an ioctl on a descriptor that main has
\* closed, however the drivers come and go meanwhile.
THEOREM ThreadsHaveDescriptors == Spec => []DescriptorsOutliveThreads
<1>1. Init => Places /\ AppInv
  BY DEF Init, Places, AppInv
<1>2. Places /\ AppInv => DescriptorsOutliveThreads
  BY DEF Places, AppInv, DescriptorsOutliveThreads
<1> QED BY <1>1, <1>2, AppKeeps, PTL DEF Spec
=============================================================================
