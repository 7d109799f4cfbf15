------------------------- MODULE CharDevicesProofs -------------------------
(***************************************************************************)
(* Theorems about the character drivers: a module that is not loaded       *)
(* leaves nothing registered, copies stay inside the buffer, a call goes   *)
(* astray only through a file opened too early, and what a minor holds has *)
(* one author unless two calls have met there.                             *)
(***************************************************************************)
EXTENDS CharDevices, TLAPS

\* What the first n steps of an initialisation acquire.
Gets(d, n) == {Text[d].init[i].get : i \in 1 .. n}

\* What a call may still have to do.
Rests == {<<>>, <<"copy_out">>, <<"copy_in", "set_size", "rewind">>, <<"copy_in", "set_size">>,
          <<"rewind">>, <<"zero", "set_size">>, <<"drive">>}

Calls == {<<"trim", "copy_out">>, <<"limit", "copy_in", "set_size", "rewind">>,
          <<"limit", "copy_in", "set_size">>, <<"zero", "set_size">>, <<"accept", "drive">>}

\* The steps of an initialisation that has come to next have acquired no more
\* than they should; a live module holds nothing that its exit does not undo.
LoadInv ==
    /\ driver \in DOMAIN Text
    /\ mod \in {"no", "init", "live", "fault", "oops"}
    /\ next \in 1 .. Len(Text[driver].init)
    /\ mod \in {"no", "live"} => next = 1
    /\ mod = "no" => held = {}
    /\ mod = "init" => held \subseteq Gets(driver, next - 1)
    /\ mod = "live" => held \subseteq Text[driver].exit
    /\ mod = "live" /\ driver = "led" => mapping \in held

\* Offsets and counts stay below BUF_SIZE, and what is to be read is in front of
\* the offset.
FileInv ==
    /\ status \in [File -> {"closed", "early", "open", "orphan"}]
    /\ minor \in [File -> Minor \cup {None}]
    /\ \A f \in File : status[f] # "closed" => minor[f] \in Minor
    /\ ppos \in [File -> 0 .. BUF_SIZE]
    /\ count \in [File -> 0 .. BUF_SIZE]
    /\ buf_size \in [Minor -> 0 .. BUF_SIZE]
    /\ op \in [File -> Rests]
    /\ \A f \in File : op[f] = <<"copy_out">> => ppos[f] + count[f] <= BUF_SIZE
    /\ \A f \in File : op[f] = <<"drive">> => driver = "led"

\* A file is open normally only while the module is live, and of a module that
\* is not loaded no file is more than a leftover.
OpenInv ==
    /\ \A f \in File : status[f] = "open" => mod \in {"live", "fault", "oops"}
    /\ mod = "no" => \A f \in File : status[f] \in {"closed", "orphan"}

IInv == LoadInv /\ FileInv /\ OpenInv /\ FaultNeedsEarlyOpen
-----------------------------------------------------------------------------
(* What the texts have in common. *)

\* A checked step names in its undo everything that was acquired before it, and
\* exit names everything there is.
UndoesAll(init, exit) ==
    /\ Len(init) \in Nat \ {0}
    /\ \A i \in 1 .. Len(init) :
          /\ init[i].get \in exit
          /\ init[i].checked => \A j \in 1 .. i - 1 : init[j].get \in init[i].undo

\* multi_devices: each node that fails takes those before it away.
LEMMA MultiUndoes == UndoesAll(MultiInit, MultiExit)
<1> DEFINE n == NUM_DEVICES + 3
<1>1. n \in Nat /\ n > 3
  BY DevicesAssumption
<1>2. Len(MultiInit) = n /\ DOMAIN MultiInit = 1 .. n
  BY <1>1 DEF MultiInit
<1>3. ASSUME NEW i \in 1 .. n
      PROVE  /\ MultiInit[i].get \in MultiExit
             /\ \A j \in 1 .. i - 1 : MultiInit[j].get \in MultiInit[i].undo
  <2>1. CASE i = 1
    BY <2>1, <1>1 DEF MultiInit, MultiExit, Checked, Registrations
  <2>2. CASE i = 2
    BY <2>2, <1>1 DEF MultiInit, MultiExit, Checked, Registrations
  <2>3. CASE i = 3
    BY <2>3, <1>1 DEF MultiInit, MultiExit, Checked, Registrations
  <2>4. CASE i > 3
    BY <2>4, <1>1, DevicesAssumption DEF MultiInit, MultiExit, Checked, Registrations, Minor
  <2>5. QED
    BY <2>1, <2>2, <2>3, <2>4, <1>1
<1>4. QED
  BY <1>1, <1>2, <1>3 DEF UndoesAll

\* ex1.
LEMMA Ex1Undoes == UndoesAll(Ex1Init, Ex1Exit)
BY DEF UndoesAll, Ex1Init, Ex1Exit, Checked, Ignored

\* ex2.
LEMMA Ex2Undoes == UndoesAll(Ex2Init, Ex2Exit)
BY DEF UndoesAll, Ex2Init, Ex2Exit, Checked, Ignored

\* ex3.
LEMMA Ex3Undoes == UndoesAll(Ex3Init, Ex3Exit)
BY DEF UndoesAll, Ex3Init, Ex3Exit, Checked, Ignored

\* led_char_dev, which maps the registers in the last step, a checked one.
LEMMA LedUndoes == UndoesAll(LedInit, LedExit) /\ LedInit[Len(LedInit)].get = mapping /\ LedInit[Len(LedInit)].checked
BY DEF UndoesAll, LedInit, LedExit, Checked, Ignored

\* Every text undoes what it acquires.
LEMMA TextsUndo ==
    /\ \A d \in DOMAIN Text : UndoesAll(Text[d].init, Text[d].exit)
    /\ LET last == Len(Text["led"].init)
       IN  Text["led"].init[last].get = mapping /\ Text["led"].init[last].checked
BY MultiUndoes, Ex1Undoes, Ex2Undoes, Ex3Undoes, LedUndoes DEF Text

\* There are five kinds of calls, and one of them is led's alone.
LEMMA TextsCall ==
    \A d \in DOMAIN Text : /\ Text[d].calls \subseteq Calls
                           /\ <<"accept", "drive">> \in Text[d].calls => d = "led"
BY DEF Text, Calls, MultiRead, MultiWrite, Ex2Read, Ex2Write, Ex3Read, Ex3Write, Ex3Clear, LedWrite
-----------------------------------------------------------------------------
(* The invariant holds at first, and every step keeps it. *)

\* Nothing is loaded and nothing is open.
LEMMA InitInv == Init => IInv
<1> SUFFICES ASSUME Init PROVE IInv
  OBVIOUS
<1>1. LoadInv
  BY TextsUndo DEF Init, LoadInv, UndoesAll
<1>2. FileInv
  BY DevicesAssumption DEF Init, FileInv, Rests
<1>3. OpenInv /\ FaultNeedsEarlyOpen
  BY DEF Init, OpenInv, FaultNeedsEarlyOpen
<1>4. QED
  BY <1>1, <1>2, <1>3 DEF IInv

\* What is held before a checked step is in the step's undo, and what is held
\* after a step is what the next ones may find.
LEMMA HeldUndone ==
    ASSUME IInv, mod \in {"no", "init"}
    PROVE  /\ Acquiring.checked => held \ Acquiring.undo = {}
           /\ held \cup {Acquiring.get} \subseteq Gets(driver, next)
           /\ Gets(driver, next) \subseteq Text[driver].exit
<1> USE DEF IInv, LoadInv, Acquiring
<1>1. UndoesAll(Text[driver].init, Text[driver].exit)
  BY TextsUndo
<1>2. held \subseteq Gets(driver, next - 1)
  BY <1>1 DEF UndoesAll
<1>3. next \in 1 .. Len(Text[driver].init)
  OBVIOUS
<1>4. Text[driver].init[next].checked => Gets(driver, next - 1) \subseteq Text[driver].init[next].undo
  BY <1>1, <1>3 DEF UndoesAll, Gets
<1>5. Gets(driver, next - 1) \cup {Text[driver].init[next].get} \subseteq Gets(driver, next)
  BY <1>1, <1>3 DEF UndoesAll, Gets
<1>6. Gets(driver, next) \subseteq Text[driver].exit
  BY <1>1, <1>3 DEF UndoesAll, Gets
<1>7. QED
  BY <1>2, <1>4, <1>5, <1>6

\* What Call leaves to be done.
LEMMA CallRests ==
    ASSUME driver \in DOMAIN Text, NEW steps \in Text[driver].calls
    PROVE  /\ steps \in Calls
           /\ (IF Head(steps) = "zero" THEN steps ELSE Tail(steps)) \in Rests
           /\ Tail(steps) = <<"copy_out">> => Head(steps) = "trim"
           /\ Tail(steps) = <<"drive">> => driver = "led"
           /\ Head(steps) = "zero" => steps = <<"zero", "set_size">>
           /\ Head(steps) \in {"trim", "limit", "zero", "accept"}
<1>1. steps \in Calls
  BY TextsCall
<1>2. CASE steps = <<"trim", "copy_out">>
  BY <1>2, <1>1 DEF Rests
<1>3. CASE steps = <<"limit", "copy_in", "set_size", "rewind">>
  BY <1>3, <1>1 DEF Rests
<1>4. CASE steps = <<"limit", "copy_in", "set_size">>
  BY <1>4, <1>1 DEF Rests
<1>5. CASE steps = <<"zero", "set_size">>
  BY <1>5, <1>1 DEF Rests
<1>6. CASE steps = <<"accept", "drive">>
  BY <1>6, <1>1, TextsCall DEF Rests
<1>7. QED
  BY <1>1, <1>2, <1>3, <1>4, <1>5, <1>6 DEF Calls

\* Acquiring what comes next, or passing over its failure.
LEMMA AcquireInv ==
    ASSUME IInv, Acquire
    PROVE  IInv'
<1>1. mod \in {"no", "init"} /\ next \in 1 .. Len(Text[driver].init) /\ driver \in DOMAIN Text
  BY DEF IInv, LoadInv, Acquire
<1>2. UndoesAll(Text[driver].init, Text[driver].exit)
  BY <1>1, TextsUndo
<1>3. held' \subseteq Gets(driver, next) /\ Gets(driver, next) \subseteq Text[driver].exit
  BY <1>1, HeldUndone DEF Acquire
<1>4. LoadInv'
  <2>1. CASE next = Len(Text[driver].init)
    <3>1. mod' = "live" /\ next' = 1
      BY <2>1 DEF Acquire, Continue
    <3>2. driver = "led" => mapping \in held'
      BY <2>1, TextsUndo DEF Acquire, Acquiring
    <3>3. QED
      BY <1>1, <1>2, <1>3, <3>1, <3>2 DEF LoadInv, Acquire, UndoesAll
  <2>2. CASE next # Len(Text[driver].init)
    <3>1. mod' = "init" /\ next' = next + 1
      BY <2>2 DEF Acquire, Continue
    <3>2. next' \in 1 .. Len(Text[driver].init) /\ next' - 1 = next
      BY <1>1, <1>2, <2>2, <3>1 DEF UndoesAll
    <3>3. QED
      BY <1>1, <1>3, <3>1, <3>2 DEF LoadInv, Acquire
  <2>3. QED
    BY <2>1, <2>2
<1>5. FileInv'
  BY DEF IInv, FileInv, Acquire, files, data
<1>6. mod' \in {"init", "live"}
  BY DEF Acquire, Continue
<1>7. OpenInv' /\ FaultNeedsEarlyOpen'
  BY <1>1, <1>6 DEF IInv, OpenInv, FaultNeedsEarlyOpen, Acquire, files
<1>8. QED
  BY <1>4, <1>5, <1>7 DEF IInv

\* A step that failed and was undone leaves nothing but orphans.
LEMMA AcquireFailsInv ==
    ASSUME IInv, AcquireFails
    PROVE  IInv'
<1>1. held' = {}
  BY HeldUndone DEF AcquireFails
<1>2. LoadInv'
  BY <1>1, TextsUndo DEF IInv, LoadInv, AcquireFails, UndoesAll
<1>3. FileInv'
  <2>1. status' \in [File -> {"closed", "early", "open", "orphan"}]
    BY DEF AcquireFails
  <2>2. \A f \in File : status'[f] # "closed" => minor'[f] \in Minor
    BY DEF IInv, FileInv, AcquireFails, Opened
  <2>3. buf_size' \in [Minor -> 0 .. BUF_SIZE]
    BY DevicesAssumption DEF AcquireFails, Discard
  <2>4. QED
    BY <2>1, <2>2, <2>3 DEF IInv, FileInv, LoadInv, AcquireFails
<1>4. OpenInv' /\ FaultNeedsEarlyOpen'
  BY DEF IInv, OpenInv, FaultNeedsEarlyOpen, AcquireFails
<1>5. QED
  BY <1>2, <1>3, <1>4 DEF IInv

\* multi_devices kept after a failure holds too little, never too much.
LEMMA FailureKeptInv ==
    ASSUME IInv, FailureKept
    PROVE  IInv'
<1>1. held' \subseteq Text[driver].exit
  BY HeldUndone DEF FailureKept
<1>2. LoadInv'
  BY <1>1, TextsUndo DEF IInv, LoadInv, FailureKept, UndoesAll
<1>3. FileInv'
  BY DEF IInv, FileInv, FailureKept, files, data
<1>4. OpenInv' /\ FaultNeedsEarlyOpen'
  BY DEF IInv, OpenInv, FaultNeedsEarlyOpen, FailureKept, files
<1>5. QED
  BY <1>2, <1>3, <1>4 DEF IInv

\* Unloading takes away all that a live module holds.
LEMMA UnloadInv ==
    ASSUME IInv, Unload
    PROVE  IInv'
<1>1. held' = {} /\ next' = 1 /\ mod' \in {"no", "oops"}
  BY DEF IInv, LoadInv, Unload
<1>2. LoadInv'
  BY <1>1 DEF IInv, LoadInv, Unload
<1>3. FileInv'
  <2>1. buf_size' \in [Minor -> 0 .. BUF_SIZE]
    BY DevicesAssumption DEF Unload, Discard
  <2>2. QED
    BY <2>1 DEF IInv, FileInv, Unload, files, LoadInv
<1>4. OpenInv'
  <2>1. \A f \in File : status'[f] \in {"closed", "orphan"}
    BY DEF Unload, files, Opened, IInv, FileInv
  <2>2. QED
    BY <2>1 DEF OpenInv
<1>5. FaultNeedsEarlyOpen'
  BY <1>1 DEF FaultNeedsEarlyOpen
<1>6. QED
  BY <1>2, <1>3, <1>4, <1>5 DEF IInv
-----------------------------------------------------------------------------
(* The file operations, which leave the module as it is unless they meet   *)
(* what is not there.                                                      *)

\* As long as a step leaves the module and the way files are opened alone, the
\* parts of the invariant about them stay.
LEMMA ModuleUnchanged ==
    ASSUME IInv, UNCHANGED <<module, status>>
    PROVE  LoadInv' /\ OpenInv' /\ FaultNeedsEarlyOpen'
BY DEF IInv, LoadInv, OpenInv, FaultNeedsEarlyOpen, module

\* What is left to do of a call is known from its first step.
LEMMA RestByHead ==
    ASSUME NEW rest \in Rests, rest # <<>>
    PROVE  /\ Head(rest) = "copy_out" => rest = <<"copy_out">>
           /\ Head(rest) = "copy_in" => Tail(Tail(rest)) \in {<<>>, <<"rewind">>}
           /\ Head(rest) = "zero" => Tail(Tail(rest)) = <<>>
           /\ Head(rest) = "drive" => rest = <<"drive">>
<1>1. CASE rest = <<"copy_in", "set_size", "rewind">>
  BY <1>1
<1>2. CASE rest = <<"copy_in", "set_size">>
  BY <1>2
<1>3. CASE rest = <<"zero", "set_size">>
  BY <1>3
<1>4. CASE rest \in {<<"copy_out">>, <<"rewind">>, <<"drive">>}
  BY <1>4
<1>5. QED
  BY <1>1, <1>2, <1>3, <1>4 DEF Rests

\* A file opens, early or on a live module.
LEMMA OpenStep ==
    ASSUME IInv, NEW f \in File, NEW m \in Minor, my_open(f, m)
    PROVE  IInv'
<1>1. LoadInv'
  BY DEF IInv, LoadInv, my_open, module
<1>2. FileInv'
  <2>1. ppos' \in [File -> 0 .. BUF_SIZE]
    BY DevicesAssumption DEF IInv, FileInv, my_open
  <2>2. \A g \in File : op'[g] = <<"copy_out">> => ppos'[g] + count'[g] <= BUF_SIZE
    BY DevicesAssumption DEF IInv, FileInv, my_open
  <2>3. status' \in [File -> {"closed", "early", "open", "orphan"}]
    BY DEF IInv, FileInv, my_open
  <2>4. minor' \in [File -> Minor \cup {None}]
    BY DEF IInv, FileInv, my_open
  <2>5. \A g \in File : status'[g] # "closed" => minor'[g] \in Minor
    BY DEF IInv, FileInv, my_open
  <2>6. QED
    BY <2>1, <2>2, <2>3, <2>4, <2>5 DEF IInv, FileInv, my_open, data, module
<1>3. OpenInv' /\ FaultNeedsEarlyOpen'
  BY DEF IInv, FileInv, OpenInv, FaultNeedsEarlyOpen, my_open, module
<1>4. QED
  BY <1>1, <1>2, <1>3 DEF IInv

\* A file closes.
LEMMA ReleaseStep ==
    ASSUME IInv, NEW f \in File, my_release(f)
    PROVE  IInv'
<1>1. LoadInv'
  BY DEF IInv, LoadInv, my_release, module
<1>2. FileInv'
  BY DEF IInv, FileInv, my_release, data, module
<1>3. OpenInv' /\ FaultNeedsEarlyOpen'
  BY DEF IInv, FileInv, OpenInv, FaultNeedsEarlyOpen, my_release, module, Served
<1>4. QED
  BY <1>1, <1>2, <1>3 DEF IInv

\* A read is trimmed to what is valid, which lies inside the buffer.
LEMMA CallStep ==
    ASSUME IInv, NEW f \in File, NEW steps \in Text[driver].calls,
           NEW n \in 0 .. BUF_SIZE + 1, Call(f, steps, n)
    PROVE  IInv'
<1>1. LoadInv' /\ OpenInv' /\ FaultNeedsEarlyOpen'
  BY ModuleUnchanged DEF Call
<1>2. /\ minor[f] \in Minor /\ buf_size[minor[f]] \in 0 .. BUF_SIZE
      /\ ppos[f] \in 0 .. BUF_SIZE /\ driver \in DOMAIN Text
  BY DEF IInv, FileInv, LoadInv, Call, Served
<1>3. op' \in [File -> Rests]
  BY <1>2, CallRests DEF IInv, FileInv, Call
<1>4. count' \in [File -> 0 .. BUF_SIZE] /\ (Head(steps) = "trim" => ppos[f] + count'[f] <= BUF_SIZE)
  <2>1. CASE Head(steps) = "trim"
    <3>1. ppos[f] < buf_size[minor[f]] /\ count' = [count EXCEPT ![f] = Trimmed(f, n)]
      BY <2>1 DEF Call
    <3>2. Trimmed(f, n) \in 0 .. BUF_SIZE /\ ppos[f] + Trimmed(f, n) <= BUF_SIZE
      BY <1>2, <3>1, DevicesAssumption DEF Trimmed, Smaller
    <3>3. QED
      BY <3>1, <3>2 DEF IInv, FileInv
  <2>2. CASE Head(steps) = "limit"
    BY <2>2, DevicesAssumption DEF IInv, FileInv, Call, Limited, Smaller
  <2>3. CASE Head(steps) = "accept"
    BY <2>3 DEF IInv, FileInv, Call
  <2>4. CASE Head(steps) = "zero"
    BY <2>4, DevicesAssumption DEF IInv, FileInv, Call
  <2>5. QED
    BY <1>2, CallRests, <2>1, <2>2, <2>3, <2>4
<1>5. ppos' = ppos /\ \A g \in File : g # f => op'[g] = op[g] /\ count'[g] = count[g]
  BY DEF IInv, FileInv, Call
<1>6. op'[f] = IF Head(steps) = "zero" THEN steps ELSE Tail(steps)
  BY DEF IInv, FileInv, Call
<1>7. op'[f] = <<"copy_out">> => Head(steps) = "trim"
  BY <1>2, <1>6, CallRests
<1>8. op'[f] = <<"drive">> => driver = "led"
  BY <1>2, <1>6, CallRests
<1>9. \A g \in File : op'[g] = <<"copy_out">> => ppos'[g] + count'[g] <= BUF_SIZE
  BY <1>4, <1>5, <1>7 DEF IInv, FileInv
<1>10. \A g \in File : op'[g] = <<"drive">> => driver' = "led"
  BY <1>5, <1>8 DEF IInv, FileInv, Call, module
<1>11. FileInv'
  BY <1>3, <1>4, <1>9, <1>10 DEF IInv, FileInv, Call, data
<1>12. QED
  BY <1>1, <1>11 DEF IInv

\* The end of a call, where the offset stays or lands inside the buffer.
LEMMA ReturnStep ==
    ASSUME IInv, NEW f \in File, Return(f), UNCHANGED <<driver, status, minor>>,
           ppos' \in [File -> 0 .. BUF_SIZE], buf_size' = buf_size,
           \A g \in File : g # f => ppos'[g] = ppos[g]
    PROVE  FileInv'
<1>1. op' \in [File -> Rests] /\ count' \in [File -> 0 .. BUF_SIZE]
  BY DevicesAssumption DEF IInv, FileInv, Return, Rests
<1>2. op'[f] = <<>> /\ \A g \in File : g # f => op'[g] = op[g] /\ count'[g] = count[g]
  BY DEF IInv, FileInv, Return
<1>3. op'[f] # <<"copy_out">> /\ op'[f] # <<"drive">>
  BY <1>2
<1>4. \A g \in File : /\ op'[g] = <<"copy_out">> => ppos'[g] + count'[g] <= BUF_SIZE
                      /\ op'[g] = <<"drive">> => driver' = "led"
  BY <1>2, <1>3 DEF IInv, FileInv
<1>5. QED
  BY <1>1, <1>4 DEF IInv, FileInv

\* A read copies what it was trimmed to and returns.
LEMMA CopyOutStep ==
    ASSUME IInv, NEW f \in File, CopyOut(f)
    PROVE  IInv'
<1>1. LoadInv' /\ OpenInv' /\ FaultNeedsEarlyOpen'
  BY ModuleUnchanged DEF CopyOut
<1>2. op[f] = <<"copy_out">>
  BY RestByHead DEF IInv, FileInv, CopyOut, At
<1>3. ppos[f] + count[f] \in 0 .. BUF_SIZE
  BY <1>2, DevicesAssumption DEF IInv, FileInv
<1>4. ppos' \in [File -> 0 .. BUF_SIZE] /\ \A g \in File : g # f => ppos'[g] = ppos[g]
  BY <1>3 DEF IInv, FileInv, CopyOut
<1>5. FileInv'
  BY <1>4, ReturnStep DEF CopyOut, module, data
<1>6. QED
  BY <1>1, <1>5 DEF IInv

\* A write copies one byte.
LEMMA SetByteStep ==
    ASSUME IInv, NEW f \in File, SetByte(f)
    PROVE  IInv'
<1>1. LoadInv' /\ OpenInv' /\ FaultNeedsEarlyOpen'
  BY ModuleUnchanged DEF SetByte
<1>2. FileInv'
  BY DEF IInv, FileInv, SetByte, module
<1>3. QED
  BY <1>1, <1>2 DEF IInv

\* A write whose copy fails half-way returns with nothing to do.
LEMMA CopyInFailsStep ==
    ASSUME IInv, NEW f \in File, CopyInFails(f)
    PROVE  IInv'
<1>1. LoadInv' /\ OpenInv' /\ FaultNeedsEarlyOpen'
  BY ModuleUnchanged DEF CopyInFails
<1>2. FileInv'
  BY ReturnStep DEF CopyInFails, module, IInv, FileInv
<1>3. QED
  BY <1>1, <1>2 DEF IInv

\* A write stores the new size of its buffer.
LEMMA SetSizeStep ==
    ASSUME IInv, NEW f \in File, SetSize(f)
    PROVE  IInv'
<1>1. LoadInv' /\ OpenInv' /\ FaultNeedsEarlyOpen'
  BY ModuleUnchanged DEF SetSize
<1>2. Tail(Tail(op[f])) \in {<<>>, <<"rewind">>}
  BY RestByHead DEF IInv, FileInv, SetSize, At
<1>3. op' \in [File -> Rests] /\ count' \in [File -> 0 .. BUF_SIZE]
  BY <1>2, DevicesAssumption DEF IInv, FileInv, SetSize, Rests
<1>4. op'[f] \in {<<>>, <<"rewind">>} /\ \A g \in File : g # f => op'[g] = op[g] /\ count'[g] = count[g]
  BY <1>2 DEF IInv, FileInv, SetSize
<1>5. buf_size' \in [Minor -> 0 .. BUF_SIZE]
  <2>1. (IF Head(op[f]) = "zero" THEN 0 ELSE count[f]) \in 0 .. BUF_SIZE
    BY DevicesAssumption DEF IInv, FileInv
  <2>2. QED
    BY <2>1 DEF IInv, FileInv, SetSize
<1>6. op'[f] # <<"copy_out">> /\ op'[f] # <<"drive">>
  BY <1>4
<1>7. \A g \in File : /\ op'[g] = <<"copy_out">> => ppos'[g] + count'[g] <= BUF_SIZE
                      /\ op'[g] = <<"drive">> => driver' = "led"
  BY <1>4, <1>6 DEF IInv, FileInv, SetSize, module
<1>8. FileInv'
  BY <1>3, <1>5, <1>7 DEF IInv, FileInv, SetSize
<1>9. QED
  BY <1>1, <1>8 DEF IInv

\* A write that ends by setting the position back returns.
LEMMA RewindStep ==
    ASSUME IInv, NEW f \in File, Rewind(f)
    PROVE  IInv'
<1>1. LoadInv' /\ OpenInv' /\ FaultNeedsEarlyOpen'
  BY ModuleUnchanged DEF Rewind
<1>2. ppos' \in [File -> 0 .. BUF_SIZE] /\ \A g \in File : g # f => ppos'[g] = ppos[g]
  BY DevicesAssumption DEF IInv, FileInv, Rewind
<1>3. FileInv'
  BY <1>2, ReturnStep DEF Rewind, module, data
<1>4. QED
  BY <1>1, <1>3 DEF IInv

\* led_char_dev meets unmapped registers only while it initialises, so that the
\* file was opened early.
LEMMA DriveStep ==
    ASSUME IInv, NEW f \in File, Drive(f)
    PROVE  IInv'
<1>1. CASE Return(f) /\ UNCHANGED mod
  <2>1. LoadInv' /\ OpenInv' /\ FaultNeedsEarlyOpen'
    BY <1>1, ModuleUnchanged DEF Drive, module
  <2>2. FileInv'
    BY <1>1, ReturnStep DEF Drive, data, IInv, FileInv
  <2>3. QED
    BY <2>1, <2>2 DEF IInv
<1>2. CASE mapping \notin held /\ mod' = "fault" /\ UNCHANGED <<op, count, copied>>
  <2>1. driver = "led"
    BY RestByHead DEF IInv, FileInv, Drive, At
  <2>2. mod = "init"
    BY <1>2, <2>1 DEF IInv, LoadInv, Drive, At, Served
  <2>3. status[f] = "early"
    BY <2>2 DEF IInv, OpenInv, Drive, At, Served
  <2>4. LoadInv'
    BY <1>2 DEF IInv, LoadInv, Drive
  <2>5. FileInv'
    BY <1>2 DEF IInv, FileInv, Drive, data
  <2>6. OpenInv' /\ FaultNeedsEarlyOpen'
    BY <1>2, <2>3 DEF IInv, OpenInv, FaultNeedsEarlyOpen, Drive
  <2>7. QED
    BY <2>4, <2>5, <2>6 DEF IInv
<1>3. QED
  BY <1>1, <1>2 DEF Drive

\* A file on freed code is one that was opened early and orphaned.
LEMMA UseAfterFreeStep ==
    ASSUME IInv, NEW f \in File, UseAfterFree(f)
    PROVE  IInv'
<1>1. status[f] = "orphan"
  BY DEF IInv, LoadInv, FileInv, OpenInv, UseAfterFree, Served, Opened
<1>2. LoadInv'
  BY DEF IInv, LoadInv, UseAfterFree
<1>3. FileInv'
  BY DEF IInv, FileInv, UseAfterFree, files, data
<1>4. OpenInv' /\ FaultNeedsEarlyOpen'
  BY <1>1 DEF IInv, OpenInv, FaultNeedsEarlyOpen, UseAfterFree, files
<1>5. QED
  BY <1>2, <1>3, <1>4 DEF IInv

\* A step of nobody keeps the invariant.
LEMMA StutterStep ==
    ASSUME IInv, UNCHANGED vars
    PROVE  IInv'
BY DEF IInv, LoadInv, FileInv, OpenInv, FaultNeedsEarlyOpen, vars, module, files, data

\* Every step of the specification keeps the invariant.
LEMMA NextInv == IInv /\ [Next]_vars => IInv'
<1> SUFFICES ASSUME IInv, [Next]_vars PROVE IInv'
  OBVIOUS
<1>1. CASE Load
  BY <1>1, AcquireInv, AcquireFailsInv, FailureKeptInv, UnloadInv DEF Load
<1>2. CASE \E f \in File : Operate(f) \/ UseAfterFree(f)
  <2>1. PICK f \in File : Operate(f) \/ UseAfterFree(f)
    BY <1>2
  <2>2. CASE \E m \in Minor : my_open(f, m)
    BY <2>2, OpenStep
  <2>3. CASE \E steps \in Text[driver].calls, n \in 0 .. BUF_SIZE + 1 : Call(f, steps, n)
    BY <2>3, CallStep
  <2>4. QED
    BY <2>1, <2>2, <2>3, ReleaseStep, CopyOutStep, SetByteStep, CopyInFailsStep, SetSizeStep,
       RewindStep, DriveStep, UseAfterFreeStep DEF Operate
<1>3. CASE Stopped \/ UNCHANGED vars
  BY <1>3, StutterStep DEF Stopped
<1>4. QED
  BY <1>1, <1>2, <1>3 DEF Next
-----------------------------------------------------------------------------
(* What follows. *)

\* The invariant holds of every driver, for any number of minors, files and
\* bytes.
THEOREM Invariance == Spec => []IInv
<1>1. QED
  BY InitInv, NextInv, PTL DEF Spec

\* At whichever step initialisation failed, and after every unloading, nothing
\* is left registered, created or mapped.
THEOREM NothingLeftBehind == Spec => []NothingLeft
<1>1. IInv => NothingLeft
  BY DEF IInv, LoadInv, NothingLeft
<1>2. QED
  BY <1>1, Invariance, PTL

\* Reads and writes under way stay inside the buffer, whatever the overlapping
\* writes of the minor did to its size.
THEOREM CopiesStayInBuffer == Spec => []CopiesInBuffer
<1>1. IInv => CopiesInBuffer
  <2> SUFFICES ASSUME IInv, NEW f \in File
               PROVE  /\ At(f, "copy_out") => ppos[f] + count[f] <= BUF_SIZE
                      /\ At(f, "copy_in") => count[f] <= BUF_SIZE
    BY DEF CopiesInBuffer
  <2>1. At(f, "copy_out") => op[f] = <<"copy_out">>
    BY RestByHead DEF IInv, FileInv, At
  <2>2. count[f] \in 0 .. BUF_SIZE
    BY DEF IInv, FileInv
  <2>3. QED
    BY <2>1, <2>2, DevicesAssumption DEF IInv, FileInv
<1>2. QED
  BY <1>1, Invariance, PTL

\* A call goes astray only through a file that was opened while the module was
\* still initialising.
THEOREM OnlyEarlyOpenFaults == Spec => []FaultNeedsEarlyOpen
<1>1. IInv => FaultNeedsEarlyOpen
  BY DEF IInv
<1>2. QED
  BY <1>1, Invariance, PTL
-----------------------------------------------------------------------------
(* What a minor's buffer holds.                                            *)

\* The call f is in sets bytes of its minor; with what.
Writing(f) == op[f] # <<>> /\ Head(op[f]) \in {"copy_in", "zero"}
Author(f) == IF Head(op[f]) = "zero" THEN None ELSE f
Busy(m) == \E g \in File : Writing(g) /\ minor[g] = m

\* The variables FileInv does not speak of; only an open file is in a call, and
\* only a write has set bytes, no more than it was asked to.
CopyInv ==
    /\ buffer \in [Minor -> [Byte -> File \cup {None}]]
    /\ torn \in [Minor -> BOOLEAN]
    /\ alone \in [File -> BOOLEAN]
    /\ copied \in [File -> 0 .. BUF_SIZE]
    /\ \A f \in File : status[f] = "closed" => op[f] = <<>>
    /\ \A f \in File : IF Writing(f) THEN copied[f] <= count[f] ELSE copied[f] = 0

\* A write no other has overlapped is the only one of its minor, and what it has
\* set stands there as it set it, unless the module has gone from under it.
AloneInv ==
    \A f \in File : Writing(f) /\ alone[f] =>
       /\ \A g \in File : Writing(g) /\ minor[g] = minor[f] => g = f
       /\ status[f] \in {"early", "open"} =>
             \A b \in Byte : b < copied[f] => buffer[minor[f]][b] = Author(f)

\* SingleAuthor, minor by minor.
OneAuthor(m) ==
    \A a, b \in Byte : a < buf_size[m] /\ b < buf_size[m] =>
       buffer[m][a] = buffer[m][b] /\ buffer[m][a] # None

QuietInv == \A m \in Minor : ~ torn[m] /\ ~ Busy(m) => OneAuthor(m)

ContentInv == CopyInv /\ AloneInv /\ QuietInv

\* The calls of f's minor that set its bytes.
LEMMA WritersWrite ==
    \A f \in File : Writers(f) = {g \in File : Writing(g) /\ minor[g] = minor[f]}
BY DEF Writers, Writing

\* The first steps of the rests of calls.
LEMMA WritingRests ==
    ASSUME NEW rest \in Rests, rest # <<>>
    PROVE  /\ Head(rest) \in {"copy_in", "zero"} <=>
                 rest \in {<<"copy_in", "set_size", "rewind">>, <<"copy_in", "set_size">>,
                           <<"zero", "set_size">>}
           /\ Tail(Tail(rest)) = <<>> \/ Head(Tail(Tail(rest))) \notin {"copy_in", "zero"}
              \/ Head(rest) \notin {"copy_in", "zero"}
<1>1. CASE rest = <<"copy_in", "set_size", "rewind">>
  BY <1>1
<1>2. CASE rest = <<"copy_in", "set_size">>
  BY <1>2
<1>3. CASE rest = <<"zero", "set_size">>
  BY <1>3
<1>4. CASE rest \in {<<"copy_out">>, <<"rewind">>, <<"drive">>}
  BY <1>4
<1> QED BY <1>1, <1>2, <1>3, <1>4 DEF Rests

\* Nothing is written at first.
LEMMA ContentInit == Init => ContentInv
<1> SUFFICES ASSUME Init PROVE ContentInv
  OBVIOUS
<1>1. \A f \in File : ~ Writing(f) /\ op[f] = <<>>
  BY DEF Init, Writing
<1>2. CopyInv
  BY <1>1, DevicesAssumption DEF Init, CopyInv, Empty
<1>3. AloneInv
  BY <1>1 DEF AloneInv
<1>4. QuietInv
  BY DEF Init, QuietInv, OneAuthor, Byte
<1> QED BY <1>2, <1>3, <1>4 DEF ContentInv

\* Loading, unloading and running into freed code leave calls and contents alone.
LEMMA ContentKept ==
    ASSUME ContentInv, UNCHANGED <<minor, op, count, copied, alone, data>>,
           \A f \in File : status'[f] = status[f]
    PROVE  ContentInv'
<1>1. \A f \in File : Writing(f)' = Writing(f) /\ Author(f)' = Author(f)
  BY DEF Writing, Author
<1>2. CopyInv'
  BY <1>1 DEF ContentInv, CopyInv, data
<1>3. AloneInv'
  BY <1>1 DEF ContentInv, AloneInv, data
<1>4. QuietInv'
  BY <1>1 DEF ContentInv, QuietInv, OneAuthor, Busy, data
<1> QED BY <1>2, <1>3, <1>4 DEF ContentInv

\* The memory goes, and every file that is still open is a leftover.
LEMMA ContentDiscarded ==
    ASSUME ContentInv, UNCHANGED <<minor, op, count, copied, alone>>, Discard,
           \A f \in File : /\ status'[f] \notin {"early", "open"}
                           /\ status'[f] = "closed" => status[f] = "closed"
    PROVE  ContentInv'
<1>1. \A f \in File : Writing(f)' = Writing(f)
  BY DEF Writing
<1>2. /\ buffer' = [m \in Minor |-> [b \in Byte |-> None]]
      /\ torn' = [m \in Minor |-> FALSE]
      /\ buf_size' = [m \in Minor |-> 0]
  BY DEF Discard, Empty
<1>3. CopyInv'
  BY <1>1, <1>2 DEF ContentInv, CopyInv
<1>4. AloneInv'
  BY <1>1 DEF ContentInv, AloneInv
<1>5. QuietInv'
  BY <1>2 DEF QuietInv, OneAuthor, Byte
<1> QED BY <1>3, <1>4, <1>5 DEF ContentInv

\* A step of f that is not in a writing call before or after.
LEMMA ContentElsewhere ==
    ASSUME ContentInv, NEW f \in File, ~ Writing(f), ~ Writing(f)',
           UNCHANGED <<alone, data>>, copied' \in [File -> 0 .. BUF_SIZE],
           copied'[f] = 0, status'[f] = "closed" => op'[f] = <<>>,
           \A g \in File : g # f =>
              /\ op'[g] = op[g] /\ minor'[g] = minor[g] /\ status'[g] = status[g]
              /\ count'[g] = count[g] /\ copied'[g] = copied[g]
    PROVE  ContentInv'
<1>1. \A g \in File : g # f => Writing(g)' = Writing(g) /\ Author(g)' = Author(g)
  BY DEF Writing, Author
<1>2. \A m : Busy(m)' = Busy(m)
  BY <1>1 DEF Busy
<1>3. CopyInv'
  BY <1>1 DEF ContentInv, CopyInv, data
<1>4. AloneInv'
  BY <1>1 DEF ContentInv, AloneInv, data
<1>5. QuietInv'
  BY <1>2 DEF ContentInv, QuietInv, OneAuthor, data
<1> QED BY <1>3, <1>4, <1>5 DEF ContentInv

\* The module's own steps.
LEMMA LoadContent ==
    ASSUME IInv, ContentInv, Load
    PROVE  ContentInv'
<1>1. CASE Acquire \/ FailureKept
  BY <1>1, ContentKept DEF Acquire, FailureKept, files, data
<1>2. CASE AcquireFails
  <2>1. \A f \in File : status'[f] = IF status[f] # "closed" THEN "orphan" ELSE "closed"
    BY <1>2 DEF AcquireFails, Opened
  <2> QED BY <1>2, <2>1, ContentDiscarded DEF AcquireFails
<1>3. CASE Unload
  <2>1. \A f \in File : status'[f] = status[f] /\ status[f] \in {"closed", "orphan"}
    BY <1>3 DEF Unload, Opened, files
  <2> QED BY <1>3, <2>1, ContentDiscarded DEF Unload, files
<1> QED BY <1>1, <1>2, <1>3 DEF Load

\* Opening and closing, and the calls and steps that write nothing.
LEMMA OpenContent ==
    ASSUME IInv, ContentInv, NEW f \in File,
           (\E m \in Minor : my_open(f, m)) \/ my_release(f)
    PROVE  ContentInv'
<1>1. op[f] = <<>> /\ UNCHANGED <<op, count, copied, alone, data>>
  BY DEF my_open, my_release, ContentInv, CopyInv
<1>2. ~ Writing(f) /\ ~ Writing(f)'
  BY <1>1 DEF Writing
<1>3. \A g \in File : g # f => minor'[g] = minor[g] /\ status'[g] = status[g]
  BY DEF my_open, my_release, IInv, FileInv
<1>4. copied' \in [File -> 0 .. BUF_SIZE] /\ copied'[f] = 0
  BY <1>1, <1>2 DEF ContentInv, CopyInv
<1> QED BY <1>1, <1>2, <1>3, <1>4, ContentElsewhere

\* The end of a read, of a rewinding write and of a drive.
LEMMA ReturnContent ==
    ASSUME IInv, ContentInv, NEW f \in File,
           CopyOut(f) \/ Rewind(f) \/ (Drive(f) /\ Return(f))
    PROVE  ContentInv'
<1>1. /\ op' = [op EXCEPT ![f] = <<>>] /\ count' = [count EXCEPT ![f] = 0]
      /\ copied' = [copied EXCEPT ![f] = 0]
      /\ UNCHANGED <<status, minor, alone, data>>
  BY DEF CopyOut, Rewind, Drive, Return
<1>2. op[f] # <<>> /\ Head(op[f]) \in {"copy_out", "rewind", "drive"} /\ status[f] # "closed"
  BY DEF CopyOut, Rewind, Drive, At, Served
<1>3. ~ Writing(f) /\ ~ Writing(f)'
  BY <1>1, <1>2 DEF Writing, IInv, FileInv
<1>4. copied' \in [File -> 0 .. BUF_SIZE] /\ copied'[f] = 0
  BY <1>1, DevicesAssumption DEF ContentInv, CopyInv
<1>5. \A g \in File : g # f =>
              /\ op'[g] = op[g] /\ minor'[g] = minor[g] /\ status'[g] = status[g]
              /\ count'[g] = count[g] /\ copied'[g] = copied[g]
  BY <1>1 DEF ContentInv, CopyInv, IInv, FileInv
<1> QED BY <1>1, <1>2, <1>3, <1>4, <1>5, ContentElsewhere

\* A call begins.  One that is to write is alone if it finds nobody writing, and
\* those it finds are no longer.
LEMMA CallContent ==
    ASSUME IInv, ContentInv, NEW f \in File, NEW steps \in Text[driver].calls,
           NEW n \in 0 .. BUF_SIZE + 1, Call(f, steps, n)
    PROVE  ContentInv'
<1> DEFINE rest == IF Head(steps) = "zero" THEN steps ELSE Tail(steps)
<1>1. /\ steps \in Calls /\ rest \in Rests /\ rest # <<>>
      /\ Head(rest) \in {"copy_in", "zero"} <=> Head(steps) \in {"limit", "zero"}
  <2>1. steps \in Calls /\ rest \in Rests
    BY CallRests DEF IInv, LoadInv
  <2>2. CASE steps = <<"trim", "copy_out">>
    BY <2>1, <2>2
  <2>3. CASE steps = <<"limit", "copy_in", "set_size", "rewind">>
    BY <2>1, <2>3
  <2>4. CASE steps = <<"limit", "copy_in", "set_size">>
    BY <2>1, <2>4
  <2>5. CASE steps = <<"zero", "set_size">>
    BY <2>1, <2>5
  <2>6. CASE steps = <<"accept", "drive">>
    BY <2>1, <2>6
  <2> QED BY <2>1, <2>2, <2>3, <2>4, <2>5, <2>6 DEF Calls
<1>2. op[f] = <<>> /\ op' = [op EXCEPT ![f] = rest] /\ UNCHANGED <<status, minor, copied, data>>
      /\ status[f] # "closed"
  BY DEF Call, Served
<1>3. op'[f] = rest /\ \A g \in File : g # f => op'[g] = op[g]
  BY <1>2 DEF IInv, FileInv
<1>4. count' \in [File -> 0 .. BUF_SIZE] /\ \A g \in File : g # f => count'[g] = count[g]
  <2>1. count' \in [File -> 0 .. BUF_SIZE]
    BY CallStep DEF IInv, FileInv
  <2>2. Head(steps) \in {"trim", "limit", "zero", "accept"}
    BY CallRests DEF IInv, LoadInv
  <2>3. \A g \in File : g # f => count'[g] = count[g]
    BY <2>2 DEF Call, IInv, FileInv
  <2> QED BY <2>1, <2>3
<1> HIDE DEF rest
<1>5. ~ Writing(f) /\ copied[f] = 0 /\ Writing(f)' = (Head(steps) \in {"limit", "zero"})
  BY <1>1, <1>2, <1>3 DEF Writing, ContentInv, CopyInv
<1>6. \A g \in File : g # f => Writing(g)' = Writing(g) /\ Author(g)' = Author(g)
  BY <1>3 DEF Writing, Author
<1>7. CASE Head(steps) \notin {"limit", "zero"}
  <2>1. UNCHANGED alone
    BY <1>7 DEF Call
  <2> QED
    BY <1>2, <1>3, <1>4, <1>5, <1>7, <2>1, ContentElsewhere DEF ContentInv, CopyInv
<1>8. CASE Head(steps) \in {"limit", "zero"}
  <2>1. alone' = [g \in File |-> IF g = f THEN Writers(f) = {}
                                 ELSE alone[g] /\ g \notin Writers(f)]
    BY <1>8 DEF Call
  <2>2. Writers(f) = {g \in File : Writing(g) /\ minor[g] = minor[f]}
    BY WritersWrite
  <2>3. alone' \in [File -> BOOLEAN]
    BY <2>1 DEF ContentInv, CopyInv
  <2>4. CopyInv'
    <3>1. IF Writing(f)' THEN copied'[f] <= count'[f] ELSE copied'[f] = 0
      BY <1>2, <1>4, <1>5 DEF ContentInv
    <3>2. \A g \in File : IF Writing(g)' THEN copied'[g] <= count'[g] ELSE copied'[g] = 0
      BY <1>2, <1>4, <1>6, <3>1 DEF ContentInv, CopyInv
    <3>3. \A g \in File : status'[g] = "closed" => op'[g] = <<>>
      BY <1>2, <1>3 DEF ContentInv, CopyInv
    <3> QED BY <1>2, <2>3, <3>2, <3>3 DEF ContentInv, CopyInv, data
  <2>5. AloneInv'
    <3> SUFFICES ASSUME NEW g \in File, Writing(g)', alone'[g]
                 PROVE  /\ \A h \in File : Writing(h)' /\ minor'[h] = minor'[g] => h = g
                        /\ status'[g] \in {"early", "open"} =>
                             \A b \in Byte : b < copied'[g] => buffer'[minor'[g]][b] = Author(g)'
      BY DEF AloneInv
    <3>1. CASE g = f
      <4>1. \A h \in File : ~ (Writing(h) /\ minor[h] = minor[f])
        BY <2>1, <2>2, <3>1
      <4>2. \A b \in Byte : ~ b < copied'[g]
        BY <1>2, <1>5, <3>1 DEF Byte
      <4> QED BY <1>2, <1>6, <3>1, <4>1, <4>2
    <3>2. CASE g # f
      <4>1. alone[g] /\ Writing(g) /\ minor[g] # minor[f]
        BY <1>6, <2>1, <2>2, <3>2
      <4> QED BY <1>2, <1>6, <3>2, <4>1 DEF ContentInv, AloneInv, data
    <3> QED BY <3>1, <3>2
  <2>6. QuietInv'
    <3>1. \A m \in Minor : Busy(m) => Busy(m)'
      BY <1>2, <1>5, <1>6 DEF Busy
    <3> QED BY <1>2, <3>1 DEF ContentInv, QuietInv, OneAuthor, data
  <2> QED BY <2>4, <2>5, <2>6 DEF ContentInv
<1> QED BY <1>7, <1>8

\* One byte more is set.  A write of the same minor that overlaps this one is not
\* alone, so nothing is said of its bytes.
LEMMA SetByteContent ==
    ASSUME IInv, ContentInv, NEW f \in File, SetByte(f)
    PROVE  ContentInv'
<1>1. /\ UNCHANGED <<status, minor, op, count, alone, buf_size, torn>>
      /\ buffer' = [buffer EXCEPT ![minor[f]][copied[f]] = Author(f)]
      /\ copied' = [copied EXCEPT ![f] = copied[f] + 1]
      /\ Writing(f) /\ copied[f] < count[f] /\ status[f] # "closed"
  BY DEF SetByte, At, Served, Writing, Author
<1>2. \A g \in File : Writing(g)' = Writing(g) /\ Author(g)' = Author(g)
  BY <1>1 DEF Writing, Author
<1>3. /\ minor[f] \in Minor /\ copied[f] \in 0 .. BUF_SIZE /\ count[f] \in 0 .. BUF_SIZE
      /\ copied[f] \in Byte /\ copied[f] + 1 \in 0 .. BUF_SIZE /\ Author(f) \in File \cup {None}
  <2>1. minor[f] \in Minor /\ count[f] \in 0 .. BUF_SIZE
    BY <1>1 DEF IInv, FileInv
  <2>2. copied[f] \in 0 .. BUF_SIZE
    BY DEF ContentInv, CopyInv
  <2>3. copied[f] \in Byte /\ copied[f] + 1 \in 0 .. BUF_SIZE
    BY <1>1, <2>1, <2>2, DevicesAssumption DEF Byte
  <2> QED BY <2>1, <2>2, <2>3 DEF Author
<1>4. /\ buffer' \in [Minor -> [Byte -> File \cup {None}]]
      /\ buffer'[minor[f]][copied[f]] = Author(f)
      /\ \A m \in Minor, b \in Byte :
            m # minor[f] \/ b # copied[f] => buffer'[m][b] = buffer[m][b]
  BY <1>1, <1>3 DEF ContentInv, CopyInv
<1>5. /\ copied'[f] = copied[f] + 1 /\ copied' \in [File -> 0 .. BUF_SIZE]
      /\ \A g \in File : g # f => copied'[g] = copied[g]
  BY <1>1, <1>3 DEF ContentInv, CopyInv
<1>6. CopyInv'
  <2>1. copied'[f] <= count[f]
    BY <1>1, <1>3, <1>5
  <2> QED BY <1>1, <1>2, <1>4, <1>5, <2>1 DEF ContentInv, CopyInv
<1>7. AloneInv'
  <2> SUFFICES ASSUME NEW g \in File, Writing(g), alone[g]
               PROVE  /\ \A h \in File : Writing(h) /\ minor[h] = minor[g] => h = g
                      /\ status[g] \in {"early", "open"} =>
                           \A b \in Byte : b < copied'[g] => buffer'[minor[g]][b] = Author(g)
    BY <1>1, <1>2 DEF AloneInv
  <2>1. \A h \in File : Writing(h) /\ minor[h] = minor[g] => h = g
    BY DEF ContentInv, AloneInv
  <2>2. ASSUME status[g] \in {"early", "open"}, NEW b \in Byte, b < copied'[g]
        PROVE  buffer'[minor[g]][b] = Author(g)
    <3>1. minor[g] \in Minor
      BY <2>2 DEF IInv, FileInv
    <3>2. CASE g = f /\ b = copied[f]
      BY <1>4, <3>2
    <3>3. CASE g = f /\ b # copied[f]
      <4>1. b < copied[g]
        BY <1>3, <1>5, <2>2, <3>3 DEF Byte
      <4> QED BY <1>4, <2>2, <3>1, <3>3, <4>1 DEF ContentInv, AloneInv
    <3>4. CASE g # f
      <4>1. minor[g] # minor[f] /\ b < copied[g]
        BY <1>1, <1>5, <2>1, <2>2, <3>4
      <4> QED BY <1>4, <2>2, <3>1, <4>1 DEF ContentInv, AloneInv
    <3> QED BY <3>2, <3>3, <3>4
  <2> QED BY <2>1, <2>2
<1>8. QuietInv'
  <2> SUFFICES ASSUME NEW m \in Minor, ~ torn[m], ~ Busy(m)' PROVE OneAuthor(m)'
    BY <1>1 DEF QuietInv
  <2>1. ~ Busy(m) /\ m # minor[f]
    BY <1>1, <1>2 DEF Busy
  <2>2. OneAuthor(m)
    BY <2>1 DEF ContentInv, QuietInv
  <2> QED BY <1>1, <1>4, <2>1, <2>2 DEF OneAuthor
<1> QED BY <1>6, <1>7, <1>8 DEF ContentInv

\* A write ends: with its size set, and torn if another has overlapped it, or
\* torn because its copy failed.
LEMMA WriteEnds ==
    ASSUME IInv, ContentInv, NEW f \in File, SetSize(f) \/ CopyInFails(f)
    PROVE  ContentInv'
<1>1. /\ Writing(f) /\ Served(f)
      /\ UNCHANGED <<status, minor, buffer>>
      /\ count' = [count EXCEPT ![f] = 0] /\ copied' = [copied EXCEPT ![f] = 0]
      /\ alone' = [alone EXCEPT ![f] = FALSE]
  BY DEF SetSize, CopyInFails, At, Return, Writing
<1>2. op'[f] = <<>> \/ Head(op'[f]) \notin {"copy_in", "zero"}
  <2>1. CASE SetSize(f)
    <3>1. op'[f] = Tail(Tail(op[f]))
      BY <2>1 DEF SetSize, IInv, FileInv
    <3> QED BY <1>1, <3>1, WritingRests DEF Writing, IInv, FileInv
  <2>2. CASE CopyInFails(f)
    BY <2>2 DEF CopyInFails, Return, IInv, FileInv
  <2> QED BY <2>1, <2>2
<1>3. ~ Writing(f)' /\ \A g \in File : g # f => Writing(g)' = Writing(g) /\ Author(g)' = Author(g)
  <2>1. \A g \in File : g # f => op'[g] = op[g]
    BY DEF SetSize, CopyInFails, Return, IInv, FileInv
  <2> QED BY <1>2, <2>1 DEF Writing, Author
<1>4. minor[f] \in Minor /\ status[f] \in {"early", "open"}
  BY <1>1 DEF IInv, FileInv, Served
<1>5. /\ torn' \in [Minor -> BOOLEAN]
      /\ \A m \in Minor : m # minor[f] => torn'[m] = torn[m] /\ buf_size'[m] = buf_size[m]
      /\ ~ torn'[minor[f]] =>
            alone[f] /\ SetSize(f)
              /\ buf_size'[minor[f]] = IF Head(op[f]) = "zero" THEN 0 ELSE count[f]
  BY <1>4 DEF SetSize, CopyInFails, IInv, FileInv, ContentInv, CopyInv
<1>6. CopyInv'
  <2>1. alone' \in [File -> BOOLEAN] /\ copied' \in [File -> 0 .. BUF_SIZE] /\ copied'[f] = 0
        /\ \A g \in File : g # f => copied'[g] = copied[g] /\ count'[g] = count[g]
    BY <1>1, DevicesAssumption DEF ContentInv, CopyInv, IInv, FileInv
  <2>2. \A g \in File : status'[g] = "closed" => op'[g] = <<>>
    BY <1>1, <1>4 DEF SetSize, CopyInFails, Return, ContentInv, CopyInv, IInv, FileInv
  <2> QED BY <1>1, <1>3, <1>5, <2>1, <2>2 DEF ContentInv, CopyInv
<1>7. AloneInv'
  <2>1. \A g \in File : g # f => copied'[g] = copied[g] /\ alone'[g] = alone[g]
    BY <1>1 DEF ContentInv, CopyInv
  <2> QED BY <1>1, <1>3, <2>1 DEF ContentInv, AloneInv
<1>8. QuietInv'
  <2> SUFFICES ASSUME NEW m \in Minor, ~ torn'[m], ~ Busy(m)' PROVE OneAuthor(m)'
    BY DEF QuietInv
  <2>1. CASE m # minor[f]
    <3>1. ~ Busy(m)
      BY <1>1, <1>3, <2>1 DEF Busy
    <3>2. OneAuthor(m)
      BY <1>5, <2>1, <3>1 DEF ContentInv, QuietInv
    <3> QED BY <1>1, <1>5, <2>1, <3>2 DEF OneAuthor
  <2>2. CASE m = minor[f]
    <3>1. alone[f] /\ copied[f] = count[f]
      BY <1>5, <2>2 DEF SetSize
    <3>2. \A b \in Byte : b < count[f] => buffer[m][b] = Author(f)
      BY <1>1, <1>4, <2>2, <3>1 DEF ContentInv, AloneInv
    <3>3. CASE Head(op[f]) = "zero"
      BY <1>5, <2>2, <3>3 DEF OneAuthor, Byte
    <3>4. CASE Head(op[f]) # "zero"
      BY <1>1, <1>5, <2>2, <3>2, <3>4, DevicesAssumption DEF OneAuthor, Author
    <3> QED BY <3>3, <3>4
  <2> QED BY <2>1, <2>2
<1> QED BY <1>6, <1>7, <1>8 DEF ContentInv

\* Every step.
LEMMA NextContent == IInv /\ ContentInv /\ [Next]_vars => ContentInv'
<1> SUFFICES ASSUME IInv, ContentInv, [Next]_vars PROVE ContentInv'
  OBVIOUS
<1>1. CASE Load
  BY <1>1, LoadContent
<1>2. ASSUME NEW f \in File, Operate(f) PROVE ContentInv'
  <2>1. CASE \E steps \in Text[driver].calls, n \in 0 .. BUF_SIZE + 1 : Call(f, steps, n)
    BY <2>1, CallContent
  <2>2. CASE Drive(f)
    <3>1. CASE Return(f)
      BY <2>2, <3>1, ReturnContent
    <3>2. CASE UNCHANGED <<op, count, copied>>
      BY <2>2, <3>2, ContentKept DEF Drive
    <3> QED BY <2>2, <3>1, <3>2 DEF Drive
  <2> QED
    BY <1>2, <2>1, <2>2, OpenContent, ReturnContent, SetByteContent, WriteEnds DEF Operate
<1>3. ASSUME NEW f \in File, UseAfterFree(f) PROVE ContentInv'
  BY <1>3, ContentKept DEF UseAfterFree, files, data
<1>4. CASE Stopped \/ UNCHANGED vars
  BY <1>4, ContentKept DEF Stopped, vars, files, data
<1> QED BY <1>1, <1>2, <1>3, <1>4 DEF Next

\* While nobody writes a minor, its valid bytes have one author, unless the last
\* write failed in the middle or overlapped another: the missing lock is the only
\* way to a mixed message.
THEOREM MinorsHaveOneAuthor == Spec => []SingleAuthor
<1>1. ContentInv => SingleAuthor
  <2> SUFFICES ASSUME ContentInv, NEW m \in Minor, ~ torn[m],
                      \A f \in File : minor[f] = m => Writers(f) = {}
               PROVE  OneAuthor(m)
    BY DEF SingleAuthor, OneAuthor
  <2>1. ~ Busy(m)
    BY WritersWrite DEF Busy
  <2> QED BY <2>1 DEF ContentInv, QuietInv
<1> QED BY <1>1, ContentInit, NextContent, Invariance, PTL DEF Spec
=============================================================================
