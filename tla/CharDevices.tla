---------------------------- MODULE CharDevices ----------------------------
(***************************************************************************)
(* The character drivers: assignment11's ex1, ex2, ex3 and multi_devices   *)
(* and mock_project1/led_char_deivce.  They are one scheme in five texts.  *)
(* Initialisation acquires a region, a class, a cdev and the nodes in the  *)
(* order of the text and undoes, where it looks at the result, what the    *)
(* text says; the file operations are short sequences of steps over one    *)
(* buffer for each minor, under no lock.  The texts are data here, the     *)
(* steps they are made of are actions.                                     *)
(***************************************************************************)
EXTENDS Naturals, Sequences

CONSTANTS
    File,         \* files that processes open, one call at a time each
    None,         \* no file, no minor
    NUM_DEVICES,
    BUF_SIZE

ASSUME DevicesAssumption ==
    /\ NUM_DEVICES \in Nat \ {0}
    /\ BUF_SIZE \in Nat \ {0}
    /\ None \notin File
    /\ None \notin Nat

VARIABLES
    driver,    \* which of the five texts this is
    mod,       \* loading, live; "fault": a call met what is not there
    next,      \* the step of initialisation that comes next
    held,      \* the registrations that are in force
    status,    \* how a file was opened
    minor,     \* the minor it is open on
    ppos,      \* its offset
    op,        \* the steps of the call it is in that are still to come
    count,     \* the call's byte count, trimmed
    copied,    \* how many bytes of the buffer it has set
    buffer,    \* the author of each byte of each minor's buffer
    buf_size,  \* how many of them count
    alone,     \* history: no other write of the minor has overlapped this one
    torn       \* history: the last write of the minor failed or was not alone

module == <<driver, mod, next, held>>
files  == <<status, minor, ppos, op, count, copied, alone>>
data   == <<buffer, buf_size, torn>>
vars   == <<module, files, data>>

Minor == 0 .. NUM_DEVICES - 1
Byte  == 0 .. BUF_SIZE - 1
-----------------------------------------------------------------------------
(* The texts.  A step of initialisation acquires something; when it fails, *)
(* a checked one undoes what it names and the module is not loaded.        *)

region  == <<"region", 0>>
class   == <<"class", 0>>
cdev    == <<"cdev", 0>>
mapping == <<"ioremap", 0>>
node(m) == <<"node", m>>
Registrations == {region, class, cdev}

Checked(r, undone) == [get |-> r, checked |-> TRUE, undo |-> undone]
Ignored(r) == [get |-> r, checked |-> FALSE, undo |-> {}]

\* multi_devices: the class comes before the cdev, and each node that fails
\* takes those before it away.
MultiInit ==
    [i \in 1 .. NUM_DEVICES + 3 |->
       CASE i = 1 -> Checked(region, {})
         [] i = 2 -> Checked(class, {region})
         [] i = 3 -> Checked(cdev, {class, region})
         [] OTHER -> Checked(node(i - 4), Registrations \cup {node(m) : m \in 0 .. i - 5})]
MultiExit == Registrations \cup {node(m) : m \in Minor}
MultiRead == <<"trim", "copy_out">>
MultiWrite == <<"limit", "copy_in", "set_size", "rewind">>

\* ex1 has no operations but open and release.
Ex1Init == <<Checked(region, {}), Checked(cdev, {region}),
             Checked(class, {cdev, region}), Ignored(node(0))>>
Ex1Exit == {node(0), class, cdev, region}

Ex2Init_Mut == <<Checked(region, {}), Checked(cdev, {region}),
                 Checked(class, {cdev, region}), Checked(node(0), {class, region})>>
Ex2Init == <<Checked(region, {}), Checked(cdev, {region}),
             Checked(class, {cdev, region}), Checked(node(0), {class, cdev, region})>>
Ex2Exit == {node(0), class, cdev, region}
Ex2Read == <<"trim", "copy_out">>
Ex2Write == <<"limit", "copy_in", "set_size", "rewind">>

\* ex3 leaves the offset alone on a write and can clear the buffer by ioctl;
\* its other ioctl copies the size out and changes nothing.
Ex3Init == <<Checked(region, {}), Checked(cdev, {region}),
             Checked(class, {cdev, region}), Ignored(node(0))>>
Ex3Exit == {node(0), class, cdev, region}
Ex3Read == <<"trim", "copy_out">>
Ex3Write == <<"limit", "copy_in", "set_size">>
Ex3Clear == <<"zero", "set_size">>

\* led_char_dev maps the registers last, behind the node.
LedInit == <<Checked(region, {}), Checked(cdev, {region}),
             Checked(class, {cdev, region}), Ignored(node(0)),
             Checked(mapping, {node(0), class, cdev, region})>>
LedExit == {mapping, node(0), class, cdev, region}
LedWrite == <<"accept", "drive">>

Text == [multi |-> [init |-> MultiInit, exit |-> MultiExit, calls |-> {MultiRead, MultiWrite}],
         ex1   |-> [init |-> Ex1Init, exit |-> Ex1Exit, calls |-> {}],
         ex2   |-> [init |-> Ex2Init, exit |-> Ex2Exit, calls |-> {Ex2Read, Ex2Write}],
         ex3   |-> [init |-> Ex3Init, exit |-> Ex3Exit, calls |-> {Ex3Read, Ex3Write, Ex3Clear}],
         led   |-> [init |-> LedInit, exit |-> LedExit, calls |-> {LedWrite}]]

Starts == 1 .. NUM_DEVICES + 5
Steps == {"copy_out", "copy_in", "set_size", "rewind", "zero", "drive"}

\* Types of the variables: buf_size never passes BUF_SIZE.
TypeOK ==
    /\ driver \in DOMAIN Text
    /\ mod \in {"no", "init", "live", "fault", "oops"}
    /\ next \in Starts
    /\ held \subseteq Registrations \cup {mapping} \cup {node(m) : m \in Minor}
    /\ status \in [File -> {"closed", "early", "open", "orphan"}]
    /\ minor \in [File -> Minor \cup {None}]
    /\ ppos \in [File -> 0 .. BUF_SIZE]
    /\ op \in [File -> Seq(Steps)]
    /\ count \in [File -> 0 .. BUF_SIZE]
    /\ copied \in [File -> 0 .. BUF_SIZE]
    /\ buffer \in [Minor -> [Byte -> File \cup {None}]]
    /\ buf_size \in [Minor -> 0 .. BUF_SIZE]
    /\ alone \in [File -> BOOLEAN]
    /\ torn \in [Minor -> BOOLEAN]

Empty == [m \in Minor |-> [b \in Byte |-> None]]

Init ==
    /\ driver \in DOMAIN Text
    /\ mod = "no"
    /\ next = 1
    /\ held = {}
    /\ status = [f \in File |-> "closed"]
    /\ minor = [f \in File |-> None]
    /\ ppos = [f \in File |-> 0]
    /\ op = [f \in File |-> <<>>]
    /\ count = [f \in File |-> 0]
    /\ copied = [f \in File |-> 0]
    /\ buffer = Empty
    /\ buf_size = [m \in Minor |-> 0]
    /\ alone = [f \in File |-> FALSE]
    /\ torn = [m \in Minor |-> FALSE]
-----------------------------------------------------------------------------
(* Loading and unloading. *)

\* The module's memory goes with it.
Discard ==
    /\ buffer' = Empty
    /\ buf_size' = [m \in Minor |-> 0]
    /\ torn' = [m \in Minor |-> FALSE]

Opened == {f \in File : status[f] # "closed"}

Acquiring == Text[driver].init[next]

\* A step of initialisation, over: the next one, or the module is live.
Continue ==
    IF next = Len(Text[driver].init)
    THEN mod' = "live" /\ next' = 1
    ELSE mod' = "init" /\ next' = next + 1

Acquire ==
    /\ mod \in {"no", "init"}
    /\ Continue
    /\ held' \in {held \cup {Acquiring.get}} \cup
                 (IF Acquiring.checked THEN {} ELSE {held})
    /\ UNCHANGED <<driver, files, data>>

\* A module that is not kept is freed under the files that are open.
AcquireFails ==
    /\ mod \in {"no", "init"}
    /\ Acquiring.checked
    /\ mod' = "no"
    /\ next' = 1
    /\ held' = held \ Acquiring.undo
    /\ status' = [f \in File |-> IF f \in Opened THEN "orphan" ELSE "closed"]
    /\ Discard
    /\ UNCHANGED <<driver, minor, ppos, op, count, copied, alone>>

\* device_create failed in multi_devices, where i has counted down to -1: the
\* value returned is that of devices[-1], which is the class pointer.  Taken
\* for an int it may be negative, and AcquireFails says what happens, or not,
\* and the kernel keeps the module.
FailureKept ==
    /\ driver = "multi"
    /\ mod = "init"
    /\ Acquiring.get \notin Registrations
    /\ mod' = "live"
    /\ next' = 1
    /\ held' = held \ Acquiring.undo
    /\ UNCHANGED <<driver, files, data>>

\* The owner field keeps the module while a file is open.  Undoing what has
\* been undone already is a use after free; destroying a node that never was
\* is not.
Unload_Mut ==
    /\ mod = "live"
    /\ mod' = IF Registrations \subseteq held THEN "no" ELSE "oops"
    /\ held' = held \ Text[driver].exit
    /\ Discard
    /\ UNCHANGED <<driver, next, files>>
Unload ==
    /\ mod = "live"
    /\ \A f \in Opened : status[f] = "orphan"
    /\ mod' = IF Registrations \subseteq held THEN "no" ELSE "oops"
    /\ held' = held \ Text[driver].exit
    /\ Discard
    /\ UNCHANGED <<driver, next, files>>
-----------------------------------------------------------------------------
(* The file operations. *)

\* A node can be opened as soon as it exists, before initialisation returns.
my_open(f, m) ==
    /\ mod \in {"init", "live"}
    /\ {cdev, node(m)} \subseteq held
    /\ status[f] = "closed"
    /\ status' = [status EXCEPT ![f] = IF mod = "init" THEN "early" ELSE "open"]
    /\ minor' = [minor EXCEPT ![f] = m]
    /\ ppos' = [ppos EXCEPT ![f] = 0]
    /\ UNCHANGED <<module, op, count, copied, alone, data>>

\* f is open on a driver whose code is there.
Served(f) == status[f] \in {"early", "open"} /\ mod \in {"init", "live"}

my_release(f) ==
    /\ Served(f)
    /\ op[f] = <<>>
    /\ status' = [status EXCEPT ![f] = "closed"]
    /\ minor' = [minor EXCEPT ![f] = None]
    /\ UNCHANGED <<module, ppos, op, count, copied, alone, data>>

Smaller(a, b) == IF a < b THEN a ELSE b

\* The first step of a call says how many of the n bytes asked for it handles;
\* buf_size is loaded once for the end-of-file test and for trimming.
Trimmed_Mut(f, n) == Smaller(n, buf_size[minor[f]])
Trimmed(f, n) == Smaller(n, buf_size[minor[f]] - ppos[f])

Limited(n) == Smaller(n, BUF_SIZE)

\* The calls of f's minor that are setting its bytes.
Writers(f) ==
    {g \in File : /\ op[g] # <<>> /\ Head(op[g]) \in {"copy_in", "zero"}
                  /\ minor[g] = minor[f]}

Call(f, steps, n) ==
    /\ Served(f)
    /\ op[f] = <<>>
    /\ CASE Head(steps) = "trim" ->
              /\ ppos[f] < buf_size[minor[f]]
              /\ count' = [count EXCEPT ![f] = Trimmed(f, n)]
         [] Head(steps) = "limit" -> count' = [count EXCEPT ![f] = Limited(n)]
         [] Head(steps) = "accept" -> n \in 1 .. BUF_SIZE /\ UNCHANGED count
         [] OTHER -> count' = [count EXCEPT ![f] = BUF_SIZE]
    /\ op' = [op EXCEPT ![f] = IF Head(steps) = "zero" THEN steps ELSE Tail(steps)]
    /\ alone' = IF Head(steps) \in {"limit", "zero"}
                THEN [g \in File |-> IF g = f THEN Writers(f) = {}
                                     ELSE alone[g] /\ g \notin Writers(f)]
                ELSE alone
    /\ UNCHANGED <<module, status, minor, ppos, copied, data>>

At(f, step) == Served(f) /\ op[f] # <<>> /\ Head(op[f]) = step

Return(f) ==
    /\ op' = [op EXCEPT ![f] = <<>>]
    /\ count' = [count EXCEPT ![f] = 0]
    /\ copied' = [copied EXCEPT ![f] = 0]

\* copy_to_user, which may fail.
CopyOut(f) ==
    /\ At(f, "copy_out")
    /\ Return(f)
    /\ ppos' \in {ppos, [ppos EXCEPT ![f] = @ + count[f]]}
    /\ UNCHANGED <<module, status, minor, alone, data>>

\* copy_from_user and memset, byte by byte as far as the others can tell.
SetByte(f) ==
    /\ At(f, "copy_in") \/ At(f, "zero")
    /\ copied[f] < count[f]
    /\ buffer' = [buffer EXCEPT ![minor[f]][copied[f]] =
                     IF Head(op[f]) = "zero" THEN None ELSE f]
    /\ copied' = [copied EXCEPT ![f] = @ + 1]
    /\ UNCHANGED <<module, status, minor, ppos, op, count, alone, buf_size, torn>>

\* copy_from_user fails on the way, or before: what has been copied stays.
CopyInFails(f) ==
    /\ At(f, "copy_in")
    /\ copied[f] < count[f]
    /\ Return(f)
    /\ torn' = [torn EXCEPT ![minor[f]] = TRUE]
    /\ alone' = [alone EXCEPT ![f] = FALSE]
    /\ UNCHANGED <<module, status, minor, ppos, buffer, buf_size>>

\* The bytes are all set and "set_size" is the next step of the text.
SetSize_Mut(f) ==
    /\ At(f, "copy_in") \/ At(f, "zero")
    /\ copied[f] = count[f]
    /\ buf_size' = [buf_size EXCEPT ![minor[f]] =
                       CASE Head(op[f]) = "zero" -> 0
                         [] @ < count[f] -> count[f]
                         [] OTHER -> @]
    /\ op' = [op EXCEPT ![f] = Tail(Tail(@))]
    /\ count' = [count EXCEPT ![f] = 0]
    /\ copied' = [copied EXCEPT ![f] = 0]
    /\ torn' = [torn EXCEPT ![minor[f]] = ~ alone[f]]
    /\ alone' = [alone EXCEPT ![f] = FALSE]
    /\ UNCHANGED <<module, status, minor, ppos, buffer>>
SetSize(f) ==
    /\ At(f, "copy_in") \/ At(f, "zero")
    /\ copied[f] = count[f]
    /\ buf_size' = [buf_size EXCEPT ![minor[f]] = IF Head(op[f]) = "zero" THEN 0 ELSE count[f]]
    /\ op' = [op EXCEPT ![f] = Tail(Tail(@))]
    /\ count' = [count EXCEPT ![f] = 0]
    /\ copied' = [copied EXCEPT ![f] = 0]
    /\ torn' = [torn EXCEPT ![minor[f]] = ~ alone[f]]
    /\ alone' = [alone EXCEPT ![f] = FALSE]
    /\ UNCHANGED <<module, status, minor, ppos, buffer>>

Rewind(f) ==
    /\ At(f, "rewind")
    /\ Return(f)
    /\ ppos' = [ppos EXCEPT ![f] = 0]
    /\ UNCHANGED <<module, status, minor, alone, data>>

\* copy_from_user fails, the byte is neither 0 nor 1, or iowrite32 is called,
\* with whatever gpio_base holds.
Drive(f) ==
    /\ At(f, "drive")
    /\ \/ Return(f) /\ UNCHANGED mod
       \/ mapping \notin held /\ mod' = "fault" /\ UNCHANGED <<op, count, copied>>
    /\ UNCHANGED <<driver, next, held, status, minor, ppos, alone, data>>

\* A file left open by a module that is gone is used.
UseAfterFree(f) ==
    /\ f \in Opened
    /\ ~ Served(f)
    /\ mod \notin {"fault", "oops"}
    /\ mod' = "fault"
    /\ UNCHANGED <<driver, next, held, files, data>>

Stopped ==
    /\ mod \in {"fault", "oops"}
    /\ UNCHANGED vars

Load == Acquire \/ AcquireFails \/ FailureKept \/ Unload

Operate(f) ==
    \/ \E m \in Minor : my_open(f, m)
    \/ my_release(f)
    \/ \E steps \in Text[driver].calls, n \in 0 .. BUF_SIZE + 1 : Call(f, steps, n)
    \/ CopyOut(f) \/ SetByte(f) \/ CopyInFails(f) \/ SetSize(f) \/ Rewind(f) \/ Drive(f)

Next == Load \/ (\E f \in File : Operate(f) \/ UseAfterFree(f)) \/ Stopped

Spec == Init /\ [][Next]_vars
-----------------------------------------------------------------------------
(* Properties. *)

\* A read that is under way stays inside the buffer, although the size it was
\* trimmed to may be that of a longer write than the buffer now holds, and a
\* write never passes its end.
CopiesInBuffer ==
    \A f \in File :
       /\ At(f, "copy_out") => ppos[f] + count[f] <= BUF_SIZE
       /\ At(f, "copy_in") => count[f] <= BUF_SIZE

\* What a minor holds comes from one write, unless the last write failed in the
\* middle or overlapped another, or a clearing: while nobody writes, its valid
\* bytes have one author.
SingleAuthor ==
    \A m \in Minor :
       (~ torn[m] /\ \A f \in File : minor[f] = m => Writers(f) = {}) =>
          \A a, b \in Byte : a < buf_size[m] /\ b < buf_size[m] =>
             buffer[m][a] = buffer[m][b] /\ buffer[m][a] # None

\* A module that is not loaded leaves nothing registered, created or mapped,
\* at whichever step initialisation failed.
NothingLeft == mod = "no" => held = {}

\* A call on an open file runs into freed code or unmapped registers only if
\* the file was opened while initialisation had not returned: the module cannot
\* go under the others, and they find the registers mapped.
FaultNeedsEarlyOpen ==
    mod = "fault" =>
       \E f \in File : status[f] = "orphan" \/ (status[f] = "early" /\ mapping \notin held)

\* A module that is loaded has its devices: a failure has been handled.
LiveIsRegistered == mod = "live" => Registrations \subseteq held
=============================================================================
