------------------------------ MODULE Accounts ------------------------------
(***************************************************************************)
(* authenticate() of the TLS chat server (server_tls_final.c, lines 82 to  *)
(* 144): the thread of every connection runs it on its own, and all of     *)
(* them read and append to users.txt, one "name password" line per         *)
(* account, under no lock.  The file is opened in append mode and only     *)
(* grows; a thread has read all of it when a read at its end, at that      *)
(* moment, returns nothing.                                                *)
(***************************************************************************)
EXTENDS Naturals, Sequences

CONSTANTS
    Session,  \* the connections that authenticate
    Text,     \* what may stand in a name or password buffer
    Words,    \* Text -> the words that %s finds in a text
    Garbage   \* an uninitialised file_user or file_pass, or an unread answer

\* A word is the only word of itself.
ASSUME AccountsAssumption ==
    /\ Words \in [Text -> Seq(Text)]
    /\ \A t \in Text : \A i \in 1 .. Len(Words[t]) :
          Words[Words[t][i]] = <<Words[t][i]>>
    /\ Garbage \notin Text

VARIABLES
    users,    \* the lines of users.txt, with the session that wrote each
    pc,       \* where each thread is in authenticate
    mode,     \* 0 before the choice, 1 login, 2 sign in
    username, \* the answers, both
    password, \* as typed
    pos,      \* how many lines of the file the thread has read
    at,       \* how many lines the file had when the thread opened it
    found,    \* what sscanf has left in file_user and file_pass
    auth      \* the result

vars == <<users, pc, mode, username, password, pos, at, found, auth>>

Account == [name : Text, pass : Text, by : Session]

\* Types of the variables: what a session has answered is a text, what fscanf has
\* not set is garbage.
TypeOK ==
    /\ users \in Seq(Account)
    /\ pc \in [Session -> {"menu", "name", "pass", "open", "scan", "append",
                           "reply", "done"}]
    /\ mode \in [Session -> 0 .. 2]
    /\ username \in [Session -> Text \cup {Garbage}]
    /\ password \in [Session -> Text \cup {Garbage}]
    /\ pos \in [Session -> Nat]
    /\ at \in [Session -> Nat]
    /\ found \in [Session -> [user : Text \cup {Garbage}, pass : Text \cup {Garbage}]]
    /\ auth \in [Session -> 0 .. 1]

Init ==
    /\ users = <<>>
    /\ pc = [s \in Session |-> "menu"]
    /\ mode = [s \in Session |-> 0]
    /\ username = [s \in Session |-> Garbage]
    /\ password = [s \in Session |-> Garbage]
    /\ pos = [s \in Session |-> 0]
    /\ at = [s \in Session |-> 0]
    /\ found = [s \in Session |-> [user |-> Garbage, pass |-> Garbage]]
    /\ auth = [s \in Session |-> 0]
-----------------------------------------------------------------------------
answers == <<mode, username, password>>
reading == <<pos, at, found>>

Step(s, from, to) ==
    /\ pc[s] = from
    /\ pc' = [pc EXCEPT ![s] = to]

Choose(s) ==
    /\ Step(s, "menu", "name")
    /\ \E m \in 1 .. 2 : mode' = [mode EXCEPT ![s] = m]
    /\ UNCHANGED <<users, username, password, reading, auth>>

\* Anything else is asked again, the nothing of a peer that has gone included:
\* the loop then turns for ever.
TryAgain(s) ==
    /\ pc[s] = "menu"
    /\ UNCHANGED vars

\* SSL_read leaves the buffer of a peer that has gone as it found it: any text.
AskName(s) ==
    /\ Step(s, "name", "pass")
    /\ \E t \in Text : username' = [username EXCEPT ![s] = t]
    /\ UNCHANGED <<users, mode, password, reading, auth>>

AskPassword(s) ==
    /\ Step(s, "pass", "open")
    /\ \E t \in Text : password' = [password EXCEPT ![s] = t]
    /\ UNCHANGED <<users, mode, username, reading, auth>>

OpenFile(s) ==
    /\ Step(s, "open", "scan")
    /\ at' = [at EXCEPT ![s] = Len(users)]
    /\ UNCHANGED <<users, answers, pos, found, auth>>

\* fopen fails when the process is out of descriptors.
OpenFails(s) ==
    /\ Step(s, "open", "done")
    /\ UNCHANGED <<users, answers, reading, auth>>

\* file_user and file_pass after sscanf of a line: a word the line does not
\* have leaves its buffer as it was.
Scanned(line, old) ==
    LET w == Words[line.name] \o Words[line.pass] IN
    [user |-> IF Len(w) >= 1 THEN w[1] ELSE old.user,
     pass |-> IF Len(w) >= 2 THEN w[2] ELSE old.pass]

\* The line ends the search: the account of a login, the name of a sign in.
Matches_Mut(s, f) == f.user = username[s] /\ f.pass = password[s]
Matches_Mut2(s, f) == f.user = username[s]
Matches(s, f) ==
    /\ f.user = username[s]
    /\ mode[s] = 1 => f.pass = password[s]

ReadLine(s) ==
    /\ pos[s] < Len(users)
    /\ pos' = [pos EXCEPT ![s] = @ + 1]
    /\ LET f == Scanned(users[pos[s] + 1], found[s]) IN
          /\ found' = [found EXCEPT ![s] = f]
          /\ Step(s, "scan", IF Matches(s, f) THEN "reply" ELSE "scan")
          /\ auth' = [auth EXCEPT ![s] = IF Matches(s, f) /\ mode[s] = 1 THEN 1 ELSE 0]
    /\ UNCHANGED <<users, answers, at>>

EndOfFile_Mut(s) ==
    /\ pos[s] = Len(users)
    /\ Step(s, "scan", "reply")
    /\ UNCHANGED <<users, answers, reading, auth>>
EndOfFile(s) ==
    /\ pos[s] = Len(users)
    /\ Step(s, "scan", IF mode[s] = 1 THEN "reply" ELSE "append")
    /\ UNCHANGED <<users, answers, reading, auth>>

\* The line goes to the end of the file as it is now.
AppendAccount(s) ==
    /\ Step(s, "append", "reply")
    /\ users' = Append(users, [name |-> username[s], pass |-> password[s], by |-> s])
    /\ auth' = [auth EXCEPT ![s] = 1]
    /\ UNCHANGED <<answers, reading>>

Reply(s) ==
    /\ Step(s, "reply", "done")
    /\ UNCHANGED <<users, answers, reading, auth>>

Idle ==
    /\ \A s \in Session : pc[s] = "done"
    /\ UNCHANGED vars
-----------------------------------------------------------------------------
\* The steps after the choice.
Proceed(s) ==
    \/ AskName(s) \/ AskPassword(s) \/ OpenFile(s) \/ OpenFails(s)
    \/ ReadLine(s) \/ EndOfFile(s) \/ AppendAccount(s) \/ Reply(s)

Next ==
    \/ \E s \in Session : Choose(s) \/ TryAgain(s) \/ Proceed(s)
    \/ Idle

Spec == Init /\ [][Next]_vars
-----------------------------------------------------------------------------
(* Properties. *)

\* A text that is one word, so that %s reads it back as it was written.
Plain(t) == Words[t] = <<t>>

\* Two accounts with one name come from sign-ups that overlapped: the later
\* writer had read to the end of the file before the earlier line was there.
DuplicatesOverlap ==
    \A i, j \in 1 .. Len(users) :
       i < j /\ users[i].name = users[j].name /\ Plain(users[i].name) =>
          i > pos[users[j].by]

\* The inductive invariant behind it.  A thread has compared what it has read:
\* a sign-up that still reads, or is about to write, has not met its name.
Unmet(s, n) ==
    \A i \in 1 .. n : Plain(users[i].name) => users[i].name # username[s]

ScanInv ==
    \A s \in Session :
       /\ pos[s] <= Len(users)
       /\ pc[s] \in {"menu", "name", "pass", "open"} => pos[s] = 0
       /\ mode[s] = 2 /\ pc[s] \in {"scan", "append"} => Unmet(s, pos[s])

\* And its writer has not gone on reading since.
WriterInv ==
    \A j \in 1 .. Len(users) :
       LET s == users[j].by IN
          /\ pc[s] \in {"reply", "done"}
          /\ username[s] = users[j].name
          /\ Unmet(s, pos[s])

IInv == TypeOK /\ ScanInv /\ WriterInv

\* Where every account is of plain words, a login succeeds on an account that
\* the file holds, and fails only if it held none when the login opened it.
LoginExact ==
    (\A i \in 1 .. Len(users) : Plain(users[i].name) /\ Plain(users[i].pass)) =>
       \A s \in Session :
          LET Mine(i) == users[i].name = username[s] /\ users[i].pass = password[s] IN
          pc[s] = "reply" /\ mode[s] = 1 =>
             IF auth[s] = 1 THEN \E i \in 1 .. Len(users) : Mine(i)
                            ELSE \A i \in 1 .. at[s] : ~ Mine(i)

\* A refused sign-up had a reason: somebody else's line with the name.
RefusedIsTaken ==
    \A s \in Session :
       pc[s] = "reply" /\ mode[s] = 2 /\ auth[s] = 0
         /\ (\A i \in 1 .. Len(users) : Plain(users[i].name)) =>
          \E i \in 1 .. Len(users) : users[i].name = username[s] /\ users[i].by # s

\* No two accounts have the same name.
UniqueUsernames ==
    \A i, j \in 1 .. Len(users) :
       users[i].name = users[j].name /\ Plain(users[i].name) => i = j
=============================================================================
