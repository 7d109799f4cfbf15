--------------------------- MODULE AccountsProofs ---------------------------
(***************************************************************************)
(* Theorems about Accounts, for every set of sessions and every text: two  *)
(* accounts of one name come from sign-ups that overlapped, and logins and *)
(* refusals are right about the file.                                      *)
(***************************************************************************)
EXTENDS Accounts, TLAPS

USE AccountsAssumption

\* %s reads the name of a line back when the name is one word.
LEMMA ScannedPlain ==
    ASSUME NEW line \in Account, NEW old, Plain(line.name)
    PROVE  Scanned(line, old).user = line.name
<1> DEFINE v == Words[line.pass]
           w == Words[line.name] \o v
<1>1. v \in Seq(Text) /\ line.name \in Text
  BY DEF Account
<1>2. w = <<line.name>> \o v
  BY DEF Plain
<1> HIDE DEF v
<1>3. Len(w) >= 1 /\ w[1] = line.name
  BY <1>1, <1>2
<1> HIDE DEF w
<1>4. Scanned(line, old).user = IF Len(w) >= 1 THEN w[1] ELSE old.user
  BY DEF Scanned, w, v
<1> QED BY <1>3, <1>4

\* What fscanf leaves in the buffers is a text again.
LEMMA ScannedTyped ==
    ASSUME NEW line \in Account,
           NEW old \in [user : Text \cup {Garbage}, pass : Text \cup {Garbage}]
    PROVE  Scanned(line, old) \in [user : Text \cup {Garbage}, pass : Text \cup {Garbage}]
<1> DEFINE w == Words[line.name] \o Words[line.pass]
<1>1. w \in Seq(Text)
  BY DEF Account
<1> HIDE DEF w
<1>2. Len(w) \in Nat /\ \A i \in 1 .. Len(w) : w[i] \in Text
  BY <1>1
<1>3. /\ Len(w) >= 1 => 1 \in 1 .. Len(w)
      /\ Len(w) >= 2 => 2 \in 1 .. Len(w)
  BY <1>2
<1>4. Scanned(line, old) = [user |-> IF Len(w) >= 1 THEN w[1] ELSE old.user,
                            pass |-> IF Len(w) >= 2 THEN w[2] ELSE old.pass]
  BY DEF Scanned, w
<1>5. (IF Len(w) >= 1 THEN w[1] ELSE old.user) \in Text \cup {Garbage}
  BY <1>2, <1>3
<1>6. (IF Len(w) >= 2 THEN w[2] ELSE old.pass) \in Text \cup {Garbage}
  BY <1>2, <1>3
<1> QED BY <1>4, <1>5, <1>6

\* The answers are there once both have been read.
AnsweredInv ==
    \A s \in Session :
       /\ pc[s] # "menu" => mode[s] \in 1 .. 2
       /\ pc[s] \notin {"menu", "name"} => username[s] \in Text
       /\ pc[s] \notin {"menu", "name", "pass"} => password[s] \in Text

\* Every variable keeps its type; what is appended to users.txt was answered.
THEOREM TypeCorrect == Spec => [](TypeOK /\ AnsweredInv)
<1>1. Init => TypeOK /\ AnsweredInv
  BY DEF Init, TypeOK, AnsweredInv
<1>2. TypeOK /\ AnsweredInv /\ [Next]_vars => TypeOK' /\ AnsweredInv'
  <2> SUFFICES ASSUME TypeOK, AnsweredInv, [Next]_vars PROVE TypeOK' /\ AnsweredInv'
    OBVIOUS
  <2> USE DEF Step, answers, reading
  <2>1. ASSUME NEW s \in Session, Choose(s) PROVE TypeOK' /\ AnsweredInv'
    BY <2>1 DEF TypeOK, AnsweredInv, Choose
  <2>2. ASSUME NEW s \in Session, AskName(s) PROVE TypeOK' /\ AnsweredInv'
    BY <2>2 DEF TypeOK, AnsweredInv, AskName
  <2>3. ASSUME NEW s \in Session, AskPassword(s) PROVE TypeOK' /\ AnsweredInv'
    BY <2>3 DEF TypeOK, AnsweredInv, AskPassword
  <2>4. ASSUME NEW s \in Session, OpenFile(s) PROVE TypeOK' /\ AnsweredInv'
    BY <2>4 DEF TypeOK, AnsweredInv, OpenFile
  <2>5. ASSUME NEW s \in Session, OpenFails(s) \/ EndOfFile(s) \/ Reply(s)
        PROVE  TypeOK' /\ AnsweredInv'
    BY <2>5 DEF TypeOK, AnsweredInv, OpenFails, EndOfFile, Reply
  <2>6. ASSUME NEW s \in Session, ReadLine(s) PROVE TypeOK' /\ AnsweredInv'
    <3> DEFINE f == Scanned(users[pos[s] + 1], found[s])
    <3>1. users[pos[s] + 1] \in Account
      BY <2>6 DEF ReadLine, TypeOK
    <3>2. f \in [user : Text \cup {Garbage}, pass : Text \cup {Garbage}]
      BY <3>1, ScannedTyped DEF TypeOK
    <3>3. /\ found' = [found EXCEPT ![s] = f]
          /\ pc' = [pc EXCEPT ![s] = IF Matches(s, f) THEN "reply" ELSE "scan"]
          /\ auth' = [auth EXCEPT ![s] = IF Matches(s, f) /\ mode[s] = 1 THEN 1 ELSE 0]
          /\ pos' = [pos EXCEPT ![s] = pos[s] + 1]
          /\ UNCHANGED <<users, mode, username, password, at>>
          /\ pc[s] = "scan"
      BY <2>6 DEF ReadLine
    <3> HIDE DEF f
    <3> QED BY <3>2, <3>3 DEF TypeOK, AnsweredInv
  <2>7. ASSUME NEW s \in Session, AppendAccount(s) PROVE TypeOK' /\ AnsweredInv'
    <3> DEFINE line == [name |-> username[s], pass |-> password[s], by |-> s]
    <3>1. line \in Account
      BY <2>7 DEF AppendAccount, AnsweredInv, Account
    <3> HIDE DEF line
    <3>2. Append(users, line) \in Seq(Account)
      BY <3>1 DEF TypeOK
    <3>3. users' = Append(users, line)
      BY <2>7 DEF AppendAccount, line
    <3> QED BY <2>7, <3>2, <3>3 DEF TypeOK, AnsweredInv, AppendAccount
  <2>8. CASE Idle \/ (\E s \in Session : TryAgain(s)) \/ UNCHANGED vars
    BY <2>8 DEF TypeOK, AnsweredInv, Idle, TryAgain, vars
  <2> QED
    BY <2>1, <2>2, <2>3, <2>4, <2>5, <2>6, <2>7, <2>8 DEF Next, Proceed
<1> QED BY <1>1, <1>2, PTL DEF Spec
-----------------------------------------------------------------------------
\* Lines are never changed: what was not met among them is still not met.
LEMMA UnmetKept ==
    ASSUME NEW s, NEW n \in Nat, n <= Len(users), Unmet(s, n),
           users \in Seq(Account),
           \/ UNCHANGED users
           \/ \E line \in Account : users' = Append(users, line),
           username'[s] = username[s]
    PROVE  Unmet(s, n)'
<1>1. ASSUME NEW i \in 1 .. n PROVE users'[i] = users[i]
  OBVIOUS
<1>2. ASSUME NEW i \in 1 .. n, Plain(users'[i].name)
      PROVE  users'[i].name # username'[s]
  <2>1. users'[i] = users[i]
    BY <1>1
  <2> QED BY <1>2, <2>1 DEF Unmet
<1> QED BY <1>2 DEF Unmet, Plain

\* A step of s that changes neither the file nor how far s has read in it, and
\* does not take s into the scan or back from its end, keeps both invariants.
LEMMA QuietStep ==
    ASSUME TypeOK, ScanInv, WriterInv, NEW s \in Session, NEW from, NEW to,
           Step(s, from, to), UNCHANGED <<users, pos>>,
           \A r \in Session \ {s} : mode'[r] = mode[r] /\ username'[r] = username[r],
           to \in {"menu", "name", "pass", "open", "scan"} =>
              from \in {"menu", "name", "pass", "open"},
           to = "append" => from = "scan",
           from \notin {"reply", "done"} \/ to \in {"reply", "done"},
           from \in {"scan", "append", "reply", "done"} =>
              mode'[s] = mode[s] /\ username'[s] = username[s]
    PROVE  ScanInv' /\ WriterInv'
<1>1. /\ pc'[s] = to /\ pc[s] = from
      /\ \A r \in Session \ {s} : pc'[r] = pc[r]
  BY DEF Step, TypeOK
<1>2. ASSUME NEW r \in Session
      PROVE  /\ pos'[r] <= Len(users')
             /\ pc'[r] \in {"menu", "name", "pass", "open"} => pos'[r] = 0
             /\ mode'[r] = 2 /\ pc'[r] \in {"scan", "append"} => Unmet(r, pos[r])'
  <2>1. pos[r] \in Nat
    BY DEF TypeOK
  <2>2. CASE r # s
    BY <1>1, <2>2 DEF ScanInv, Unmet, Plain
  <2>3. CASE r = s /\ from \in {"menu", "name", "pass", "open"}
    <3>1. pos[s] = 0
      BY <1>1, <2>3 DEF ScanInv
    <3> QED BY <2>3, <3>1 DEF ScanInv, Unmet
  <2>4. CASE r = s /\ from \notin {"menu", "name", "pass", "open"}
    <3>1. to \notin {"menu", "name", "pass", "open", "scan"}
      BY <2>4
    <3>2. pos[r] <= Len(users)
      BY DEF ScanInv
    <3>3. CASE to = "append"
      BY <1>1, <2>4, <3>2, <3>3 DEF ScanInv, Unmet, Plain
    <3> QED BY <1>1, <2>4, <3>1, <3>2, <3>3
  <2> QED BY <2>2, <2>3, <2>4
<1>3. ASSUME NEW j \in 1 .. Len(users)
      PROVE  /\ pc'[users[j].by] \in {"reply", "done"}
             /\ username'[users[j].by] = users[j].name
             /\ Unmet(users[j].by, pos[users[j].by])'
  <2> DEFINE r == users[j].by
  <2>1. r \in Session
    <3>1. users[j] \in Account
      BY DEF TypeOK
    <3> QED BY <3>1 DEF Account
  <2>2. pc[r] \in {"reply", "done"} /\ username[r] = users[j].name /\ Unmet(r, pos[r])
    BY DEF WriterInv
  <2>3. username'[r] = username[r] /\ pc'[r] \in {"reply", "done"}
    BY <1>1, <2>1, <2>2
  <2> QED BY <2>2, <2>3 DEF Unmet, Plain
<1> QED BY <1>2, <1>3 DEF ScanInv, WriterInv

\* A line that does not end the search of a sign-up does not have its name.
LEMMA ReadStep ==
    ASSUME TypeOK, ScanInv, WriterInv, NEW s \in Session, ReadLine(s)
    PROVE  ScanInv' /\ WriterInv'
<1> DEFINE k == pos[s] + 1
           f == Scanned(users[k], found[s])
<1>1. /\ pos[s] \in Nat /\ k \in 1 .. Len(users) /\ users[k] \in Account
      /\ pos' = [pos EXCEPT ![s] = k]
      /\ pc[s] = "scan"
      /\ pc' = [pc EXCEPT ![s] = IF Matches(s, f) THEN "reply" ELSE "scan"]
      /\ UNCHANGED <<users, mode, username>>
  <2>1. pos[s] \in Nat /\ pos[s] < Len(users) /\ users \in Seq(Account)
    BY DEF ReadLine, TypeOK
  <2>2. k \in 1 .. Len(users) /\ users[k] \in Account
    BY <2>1
  <2> QED BY <2>1, <2>2 DEF ReadLine, Step, answers
<1>2. mode[s] = 2 /\ ~ Matches(s, f) => Unmet(s, k)
  <2> SUFFICES ASSUME mode[s] = 2, ~ Matches(s, f), NEW i \in 1 .. k,
                      Plain(users[i].name), users[i].name = username[s]
               PROVE  FALSE
    BY DEF Unmet
  <2>1. CASE i = k
    <3>1. f.user = users[k].name
      BY <1>1, <2>1, ScannedPlain
    <3> HIDE DEF f
    <3> QED BY <2>1, <3>1 DEF Matches
  <2>2. CASE i # k
    <3>1. i \in 1 .. pos[s]
      BY <1>1, <2>2
    <3> QED BY <1>1, <3>1 DEF ScanInv, Unmet
  <2> QED BY <2>1, <2>2
<1> HIDE DEF f
<1>3. \A r \in Session \ {s} : pc'[r] = pc[r] /\ pos'[r] = pos[r]
  BY <1>1 DEF TypeOK
<1>4. pos'[s] = k /\ pc'[s] = IF Matches(s, f) THEN "reply" ELSE "scan"
  BY <1>1 DEF TypeOK
<1>5. ASSUME NEW r \in Session
      PROVE  /\ pos'[r] <= Len(users')
             /\ pc'[r] \in {"menu", "name", "pass", "open"} => pos'[r] = 0
             /\ mode'[r] = 2 /\ pc'[r] \in {"scan", "append"} => Unmet(r, pos[r])'
  <2>1. CASE r = s
    BY <1>1, <1>2, <1>4, <2>1 DEF Unmet, Plain
  <2>2. CASE r # s
    BY <1>1, <1>3, <2>2 DEF ScanInv, Unmet, Plain
  <2> QED BY <2>1, <2>2
<1>6. ASSUME NEW j \in 1 .. Len(users)
      PROVE  /\ pc'[users[j].by] \in {"reply", "done"}
             /\ username'[users[j].by] = users[j].name
             /\ Unmet(users[j].by, pos[users[j].by])'
  <2> DEFINE r == users[j].by
  <2>1. r \in Session
    <3>1. users[j] \in Account
      BY DEF TypeOK
    <3> QED BY <3>1 DEF Account
  <2>2. pc[r] \in {"reply", "done"} /\ username[r] = users[j].name /\ Unmet(r, pos[r])
    BY DEF WriterInv
  <2>3. r # s
    BY <1>1, <2>2
  <2> QED BY <1>1, <1>3, <2>1, <2>2, <2>3 DEF Unmet, Plain
<1> QED BY <1>1, <1>5, <1>6 DEF ScanInv, WriterInv

\* The line a sign-up writes is one that it has not met.
LEMMA AppendStep ==
    ASSUME TypeOK, AnsweredInv, ScanInv, WriterInv, (\A s \in Session :
             pc[s] = "append" => mode[s] = 2), NEW s \in Session, AppendAccount(s)
    PROVE  ScanInv' /\ WriterInv'
<1> DEFINE line == [name |-> username[s], pass |-> password[s], by |-> s]
<1>1. /\ line \in Account /\ line.by = s /\ line.name = username[s]
      /\ users' = Append(users, line) /\ users \in Seq(Account)
      /\ UNCHANGED <<mode, username, pos>>
      /\ pc[s] = "append" /\ mode[s] = 2
      /\ pc' = [pc EXCEPT ![s] = "reply"]
  BY DEF AppendAccount, Step, answers, reading, TypeOK, AnsweredInv, Account
<1> HIDE DEF line
<1>2. /\ Len(users') = Len(users) + 1
      /\ users'[Len(users) + 1] = line
      /\ \A j \in 1 .. Len(users) : users'[j] = users[j]
  BY <1>1
<1>3. pc'[s] = "reply" /\ \A r \in Session \ {s} : pc'[r] = pc[r]
  BY <1>1 DEF TypeOK
<1>4. ASSUME NEW r \in Session, Unmet(r, pos[r]) PROVE Unmet(r, pos[r])'
  <2>1. pos[r] \in Nat /\ pos[r] <= Len(users)
    BY DEF TypeOK, ScanInv
  <2>2. Unmet(r, pos[r])' = \A i \in 1 .. pos[r] :
          Plain(users'[i].name) => users'[i].name # username[r]
    BY <1>1 DEF Unmet, Plain
  <2>3. \A i \in 1 .. pos[r] : users'[i] = users[i]
    BY <1>2, <2>1
  <2> QED BY <1>4, <2>2, <2>3 DEF Unmet
<1>5. ASSUME NEW r \in Session
      PROVE  /\ pos'[r] <= Len(users')
             /\ pc'[r] \in {"menu", "name", "pass", "open"} => pos'[r] = 0
             /\ mode'[r] = 2 /\ pc'[r] \in {"scan", "append"} => Unmet(r, pos[r])'
  <2>1. pos'[r] <= Len(users')
    BY <1>1, <1>2 DEF ScanInv, TypeOK
  <2> QED BY <1>1, <1>3, <1>4, <2>1 DEF ScanInv
<1>6. ASSUME NEW j \in 1 .. Len(users')
      PROVE  /\ pc'[users'[j].by] \in {"reply", "done"}
             /\ username'[users'[j].by] = users'[j].name
             /\ Unmet(users[j].by, pos[users[j].by])'
  <2>1. CASE j = Len(users) + 1
    <3>1. Unmet(s, pos[s])
      BY <1>1 DEF ScanInv
    <3> QED BY <1>1, <1>2, <1>3, <1>4, <2>1, <3>1
  <2>2. CASE j # Len(users) + 1
    <3> DEFINE r == users[j].by
    <3>1. j \in 1 .. Len(users) /\ users'[j] = users[j]
      BY <1>1, <1>2, <2>2
    <3>2. users[j] \in Account
      BY <1>1, <3>1
    <3>3. r \in Session
      BY <3>2 DEF Account
    <3>4. pc[r] \in {"reply", "done"} /\ username[r] = users[j].name /\ Unmet(r, pos[r])
      BY <3>1 DEF WriterInv
    <3>5. pc'[r] \in {"reply", "done"}
      BY <1>3, <3>3, <3>4
    <3> QED BY <1>1, <1>4, <3>1, <3>3, <3>4, <3>5
  <2> QED BY <2>1, <2>2
<1> QED BY <1>5, <1>6 DEF ScanInv, WriterInv

\* An account is written by a sign-up, after the choice.
SignUpInv == \A s \in Session : pc[s] = "append" => mode[s] = 2

\* Only a sign-up is ever about to write.
LEMMA SignsUp == Spec => []SignUpInv
<1>1. Init => SignUpInv
  BY DEF Init, SignUpInv
<1>2. ASSUME TypeOK, AnsweredInv, SignUpInv, [Next]_vars PROVE SignUpInv'
  <2> SUFFICES ASSUME NEW r \in Session, pc'[r] = "append" PROVE mode'[r] = 2
    BY DEF SignUpInv
  <2>1. pc[r] = "append" => mode[r] = 2
    BY <1>2 DEF SignUpInv
  <2>2. ASSUME NEW s \in Session, NEW from, NEW to, Step(s, from, to), to # "append"
        PROVE  r # s /\ pc[r] = "append"
    BY <1>2, <2>2 DEF Step, TypeOK
  <2> USE DEF answers, reading
  <2>3. ASSUME NEW s \in Session, Choose(s) PROVE mode'[r] = 2
    <3>1. r # s /\ pc[r] = "append"
      BY <2>2, <2>3 DEF Choose
    <3> QED BY <1>2, <2>1, <2>3, <3>1 DEF Choose, TypeOK
  <2>4. ASSUME NEW s \in Session,
               \/ AskName(s) \/ AskPassword(s) \/ OpenFile(s) \/ OpenFails(s)
               \/ AppendAccount(s) \/ Reply(s)
        PROVE  mode'[r] = 2
    BY <2>1, <2>2, <2>4
       DEF AskName, AskPassword, OpenFile, OpenFails, AppendAccount, Reply
  <2>5. ASSUME NEW s \in Session, ReadLine(s) PROVE mode'[r] = 2
    BY <2>1, <2>2, <2>5 DEF ReadLine
  <2>6. ASSUME NEW s \in Session, EndOfFile(s) PROVE mode'[r] = 2
    <3>1. CASE r = s
      BY <1>2, <2>6, <3>1 DEF EndOfFile, Step, TypeOK, AnsweredInv
    <3>2. CASE r # s
      BY <1>2, <2>1, <2>6, <3>2 DEF EndOfFile, Step, TypeOK
    <3> QED BY <3>1, <3>2
  <2>7. CASE Idle \/ (\E s \in Session : TryAgain(s)) \/ UNCHANGED vars
    BY <2>1, <2>7 DEF Idle, TryAgain, vars
  <2> QED BY <1>2, <2>3, <2>4, <2>5, <2>6, <2>7 DEF Next, Proceed
<1> QED BY <1>1, <1>2, TypeCorrect, PTL DEF Spec

\* The inductive invariant holds of every reachable state.
THEOREM Invariance == Spec => []IInv
<1>1. Init => ScanInv /\ WriterInv
  BY DEF Init, ScanInv, WriterInv, Unmet
<1>2. ASSUME TypeOK, AnsweredInv, SignUpInv, ScanInv, WriterInv, [Next]_vars
      PROVE  ScanInv' /\ WriterInv'
  <2> USE DEF answers, reading
  <2>1. ASSUME NEW s \in Session, Choose(s) PROVE ScanInv' /\ WriterInv'
    <3>1. \A r \in Session \ {s} : mode'[r] = mode[r] /\ username'[r] = username[r]
      BY <2>1 DEF Choose, TypeOK
    <3> QED BY <1>2, <2>1, <3>1, QuietStep DEF Choose
  <2>2. ASSUME NEW s \in Session, AskName(s) PROVE ScanInv' /\ WriterInv'
    <3>1. \A r \in Session \ {s} : mode'[r] = mode[r] /\ username'[r] = username[r]
      BY <2>2 DEF AskName, TypeOK
    <3> QED BY <1>2, <2>2, <3>1, QuietStep DEF AskName
  <2>3. ASSUME NEW s \in Session, AskPassword(s) PROVE ScanInv' /\ WriterInv'
    BY <1>2, <2>3, QuietStep DEF AskPassword
  <2>4. ASSUME NEW s \in Session, OpenFile(s) \/ OpenFails(s) \/ Reply(s)
        PROVE  ScanInv' /\ WriterInv'
    BY <1>2, <2>4, QuietStep DEF OpenFile, OpenFails, Reply
  <2>5. ASSUME NEW s \in Session, ReadLine(s) PROVE ScanInv' /\ WriterInv'
    BY <1>2, <2>5, ReadStep
  <2>6. ASSUME NEW s \in Session, EndOfFile(s) PROVE ScanInv' /\ WriterInv'
    BY <1>2, <2>6, QuietStep DEF EndOfFile
  <2>7. ASSUME NEW s \in Session, AppendAccount(s) PROVE ScanInv' /\ WriterInv'
    BY <1>2, <2>7, AppendStep DEF SignUpInv
  <2>8. CASE Idle \/ (\E s \in Session : TryAgain(s)) \/ UNCHANGED vars
    <3>1. UNCHANGED <<users, pc, mode, username, pos>>
      BY <2>8 DEF Idle, TryAgain, vars
    <3>2. ScanInv'
      BY <1>2, <3>1 DEF ScanInv, Unmet, Plain
    <3>3. WriterInv'
      BY <1>2, <3>1 DEF WriterInv, Unmet, Plain
    <3> QED BY <3>2, <3>3
  <2> QED
    BY <1>2, <2>1, <2>2, <2>3, <2>4, <2>5, <2>6, <2>7, <2>8 DEF Next, Proceed
<1> QED BY <1>1, <1>2, SignsUp, TypeCorrect, PTL DEF Spec, IInv

\* Two accounts of one name can only come from sign-ups that overlapped.
THEOREM OverlapOnly == Spec => []DuplicatesOverlap
<1>1. IInv => DuplicatesOverlap
  <2> SUFFICES ASSUME IInv, NEW i \in 1 .. Len(users), NEW j \in 1 .. Len(users),
                      users[i].name = users[j].name, Plain(users[i].name),
                      i <= pos[users[j].by]
               PROVE  FALSE
    <3>1. ASSUME IInv, NEW j \in 1 .. Len(users)
          PROVE  pos[users[j].by] \in Nat
      <4>1. users[j] \in Account
        BY <3>1 DEF IInv, TypeOK
      <4> QED BY <3>1, <4>1 DEF IInv, TypeOK, Account
    <3> QED BY <3>1 DEF DuplicatesOverlap
  <2>1. /\ username[users[j].by] = users[j].name
        /\ Unmet(users[j].by, pos[users[j].by])
    BY DEF IInv, WriterInv
  <2>2. i \in 1 .. pos[users[j].by]
    <3>1. users[j] \in Account
      BY DEF IInv, TypeOK
    <3>2. pos[users[j].by] \in Nat
      BY <3>1 DEF IInv, TypeOK, Account
    <3> QED BY <3>2
  <2> QED BY <2>1, <2>2 DEF Unmet
<1> QED BY <1>1, Invariance, PTL
-----------------------------------------------------------------------------
\* What a search has established.  While it lasts no account it has read was the
\* one it looks for; a failed login has read all the lines the file had when it
\* was opened; a search that ended early ended on the line read last; only who
\* has written a line goes with auth = 1 without having met one.
Missed(s, n) ==
    \A i \in 1 .. n : Plain(users[i].name) /\ Plain(users[i].pass) =>
       ~ (users[i].name = username[s] /\ users[i].pass = password[s])

MetName(s) ==
    /\ pos[s] \in 1 .. Len(users)
    /\ Plain(users[pos[s]].name) => users[pos[s]].name = username[s]

MetAccount(s) ==
    /\ MetName(s)
    /\ Plain(users[pos[s]].name) /\ Plain(users[pos[s]].pass) =>
          users[pos[s]].pass = password[s]

Result(s) ==
    /\ pc[s] \notin {"reply", "done"} => auth[s] = 0
    /\ pc[s] = "scan" => at[s] <= Len(users)
    /\ mode[s] = 1 /\ pc[s] \in {"menu", "name", "pass", "open", "scan"} => Missed(s, pos[s])
    /\ pc[s] = "reply" /\ mode[s] = 1 =>
          IF auth[s] = 1 THEN MetAccount(s) ELSE at[s] <= pos[s] /\ Missed(s, pos[s])
    /\ pc[s] = "reply" /\ mode[s] = 2 /\ auth[s] = 0 => MetName(s)

ResultInv ==
    /\ \A s \in Session : Result(s)
    /\ \A j \in 1 .. Len(users) : auth[users[j].by] = 1

\* sscanf reads the password back, too, when both are one word.
LEMMA ScannedAccount ==
    ASSUME NEW line \in Account, NEW old, Plain(line.name), Plain(line.pass)
    PROVE  Scanned(line, old).pass = line.pass
<1> DEFINE w == Words[line.name] \o Words[line.pass]
<1>1. line.pass \in Text /\ line.name \in Text
  BY DEF Account
<1>2. w = <<line.name>> \o <<line.pass>>
  BY DEF Plain
<1>3. Len(w) >= 2 /\ w[2] = line.pass
  BY <1>1, <1>2
<1> HIDE DEF w
<1>4. Scanned(line, old).pass = IF Len(w) >= 2 THEN w[2] ELSE old.pass
  BY DEF Scanned, w
<1> QED BY <1>3, <1>4

\* The results of a thread outlast what the others do: they only add lines.
LEMMA ResultKept ==
    ASSUME TypeOK, ScanInv, NEW s \in Session, Result(s),
           UNCHANGED users \/ \E line \in Account : users' = Append(users, line),
           pc'[s] = pc[s], mode'[s] = mode[s], username'[s] = username[s],
           password'[s] = password[s], pos'[s] = pos[s], at'[s] = at[s],
           auth'[s] = auth[s]
    PROVE  Result(s)'
<1>1. /\ Len(users) \in Nat /\ Len(users') \in Nat /\ Len(users) <= Len(users')
      /\ \A i \in 1 .. Len(users) : users'[i] = users[i]
  BY DEF TypeOK
<1>2. pos[s] \in Nat /\ at[s] \in Nat /\ pos[s] <= Len(users)
  BY DEF TypeOK, ScanInv
<1>3. ASSUME Missed(s, pos[s]) PROVE Missed(s, pos[s])'
  <2>1. \A i \in 1 .. pos[s] : users'[i] = users[i]
    BY <1>1, <1>2
  <2> QED BY <1>3, <2>1 DEF Missed, Plain
<1>4. MetName(s) => MetName(s)'
  BY <1>1 DEF MetName, Plain
<1>5. MetAccount(s) => MetAccount(s)'
  BY <1>1, <1>4 DEF MetAccount, MetName, Plain
<1>6. pc[s] = "scan" => at'[s] <= Len(users')
  BY <1>1, <1>2 DEF Result
<1> QED BY <1>2, <1>3, <1>4, <1>5, <1>6 DEF Result

\* A line that ends the search is the one looked for, if sscanf reads it back;
\* one that does not end it is not.
LEMMA ReadResult ==
    ASSUME TypeOK, AnsweredInv, ScanInv, NEW s \in Session, Result(s), ReadLine(s)
    PROVE  Result(s)'
<1> DEFINE k == pos[s] + 1
           f == Scanned(users[k], found[s])
<1>1. /\ pos[s] \in Nat /\ k \in 1 .. Len(users) /\ users[k] \in Account
      /\ mode[s] \in 1 .. 2
      /\ pc[s] = "scan"
      /\ UNCHANGED <<users, mode, username, password, at>>
  <2>1. pos[s] \in Nat /\ pos[s] < Len(users) /\ users \in Seq(Account) /\ pc[s] = "scan"
    BY DEF ReadLine, TypeOK, Step
  <2>2. k \in 1 .. Len(users) /\ users[k] \in Account
    BY <2>1
  <2> QED BY <2>1, <2>2 DEF ReadLine, answers, AnsweredInv
<1>2. /\ pos'[s] = k
      /\ pc'[s] = IF Matches(s, f) THEN "reply" ELSE "scan"
      /\ auth'[s] = IF Matches(s, f) /\ mode[s] = 1 THEN 1 ELSE 0
  BY DEF ReadLine, Step, TypeOK
<1>3. /\ Plain(users[k].name) => f.user = users[k].name
      /\ Plain(users[k].name) /\ Plain(users[k].pass) => f.pass = users[k].pass
  BY <1>1, ScannedPlain, ScannedAccount
<1> HIDE DEF f
<1>4. at[s] <= Len(users) /\ (mode[s] = 1 => Missed(s, pos[s]))
  BY <1>1 DEF Result
<1>5. ASSUME mode[s] = 1, ~ Matches(s, f) PROVE Missed(s, k)
  <2> SUFFICES ASSUME NEW i \in 1 .. k, Plain(users[i].name), Plain(users[i].pass),
                      users[i].name = username[s], users[i].pass = password[s]
               PROVE  FALSE
    BY DEF Missed
  <2>1. CASE i = k
    BY <1>3, <1>5, <2>1 DEF Matches
  <2>2. CASE i # k
    <3>1. i \in 1 .. pos[s]
      BY <1>1, <2>2
    <3> QED BY <1>4, <1>5, <3>1 DEF Missed
  <2> QED BY <2>1, <2>2
<1>6. ASSUME Matches(s, f) PROVE MetName(s)'
  <2>1. Plain(users[k].name) => users[k].name = username[s]
    BY <1>3, <1>6 DEF Matches
  <2> QED BY <1>1, <1>2, <2>1 DEF MetName, Plain
<1>7. ASSUME Matches(s, f), mode[s] = 1 PROVE MetAccount(s)'
  <2>1. Plain(users[k].name) /\ Plain(users[k].pass) => users[k].pass = password[s]
    BY <1>3, <1>7 DEF Matches
  <2> QED BY <1>1, <1>2, <1>6, <1>7, <2>1 DEF MetAccount, Plain
<1>8. Missed(s, k) => Missed(s, pos[s])'
  BY <1>1, <1>2 DEF Missed, Plain
<1> HIDE DEF k
<1>9. CASE Matches(s, f)
  BY <1>1, <1>2, <1>6, <1>7, <1>9 DEF Result
<1>10. CASE ~ Matches(s, f)
  BY <1>1, <1>2, <1>4, <1>5, <1>8, <1>10 DEF Result
<1> QED BY <1>9, <1>10

\* The other steps of a thread, on its own results.
LEMMA OwnResult ==
    ASSUME TypeOK, AnsweredInv, ScanInv, SignUpInv, NEW s \in Session, Result(s),
           Choose(s) \/ Proceed(s)
    PROVE  Result(s)'
<1> USE DEF Step, answers, reading
<1>1. ASSUME pos[s] = 0, UNCHANGED <<users, pos>> PROVE Missed(s, pos[s])'
  BY <1>1 DEF Missed
<1>2. pc[s] \in {"menu", "name", "pass", "open"} => pos[s] = 0
  BY DEF ScanInv
<1>3. CASE Choose(s)
  BY <1>1, <1>2, <1>3 DEF Choose, Result, TypeOK
<1>4. CASE AskName(s)
  BY <1>1, <1>2, <1>4 DEF AskName, Result, TypeOK
<1>5. CASE AskPassword(s)
  BY <1>1, <1>2, <1>5 DEF AskPassword, Result, TypeOK
<1>6. CASE OpenFile(s)
  <2>1. Len(users) \in Nat
    BY DEF TypeOK
  <2> QED BY <1>1, <1>2, <1>6, <2>1 DEF OpenFile, Result, TypeOK
<1>7. CASE OpenFails(s) \/ Reply(s)
  BY <1>7 DEF OpenFails, Reply, Result, TypeOK
<1>8. CASE ReadLine(s)
  BY <1>8, ReadResult
<1>9. CASE EndOfFile(s)
  <2>1. /\ pos[s] = Len(users) /\ pc[s] = "scan" /\ auth[s] = 0 /\ at[s] <= pos[s]
        /\ mode[s] = 1 => Missed(s, pos[s])
    BY <1>9 DEF EndOfFile, Result
  <2>2. Missed(s, pos[s]) => Missed(s, pos[s])'
    BY <1>9 DEF EndOfFile, Missed, Plain
  <2>3. pc'[s] = (IF mode[s] = 1 THEN "reply" ELSE "append")
    BY <1>9 DEF EndOfFile, TypeOK
  <2>4. mode[s] \in 1 .. 2
    BY <2>1 DEF AnsweredInv
  <2>5. UNCHANGED <<mode, auth, at, pos>>
    BY <1>9 DEF EndOfFile
  <2> QED BY <2>1, <2>2, <2>3, <2>4, <2>5 DEF Result
<1>10. CASE AppendAccount(s)
  <2>1. pc'[s] = "reply" /\ auth'[s] = 1 /\ mode'[s] = 2
    BY <1>10 DEF AppendAccount, TypeOK, SignUpInv
  <2> QED BY <2>1 DEF Result
<1> QED BY <1>3, <1>4, <1>5, <1>6, <1>7, <1>8, <1>9, <1>10 DEF Proceed

\* What a thread's step leaves alone of the others.
LEMMA OthersAlone ==
    ASSUME TypeOK, AnsweredInv, NEW s \in Session, Choose(s) \/ Proceed(s)
    PROVE  /\ UNCHANGED users \/ \E line \in Account : users' = Append(users, line)
           /\ \A r \in Session \ {s} :
                 /\ pc'[r] = pc[r] /\ mode'[r] = mode[r] /\ username'[r] = username[r]
                 /\ password'[r] = password[r] /\ pos'[r] = pos[r] /\ at'[r] = at[r]
                 /\ auth'[r] = auth[r]
<1> USE DEF Step, answers, reading
<1>1. CASE Choose(s) \/ AskName(s) \/ AskPassword(s)
  BY <1>1 DEF Choose, AskName, AskPassword, TypeOK
<1>2. CASE OpenFile(s) \/ OpenFails(s) \/ EndOfFile(s) \/ Reply(s)
  BY <1>2 DEF OpenFile, OpenFails, EndOfFile, Reply, TypeOK
<1>3. CASE ReadLine(s)
  BY <1>3 DEF ReadLine, TypeOK
<1>4. CASE AppendAccount(s)
  <2>1. [name |-> username[s], pass |-> password[s], by |-> s] \in Account
    BY <1>4 DEF AppendAccount, AnsweredInv, Account
  <2> QED BY <1>4, <2>1 DEF AppendAccount, TypeOK
<1> QED BY <1>1, <1>2, <1>3, <1>4 DEF Proceed

\* Who has written a line has been let in, and is never turned away after.
LEMMA WriterLetIn ==
    ASSUME TypeOK, AnsweredInv, WriterInv, NEW s \in Session, Choose(s) \/ Proceed(s),
           \A j \in 1 .. Len(users) : auth[users[j].by] = 1
    PROVE  \A j \in 1 .. Len(users') : auth'[users'[j].by] = 1
<1> USE DEF Step, answers, reading
<1>1. ASSUME NEW j \in 1 .. Len(users)
      PROVE  users[j].by \in Session /\ pc[users[j].by] \in {"reply", "done"}
  <2>1. users[j] \in Account
    BY DEF TypeOK
  <2> QED BY <2>1 DEF WriterInv, Account
<1>2. CASE AppendAccount(s)
  <2> DEFINE line == [name |-> username[s], pass |-> password[s], by |-> s]
  <2>1. /\ line \in Account /\ line.by = s /\ users' = Append(users, line)
        /\ users \in Seq(Account) /\ auth' = [auth EXCEPT ![s] = 1]
    BY <1>2 DEF AppendAccount, AnsweredInv, Account, TypeOK
  <2> HIDE DEF line
  <2>2. ASSUME NEW j \in 1 .. Len(users') PROVE auth'[users'[j].by] = 1
    <3>1. CASE j = Len(users) + 1
      BY <2>1, <3>1 DEF TypeOK
    <3>2. CASE j # Len(users) + 1
      <4>1. j \in 1 .. Len(users) /\ users'[j] = users[j]
        BY <2>1, <2>2, <3>2
      <4> QED BY <1>1, <2>1, <4>1 DEF TypeOK
    <3> QED BY <3>1, <3>2
  <2> QED BY <2>2
<1>3. CASE ReadLine(s)
  <2>1. users' = users /\ pc[s] = "scan" /\ \A r \in Session \ {s} : auth'[r] = auth[r]
    BY <1>3 DEF ReadLine, TypeOK
  <2> QED BY <1>1, <2>1
<1>4. CASE \/ Choose(s) \/ AskName(s) \/ AskPassword(s) \/ OpenFile(s) \/ OpenFails(s)
           \/ EndOfFile(s) \/ Reply(s)
  BY <1>4 DEF Choose, AskName, AskPassword, OpenFile, OpenFails, EndOfFile, Reply
<1> QED BY <1>2, <1>3, <1>4 DEF Proceed

\* The results are exact in every reachable state, whatever is appended
\* meanwhile.
THEOREM Results == Spec => []ResultInv
<1>1. Init => ResultInv
  BY DEF Init, ResultInv, Result, Missed
<1>2. ASSUME IInv, AnsweredInv, SignUpInv, ResultInv, [Next]_vars PROVE ResultInv'
  <2> USE DEF IInv
  <2>1. ASSUME NEW s \in Session, Choose(s) \/ Proceed(s) PROVE ResultInv'
    <3>1. Result(s)'
      BY <1>2, <2>1, OwnResult DEF ResultInv
    <3>2. ASSUME NEW r \in Session \ {s} PROVE Result(r)'
      <4>1. r \in Session /\ Result(r)
        BY <1>2 DEF ResultInv
      <4> QED BY <1>2, <2>1, <4>1, OthersAlone, ResultKept
    <3>3. \A j \in 1 .. Len(users') : auth'[users'[j].by] = 1
      BY <1>2, <2>1, WriterLetIn DEF ResultInv
    <3> QED BY <3>1, <3>2, <3>3 DEF ResultInv
  <2>2. CASE Idle \/ (\E s \in Session : TryAgain(s)) \/ UNCHANGED vars
    <3>1. UNCHANGED <<users, pc, mode, username, password, pos, at, auth>>
      BY <2>2 DEF Idle, TryAgain, vars
    <3>2. ASSUME NEW s \in Session PROVE Result(s)'
      BY <1>2, <3>1, <3>2, ResultKept DEF ResultInv
    <3> QED BY <1>2, <3>1, <3>2 DEF ResultInv
  <2> QED BY <1>2, <2>1, <2>2 DEF Next
<1> QED BY <1>1, <1>2, Invariance, SignsUp, TypeCorrect, PTL DEF Spec

\* Where every account is of plain words, a login succeeds on an account the file
\* holds and fails only if it held none when the login opened it.
THEOREM LoginIsExact == Spec => []LoginExact
<1>1. TypeOK /\ ScanInv /\ ResultInv => LoginExact
  <2> SUFFICES ASSUME TypeOK, ScanInv, ResultInv,
                      \A i \in 1 .. Len(users) : Plain(users[i].name) /\ Plain(users[i].pass),
                      NEW s \in Session, pc[s] = "reply", mode[s] = 1
               PROVE  LET Mine(i) == users[i].name = username[s] /\ users[i].pass = password[s]
                      IN  IF auth[s] = 1 THEN \E i \in 1 .. Len(users) : Mine(i)
                                         ELSE \A i \in 1 .. at[s] : ~ Mine(i)
    BY DEF LoginExact
  <2>1. IF auth[s] = 1 THEN MetAccount(s) ELSE at[s] <= pos[s] /\ Missed(s, pos[s])
    BY DEF ResultInv, Result
  <2>2. CASE auth[s] = 1
    BY <2>1, <2>2 DEF MetAccount, MetName
  <2>3. CASE auth[s] # 1
    <3>1. /\ pos[s] \in Nat /\ at[s] \in Nat /\ Len(users) \in Nat
          /\ pos[s] <= Len(users) /\ at[s] <= pos[s]
      BY <2>1, <2>3 DEF TypeOK, ScanInv
    <3>2. \A i \in 1 .. at[s] : i \in 1 .. pos[s] /\ i \in 1 .. Len(users)
      BY <3>1
    <3> QED BY <2>1, <2>3, <3>2 DEF Missed
  <2> QED BY <2>2, <2>3
<1> QED BY <1>1, Invariance, Results, PTL DEF IInv

\* A sign-up is turned away by a line with its name that somebody else wrote.
THEOREM RefusalHasReason == Spec => []RefusedIsTaken
<1>1. ResultInv => RefusedIsTaken
  <2> SUFFICES ASSUME ResultInv, NEW s \in Session, pc[s] = "reply", mode[s] = 2,
                      auth[s] = 0, \A i \in 1 .. Len(users) : Plain(users[i].name)
               PROVE  \E i \in 1 .. Len(users) : users[i].name = username[s] /\ users[i].by # s
    BY DEF RefusedIsTaken
  <2>1. MetName(s)
    BY DEF ResultInv, Result
  <2>2. users[pos[s]].by # s
    BY <2>1 DEF MetName, ResultInv
  <2> QED BY <2>1, <2>2 DEF MetName
<1> QED BY <1>1, Results, PTL
=============================================================================
