---------------------------- MODULE ThreadsProofs ----------------------------
(***************************************************************************)
(* The invariants of those of Programs that run threads: the exercises of  *)
(* Threads and the first chat server with TLS, for every number of threads *)
(* and connections.                                                        *)
(***************************************************************************)
EXTENDS ProgramsProofs

USE ProgramsAssumption

-----------------------------------------------------------------------------
(* The threads. *)

\* The programs whose main creates a team of equal size and joins it in order.
Mutexed == {"mutex", "mutex8"}
Racing  == {"race", "race8"}
Teams   == Mutexed \cup Racing \cup {"condition", "semaphore"}

Size == IF program = "condition" THEN 2 ELSE NUM_THREADS

\* The length of what each of the team is told.
Length ==
    IF program \in Mutexed THEN 4 * NUM_INCREMENTS
    ELSE IF program \in Racing THEN 2 * NUM_INCREMENTS
    ELSE IF program = "condition" THEN 4 ELSE 3

\* A text that is given line by line has as many lines.
LEMMA LinesOf ==
    ASSUME NEW n \in Nat, NEW S, NEW f \in [1 .. n -> S]
    PROVE  Len(f) = n
<1>1. f \in Seq(S)
  BY SeqDef
<1>2. DOMAIN f = 1 .. Len(f) /\ Len(f) \in Nat
  BY <1>1, LenProperties
<1>3. 1 .. Len(f) = 1 .. n
  BY <1>2
<1>4. Len(f) <= n
  <2>1. CASE Len(f) = 0
    BY <2>1
  <2>2. CASE Len(f) # 0
    <3>1. Len(f) \in 1 .. Len(f)
      BY <1>2, <2>2
    <3> QED BY <1>3, <3>1
  <2> QED BY <2>1, <2>2
<1>5. n <= Len(f)
  <2>1. CASE n = 0
    BY <1>2, <2>1
  <2>2. CASE n # 0
    <3>1. n \in 1 .. n
      BY <2>2
    <3> QED BY <1>3, <3>1
  <2> QED BY <2>1, <2>2
<1> QED BY <1>2, <1>4, <1>5

\* What main is told.
LEMMA TeamText ==
    ASSUME NEW c, NEW n \in Nat
    PROVE  /\ Len(Th!Team(c, n)) = 2 * n
           /\ \A i \in 1 .. 2 * n :
                 /\ i <= n => Th!Team(c, n)[i] = Ins2(c, i)
                 /\ i > n => Th!Team(c, n)[i] = Ins2("join", i - n)
<1> DEFINE S == {Ins2(c, i) : i \in 1 .. n} \cup {Ins2("join", i - n) : i \in n + 1 .. 2 * n}
<1>1. Th!Team(c, n) = [i \in 1 .. 2 * n |-> IF i <= n THEN Ins2(c, i) ELSE Ins2("join", i - n)]
  BY DEF Th!Team, Ins2
<1>2. \A i \in 1 .. 2 * n : (IF i <= n THEN Ins2(c, i) ELSE Ins2("join", i - n)) \in S
  OBVIOUS
<1> HIDE DEF S
<1>3. Th!Team(c, n) \in [1 .. 2 * n -> S]
  BY ONLY <1>1, <1>2
<1>4. Len(Th!Team(c, n)) = 2 * n
  <2>1. 2 * n \in Nat
    OBVIOUS
  <2> QED BY ONLY <1>3, <2>1, LinesOf
<1> QED BY ONLY <1>1, <1>4, n \in Nat

\* What a thread that repeats four or two instructions is told.
LEMMA TimesText ==
    ASSUME NEW n \in Nat, NEW body, NEW S, NEW m \in {2, 4}, Len(body) = m,
           \A j \in 1 .. m : body[j] \in S
    PROVE  /\ Len(Th!Times(n, body)) = m * n
           /\ \A i \in 1 .. m * n : Th!Times(n, body)[i] = body[((i - 1) % m) + 1]
<1>1. n * m = m * n /\ n * m \in Nat
  OBVIOUS
<1>2. Th!Times(n, body) = [i \in 1 .. m * n |-> body[((i - 1) % m) + 1]]
  BY <1>1 DEF Th!Times
<1>3. \A i \in 1 .. m * n : ((i - 1) % m) + 1 \in 1 .. m
  OBVIOUS
<1>4. Th!Times(n, body) \in [1 .. m * n -> S]
  BY ONLY <1>2, <1>3, \A j \in 1 .. m : body[j] \in S
<1>5. Len(Th!Times(n, body)) = m * n
  BY ONLY <1>1, <1>4, LinesOf
<1> QED BY ONLY <1>2, <1>5

\* Where main is, in a text of that form.
LEMMA TeamAt ==
    ASSUME NEW c, NEW n \in Nat, NEW k \in Nat, k # 0, ~ (k > 2 * n)
    PROVE  \/ k \in 1 .. n /\ Th!Team(c, n)[k][1] = c /\ Th!Team(c, n)[k][2] = k
           \/ k \in n + 1 .. 2 * n /\ Th!Team(c, n)[k][1] = "join" /\ Th!Team(c, n)[k][2] = k - n
<1>1. k \in 1 .. 2 * n /\ 2 * n \in Nat
  OBVIOUS
<1>2. \A i \in 1 .. 2 * n :
         /\ i <= n => Th!Team(c, n)[i] = Ins2(c, i)
         /\ i > n => Th!Team(c, n)[i] = Ins2("join", i - n)
  BY TeamText
<1>3. CASE k <= n
  <2>1. Th!Team(c, n)[k] = Ins2(c, k)
    BY ONLY <1>1, <1>2, <1>3
  <2>2. Th!Team(c, n)[k][1] = c /\ Th!Team(c, n)[k][2] = k
    BY <2>1, InsParts
  <2> QED BY <1>1, <1>3, <2>2
<1>4. CASE k > n
  <2>1. Th!Team(c, n)[k] = Ins2("join", k - n)
    BY ONLY <1>1, <1>2, <1>4
  <2>2. Th!Team(c, n)[k][1] = "join" /\ Th!Team(c, n)[k][2] = k - n
    BY <2>1, InsParts
  <2> QED BY <1>1, <1>4, <2>2
<1> QED BY <1>3, <1>4

\* What main and its team are at, by the line.
LEMMA TeamLine ==
    ASSUME program \in Teams, pc \in [Th!Thread -> Nat]
    PROVE  /\ Len(Th!Text(0)) = 2 * Size
           /\ \A op : Th!Is(0, op) =>
                 \/ /\ pc[0] \in 1 .. Size /\ op \in {"create", "create or exit"}
                    /\ Th!Arg(0) = pc[0]
                 \/ /\ pc[0] \in Size + 1 .. 2 * Size /\ op = "join"
                    /\ Th!Arg(0) = pc[0] - Size
<1>1. Size \in Nat /\ 0 \in Th!Thread
  BY DEF Size, Th!Thread
<1>2. PICK c \in {"create", "create or exit"} : Th!Text(0) = Th!Team(c, Size)
  <2>1. CASE program \in {"mutex", "mutex8", "race", "race8"}
    <3>1. Th!Text(0) = Th!Team("create or exit", Size)
      BY <2>1 DEF Th!Text, Th!MutexCounter, Th!MutexCounter8, Th!RaceCounter, Th!RaceCounter8, Size
    <3> QED BY <3>1
  <2>2. CASE program = "condition"
    <3>1. Th!Text(0) = Th!Team("create", Size)
      BY <2>2 DEF Th!Text, Th!Condition, Th!Two, Size
    <3> QED BY <3>1
  <2>3. CASE program = "semaphore"
    <3>1. Th!Text(0) = Th!Team("create", Size)
      BY <2>3 DEF Th!Text, Th!Limited, Size
    <3> QED BY <3>1
  <2> QED BY <2>1, <2>2, <2>3 DEF Teams, Mutexed, Racing
<1>3. Len(Th!Text(0)) = 2 * Size
  <2>1. Len(Th!Team(c, Size)) = 2 * Size
    BY ONLY <1>1, TeamText
  <2> QED BY ONLY <1>2, <2>1
<1>4. ASSUME NEW op, Th!Is(0, op)
      PROVE  \/ /\ pc[0] \in 1 .. Size /\ op \in {"create", "create or exit"}
                /\ Th!Arg(0) = pc[0]
             \/ /\ pc[0] \in Size + 1 .. 2 * Size /\ op = "join"
                /\ Th!Arg(0) = pc[0] - Size
  <2>1. /\ pc[0] \in Nat /\ pc[0] # 0 /\ ~ (pc[0] > 2 * Size)
        /\ Th!Text(0)[pc[0]][1] = op
        /\ Th!Arg(0) = Th!Text(0)[pc[0]][2]
    BY <1>1, <1>3, <1>4 DEF Th!Is, Th!Ended, Th!Arg
  <2>2. \/ /\ pc[0] \in 1 .. Size /\ Th!Text(0)[pc[0]][1] = c
           /\ Th!Text(0)[pc[0]][2] = pc[0]
        \/ /\ pc[0] \in Size + 1 .. 2 * Size /\ Th!Text(0)[pc[0]][1] = "join"
           /\ Th!Text(0)[pc[0]][2] = pc[0] - Size
    <3>1. \/ /\ pc[0] \in 1 .. Size /\ Th!Team(c, Size)[pc[0]][1] = c
             /\ Th!Team(c, Size)[pc[0]][2] = pc[0]
          \/ /\ pc[0] \in Size + 1 .. 2 * Size /\ Th!Team(c, Size)[pc[0]][1] = "join"
             /\ Th!Team(c, Size)[pc[0]][2] = pc[0] - Size
      BY ONLY <1>1, <2>1, TeamAt
    <3> QED BY ONLY <1>2, <3>1
  <2> QED BY ONLY <1>2, <2>1, <2>2
<1> QED BY <1>3, <1>4

\* Where a thread of the team is, in what it is told.
LEMMA MutexLine ==
    ASSUME program \in Mutexed, pc \in [Th!Thread -> Nat], NEW t \in 1 .. NUM_THREADS
    PROVE  /\ Len(Th!Text(t)) = Length
           /\ \A op : Th!Is(t, op) =>
                 /\ pc[t] \in 1 .. Length
                 /\ \/ pc[t] % 4 = 1 /\ op = "lock" /\ Th!Arg(t) = "mutex1"
                    \/ pc[t] % 4 = 2 /\ op = "load" /\ Th!Arg(t) = "counter"
                    \/ pc[t] % 4 = 3 /\ op = "store" /\ Th!Arg(t) = "counter"
                    \/ pc[t] % 4 = 0 /\ op = "unlock" /\ Th!Arg(t) = "mutex1"
<1> DEFINE S == {Ins2("lock", "mutex1"), Ins2("load", "counter"), Ins2("store", "counter"),
                 Ins2("unlock", "mutex1")}
<1>1. Th!Text(t) = Th!Times(NUM_INCREMENTS, Th!increment)
  <2>1. t # 0
    OBVIOUS
  <2> QED BY <2>1 DEF Mutexed, Th!Text, Th!MutexCounter, Th!MutexCounter8
<1>2. /\ Len(Th!increment) = 4
      /\ Th!increment[1] = Ins2("lock", "mutex1") /\ Th!increment[2] = Ins2("load", "counter")
      /\ Th!increment[3] = Ins2("store", "counter") /\ Th!increment[4] = Ins2("unlock", "mutex1")
  <2>1. Tells4(Th!increment, Ins2("lock", "mutex1"), Ins2("load", "counter"),
               Ins2("store", "counter"), Ins2("unlock", "mutex1"))
    BY DEF Tells4, Ins2, Th!increment
  <2> QED BY ONLY <2>1 DEF Tells4
<1>3. \A j \in 1 .. 4 : Th!increment[j] \in S
  <2>1. \A j \in 1 .. 4 : j = 1 \/ j = 2 \/ j = 3 \/ j = 4
    OBVIOUS
  <2> QED BY ONLY <1>2, <2>1
<1>4. NUM_INCREMENTS \in Nat /\ 4 \in {2, 4} /\ Length = 4 * NUM_INCREMENTS
  BY DEF Length
<1> HIDE DEF S
<1>5. /\ Len(Th!Text(t)) = 4 * NUM_INCREMENTS
      /\ \A i \in 1 .. 4 * NUM_INCREMENTS : Th!Text(t)[i] = Th!increment[((i - 1) % 4) + 1]
  BY ONLY <1>1, <1>2, <1>3, <1>4, TimesText
<1>6. ASSUME NEW op, Th!Is(t, op)
      PROVE  /\ pc[t] \in 1 .. Length
             /\ \/ pc[t] % 4 = 1 /\ op = "lock" /\ Th!Arg(t) = "mutex1"
                \/ pc[t] % 4 = 2 /\ op = "load" /\ Th!Arg(t) = "counter"
                \/ pc[t] % 4 = 3 /\ op = "store" /\ Th!Arg(t) = "counter"
                \/ pc[t] % 4 = 0 /\ op = "unlock" /\ Th!Arg(t) = "mutex1"
  <2>1. t \in Th!Thread
    BY DEF Th!Thread
  <2>2. /\ pc[t] \in Nat /\ pc[t] # 0 /\ ~ (pc[t] > 4 * NUM_INCREMENTS)
        /\ Th!Text(t)[pc[t]][1] = op /\ Th!Arg(t) = Th!Text(t)[pc[t]][2]
    BY <1>5, <1>6, <2>1 DEF Th!Is, Th!Ended, Th!Arg
  <2>3. pc[t] \in 1 .. 4 * NUM_INCREMENTS
    BY ONLY <1>4, <2>2
  <2>4. Th!Text(t)[pc[t]] = Th!increment[((pc[t] - 1) % 4) + 1]
    BY ONLY <1>5, <2>3
  <2>5. \A n \in Nat \ {0} :
           \/ n % 4 = 1 /\ ((n - 1) % 4) + 1 = 1
           \/ n % 4 = 2 /\ ((n - 1) % 4) + 1 = 2
           \/ n % 4 = 3 /\ ((n - 1) % 4) + 1 = 3
           \/ n % 4 = 0 /\ ((n - 1) % 4) + 1 = 4
    OBVIOUS
  <2>6. \/ pc[t] % 4 = 1 /\ Th!Text(t)[pc[t]] = Th!increment[1]
        \/ pc[t] % 4 = 2 /\ Th!Text(t)[pc[t]] = Th!increment[2]
        \/ pc[t] % 4 = 3 /\ Th!Text(t)[pc[t]] = Th!increment[3]
        \/ pc[t] % 4 = 0 /\ Th!Text(t)[pc[t]] = Th!increment[4]
    <3>1. pc[t] \in Nat \ {0}
      BY ONLY <2>2
    <3> QED BY ONLY <2>4, <2>5, <3>1
  <2>7. /\ Th!increment[1][1] = "lock" /\ Th!increment[1][2] = "mutex1"
        /\ Th!increment[2][1] = "load" /\ Th!increment[2][2] = "counter"
        /\ Th!increment[3][1] = "store" /\ Th!increment[3][2] = "counter"
        /\ Th!increment[4][1] = "unlock" /\ Th!increment[4][2] = "mutex1"
    BY ONLY <1>2, InsParts
  <2>8. pc[t] \in 1 .. Length
    BY <1>4, <2>3
  <2> QED BY ONLY <2>2, <2>6, <2>7, <2>8
<1> QED BY ONLY <1>4, <1>5, <1>6

\* The same without the mutex.
LEMMA RaceLine ==
    ASSUME program \in Racing, pc \in [Th!Thread -> Nat], NEW t \in 1 .. NUM_THREADS
    PROVE  /\ Len(Th!Text(t)) = Length
           /\ \A op : Th!Is(t, op) =>
                 /\ pc[t] \in 1 .. Length
                 /\ \/ pc[t] % 2 = 1 /\ op = "load" /\ Th!Arg(t) = "counter"
                    \/ pc[t] % 2 = 0 /\ op = "store" /\ Th!Arg(t) = "counter"
<1> DEFINE body == <<<<"load", "counter">>, <<"store", "counter">>>>
           S == {Ins2("load", "counter"), Ins2("store", "counter")}
<1>1. Th!Text(t) = Th!Times(NUM_INCREMENTS, body)
  <2>1. t # 0
    OBVIOUS
  <2> QED BY <2>1 DEF Racing, Th!Text, Th!RaceCounter, Th!RaceCounter8
<1>2. /\ Len(body) = 2
      /\ body[1] = Ins2("load", "counter") /\ body[2] = Ins2("store", "counter")
  BY DEF Ins2
<1> HIDE DEF body
<1>3. \A j \in 1 .. 2 : body[j] \in S
  <2>1. \A j \in 1 .. 2 : j = 1 \/ j = 2
    OBVIOUS
  <2> QED BY ONLY <1>2, <2>1
<1>4. NUM_INCREMENTS \in Nat /\ 2 \in {2, 4} /\ Length = 2 * NUM_INCREMENTS
  BY DEF Length, Racing, Mutexed
<1> HIDE DEF S
<1>5. /\ Len(Th!Text(t)) = 2 * NUM_INCREMENTS
      /\ \A i \in 1 .. 2 * NUM_INCREMENTS : Th!Text(t)[i] = body[((i - 1) % 2) + 1]
  <2>1. Len(body) = 2
    BY <1>2
  <2>2. /\ Len(Th!Times(NUM_INCREMENTS, body)) = 2 * NUM_INCREMENTS
        /\ \A i \in 1 .. 2 * NUM_INCREMENTS :
              Th!Times(NUM_INCREMENTS, body)[i] = body[((i - 1) % 2) + 1]
    BY ONLY <1>3, <1>4, <2>1, TimesText
  <2> QED BY ONLY <1>1, <2>2
<1>6. ASSUME NEW op, Th!Is(t, op)
      PROVE  /\ pc[t] \in 1 .. Length
             /\ \/ pc[t] % 2 = 1 /\ op = "load" /\ Th!Arg(t) = "counter"
                \/ pc[t] % 2 = 0 /\ op = "store" /\ Th!Arg(t) = "counter"
  <2>1. t \in Th!Thread
    BY DEF Th!Thread
  <2>2. /\ pc[t] \in Nat /\ pc[t] # 0 /\ ~ (pc[t] > 2 * NUM_INCREMENTS)
        /\ Th!Text(t)[pc[t]][1] = op /\ Th!Arg(t) = Th!Text(t)[pc[t]][2]
    BY <1>5, <1>6, <2>1 DEF Th!Is, Th!Ended, Th!Arg
  <2>3. pc[t] \in 1 .. 2 * NUM_INCREMENTS
    BY ONLY <1>4, <2>2
  <2>4. Th!Text(t)[pc[t]] = body[((pc[t] - 1) % 2) + 1]
    BY ONLY <1>5, <2>3
  <2>5. \A n \in Nat \ {0} :
           \/ n % 2 = 1 /\ ((n - 1) % 2) + 1 = 1
           \/ n % 2 = 0 /\ ((n - 1) % 2) + 1 = 2
    OBVIOUS
  <2>6. \/ pc[t] % 2 = 1 /\ Th!Text(t)[pc[t]] = body[1]
        \/ pc[t] % 2 = 0 /\ Th!Text(t)[pc[t]] = body[2]
    <3>1. pc[t] \in Nat \ {0}
      BY ONLY <2>2
    <3> QED BY ONLY <2>4, <2>5, <3>1
  <2>7. /\ body[1][1] = "load" /\ body[1][2] = "counter"
        /\ body[2][1] = "store" /\ body[2][2] = "counter"
    BY ONLY <1>2, InsParts
  <2>8. pc[t] \in 1 .. Length
    BY <1>4, <2>3
  <2> QED BY ONLY <2>2, <2>6, <2>7, <2>8
<1> QED BY ONLY <1>4, <1>5, <1>6

\* What a step of a text is.
Told(s, k, n, a, b) == k = n /\ s[k][1] = a /\ s[k][2] = b

\* An instruction with one argument says what it is told.
LEMMA ToldParts ==
    ASSUME NEW s, NEW k, NEW n, NEW a, NEW b, At(s, k, n, Ins2(a, b))
    PROVE  Told(s, k, n, a, b)
BY InsParts DEF At, Told

\* The producer and the consumer, and nobody else.
LEMMA ProducerLine ==
    ASSUME program = "condition", pc \in [Th!Thread -> Nat]
    PROVE  /\ Len(Th!Text(1)) = 5
           /\ \A op : Th!Is(1, op) =>
                 \/ pc[1] = 1 /\ op = "lock" /\ Th!Arg(1) = "mutex1"
                 \/ pc[1] = 2 /\ op = "set" /\ Th!Arg(1) = "buffer"
                 \/ pc[1] = 3 /\ op = "set" /\ Th!Arg(1) = "data_ready"
                 \/ pc[1] = 4 /\ op = "signal" /\ Th!Arg(1) = "cond"
                 \/ pc[1] = 5 /\ op = "unlock" /\ Th!Arg(1) = "mutex1"
<1>1. Tells5(Th!Text(1), Ins2("lock", "mutex1"),
             Ins2("set", "buffer"),
             Ins2("set", "data_ready"),
             Ins2("signal", "cond"),
             Ins2("unlock", "mutex1"))
  BY DEF Tells5, Ins2, Th!Text, Th!Condition, Th!Two, Th!producer
<1>2. 1 \in Th!Thread
  BY DEF Th!Thread
<1>3. Len(Th!Text(1)) = 5
  BY ONLY <1>1, Tell5
<1>4. ASSUME NEW op, Th!Is(1, op)
      PROVE  \/ pc[1] = 1 /\ op = "lock" /\ Th!Arg(1) = "mutex1"
             \/ pc[1] = 2 /\ op = "set" /\ Th!Arg(1) = "buffer"
             \/ pc[1] = 3 /\ op = "set" /\ Th!Arg(1) = "data_ready"
             \/ pc[1] = 4 /\ op = "signal" /\ Th!Arg(1) = "cond"
             \/ pc[1] = 5 /\ op = "unlock" /\ Th!Arg(1) = "mutex1"
  <2>1. /\ pc[1] \in Nat \ {0} /\ pc[1] <= 5
        /\ Th!Text(1)[pc[1]][1] = op /\ Th!Arg(1) = Th!Text(1)[pc[1]][2]
    BY <1>2, <1>3, <1>4 DEF Th!Is, Th!Ended, Th!Arg
  <2>2. \/ At(Th!Text(1), pc[1], 1, Ins2("lock", "mutex1"))
        \/ At(Th!Text(1), pc[1], 2, Ins2("set", "buffer"))
        \/ At(Th!Text(1), pc[1], 3, Ins2("set", "data_ready"))
        \/ At(Th!Text(1), pc[1], 4, Ins2("signal", "cond"))
        \/ At(Th!Text(1), pc[1], 5, Ins2("unlock", "mutex1"))
    BY ONLY <1>1, <2>1, Tell5
  <2>3. \/ Told(Th!Text(1), pc[1], 1, "lock", "mutex1")
        \/ Told(Th!Text(1), pc[1], 2, "set", "buffer")
        \/ Told(Th!Text(1), pc[1], 3, "set", "data_ready")
        \/ Told(Th!Text(1), pc[1], 4, "signal", "cond")
        \/ Told(Th!Text(1), pc[1], 5, "unlock", "mutex1")
    BY ONLY <2>2, ToldParts
  <2> QED BY ONLY <2>1, <2>3 DEF Told
<1> QED BY <1>3, <1>4

\* The consumer, by the line.
LEMMA ConsumerLine ==
    ASSUME program = "condition", pc \in [Th!Thread -> Nat]
    PROVE  /\ Len(Th!Text(2)) = 4
           /\ \A op : Th!Is(2, op) =>
                 \/ pc[2] = 1 /\ op = "lock" /\ Th!Arg(2) = "mutex1"
                 \/ pc[2] = 2 /\ op = "await" /\ Th!Arg(2) = "data_ready"
                 \/ pc[2] = 3 /\ op = "load" /\ Th!Arg(2) = "buffer"
                 \/ pc[2] = 4 /\ op = "unlock" /\ Th!Arg(2) = "mutex1"
<1>1. Tells4(Th!Text(2), Ins2("lock", "mutex1"),
             Ins2("await", "data_ready"),
             Ins2("load", "buffer"),
             Ins2("unlock", "mutex1"))
  BY DEF Tells4, Ins2, Th!Text, Th!Condition, Th!Two, Th!consumer
<1>2. 2 \in Th!Thread
  BY DEF Th!Thread
<1>3. Len(Th!Text(2)) = 4
  BY ONLY <1>1, Tell4
<1>4. ASSUME NEW op, Th!Is(2, op)
      PROVE  \/ pc[2] = 1 /\ op = "lock" /\ Th!Arg(2) = "mutex1"
             \/ pc[2] = 2 /\ op = "await" /\ Th!Arg(2) = "data_ready"
             \/ pc[2] = 3 /\ op = "load" /\ Th!Arg(2) = "buffer"
             \/ pc[2] = 4 /\ op = "unlock" /\ Th!Arg(2) = "mutex1"
  <2>1. /\ pc[2] \in Nat \ {0} /\ pc[2] <= 4
        /\ Th!Text(2)[pc[2]][1] = op /\ Th!Arg(2) = Th!Text(2)[pc[2]][2]
    BY <1>2, <1>3, <1>4 DEF Th!Is, Th!Ended, Th!Arg
  <2>2. \/ At(Th!Text(2), pc[2], 1, Ins2("lock", "mutex1"))
        \/ At(Th!Text(2), pc[2], 2, Ins2("await", "data_ready"))
        \/ At(Th!Text(2), pc[2], 3, Ins2("load", "buffer"))
        \/ At(Th!Text(2), pc[2], 4, Ins2("unlock", "mutex1"))
    BY ONLY <1>1, <2>1, Tell4
  <2>3. \/ Told(Th!Text(2), pc[2], 1, "lock", "mutex1")
        \/ Told(Th!Text(2), pc[2], 2, "await", "data_ready")
        \/ Told(Th!Text(2), pc[2], 3, "load", "buffer")
        \/ Told(Th!Text(2), pc[2], 4, "unlock", "mutex1")
    BY ONLY <2>2, ToldParts
  <2> QED BY ONLY <2>1, <2>3 DEF Told
<1> QED BY <1>3, <1>4

\* Those the semaphore admits.
LEMMA LimitedLine ==
    ASSUME program = "semaphore", pc \in [Th!Thread -> Nat], NEW t \in 1 .. NUM_THREADS
    PROVE  /\ Len(Th!Text(t)) = 3
           /\ \A op : Th!Is(t, op) =>
                 \/ pc[t] = 1 /\ op = "sem_wait" /\ Th!Arg(t) = "sem"
                 \/ pc[t] = 2 /\ op = "work" /\ Th!Arg(t) = "inside"
                 \/ pc[t] = 3 /\ op = "sem_post" /\ Th!Arg(t) = "sem"
<1>1. Tells3(Th!Text(t), Ins2("sem_wait", "sem"),
             Ins2("work", "inside"),
             Ins2("sem_post", "sem"))
  BY DEF Tells3, Ins2, Th!Text, Th!Limited
<1>2. t \in Th!Thread
  BY DEF Th!Thread
<1>3. Len(Th!Text(t)) = 3
  BY ONLY <1>1, Tell3
<1>4. ASSUME NEW op, Th!Is(t, op)
      PROVE  \/ pc[t] = 1 /\ op = "sem_wait" /\ Th!Arg(t) = "sem"
             \/ pc[t] = 2 /\ op = "work" /\ Th!Arg(t) = "inside"
             \/ pc[t] = 3 /\ op = "sem_post" /\ Th!Arg(t) = "sem"
  <2>1. /\ pc[t] \in Nat \ {0} /\ pc[t] <= 3
        /\ Th!Text(t)[pc[t]][1] = op /\ Th!Arg(t) = Th!Text(t)[pc[t]][2]
    BY <1>2, <1>3, <1>4 DEF Th!Is, Th!Ended, Th!Arg
  <2>2. \/ At(Th!Text(t), pc[t], 1, Ins2("sem_wait", "sem"))
        \/ At(Th!Text(t), pc[t], 2, Ins2("work", "inside"))
        \/ At(Th!Text(t), pc[t], 3, Ins2("sem_post", "sem"))
    BY ONLY <1>1, <2>1, Tell3
  <2>3. \/ Told(Th!Text(t), pc[t], 1, "sem_wait", "sem")
        \/ Told(Th!Text(t), pc[t], 2, "work", "inside")
        \/ Told(Th!Text(t), pc[t], 3, "sem_post", "sem")
    BY ONLY <2>2, ToldParts
  <2> QED BY ONLY <2>1, <2>3 DEF Told
<1> QED BY <1>3, <1>4

\* The main of clone and its thread.
LEMMA CloneMainLine ==
    ASSUME program = "clone", pc \in [Th!Thread -> Nat]
    PROVE  /\ Len(Th!Text(0)) = 4
           /\ \A op : Th!Is(0, op) =>
                 \/ pc[0] = 1 /\ op = "create" /\ Th!Arg(0) = 1
                 \/ pc[0] = 2 /\ op = "sem_wait" /\ Th!Arg(0) = "sem"
                 \/ pc[0] = 3 /\ op = "free" /\ Th!Arg(0) = 1
                 \/ pc[0] = 4 /\ op = "work" /\ Th!Arg(0) = "exit"
<1>1. Tells4(Th!Text(0), Ins2("create", 1),
             Ins2("sem_wait", "sem"),
             Ins2("free", 1),
             Ins2("work", "exit"))
  BY DEF Tells4, Ins2, Th!Text, Th!Clone
<1>2. 0 \in Th!Thread
  BY DEF Th!Thread
<1>3. Len(Th!Text(0)) = 4
  BY ONLY <1>1, Tell4
<1>4. ASSUME NEW op, Th!Is(0, op)
      PROVE  \/ pc[0] = 1 /\ op = "create" /\ Th!Arg(0) = 1
             \/ pc[0] = 2 /\ op = "sem_wait" /\ Th!Arg(0) = "sem"
             \/ pc[0] = 3 /\ op = "free" /\ Th!Arg(0) = 1
             \/ pc[0] = 4 /\ op = "work" /\ Th!Arg(0) = "exit"
  <2>1. /\ pc[0] \in Nat \ {0} /\ pc[0] <= 4
        /\ Th!Text(0)[pc[0]][1] = op /\ Th!Arg(0) = Th!Text(0)[pc[0]][2]
    BY <1>2, <1>3, <1>4 DEF Th!Is, Th!Ended, Th!Arg
  <2>2. \/ At(Th!Text(0), pc[0], 1, Ins2("create", 1))
        \/ At(Th!Text(0), pc[0], 2, Ins2("sem_wait", "sem"))
        \/ At(Th!Text(0), pc[0], 3, Ins2("free", 1))
        \/ At(Th!Text(0), pc[0], 4, Ins2("work", "exit"))
    BY ONLY <1>1, <2>1, Tell4
  <2>3. \/ Told(Th!Text(0), pc[0], 1, "create", 1)
        \/ Told(Th!Text(0), pc[0], 2, "sem_wait", "sem")
        \/ Told(Th!Text(0), pc[0], 3, "free", 1)
        \/ Told(Th!Text(0), pc[0], 4, "work", "exit")
    BY ONLY <2>2, ToldParts
  <2> QED BY ONLY <2>1, <2>3 DEF Told
<1> QED BY <1>3, <1>4

\* The thread that clone makes, by the line.
LEMMA CloneLine ==
    ASSUME program = "clone", pc \in [Th!Thread -> Nat]
    PROVE  /\ Len(Th!Text(1)) = 3
           /\ \A op : Th!Is(1, op) =>
                 \/ pc[1] = 1 /\ op = "work" /\ Th!Arg(1) = "hello"
                 \/ pc[1] = 2 /\ op = "sem_post" /\ Th!Arg(1) = "sem"
                 \/ pc[1] = 3 /\ op = "return" /\ Th!Arg(1) = 1
<1>1. Tells3(Th!Text(1), Ins2("work", "hello"),
             Ins2("sem_post", "sem"),
             Ins2("return", 1))
  BY DEF Tells3, Ins2, Th!Text, Th!Clone
<1>2. 1 \in Th!Thread
  BY DEF Th!Thread
<1>3. Len(Th!Text(1)) = 3
  BY ONLY <1>1, Tell3
<1>4. ASSUME NEW op, Th!Is(1, op)
      PROVE  \/ pc[1] = 1 /\ op = "work" /\ Th!Arg(1) = "hello"
             \/ pc[1] = 2 /\ op = "sem_post" /\ Th!Arg(1) = "sem"
             \/ pc[1] = 3 /\ op = "return" /\ Th!Arg(1) = 1
  <2>1. /\ pc[1] \in Nat \ {0} /\ pc[1] <= 3
        /\ Th!Text(1)[pc[1]][1] = op /\ Th!Arg(1) = Th!Text(1)[pc[1]][2]
    BY <1>2, <1>3, <1>4 DEF Th!Is, Th!Ended, Th!Arg
  <2>2. \/ At(Th!Text(1), pc[1], 1, Ins2("work", "hello"))
        \/ At(Th!Text(1), pc[1], 2, Ins2("sem_post", "sem"))
        \/ At(Th!Text(1), pc[1], 3, Ins2("return", 1))
    BY ONLY <1>1, <2>1, Tell3
  <2>3. \/ Told(Th!Text(1), pc[1], 1, "work", "hello")
        \/ Told(Th!Text(1), pc[1], 2, "sem_post", "sem")
        \/ Told(Th!Text(1), pc[1], 3, "return", 1)
    BY ONLY <2>2, ToldParts
  <2> QED BY ONLY <2>1, <2>3 DEF Told
<1> QED BY <1>3, <1>4

\* Nobody else has anything to do.
LEMMA NobodyElse ==
    ASSUME pc \in [Th!Thread -> Nat], NEW t \in Th!Thread \ {0, 1},
           (program = "condition" /\ t # 2) \/ program = "clone"
    PROVE  \A op : ~ Th!Is(t, op)
<1>1. Th!Text(t) = <<>> /\ pc[t] \in Nat
  BY DEF Th!Text, Th!Condition, Th!Two, Th!Clone
<1>2. pc[t] # 0 => Th!Ended(t)
  BY <1>1 DEF Th!Ended
<1> QED BY <1>2 DEF Th!Is

\* Of a team nobody creates threads but main, and whoever has ended is behind the
\* length of what the team is told.
LEMMA TeamOps ==
    ASSUME program \in Teams, pc \in [Th!Thread -> Nat], NEW t \in 1 .. NUM_THREADS
    PROVE  /\ ~ Th!Is(t, "create") /\ ~ Th!Is(t, "create or exit")
           /\ t <= Size /\ Th!Ended(t) => pc[t] > Length
<1>1. CASE program \in Mutexed
  <2>1. ~ Th!Is(t, "create") /\ ~ Th!Is(t, "create or exit")
    BY <1>1, MutexLine DEF Th!Is
  <2>2. Len(Th!Text(t)) = Length
    BY <1>1, MutexLine
  <2> QED BY <2>1, <2>2 DEF Th!Ended
<1>2. CASE program \in Racing
  <2>1. ~ Th!Is(t, "create") /\ ~ Th!Is(t, "create or exit")
    BY <1>2, RaceLine DEF Th!Is
  <2>2. Len(Th!Text(t)) = Length
    BY <1>2, RaceLine
  <2> QED BY <2>1, <2>2 DEF Th!Ended
<1>3. CASE program = "semaphore"
  <2>1. ~ Th!Is(t, "create") /\ ~ Th!Is(t, "create or exit")
    BY <1>3, LimitedLine DEF Th!Is
  <2>2. Len(Th!Text(t)) = Length
    BY <1>3, LimitedLine DEF Length, Mutexed, Racing
  <2> QED BY <2>1, <2>2 DEF Th!Ended
<1>4. CASE program = "condition"
  <2>1. Length = 4 /\ Size = 2
    BY <1>4 DEF Length, Mutexed, Racing, Size
  <2>2. CASE t = 1
    <3>1. ~ Th!Is(1, "create") /\ ~ Th!Is(1, "create or exit")
      BY <1>4, ProducerLine DEF Th!Is
    <3>2. Len(Th!Text(t)) = 5 /\ pc[t] \in Nat
      BY <1>4, <2>2, ProducerLine DEF Th!Thread
    <3>3. Th!Ended(t) => pc[t] > 4
      BY <3>2 DEF Th!Ended
    <3> QED BY <2>1, <2>2, <3>1, <3>3
  <2>3. CASE t = 2
    <3>1. ~ Th!Is(2, "create") /\ ~ Th!Is(2, "create or exit")
      BY <1>4, ConsumerLine DEF Th!Is
    <3>2. Len(Th!Text(t)) = 4
      BY <1>4, <2>3, ConsumerLine
    <3> QED BY <2>1, <2>3, <3>1, <3>2 DEF Th!Ended
  <2>4. CASE t > 2
    <3>1. t \in Th!Thread \ {0, 1} /\ t # 2
      BY <2>4 DEF Th!Thread
    <3>2. ~ Th!Is(t, "create") /\ ~ Th!Is(t, "create or exit")
      BY <1>4, <3>1, NobodyElse
    <3>3. ~ (t <= Size)
      BY <2>1, <2>4
    <3> QED BY <3>2, <3>3
  <2>5. t = 1 \/ t = 2 \/ t > 2
    OBVIOUS
  <2> QED BY <2>2, <2>3, <2>4, <2>5
<1> QED BY <1>1, <1>2, <1>3, <1>4 DEF Teams

\* A step moves its thread, creates one, or moves nobody.
LEMMA PcStep ==
    ASSUME pc \in [Th!Thread -> Nat], NEW t \in Th!Thread, Th!Step(t) \/ Th!WakeSpuriously(t)
    PROVE  /\ pc' \in [Th!Thread -> Nat]
           /\ \/ pc' = pc
              \/ /\ pc'[t] = pc[t] + 1 /\ \E op : Th!Is(t, op)
                 /\ \A r \in Th!Thread \ {t} : pc'[r] = pc[r]
                 /\ Th!Is(t, "join") => Th!Ended(Th!Arg(t))
              \/ /\ Th!Is(t, "create") \/ Th!Is(t, "create or exit")
                 /\ pc' = [pc EXCEPT ![t] = @ + 1, ![Th!Arg(t)] = 1]
<1>1. CASE Th!Create(t)
  <2>1. /\ Th!Is(t, "create") \/ Th!Is(t, "create or exit")
        /\ pc' = [pc EXCEPT ![t] = @ + 1, ![Th!Arg(t)] = 1]
    BY <1>1 DEF Th!Create
  <2>2. pc' \in [Th!Thread -> Nat]
    <3>1. [pc EXCEPT ![t] = pc[t] + 1] \in [Th!Thread -> Nat]
      OBVIOUS
    <3> QED BY ONLY <2>1, <3>1
  <2> QED BY <2>1, <2>2
<1>2. CASE Th!Advance(t) /\ (\E op : Th!Is(t, op)) /\ (Th!Is(t, "join") => Th!Ended(Th!Arg(t)))
  <2>1. pc' = [pc EXCEPT ![t] = pc[t] + 1]
    BY <1>2 DEF Th!Advance
  <2>2. pc' \in [Th!Thread -> Nat]
    BY ONLY <2>1, pc \in [Th!Thread -> Nat], t \in Th!Thread
  <2>3. pc'[t] = pc[t] + 1 /\ \A r \in Th!Thread \ {t} : pc'[r] = pc[r]
    BY ONLY <2>1, pc \in [Th!Thread -> Nat], t \in Th!Thread
  <2> QED BY ONLY <1>2, <2>2, <2>3
<1>3. CASE UNCHANGED pc
  BY <1>3
<1>4. CASE Th!CreateFails(t) \/ Th!Sleep(t) \/ Th!Relock(t) \/ Th!WakeSpuriously(t)
  BY <1>3, <1>4 DEF Th!CreateFails, Th!Sleep, Th!Relock, Th!WakeSpuriously
<1>5. CASE Th!Join(t)
  BY <1>2, <1>5 DEF Th!Join, Th!Is
<1>6. CASE \/ Th!Lock(t) \/ Th!Unlock(t) \/ Th!Load(t) \/ Th!Store(t) \/ Th!AwaitOver(t)
           \/ Th!Signal(t) \/ Th!SemWait(t) \/ Th!SemPost(t) \/ Th!Work(t) \/ Th!Free(t)
           \/ Th!ReturnOn(t)
  <2>1. ~ Th!Is(t, "join")
    BY <1>6 DEF Th!Lock, Th!Unlock, Th!Load, Th!Store, Th!AwaitOver, Th!Signal, Th!SemWait,
                Th!SemPost, Th!Work, Th!Free, Th!ReturnOn, Th!Is
  <2>2. Th!Advance(t) /\ \E op : Th!Is(t, op)
    BY <1>6 DEF Th!Lock, Th!Unlock, Th!Load, Th!Store, Th!AwaitOver, Th!Signal, Th!SemWait,
                Th!SemPost, Th!Work, Th!Free, Th!ReturnOn
  <2> QED BY <1>2, <2>1, <2>2
<1> QED BY <1>1, <1>4, <1>5, <1>6 DEF Th!Step

\* How far main has come tells who has been created and who has ended.
TeamInv ==
    /\ pc \in [Th!Thread -> Nat]
    /\ program \in Teams =>
          /\ pc[0] # 0
          /\ \A t \in 1 .. NUM_THREADS :
                /\ pc[0] <= t => pc[t] = 0
                /\ pc[0] > Size + t /\ t <= Size => pc[t] > Length

\* TeamInv holds as threads start, run and are joined.
LEMMA TeamStep == TeamInv /\ Th!Next /\ program' = program => TeamInv'
<1> SUFFICES ASSUME TeamInv, program' = program, NEW t \in Th!Thread,
                    Th!Step(t) \/ Th!WakeSpuriously(t)
             PROVE  TeamInv'
  BY DEF Th!Next
<1>1. pc \in [Th!Thread -> Nat]
  BY DEF TeamInv
<1>2. /\ pc' \in [Th!Thread -> Nat]
      /\ \/ pc' = pc
         \/ /\ pc'[t] = pc[t] + 1 /\ \E op : Th!Is(t, op)
            /\ \A r \in Th!Thread \ {t} : pc'[r] = pc[r]
            /\ Th!Is(t, "join") => Th!Ended(Th!Arg(t))
         \/ /\ Th!Is(t, "create") \/ Th!Is(t, "create or exit")
            /\ pc' = [pc EXCEPT ![t] = pc[t] + 1, ![Th!Arg(t)] = 1]
  BY <1>1, PcStep
<1>3. CASE program \notin Teams
  BY <1>2, <1>3 DEF TeamInv
<1>4. CASE program \in Teams
  <2> DEFINE At0(p) == p[0] # 0 /\ \A r \in 1 .. NUM_THREADS :
                          /\ p[0] <= r => p[r] = 0
                          /\ p[0] > Size + r /\ r <= Size => p[r] > Length
  <2>1. At0(pc)
    BY <1>4 DEF TeamInv
  <2>2. SUFFICES At0(pc')
    BY <1>2 DEF TeamInv, Size, Length
  <2>3. Size \in Nat /\ Length \in Nat /\ Size <= NUM_THREADS /\ NUM_THREADS \in Nat
    BY DEF Size, Length
  <2>4. 0 \in Th!Thread /\ \A r \in 1 .. NUM_THREADS : r \in Th!Thread \ {0}
    BY DEF Th!Thread
  <2>5. t = 0 \/ t \in 1 .. NUM_THREADS
    BY DEF Th!Thread
  <2>6. CASE pc' = pc
    BY <2>1, <2>6
  <2>7. CASE /\ Th!Is(t, "create") \/ Th!Is(t, "create or exit")
             /\ pc' = [pc EXCEPT ![t] = pc[t] + 1, ![Th!Arg(t)] = 1]
    <3>1. t = 0
      BY <1>1, <1>4, <2>5, <2>7, TeamOps
    <3>2. pc[0] \in 1 .. Size /\ Th!Arg(0) = pc[0]
      <4>1. PICK op \in {"create", "create or exit"} : Th!Is(0, op)
        BY <2>7, <3>1
      <4>2. \/ pc[0] \in 1 .. Size /\ op \in {"create", "create or exit"} /\ Th!Arg(0) = pc[0]
            \/ pc[0] \in Size + 1 .. 2 * Size /\ op = "join" /\ Th!Arg(0) = pc[0] - Size
        BY ONLY <1>1, <1>4, <4>1, TeamLine
      <4> QED BY <4>1, <4>2
    <3>3. pc[0] \in Th!Thread \ {0}
      BY <2>3, <2>4, <3>2
    <3>4. pc'[0] = pc[0] + 1 /\ \A r \in Th!Thread \ {0} : pc'[r] = IF r = pc[0] THEN 1 ELSE pc[r]
      BY ONLY <1>1, <2>4, <2>7, <3>1, <3>2, <3>3
    <3>5. ASSUME NEW r \in 1 .. NUM_THREADS
          PROVE  /\ pc'[0] <= r => pc'[r] = 0
                 /\ pc'[0] > Size + r /\ r <= Size => pc'[r] > Length
      BY ONLY <2>1, <2>3, <2>4, <3>2, <3>4, <3>5
    <3> QED BY ONLY <3>2, <3>4, <3>5, <2>3
  <2>8. CASE /\ pc'[t] = pc[t] + 1 /\ \E op : Th!Is(t, op)
             /\ \A r \in Th!Thread \ {t} : pc'[r] = pc[r]
             /\ Th!Is(t, "join") => Th!Ended(Th!Arg(t))
    <3>1. PICK op : Th!Is(t, op)
      BY <2>8
    <3>2. pc[t] \in Nat /\ pc[t] # 0
      BY <1>1, <3>1 DEF Th!Is
    <3>3. CASE t \in 1 .. NUM_THREADS
      <4>1. pc'[0] = pc[0]
        BY <2>4, <2>8, <3>3
      <4>2. ASSUME NEW r \in 1 .. NUM_THREADS
            PROVE  /\ pc'[0] <= r => pc'[r] = 0
                   /\ pc'[0] > Size + r /\ r <= Size => pc'[r] > Length
        <5>1. CASE r = t
          BY ONLY <2>1, <2>3, <2>8, <3>2, <3>3, <4>1, <5>1
        <5>2. CASE r # t
          BY ONLY <2>1, <2>4, <2>8, <4>1, <4>2, <5>2
        <5> QED BY <5>1, <5>2
      <4> QED BY ONLY <2>1, <4>1, <4>2
    <3>4. CASE t = 0
      <4>1. \A r \in 1 .. NUM_THREADS : pc'[r] = pc[r]
        BY ONLY <2>4, <2>8, <3>4
      <4>2. pc'[0] = pc[0] + 1 /\ pc[0] \in Nat
        BY ONLY <2>8, <3>2, <3>4
      <4>3. pc[0] > Size => pc[0] - Size \in 1 .. Size /\ pc[pc[0] - Size] > Length
        <5> SUFFICES ASSUME pc[0] > Size
                     PROVE  pc[0] - Size \in 1 .. Size /\ pc[pc[0] - Size] > Length
          OBVIOUS
        <5>1. pc[0] \in Size + 1 .. 2 * Size /\ op = "join" /\ Th!Arg(0) = pc[0] - Size
          <6>1. \/ pc[0] \in 1 .. Size /\ op \in {"create", "create or exit"} /\ Th!Arg(0) = pc[0]
                \/ pc[0] \in Size + 1 .. 2 * Size /\ op = "join" /\ Th!Arg(0) = pc[0] - Size
            BY ONLY <1>1, <1>4, <3>1, <3>4, TeamLine
          <6>2. ~ (pc[0] \in 1 .. Size)
            BY <2>3
          <6> QED BY ONLY <6>1, <6>2
        <5>2. Th!Ended(pc[0] - Size)
          BY <2>8, <3>1, <3>4, <5>1
        <5>3. pc[0] - Size \in 1 .. Size /\ pc[0] - Size \in 1 .. NUM_THREADS
          BY <2>3, <5>1
        <5>4. pc[0] - Size <= Size /\ Th!Ended(pc[0] - Size) => pc[pc[0] - Size] > Length
          BY ONLY <1>1, <1>4, <5>3, TeamOps
        <5> QED BY <2>3, <5>2, <5>3, <5>4
      <4>4. ASSUME NEW r \in 1 .. NUM_THREADS
            PROVE  /\ pc'[0] <= r => pc'[r] = 0
                   /\ pc'[0] > Size + r /\ r <= Size => pc'[r] > Length
        <5>1. pc'[0] <= r => pc'[r] = 0
          BY ONLY <2>1, <4>1, <4>2, <4>4
        <5>2. ASSUME pc'[0] > Size + r, r <= Size PROVE pc'[r] > Length
          <6>1. pc[0] > Size + r \/ (pc[0] > Size /\ r = pc[0] - Size)
            BY ONLY <2>3, <4>2, <4>4, <5>2
          <6> QED BY ONLY <2>1, <4>1, <4>3, <4>4, <5>2, <6>1
        <5> QED BY ONLY <5>1, <5>2
      <4> QED BY ONLY <4>2, <4>4
    <3> QED BY <2>5, <3>3, <3>4
  <2> QED BY <1>2, <2>6, <2>7, <2>8
<1> QED BY <1>3, <1>4

\* The k-th store of a thread that counts, and the stores that are done.
StoreAt(k) == IF program \in Mutexed THEN 4 * k - 1 ELSE 2 * k

Counts == (1 .. NUM_THREADS) \X (1 .. NUM_INCREMENTS)

Done == {c \in Counts : pc[c[1]] > StoreAt(c[2])}

Typed ==
    /\ reg \in [Th!Thread -> Nat]
    /\ mem \in [Th!Var -> Nat]
    /\ owner \in [Th!Mutex -> Th!Thread \cup {None}]

\* With the mutex, every store that is done counts: who is between its lock and its
\* unlock holds the mutex, and has loaded what is there.
MutexInv ==
    program \in Mutexed =>
       /\ Typed
       /\ mem["counter"] = Cardinality(Done)
       /\ \A t \in 1 .. NUM_THREADS :
             pc[t] # 0 /\ pc[t] <= Length =>
                /\ pc[t] % 4 # 1 => owner["mutex1"] = t
                /\ pc[t] % 4 = 3 => reg[t] = mem["counter"]

\* No thread of the team does anything, but some may be created.
Still ==
    /\ UNCHANGED <<reg, mem, owner, sem>>
    /\ \A r \in 1 .. NUM_THREADS : pc'[r] = pc[r] \/ (pc[r] = 0 /\ pc'[r] = 1)

\* One of the team does what it is at.
Moves(t) ==
    /\ t \in 1 .. NUM_THREADS
    /\ pc'[t] = pc[t] + 1
    /\ \A r \in Th!Thread \ {t} : pc'[r] = pc[r]

\* main creates and joins, and leaves the rest alone.
LEMMA MainStep ==
    ASSUME program \in Teams, TeamInv, NEW t \in {0}, Th!Step(t)
    PROVE  Still
<1>1. pc \in [Th!Thread -> Nat] /\ 0 \in Th!Thread
  BY DEF TeamInv, Th!Thread
<1>2. \A op : Th!Is(0, op) =>
         \/ /\ pc[0] \in 1 .. Size /\ op \in {"create", "create or exit"}
            /\ Th!Arg(0) = pc[0]
         \/ /\ pc[0] \in Size + 1 .. 2 * Size /\ op = "join"
            /\ Th!Arg(0) = pc[0] - Size
  BY ONLY <1>1, program \in Teams, TeamLine
<1>3. \A op : Th!Is(0, op) => op \in {"create", "create or exit", "join"}
  BY ONLY <1>2
<1>4. t = 0
  OBVIOUS
<1>8. Th!Create(0) \/ Th!CreateFails(0) \/ Th!Join(0)
  <2>1. /\ ~ Th!Is(0, "lock") /\ ~ Th!Is(0, "unlock") /\ ~ Th!Is(0, "load")
        /\ ~ Th!Is(0, "store") /\ ~ Th!Is(0, "set") /\ ~ Th!Is(0, "await")
        /\ ~ Th!Is(0, "signal") /\ ~ Th!Is(0, "sem_wait") /\ ~ Th!Is(0, "sem_post")
        /\ ~ Th!Is(0, "work") /\ ~ Th!Is(0, "free") /\ ~ Th!Is(0, "return")
    BY <1>3 DEF Th!Is
  <2> QED
    BY <1>4, <2>1 DEF Th!Step, Th!Lock, Th!Unlock, Th!Load, Th!Store, Th!AwaitOver, Th!Sleep,
                Th!Relock, Th!Signal, Th!SemWait, Th!SemPost, Th!Work, Th!Free, Th!ReturnOn
<1>5. CASE Th!Create(0)
  <2>2. pc[0] \in 1 .. Size /\ Th!Arg(0) = pc[0]
    <3>1. PICK op \in {"create", "create or exit"} : Th!Is(0, op)
      BY <1>5 DEF Th!Create
    <3> QED BY ONLY <1>2, <3>1
  <2>3. Size <= NUM_THREADS /\ Size \in Nat
    BY DEF Size
  <2>4. pc[0] \in 1 .. NUM_THREADS /\ pc[0] \in Th!Thread \ {0}
    BY <2>2, <2>3 DEF Th!Thread
  <2>5. pc' = [pc EXCEPT ![0] = pc[0] + 1, ![pc[0]] = 1]
    BY <1>5, <2>2 DEF Th!Create
  <2>6. pc[pc[0]] = 0
    BY ONLY <2>4, program \in Teams, TeamInv, NUM_THREADS \in Nat DEF TeamInv
  <2>7. \A r \in 1 .. NUM_THREADS : r \in Th!Thread \ {0}
    BY DEF Th!Thread
  <2>8. \A r \in 1 .. NUM_THREADS : pc'[r] = pc[r] \/ (pc[r] = 0 /\ pc'[r] = 1)
    BY ONLY <1>1, <2>4, <2>5, <2>6, <2>7
  <2> QED BY <1>5, <2>8 DEF Still, Th!Create
<1>6. CASE Th!CreateFails(0)
  BY <1>6 DEF Still, Th!CreateFails
<1>7. CASE Th!Join(0)
  <2>1. \A r \in 1 .. NUM_THREADS : r \in Th!Thread \ {0}
    BY DEF Th!Thread
  <2>2. \A r \in 1 .. NUM_THREADS : pc'[r] = pc[r]
    BY <1>1, <1>7, <2>1 DEF Th!Join, Th!Advance
  <2> QED BY <1>7, <2>2 DEF Still, Th!Join
<1> QED BY <1>8, <1>5, <1>6, <1>7

\* Who advances moves, alone.
LEMMA Advances ==
    ASSUME pc \in [Th!Thread -> Nat], NEW t \in 1 .. NUM_THREADS, Th!Advance(t)
    PROVE  Moves(t)
BY DEF Moves, Th!Advance, Th!Thread

\* What a step is in the programs that count with the mutex.
LEMMA MutexMoves ==
    ASSUME program \in Mutexed, TeamInv, NEW t \in Th!Thread, Th!Step(t) \/ Th!WakeSpuriously(t)
    PROVE  \/ Still
           \/ /\ Moves(t) /\ pc[t] \in 1 .. Length
              /\ \/ /\ pc[t] % 4 = 1 /\ owner["mutex1"] = None
                    /\ owner' = [owner EXCEPT !["mutex1"] = t]
                    /\ UNCHANGED <<reg, mem>>
                 \/ /\ pc[t] % 4 = 2
                    /\ reg' = [reg EXCEPT ![t] = mem["counter"]]
                    /\ UNCHANGED <<mem, owner>>
                 \/ /\ pc[t] % 4 = 3
                    /\ mem' = [mem EXCEPT !["counter"] = reg[t] + 1]
                    /\ UNCHANGED <<reg, owner>>
                 \/ /\ pc[t] % 4 = 0
                    /\ owner' = [owner EXCEPT !["mutex1"] = None]
                    /\ UNCHANGED <<reg, mem>>
<1>1. pc \in [Th!Thread -> Nat] /\ program \in Teams
  BY DEF TeamInv, Teams
<1>2. CASE Th!WakeSpuriously(t)
  BY <1>2 DEF Still, Th!WakeSpuriously
<1>3. CASE t = 0 /\ Th!Step(t)
  BY <1>1, <1>3, MainStep
<1>4. CASE t \in 1 .. NUM_THREADS /\ Th!Step(t)
  <2>1. \A op : Th!Is(t, op) =>
           /\ pc[t] \in 1 .. Length
           /\ \/ pc[t] % 4 = 1 /\ op = "lock" /\ Th!Arg(t) = "mutex1"
              \/ pc[t] % 4 = 2 /\ op = "load" /\ Th!Arg(t) = "counter"
              \/ pc[t] % 4 = 3 /\ op = "store" /\ Th!Arg(t) = "counter"
              \/ pc[t] % 4 = 0 /\ op = "unlock" /\ Th!Arg(t) = "mutex1"
    BY ONLY <1>1, <1>4, program \in Mutexed, MutexLine
  <2>2. \A op : Th!Is(t, op) => op \in {"lock", "load", "store", "unlock"}
    BY ONLY <2>1
  <2>3. Th!Lock(t) \/ Th!Load(t) \/ Th!Store(t) \/ Th!Unlock(t)
    <3>1. /\ ~ Th!Is(t, "create") /\ ~ Th!Is(t, "create or exit") /\ ~ Th!Is(t, "join")
          /\ ~ Th!Is(t, "await") /\ ~ Th!Is(t, "signal") /\ ~ Th!Is(t, "sem_wait")
          /\ ~ Th!Is(t, "sem_post") /\ ~ Th!Is(t, "work") /\ ~ Th!Is(t, "free")
          /\ ~ Th!Is(t, "return")
      BY <2>2 DEF Th!Is
    <3> QED
      BY <1>4, <3>1 DEF Th!Step, Th!Create, Th!CreateFails, Th!Join, Th!AwaitOver, Th!Sleep,
                  Th!Relock, Th!Signal, Th!SemWait, Th!SemPost, Th!Work, Th!Free, Th!ReturnOn
  <2>4. CASE Th!Lock(t)
    <3>1. pc[t] \in 1 .. Length /\ pc[t] % 4 = 1 /\ Th!Arg(t) = "mutex1"
      BY <2>1, <2>4 DEF Th!Lock
    <3>2. Moves(t)
      BY <1>1, <1>4, <2>4, Advances DEF Th!Lock
    <3> QED BY <2>4, <3>1, <3>2 DEF Th!Lock
  <2>5. CASE Th!Load(t)
    <3>1. pc[t] \in 1 .. Length /\ pc[t] % 4 = 2 /\ Th!Arg(t) = "counter"
      BY <2>1, <2>5 DEF Th!Load
    <3>2. Moves(t)
      BY <1>1, <1>4, <2>5, Advances DEF Th!Load
    <3> QED BY <2>5, <3>1, <3>2 DEF Th!Load
  <2>6. CASE Th!Store(t)
    <3>1. Th!Is(t, "store")
      BY <2>2, <2>6 DEF Th!Store
    <3>2. pc[t] \in 1 .. Length /\ pc[t] % 4 = 3 /\ Th!Arg(t) = "counter"
      BY <2>1, <3>1
    <3>3. Moves(t)
      BY <1>1, <1>4, <2>6, Advances DEF Th!Store
    <3> QED BY <2>6, <3>1, <3>2, <3>3 DEF Th!Store
  <2>7. CASE Th!Unlock(t)
    <3>1. pc[t] \in 1 .. Length /\ pc[t] % 4 = 0 /\ Th!Arg(t) = "mutex1"
      BY <2>1, <2>7 DEF Th!Unlock
    <3>2. Moves(t)
      BY <1>1, <1>4, <2>7, Advances DEF Th!Unlock
    <3> QED BY <2>7, <3>1, <3>2 DEF Th!Unlock
  <2> QED BY <2>3, <2>4, <2>5, <2>6, <2>7
<1> QED BY <1>2, <1>3, <1>4 DEF Th!Thread

\* A store adds one to those done, and no other step does.
LEMMA DoneFinite == IsFiniteSet(Counts) /\ IsFiniteSet(Done) /\ Cardinality(Done) \in Nat
<1>1. IsFiniteSet(1 .. NUM_THREADS) /\ IsFiniteSet(1 .. NUM_INCREMENTS)
  BY FS_Interval
<1>2. IsFiniteSet(Counts)
  BY <1>1, FS_Product DEF Counts
<1>3. IsFiniteSet(Done)
  BY <1>2, FS_Subset DEF Done
<1> QED BY <1>2, <1>3, FS_CardinalityType

\* What is done stays as it is while nobody passes a store.
LEMMA DoneStays ==
    ASSUME program' = program, pc \in [Th!Thread -> Nat],
           \A r \in 1 .. NUM_THREADS :
              \/ pc'[r] = pc[r]
              \/ pc[r] \in Nat /\ pc'[r] = pc[r] + 1 /\
                    (\A k \in 1 .. NUM_INCREMENTS : pc[r] # StoreAt(k))
    PROVE  Done' = Done
<1>1. \A k \in 1 .. NUM_INCREMENTS : StoreAt(k) \in Nat
  BY DEF StoreAt
<1>2. \A k : StoreAt(k)' = StoreAt(k)
  BY DEF StoreAt
<1>3. \A c \in Counts : c[1] \in 1 .. NUM_THREADS /\ c[2] \in 1 .. NUM_INCREMENTS
  BY DEF Counts
<1>4. \A r \in 1 .. NUM_THREADS : pc[r] \in Nat
  BY DEF Th!Thread
<1>5. \A r \in 1 .. NUM_THREADS, k \in 1 .. NUM_INCREMENTS :
         pc'[r] > StoreAt(k) <=> pc[r] > StoreAt(k)
  BY ONLY <1>1, <1>4, \A r \in 1 .. NUM_THREADS :
              \/ pc'[r] = pc[r]
              \/ pc[r] \in Nat /\ pc'[r] = pc[r] + 1 /\
                    (\A k \in 1 .. NUM_INCREMENTS : pc[r] # StoreAt(k))
<1>6. Done' = {c \in Counts : pc'[c[1]] > StoreAt(c[2])}
  BY <1>2 DEF Done, Counts
<1> QED BY <1>3, <1>5, <1>6 DEF Done

\* Who passes a store adds one.
LEMMA DoneGrows ==
    ASSUME program' = program, pc \in [Th!Thread -> Nat], NEW t \in 1 .. NUM_THREADS,
           Moves(t), NEW k \in 1 .. NUM_INCREMENTS, pc[t] = StoreAt(k)
    PROVE  Cardinality(Done') = Cardinality(Done) + 1
<1>1. \A i \in 1 .. NUM_INCREMENTS : StoreAt(i) \in Nat /\ (StoreAt(i) = StoreAt(k) => i = k)
  BY DEF StoreAt
<1>2. \A i : StoreAt(i)' = StoreAt(i)
  BY DEF StoreAt
<1>3. \A c \in Counts :
         c[1] \in 1 .. NUM_THREADS /\ c[2] \in 1 .. NUM_INCREMENTS /\ c = <<c[1], c[2]>>
  BY DEF Counts
<1>4. <<t, k>> \in Counts
  BY DEF Counts
<1>5. \A r \in 1 .. NUM_THREADS : pc[r] \in Nat /\ (r # t => pc'[r] = pc[r])
  BY DEF Th!Thread, Moves
<1>6. pc'[t] = pc[t] + 1
  BY DEF Moves
<1>7. Done' = {c \in Counts : pc'[c[1]] > StoreAt(c[2])}
  BY <1>2 DEF Done, Counts
<1>8. \A r \in 1 .. NUM_THREADS, i \in 1 .. NUM_INCREMENTS :
         pc'[r] > StoreAt(i) <=> pc[r] > StoreAt(i) \/ (r = t /\ i = k)
  BY ONLY <1>1, <1>5, <1>6, pc[t] = StoreAt(k), k \in 1 .. NUM_INCREMENTS, t \in 1 .. NUM_THREADS
<1>9. \A c \in Counts : c = <<t, k>> <=> c[1] = t /\ c[2] = k
  BY <1>3
<1>10. Done' = Done \cup {<<t, k>>}
  <2>1. \A c \in Counts : pc'[c[1]] > StoreAt(c[2]) <=> pc[c[1]] > StoreAt(c[2]) \/ c = <<t, k>>
    BY ONLY <1>3, <1>8, <1>9
  <2> QED BY ONLY <1>4, <1>7, <2>1 DEF Done
<1>11. <<t, k>> \notin Done
  BY <1>1, <1>4 DEF Done
<1> QED BY <1>10, <1>11, DoneFinite, FS_AddElement

\* MutexInv holds at every step: the mutex keeps the loads and stores of one thread
\* together.
LEMMA MutexStep ==
    TeamInv /\ MutexInv /\ Th!Next /\ program' = program => MutexInv'
<1> SUFFICES ASSUME TeamInv, MutexInv, program' = program, program \in Mutexed,
                    NEW t \in Th!Thread, Th!Step(t) \/ Th!WakeSpuriously(t)
             PROVE  /\ Typed'
                    /\ mem'["counter"] = Cardinality(Done')
                    /\ \A r \in 1 .. NUM_THREADS :
                          pc'[r] # 0 /\ pc'[r] <= Length =>
                             /\ pc'[r] % 4 # 1 => owner'["mutex1"] = r
                             /\ pc'[r] % 4 = 3 => reg'[r] = mem'["counter"]
  BY DEF Th!Next, MutexInv, Length
<1> DEFINE Held(p, r) == p[r] # 0 /\ p[r] <= Length /\ p[r] % 4 # 1
           Read(p, r) == p[r] # 0 /\ p[r] <= Length /\ p[r] % 4 = 3
           Own == owner["mutex1"]
           Count == mem["counter"]
<1>1. /\ Typed
      /\ Count = Cardinality(Done)
      /\ \A r \in 1 .. NUM_THREADS : Held(pc, r) => Own = r
      /\ \A r \in 1 .. NUM_THREADS : Read(pc, r) => reg[r] = Count
  BY DEF MutexInv
<1>2. SUFFICES /\ Typed'
               /\ mem'["counter"] = Cardinality(Done')
               /\ \A r \in 1 .. NUM_THREADS : Held(pc', r) => owner'["mutex1"] = r
               /\ \A r \in 1 .. NUM_THREADS : Read(pc', r) => reg'[r] = mem'["counter"]
  OBVIOUS
<1>3. pc \in [Th!Thread -> Nat] /\ Count \in Nat /\ Length = 4 * NUM_INCREMENTS /\ Length \in Nat
  BY <1>1 DEF TeamInv, Typed, Th!Var, Length
<1>4. /\ \A r \in 1 .. NUM_THREADS : r \in Th!Thread /\ pc[r] \in Nat /\ reg[r] \in Nat
      /\ \A r \in 1 .. NUM_THREADS : r # None
  BY <1>1, <1>3 DEF Typed, Th!Thread
<1>5. \A k \in 1 .. NUM_INCREMENTS : StoreAt(k) = 4 * k - 1
  BY DEF StoreAt
<1>6. \A k \in 1 .. NUM_INCREMENTS, p \in Nat : p = StoreAt(k) => p % 4 = 3
  BY ONLY <1>5, NUM_INCREMENTS \in Nat
<1>7. CASE Still
  <2>1. Typed' /\ mem' = mem /\ reg' = reg /\ owner' = owner
    BY <1>1, <1>7 DEF Still, Typed
  <2>2. \A r \in 1 .. NUM_THREADS : pc'[r] = pc[r] \/ (pc[r] = 0 /\ pc'[r] = 1)
    BY <1>7 DEF Still
  <2>3. Done' = Done
    BY ONLY <1>3, <1>4, <1>6, <2>2, program' = program, NUM_INCREMENTS \in Nat, DoneStays
  <2>4. \A r \in 1 .. NUM_THREADS : (Held(pc', r) => Held(pc, r)) /\ (Read(pc', r) => Read(pc, r))
    BY ONLY <1>4, <2>2
  <2> QED BY ONLY <1>1, <2>1, <2>3, <2>4
<1>8. ASSUME Moves(t), pc[t] \in 1 .. Length, pc[t] % 4 # 3 PROVE Done' = Done
  <2>1. \A r \in 1 .. NUM_THREADS : pc'[r] = pc[r] \/ (r = t /\ pc'[r] = pc[r] + 1)
    BY <1>4, <1>8 DEF Moves
  <2>2. \A k \in 1 .. NUM_INCREMENTS : pc[t] # StoreAt(k)
    <3>1. pc[t] \in Nat
      BY <1>3, <1>8
    <3> QED BY ONLY <1>6, <1>8, <3>1
  <2>3. \A r \in 1 .. NUM_THREADS :
           \/ pc'[r] = pc[r]
           \/ pc[r] \in Nat /\ pc'[r] = pc[r] + 1 /\
                 (\A k \in 1 .. NUM_INCREMENTS : pc[r] # StoreAt(k))
    BY ONLY <1>4, <2>1, <2>2
  <2> QED BY ONLY <1>3, <2>3, program' = program, DoneStays
<1>9. ASSUME Moves(t) PROVE /\ t \in 1 .. NUM_THREADS /\ pc'[t] = pc[t] + 1
                            /\ \A r \in 1 .. NUM_THREADS : r # t => pc'[r] = pc[r]
  BY <1>4, <1>9 DEF Moves
<1>10. CASE /\ Moves(t) /\ pc[t] \in 1 .. Length
            /\ pc[t] % 4 = 1 /\ owner["mutex1"] = None
            /\ owner' = [owner EXCEPT !["mutex1"] = t]
            /\ UNCHANGED <<reg, mem>>
  <2>1. Typed' /\ owner'["mutex1"] = t
    BY <1>1, <1>10 DEF Typed, Th!Mutex
  <2>2. Done' = Done
    BY <1>8, <1>10
  <2>3. \A r \in 1 .. NUM_THREADS : ~ Held(pc, r)
    BY ONLY <1>1, <1>4, <1>10
  <2>4. t \in 1 .. NUM_THREADS /\ pc'[t] = pc[t] + 1
        /\ \A r \in 1 .. NUM_THREADS : r # t => pc'[r] = pc[r]
    BY <1>9, <1>10
  <2>5. \A r \in 1 .. NUM_THREADS : (Held(pc', r) => r = t) /\ ~ Read(pc', r)
    <3>1. \A n \in Nat : n % 4 = 1 => (n + 1) % 4 # 3
      OBVIOUS
    <3>2. pc[t] % 4 = 1
      BY <1>10
    <3>3. \A r \in 1 .. NUM_THREADS : Read(pc, r) => Held(pc, r)
      BY ONLY <1>4
    <3> QED BY ONLY <1>4, <2>3, <2>4, <3>1, <3>2, <3>3
  <2>6. mem' = mem
    BY <1>10
  <2> QED BY ONLY <1>1, <2>1, <2>2, <2>5, <2>6
<1>11. CASE /\ Moves(t) /\ pc[t] \in 1 .. Length
            /\ pc[t] % 4 = 2
            /\ reg' = [reg EXCEPT ![t] = mem["counter"]]
            /\ UNCHANGED <<mem, owner>>
  <2>1. Typed'
    BY <1>1, <1>3, <1>11 DEF Typed
  <2>2. Done' = Done
    BY <1>8, <1>11
  <2>3. t \in 1 .. NUM_THREADS /\ pc'[t] = pc[t] + 1
        /\ \A r \in 1 .. NUM_THREADS : r # t => pc'[r] = pc[r]
    BY <1>9, <1>11
  <2>4. reg'[t] = Count /\ \A r \in 1 .. NUM_THREADS : r # t => reg'[r] = reg[r]
    BY <1>1, <1>4, <1>11 DEF Typed
  <2>5. Held(pc, t)
    BY ONLY <1>4, <1>11
  <2>6. \A r \in 1 .. NUM_THREADS : Held(pc', r) => Held(pc, r)
    BY ONLY <1>4, <2>3, <2>5
  <2>7. \A r \in 1 .. NUM_THREADS : Read(pc', r) => r = t \/ Read(pc, r)
    BY ONLY <1>4, <2>3
  <2>8. mem' = mem /\ owner' = owner
    BY <1>11
  <2> QED BY ONLY <1>1, <2>1, <2>2, <2>4, <2>6, <2>7, <2>8
<1>12. CASE /\ Moves(t) /\ pc[t] \in 1 .. Length
            /\ pc[t] % 4 = 3
            /\ mem' = [mem EXCEPT !["counter"] = reg[t] + 1]
            /\ UNCHANGED <<reg, owner>>
  <2>1. t \in 1 .. NUM_THREADS /\ pc'[t] = pc[t] + 1
        /\ \A r \in 1 .. NUM_THREADS : r # t => pc'[r] = pc[r]
    BY <1>9, <1>12
  <2>2. Held(pc, t) /\ Read(pc, t)
    BY ONLY <1>4, <1>12
  <2>3. reg[t] = Count /\ Own = t
    BY ONLY <1>1, <2>1, <2>2
  <2>4. mem'["counter"] = Count + 1 /\ Typed'
    BY <1>1, <1>4, <1>12, <2>1, <2>3 DEF Typed, Th!Var
  <2>5. \E k \in 1 .. NUM_INCREMENTS : pc[t] = StoreAt(k)
    <3>1. \A n \in 1 .. 4 * NUM_INCREMENTS :
             n % 4 = 3 => \E k \in 1 .. NUM_INCREMENTS : n = 4 * k - 1
      <4> SUFFICES ASSUME NEW n \in 1 .. 4 * NUM_INCREMENTS, n % 4 = 3
                   PROVE  \E k \in 1 .. NUM_INCREMENTS : n = 4 * k - 1
        OBVIOUS
      <4>1. n = 4 * (n \div 4) + 3 /\ n \div 4 \in Nat
        OBVIOUS
      <4>2. n \div 4 + 1 \in 1 .. NUM_INCREMENTS /\ n = 4 * (n \div 4 + 1) - 1
        BY <4>1
      <4> QED BY <4>2
    <3> QED BY ONLY <1>3, <1>5, <1>12, <3>1
  <2>6. Cardinality(Done') = Cardinality(Done) + 1
    BY ONLY <1>3, <1>12, <2>1, <2>5, program' = program, DoneGrows
  <2>7. \A r \in 1 .. NUM_THREADS : Held(pc', r) => Held(pc, r)
    BY ONLY <1>4, <2>1, <2>2
  <2>8. \A r \in 1 .. NUM_THREADS : ~ Read(pc', r)
    <3>1. \A n \in Nat : n % 4 = 3 => (n + 1) % 4 # 3
      OBVIOUS
    <3>2. \A r \in 1 .. NUM_THREADS : Held(pc, r) => r = t
      BY ONLY <1>1, <2>3
    <3>3. pc[t] % 4 = 3
      BY <1>12
    <3>4. \A r \in 1 .. NUM_THREADS : Read(pc, r) => Held(pc, r)
      BY ONLY <1>4
    <3> QED BY ONLY <1>4, <2>1, <3>1, <3>2, <3>3, <3>4
  <2>9. owner' = owner
    BY <1>12
  <2> QED BY ONLY <1>1, <2>4, <2>6, <2>7, <2>8, <2>9
<1>13. CASE /\ Moves(t) /\ pc[t] \in 1 .. Length
            /\ pc[t] % 4 = 0
            /\ owner' = [owner EXCEPT !["mutex1"] = None]
            /\ UNCHANGED <<reg, mem>>
  <2>1. t \in 1 .. NUM_THREADS /\ pc'[t] = pc[t] + 1
        /\ \A r \in 1 .. NUM_THREADS : r # t => pc'[r] = pc[r]
    BY <1>9, <1>13
  <2>2. Typed' /\ mem' = mem /\ reg' = reg
    BY <1>1, <1>13 DEF Typed, Th!Mutex
  <2>3. Done' = Done
    BY <1>8, <1>13
  <2>4. Held(pc, t)
    BY ONLY <1>4, <1>13
  <2>5. \A r \in 1 .. NUM_THREADS : Held(pc, r) => r = t
    BY ONLY <1>1, <2>1, <2>4
  <2>6. \A r \in 1 .. NUM_THREADS : ~ Held(pc', r) /\ ~ Read(pc', r)
    <3>1. \A n \in Nat : n % 4 = 0 => (n + 1) % 4 = 1
      OBVIOUS
    <3>2. pc[t] % 4 = 0
      BY <1>13
    <3>3. \A r \in 1 .. NUM_THREADS : Read(pc, r) => Held(pc, r)
      BY ONLY <1>4
    <3> QED BY ONLY <1>4, <2>1, <2>5, <3>1, <3>2, <3>3
  <2> QED BY ONLY <1>1, <2>2, <2>3, <2>6
<1> QED BY <1>7, <1>10, <1>11, <1>12, <1>13, MutexMoves

\* When all of them have done all they are told, every store is done.
LEMMA AllDone ==
    ASSUME pc \in [Th!Thread -> Nat], program \in Mutexed \cup Racing,
           \A t \in 1 .. NUM_THREADS : pc[t] > Length
    PROVE  Cardinality(Done) = NUM_THREADS * NUM_INCREMENTS
<1>1. IsFiniteSet(1 .. NUM_THREADS) /\ Cardinality(1 .. NUM_THREADS) = NUM_THREADS
  <2>1. 1 \in Int /\ NUM_THREADS \in Int
    OBVIOUS
  <2>2. ~ (1 > NUM_THREADS) /\ NUM_THREADS - 1 + 1 = NUM_THREADS
    OBVIOUS
  <2> QED BY <2>1, <2>2, FS_Interval
<1>2. IsFiniteSet(1 .. NUM_INCREMENTS) /\ Cardinality(1 .. NUM_INCREMENTS) = NUM_INCREMENTS
  <2>1. 1 \in Int /\ NUM_INCREMENTS \in Int
    OBVIOUS
  <2>2. ~ (1 > NUM_INCREMENTS) /\ NUM_INCREMENTS - 1 + 1 = NUM_INCREMENTS
    OBVIOUS
  <2> QED BY <2>1, <2>2, FS_Interval
<1>3. Cardinality(Counts) = NUM_THREADS * NUM_INCREMENTS
  <2>1. Cardinality((1 .. NUM_THREADS) \X (1 .. NUM_INCREMENTS)) =
           Cardinality(1 .. NUM_THREADS) * Cardinality(1 .. NUM_INCREMENTS)
    BY ONLY <1>1, <1>2, FS_Product
  <2> QED BY ONLY <1>1, <1>2, <2>1 DEF Counts
<1>4. \A k \in 1 .. NUM_INCREMENTS : StoreAt(k) <= Length /\ StoreAt(k) \in Nat
  BY DEF StoreAt, Length
<1>5. \A c \in Counts : c[1] \in 1 .. NUM_THREADS /\ c[2] \in 1 .. NUM_INCREMENTS
  BY DEF Counts
<1>6. \A t \in 1 .. NUM_THREADS : pc[t] \in Nat /\ pc[t] > Length
  BY DEF Th!Thread
<1>7. Length \in Nat
  BY DEF Length
<1>8. \A c \in Counts : pc[c[1]] > StoreAt(c[2])
  BY ONLY <1>4, <1>5, <1>6, <1>7
<1>9. Done = Counts
  BY <1>8 DEF Done
<1> QED BY <1>3, <1>9

\* When main has joined them they have done all they are told.
LEMMA TeamJoined ==
    ASSUME TeamInv, program \in Teams, Th!Ended(0)
    PROVE  \A t \in 1 .. NUM_THREADS : t <= Size => pc[t] > Length
<1>1. pc \in [Th!Thread -> Nat] /\ 0 \in Th!Thread
  BY DEF TeamInv, Th!Thread
<1>2. Len(Th!Text(0)) = 2 * Size
  BY <1>1, TeamLine
<1>3. pc[0] > 2 * Size /\ pc[0] \in Nat /\ Size \in Nat
  BY <1>1, <1>2 DEF Th!Ended, Size
<1>4. \A t \in 1 .. NUM_THREADS : t <= Size => pc[0] > Size + t
  BY ONLY <1>3, NUM_THREADS \in Nat
<1> QED BY <1>4 DEF TeamInv

\* Without it nobody has seen more than the stores that are done; who has stored
\* once never loads nothing again, and the last store of all is not a first one.
RaceInv ==
    program \in Racing =>
       /\ Typed
       /\ mem["counter"] <= Cardinality(Done)
       /\ \A t \in 1 .. NUM_THREADS :
             /\ reg[t] <= Cardinality(Done)
             /\ pc[t] > 2 => mem["counter"] >= 1
             /\ pc[t] > 3 /\ pc[t] <= Length => reg[t] >= 1
       /\ \/ mem["counter"] >= 2
          \/ \E t \in 1 .. NUM_THREADS : pc[t] <= 4

\* What a step is in the programs that count without.
LEMMA RaceMoves ==
    ASSUME program \in Racing, TeamInv, NEW t \in Th!Thread, Th!Step(t) \/ Th!WakeSpuriously(t)
    PROVE  \/ Still
           \/ /\ Moves(t) /\ pc[t] \in 1 .. Length
              /\ \/ /\ pc[t] % 2 = 1
                    /\ reg' = [reg EXCEPT ![t] = mem["counter"]]
                    /\ UNCHANGED <<mem, owner>>
                 \/ /\ pc[t] % 2 = 0
                    /\ mem' = [mem EXCEPT !["counter"] = reg[t] + 1]
                    /\ UNCHANGED <<reg, owner>>
<1>1. pc \in [Th!Thread -> Nat] /\ program \in Teams
  BY DEF TeamInv, Teams
<1>2. CASE Th!WakeSpuriously(t)
  BY <1>2 DEF Still, Th!WakeSpuriously
<1>3. CASE t = 0 /\ Th!Step(t)
  BY <1>1, <1>3, MainStep
<1>4. CASE t \in 1 .. NUM_THREADS /\ Th!Step(t)
  <2>1. \A op : Th!Is(t, op) =>
           /\ pc[t] \in 1 .. Length
           /\ \/ pc[t] % 2 = 1 /\ op = "load" /\ Th!Arg(t) = "counter"
              \/ pc[t] % 2 = 0 /\ op = "store" /\ Th!Arg(t) = "counter"
    BY ONLY <1>1, <1>4, program \in Racing, RaceLine
  <2>2. \A op : Th!Is(t, op) => op \in {"load", "store"}
    BY ONLY <2>1
  <2>3. Th!Load(t) \/ Th!Store(t)
    <3>1. /\ ~ Th!Is(t, "create") /\ ~ Th!Is(t, "create or exit") /\ ~ Th!Is(t, "join")
          /\ ~ Th!Is(t, "lock") /\ ~ Th!Is(t, "unlock")
          /\ ~ Th!Is(t, "await") /\ ~ Th!Is(t, "signal") /\ ~ Th!Is(t, "sem_wait")
          /\ ~ Th!Is(t, "sem_post") /\ ~ Th!Is(t, "work") /\ ~ Th!Is(t, "free")
          /\ ~ Th!Is(t, "return")
      BY <2>2 DEF Th!Is
    <3> QED
      BY <1>4, <3>1 DEF Th!Step, Th!Create, Th!CreateFails, Th!Join, Th!Lock, Th!Unlock,
                  Th!AwaitOver, Th!Sleep, Th!Relock, Th!Signal, Th!SemWait, Th!SemPost,
                  Th!Work, Th!Free, Th!ReturnOn
  <2>4. CASE Th!Load(t)
    <3>1. pc[t] \in 1 .. Length /\ pc[t] % 2 = 1 /\ Th!Arg(t) = "counter"
      BY <2>1, <2>4 DEF Th!Load
    <3>2. Moves(t)
      BY <1>1, <1>4, <2>4, Advances DEF Th!Load
    <3> QED BY <2>4, <3>1, <3>2 DEF Th!Load
  <2>5. CASE Th!Store(t)
    <3>1. Th!Is(t, "store")
      BY <2>2, <2>5 DEF Th!Store
    <3>2. pc[t] \in 1 .. Length /\ pc[t] % 2 = 0 /\ Th!Arg(t) = "counter"
      BY <2>1, <3>1
    <3>3. Moves(t)
      BY <1>1, <1>4, <2>5, Advances DEF Th!Store
    <3> QED BY <2>5, <3>1, <3>2, <3>3 DEF Th!Store
  <2> QED BY <2>3, <2>4, <2>5
<1> QED BY <1>2, <1>3, <1>4 DEF Th!Thread

\* RaceInv holds at every step.
LEMMA RaceStep ==
    TeamInv /\ RaceInv /\ Th!Next /\ program' = program => RaceInv'
<1> DEFINE Team == 1 .. NUM_THREADS
           Upper(rg, c, d) == c <= d /\ \A r \in Team : rg[r] <= d
           Lower(p, rg, c) == \A r \in Team :
                                 /\ p[r] > 2 => c >= 1
                                 /\ p[r] > 3 /\ p[r] <= Length => rg[r] >= 1
           Last(p, c) == c >= 2 \/ \E r \in Team : p[r] <= 4
           Count == mem["counter"]
           D == Cardinality(Done)
<1> SUFFICES ASSUME TeamInv, RaceInv, program' = program, program \in Racing,
                    NEW t \in Th!Thread, Th!Step(t) \/ Th!WakeSpuriously(t)
             PROVE  /\ Typed'
                    /\ Upper(reg', mem'["counter"], Cardinality(Done'))
                    /\ Lower(pc', reg', mem'["counter"])
                    /\ Last(pc', mem'["counter"])
  BY DEF Th!Next, RaceInv, Length
<1>1. Typed /\ Upper(reg, Count, D) /\ Lower(pc, reg, Count) /\ Last(pc, Count)
  BY DEF RaceInv
<1>2. /\ pc \in [Th!Thread -> Nat] /\ Count \in Nat /\ D \in Nat
      /\ Length = 2 * NUM_INCREMENTS /\ Length \in Nat
  BY <1>1, DoneFinite DEF TeamInv, Typed, Th!Var, Length, Racing, Mutexed
<1>3. \A r \in Team : r \in Th!Thread /\ pc[r] \in Nat /\ reg[r] \in Nat
  <2>1. \A r \in Team : r \in Th!Thread
    BY DEF Th!Thread
  <2>2. \A r \in Th!Thread : pc[r] \in Nat /\ reg[r] \in Nat
    BY <1>1, <1>2 DEF Typed
  <2> QED BY <2>1, <2>2
<1>4. \A k \in 1 .. NUM_INCREMENTS : StoreAt(k) = 2 * k
  BY DEF StoreAt, Racing, Mutexed
<1>5. \A k \in 1 .. NUM_INCREMENTS, p \in Nat : p = StoreAt(k) => p % 2 = 0 /\ p # 0
  BY ONLY <1>4, NUM_INCREMENTS \in Nat
<1>6. CASE Still
  <2>1. Typed' /\ mem' = mem /\ reg' = reg
    BY <1>1, <1>6 DEF Still, Typed
  <2>2. \A r \in Team : pc'[r] = pc[r] \/ (pc[r] = 0 /\ pc'[r] = 1)
    BY <1>6 DEF Still
  <2>3. Done' = Done
    BY ONLY <1>2, <1>3, <1>5, <2>2, program' = program, NUM_INCREMENTS \in Nat, DoneStays
  <2>4. Lower(pc', reg, Count) /\ Last(pc', Count)
    BY ONLY <1>1, <1>3, <2>2
  <2> QED BY ONLY <1>1, <2>1, <2>3, <2>4
<1>7. ASSUME Moves(t) PROVE /\ t \in Team /\ pc'[t] = pc[t] + 1 /\ pc[t] \in Nat
                            /\ \A r \in Team : r # t => pc'[r] = pc[r]
  BY <1>3, <1>7 DEF Moves
<1>8. CASE /\ Moves(t) /\ pc[t] \in 1 .. Length
           /\ pc[t] % 2 = 1
           /\ reg' = [reg EXCEPT ![t] = mem["counter"]]
           /\ UNCHANGED <<mem, owner>>
  <2>1. Typed' /\ mem' = mem
    BY <1>1, <1>2, <1>8 DEF Typed
  <2>2. t \in Team /\ pc'[t] = pc[t] + 1 /\ pc[t] \in Nat
        /\ \A r \in Team : r # t => pc'[r] = pc[r]
    BY <1>7, <1>8
  <2>3. Done' = Done
    <3>1. \A k \in 1 .. NUM_INCREMENTS : pc[t] # StoreAt(k)
      BY ONLY <1>5, <1>8, <2>2
    <3>2. \A r \in Team :
             \/ pc'[r] = pc[r]
             \/ pc[r] \in Nat /\ pc'[r] = pc[r] + 1 /\
                   (\A k \in 1 .. NUM_INCREMENTS : pc[r] # StoreAt(k))
      BY ONLY <2>2, <3>1
    <3> QED BY ONLY <1>2, <3>2, program' = program, DoneStays
  <2>4. reg'[t] = Count /\ \A r \in Team : r # t => reg'[r] = reg[r]
    BY <1>1, <1>3, <1>8 DEF Typed
  <2>5. Upper(reg', Count, D)
    BY ONLY <1>1, <2>4
  <2>6. Lower(pc', reg', Count)
    <3>1. pc[t] % 2 = 1 /\ (pc'[t] > 3 => pc[t] > 2)
      BY ONLY <1>8, <2>2
    <3>2. pc'[t] > 2 => pc[t] > 2
      <4>1. \A n \in Nat : n % 2 = 1 /\ n + 1 > 2 => n > 2
        OBVIOUS
      <4> QED BY ONLY <2>2, <3>1, <4>1
    <3> QED BY ONLY <1>1, <2>2, <2>4, <3>1, <3>2
  <2>7. Last(pc', Count)
    <3>1. \A n \in Nat : n % 2 = 1 /\ n <= 4 => n + 1 <= 4
      OBVIOUS
    <3>2. pc[t] % 2 = 1
      BY ONLY <1>8
    <3> QED BY ONLY <1>1, <2>2, <3>1, <3>2
  <2> QED BY ONLY <2>1, <2>3, <2>5, <2>6, <2>7
<1>9. CASE /\ Moves(t) /\ pc[t] \in 1 .. Length
           /\ pc[t] % 2 = 0
           /\ mem' = [mem EXCEPT !["counter"] = reg[t] + 1]
           /\ UNCHANGED <<reg, owner>>
  <2>1. t \in Team /\ pc'[t] = pc[t] + 1 /\ pc[t] \in Nat
        /\ \A r \in Team : r # t => pc'[r] = pc[r]
    BY <1>7, <1>9
  <2>2. mem'["counter"] = reg[t] + 1 /\ reg[t] \in Nat /\ Typed' /\ reg' = reg
    BY <1>1, <1>3, <1>9, <2>1 DEF Typed, Th!Var
  <2>3. \E k \in 1 .. NUM_INCREMENTS : pc[t] = StoreAt(k)
    <3>1. \A n \in 1 .. 2 * NUM_INCREMENTS :
             n % 2 = 0 => \E k \in 1 .. NUM_INCREMENTS : n = 2 * k
      <4> SUFFICES ASSUME NEW n \in 1 .. 2 * NUM_INCREMENTS, n % 2 = 0
                   PROVE  \E k \in 1 .. NUM_INCREMENTS : n = 2 * k
        OBVIOUS
      <4>1. n = 2 * (n \div 2) /\ n \div 2 \in Nat
        OBVIOUS
      <4>2. n \div 2 \in 1 .. NUM_INCREMENTS
        BY <4>1
      <4> QED BY <4>1, <4>2
    <3> QED BY ONLY <1>2, <1>4, <1>9, <3>1
  <2>4. Cardinality(Done') = D + 1
    BY ONLY <1>2, <1>9, <2>1, <2>3, program' = program, DoneGrows
  <2>5. Upper(reg, reg[t] + 1, D + 1)
    BY ONLY <1>1, <1>2, <1>3, <2>1
  <2>6. Lower(pc', reg, reg[t] + 1)
    <3>1. \A r \in Team : pc'[r] > 3 /\ pc'[r] <= Length => pc[r] > 3 /\ pc[r] <= Length
      <4>1. \A n \in Nat : n % 2 = 0 /\ n + 1 > 3 => n > 3
        OBVIOUS
      <4>2. pc[t] % 2 = 0
        BY ONLY <1>9
      <4> QED BY ONLY <1>2, <1>3, <2>1, <4>1, <4>2
    <3> QED BY ONLY <1>1, <2>2, <3>1
  <2>7. Last(pc', reg[t] + 1)
    <3>1. CASE pc[t] <= 3
      BY ONLY <2>1, <3>1
    <3>2. CASE pc[t] > 3
      <4>1. reg[t] >= 1
        BY ONLY <1>1, <1>9, <2>1, <3>2
      <4> QED BY ONLY <2>2, <4>1
    <3> QED BY ONLY <2>1, <3>1, <3>2
  <2> QED BY ONLY <2>2, <2>4, <2>5, <2>6, <2>7
<1> QED BY <1>6, <1>8, <1>9, RaceMoves

\* What the consumer loads was made before it was told.
ConsumerInv ==
    program = "condition" =>
       /\ reg \in [Th!Thread -> Nat]
       /\ mem \in [Th!Var -> Nat]
       /\ pc[1] > 2 => mem["buffer"] = 1
       /\ mem["data_ready"] # 0 => pc[1] > 3
       /\ pc[2] > 2 => mem["data_ready"] # 0
       /\ pc[2] > 3 => reg[2] = 1

\* Neither the producer nor the consumer gets any further, but they may be created.
Calm ==
    /\ UNCHANGED <<reg, mem>>
    /\ \A r \in {1, 2} : pc'[r] = pc[r] \/ (pc[r] = 0 /\ pc'[r] = 1)

\* What a step is to the producer and the consumer.
LEMMA ConsumerMoves ==
    ASSUME program = "condition", TeamInv, NEW t \in Th!Thread, Th!Step(t) \/ Th!WakeSpuriously(t)
    PROVE  \/ Calm
           \/ /\ pc'[1] = pc[1] + 1 /\ pc'[2] = pc[2] /\ UNCHANGED reg
              /\ \/ pc[1] \in {1, 4, 5} /\ UNCHANGED mem
                 \/ pc[1] = 2 /\ mem' = [mem EXCEPT !["buffer"] = 1]
                 \/ pc[1] = 3 /\ mem' = [mem EXCEPT !["data_ready"] = 1]
           \/ /\ pc'[2] = pc[2] + 1 /\ pc'[1] = pc[1] /\ UNCHANGED mem
              /\ \/ pc[2] \in {1, 4} /\ UNCHANGED reg
                 \/ pc[2] = 2 /\ mem["data_ready"] # 0 /\ UNCHANGED reg
                 \/ pc[2] = 3 /\ reg' = [reg EXCEPT ![2] = mem["buffer"]]
<1>1. pc \in [Th!Thread -> Nat] /\ program \in Teams
  BY DEF TeamInv, Teams
<1>2. 1 \in Th!Thread /\ 2 \in Th!Thread /\ 1 \in 1 .. NUM_THREADS /\ 2 \in 1 .. NUM_THREADS
  BY DEF Th!Thread
<1>3. CASE Th!WakeSpuriously(t)
  BY <1>3 DEF Calm, Th!WakeSpuriously
<1>4. CASE t = 0 /\ Th!Step(t)
  <2>1. Still
    BY <1>1, <1>4, MainStep
  <2> QED BY <1>2, <2>1 DEF Calm, Still
<1>5. CASE t = 1 /\ Th!Step(t)
  <2>1. \A op : Th!Is(1, op) =>
           \/ pc[1] = 1 /\ op = "lock" /\ Th!Arg(1) = "mutex1"
           \/ pc[1] = 2 /\ op = "set" /\ Th!Arg(1) = "buffer"
           \/ pc[1] = 3 /\ op = "set" /\ Th!Arg(1) = "data_ready"
           \/ pc[1] = 4 /\ op = "signal" /\ Th!Arg(1) = "cond"
           \/ pc[1] = 5 /\ op = "unlock" /\ Th!Arg(1) = "mutex1"
    BY <1>1, ProducerLine
  <2>2. \A op : Th!Is(1, op) => op \in {"lock", "set", "signal", "unlock"}
    BY ONLY <2>1
  <2>3. Th!Lock(t) \/ Th!Store(t) \/ Th!Signal(t) \/ Th!Unlock(t)
    <3>1. /\ ~ Th!Is(1, "create") /\ ~ Th!Is(1, "create or exit") /\ ~ Th!Is(1, "join")
          /\ ~ Th!Is(1, "load") /\ ~ Th!Is(1, "await") /\ ~ Th!Is(1, "sem_wait")
          /\ ~ Th!Is(1, "sem_post") /\ ~ Th!Is(1, "work") /\ ~ Th!Is(1, "free")
          /\ ~ Th!Is(1, "return")
      BY <2>2 DEF Th!Is
    <3> QED
      BY <1>5, <3>1 DEF Th!Step, Th!Create, Th!CreateFails, Th!Join, Th!Load, Th!AwaitOver,
                  Th!Sleep, Th!Relock, Th!SemWait, Th!SemPost, Th!Work, Th!Free, Th!ReturnOn
  <2>4. Th!Advance(1) => pc'[1] = pc[1] + 1 /\ pc'[2] = pc[2]
    BY <1>1, <1>2 DEF Th!Advance
  <2>5. Th!Advance(1) /\ UNCHANGED reg
    BY <1>5, <2>3 DEF Th!Lock, Th!Store, Th!Signal, Th!Unlock
  <2>6. CASE Th!Store(t)
    <3>1. ~ Th!Is(1, "store")
      BY <2>2 DEF Th!Is
    <3>2. Th!Is(1, "set") /\ mem' = [mem EXCEPT ![Th!Arg(1)] = 1]
      BY <1>5, <2>6, <3>1 DEF Th!Store
    <3>3. \/ pc[1] = 2 /\ Th!Arg(1) = "buffer"
          \/ pc[1] = 3 /\ Th!Arg(1) = "data_ready"
      BY <2>1, <3>2
    <3> QED BY <2>4, <2>5, <3>2, <3>3
  <2>7. CASE Th!Lock(t) \/ Th!Signal(t) \/ Th!Unlock(t)
    <3>1. UNCHANGED mem /\ (Th!Is(1, "lock") \/ Th!Is(1, "signal") \/ Th!Is(1, "unlock"))
      BY <1>5, <2>7 DEF Th!Lock, Th!Signal, Th!Unlock
    <3>2. pc[1] \in {1, 4, 5}
      BY <2>1, <3>1
    <3> QED BY <2>4, <2>5, <3>1, <3>2
  <2> QED BY <2>3, <2>6, <2>7
<1>6. CASE t = 2 /\ Th!Step(t)
  <2>1. \A op : Th!Is(2, op) =>
           \/ pc[2] = 1 /\ op = "lock" /\ Th!Arg(2) = "mutex1"
           \/ pc[2] = 2 /\ op = "await" /\ Th!Arg(2) = "data_ready"
           \/ pc[2] = 3 /\ op = "load" /\ Th!Arg(2) = "buffer"
           \/ pc[2] = 4 /\ op = "unlock" /\ Th!Arg(2) = "mutex1"
    BY <1>1, ConsumerLine
  <2>2. \A op : Th!Is(2, op) => op \in {"lock", "await", "load", "unlock"}
    BY ONLY <2>1
  <2>3. \/ Th!Lock(t) \/ Th!AwaitOver(t) \/ Th!Sleep(t) \/ Th!Relock(t) \/ Th!Load(t)
        \/ Th!Unlock(t)
    <3>1. /\ ~ Th!Is(2, "create") /\ ~ Th!Is(2, "create or exit") /\ ~ Th!Is(2, "join")
          /\ ~ Th!Is(2, "store") /\ ~ Th!Is(2, "set") /\ ~ Th!Is(2, "signal")
          /\ ~ Th!Is(2, "sem_wait") /\ ~ Th!Is(2, "sem_post") /\ ~ Th!Is(2, "work")
          /\ ~ Th!Is(2, "free") /\ ~ Th!Is(2, "return")
      BY <2>2 DEF Th!Is
    <3> QED
      BY <1>6, <3>1 DEF Th!Step, Th!Create, Th!CreateFails, Th!Join, Th!Store, Th!Signal,
                  Th!SemWait, Th!SemPost, Th!Work, Th!Free, Th!ReturnOn
  <2>4. Th!Advance(2) => pc'[2] = pc[2] + 1 /\ pc'[1] = pc[1]
    BY <1>1, <1>2 DEF Th!Advance
  <2>5. CASE Th!Sleep(t) \/ Th!Relock(t)
    BY <2>5 DEF Calm, Th!Sleep, Th!Relock
  <2>6. CASE Th!Lock(t) \/ Th!Unlock(t)
    <3>1. Th!Advance(2) /\ UNCHANGED <<reg, mem>> /\ (Th!Is(2, "lock") \/ Th!Is(2, "unlock"))
      BY <1>6, <2>6 DEF Th!Lock, Th!Unlock
    <3>2. pc[2] \in {1, 4}
      BY <2>1, <3>1
    <3> QED BY <2>4, <3>1, <3>2
  <2>7. CASE Th!AwaitOver(t)
    <3>1. Th!Advance(2) /\ UNCHANGED <<reg, mem>> /\ Th!Is(2, "await") /\ mem[Th!Arg(2)] # 0
      BY <1>6, <2>7 DEF Th!AwaitOver
    <3>2. pc[2] = 2 /\ Th!Arg(2) = "data_ready"
      BY <2>1, <3>1
    <3> QED BY <2>4, <3>1, <3>2
  <2>8. CASE Th!Load(t)
    <3>1. /\ Th!Advance(2) /\ UNCHANGED mem /\ Th!Is(2, "load")
          /\ reg' = [reg EXCEPT ![2] = mem[Th!Arg(2)]]
      BY <1>6, <2>8 DEF Th!Load
    <3>2. pc[2] = 3 /\ Th!Arg(2) = "buffer"
      BY <2>1, <3>1
    <3> QED BY <2>4, <3>1, <3>2
  <2> QED BY <2>3, <2>5, <2>6, <2>7, <2>8
<1>7. CASE t \notin {0, 1, 2} /\ Th!Step(t)
  <2>1. t \in Th!Thread \ {0, 1} /\ t # 2
    BY <1>7
  <2>2. \A op : ~ Th!Is(t, op)
    BY <1>1, <2>1, NobodyElse
  <2> QED
    BY <1>7, <2>2 DEF Th!Step, Th!Create, Th!CreateFails, Th!Join, Th!Lock, Th!Unlock,
                Th!Load, Th!Store, Th!AwaitOver, Th!Sleep, Th!Relock, Th!Signal, Th!SemWait,
                Th!SemPost, Th!Work, Th!Free, Th!ReturnOn
<1> QED BY <1>3, <1>4, <1>5, <1>6, <1>7

\* ConsumerInv holds at every step.
LEMMA ConsumerStep ==
    TeamInv /\ ConsumerInv /\ Th!Next /\ program' = program => ConsumerInv'
<1> SUFFICES ASSUME TeamInv, ConsumerInv, program' = program, program = "condition",
                    NEW t \in Th!Thread, Th!Step(t) \/ Th!WakeSpuriously(t)
             PROVE  /\ reg' \in [Th!Thread -> Nat]
                    /\ mem' \in [Th!Var -> Nat]
                    /\ pc'[1] > 2 => mem'["buffer"] = 1
                    /\ mem'["data_ready"] # 0 => pc'[1] > 3
                    /\ pc'[2] > 2 => mem'["data_ready"] # 0
                    /\ pc'[2] > 3 => reg'[2] = 1
  BY DEF Th!Next, ConsumerInv, Th!Thread, Th!Var
<1>1. /\ reg \in [Th!Thread -> Nat]
      /\ mem \in [Th!Var -> Nat]
      /\ pc[1] > 2 => mem["buffer"] = 1
      /\ mem["data_ready"] # 0 => pc[1] > 3
      /\ pc[2] > 2 => mem["data_ready"] # 0
      /\ pc[2] > 3 => reg[2] = 1
  BY DEF ConsumerInv
<1>2. /\ pc[1] \in Nat /\ pc[2] \in Nat /\ 2 \in Th!Thread
      /\ "buffer" \in Th!Var /\ "data_ready" \in Th!Var
  BY DEF TeamInv, Th!Thread, Th!Var
<1>3. mem["buffer"] \in Nat
  BY <1>1, <1>2
<1>4. CASE Calm
  BY <1>1, <1>2, <1>4 DEF Calm
<1>5. CASE /\ pc'[1] = pc[1] + 1 /\ pc'[2] = pc[2] /\ UNCHANGED reg
           /\ \/ pc[1] \in {1, 4, 5} /\ UNCHANGED mem
              \/ pc[1] = 2 /\ mem' = [mem EXCEPT !["buffer"] = 1]
              \/ pc[1] = 3 /\ mem' = [mem EXCEPT !["data_ready"] = 1]
  <2>1. CASE pc[1] \in {1, 4, 5} /\ UNCHANGED mem
    BY <1>1, <1>2, <1>5, <2>1
  <2>2. CASE pc[1] = 2 /\ mem' = [mem EXCEPT !["buffer"] = 1]
    <3>1. /\ mem' \in [Th!Var -> Nat] /\ mem'["buffer"] = 1
          /\ mem'["data_ready"] = mem["data_ready"]
      BY <1>1, <1>2, <2>2
    <3> QED BY ONLY <1>1, <1>2, <1>5, <2>2, <3>1
  <2>3. CASE pc[1] = 3 /\ mem' = [mem EXCEPT !["data_ready"] = 1]
    <3>1. /\ mem' \in [Th!Var -> Nat] /\ mem'["data_ready"] = 1
          /\ mem'["buffer"] = mem["buffer"]
      BY <1>1, <1>2, <2>3
    <3> QED BY ONLY <1>1, <1>2, <1>5, <2>3, <3>1
  <2> QED BY <1>5, <2>1, <2>2, <2>3
<1>6. CASE /\ pc'[2] = pc[2] + 1 /\ pc'[1] = pc[1] /\ UNCHANGED mem
           /\ \/ pc[2] \in {1, 4} /\ UNCHANGED reg
              \/ pc[2] = 2 /\ mem["data_ready"] # 0 /\ UNCHANGED reg
              \/ pc[2] = 3 /\ reg' = [reg EXCEPT ![2] = mem["buffer"]]
  <2>1. CASE (pc[2] \in {1, 4} \/ (pc[2] = 2 /\ mem["data_ready"] # 0)) /\ UNCHANGED reg
    BY <1>1, <1>2, <1>6, <2>1
  <2>2. CASE pc[2] = 3 /\ reg' = [reg EXCEPT ![2] = mem["buffer"]]
    <3>1. reg' \in [Th!Thread -> Nat] /\ reg'[2] = mem["buffer"]
      BY <1>1, <1>2, <1>3, <2>2
    <3> QED BY ONLY <1>1, <1>2, <1>6, <2>2, <3>1
  <2> QED BY <1>6, <2>1, <2>2
<1> QED BY <1>4, <1>5, <1>6, ConsumerMoves

\* Who is inside has taken one of what the semaphore had.
Inside == {t \in Th!Thread \ {0} : pc[t] \in {2, 3}}

AdmitInv ==
    program = "semaphore" => sem \in Nat /\ sem + Cardinality(Inside) = MAX_CONCURRENT

\* AdmitInv holds at every step.
LEMMA AdmitStep ==
    TeamInv /\ AdmitInv /\ Th!Next /\ program' = program => AdmitInv'
<1> SUFFICES ASSUME TeamInv, AdmitInv, program' = program, program = "semaphore",
                    NEW t \in Th!Thread, Th!Step(t) \/ Th!WakeSpuriously(t)
             PROVE  sem' \in Nat /\ sem' + Cardinality(Inside') = MAX_CONCURRENT
  BY DEF Th!Next, AdmitInv
<1>1. sem \in Nat /\ sem + Cardinality(Inside) = MAX_CONCURRENT
  BY DEF AdmitInv
<1>2. pc \in [Th!Thread -> Nat] /\ program \in Teams
  BY DEF TeamInv, Teams
<1>3. IsFiniteSet(Inside) /\ Cardinality(Inside) \in Nat
  <2>1. IsFiniteSet(1 .. NUM_THREADS)
    BY FS_Interval
  <2>2. Inside \subseteq 1 .. NUM_THREADS
    BY DEF Inside, Th!Thread
  <2> QED BY <2>1, <2>2, FS_Subset, FS_CardinalityType
<1>4. \A r : r \in Th!Thread \ {0} <=> r \in 1 .. NUM_THREADS
  BY DEF Th!Thread
<1>5. CASE Th!WakeSpuriously(t)
  BY <1>1, <1>5 DEF Th!WakeSpuriously, Inside
<1>6. CASE t = 0 /\ Th!Step(t)
  <2>1. Still
    BY <1>2, <1>6, MainStep
  <2>2. \A r \in Th!Thread \ {0} : pc'[r] \in {2, 3} <=> pc[r] \in {2, 3}
    BY <1>4, <2>1 DEF Still
  <2>3. Inside' = Inside
    BY <2>2 DEF Inside
  <2> QED BY <1>1, <2>1, <2>3 DEF Still
<1>7. CASE t \in 1 .. NUM_THREADS /\ Th!Step(t)
  <2>1. \A op : Th!Is(t, op) =>
           \/ pc[t] = 1 /\ op = "sem_wait" /\ Th!Arg(t) = "sem"
           \/ pc[t] = 2 /\ op = "work" /\ Th!Arg(t) = "inside"
           \/ pc[t] = 3 /\ op = "sem_post" /\ Th!Arg(t) = "sem"
    BY <1>2, <1>7, LimitedLine
  <2>2. \A op : Th!Is(t, op) => op \in {"sem_wait", "work", "sem_post"}
    BY ONLY <2>1
  <2>3. Th!SemWait(t) \/ Th!Work(t) \/ Th!SemPost(t)
    <3>1. /\ ~ Th!Is(t, "create") /\ ~ Th!Is(t, "create or exit") /\ ~ Th!Is(t, "join")
          /\ ~ Th!Is(t, "lock") /\ ~ Th!Is(t, "unlock") /\ ~ Th!Is(t, "load")
          /\ ~ Th!Is(t, "store") /\ ~ Th!Is(t, "set") /\ ~ Th!Is(t, "await")
          /\ ~ Th!Is(t, "signal") /\ ~ Th!Is(t, "free") /\ ~ Th!Is(t, "return")
      BY <2>2 DEF Th!Is
    <3> QED
      BY <1>7, <3>1 DEF Th!Step, Th!Create, Th!CreateFails, Th!Join, Th!Lock, Th!Unlock,
                  Th!Load, Th!Store, Th!AwaitOver, Th!Sleep, Th!Relock, Th!Signal, Th!Free,
                  Th!ReturnOn
  <2>4. Moves(t)
    <3>1. Th!Advance(t)
      BY <2>3 DEF Th!SemWait, Th!Work, Th!SemPost
    <3> QED BY <1>2, <1>7, <3>1, Advances
  <2>5. /\ t \in Th!Thread \ {0} /\ pc'[t] = pc[t] + 1
        /\ \A r \in Th!Thread \ {0} : r # t => pc'[r] = pc[r]
    BY <1>4, <1>7, <2>4 DEF Moves
  <2>6. Inside' = {r \in Th!Thread \ {0} : pc'[r] \in {2, 3}}
    BY DEF Inside
  <2>7. CASE Th!SemWait(t)
    <3>1. pc[t] = 1
      BY <2>1, <2>7 DEF Th!SemWait
    <3>2. sem > 0 /\ sem' = sem - 1
      BY <2>7 DEF Th!SemWait
    <3>3. Inside' = Inside \cup {t} /\ t \notin Inside
      BY <2>5, <2>6, <3>1 DEF Inside
    <3>4. Cardinality(Inside') = Cardinality(Inside) + 1
      BY <1>3, <3>3, FS_AddElement
    <3> QED BY ONLY <1>1, <1>3, <3>2, <3>4
  <2>8. CASE Th!Work(t)
    <3>1. pc[t] = 2
      BY <2>1, <2>8 DEF Th!Work
    <3>2. sem' = sem
      BY <2>8 DEF Th!Work
    <3>3. Inside' = Inside
      BY <2>5, <2>6, <3>1 DEF Inside
    <3> QED BY ONLY <1>1, <3>2, <3>3
  <2>9. CASE Th!SemPost(t)
    <3>1. pc[t] = 3
      BY <2>1, <2>9 DEF Th!SemPost
    <3>2. sem' = sem + 1
      BY <2>9 DEF Th!SemPost
    <3>3. Inside' = Inside \ {t} /\ t \in Inside
      BY <2>5, <2>6, <3>1 DEF Inside
    <3>4. Cardinality(Inside') = Cardinality(Inside) - 1
      BY <1>3, <3>3, FS_RemoveElement
    <3> QED BY ONLY <1>1, <1>3, <3>2, <3>4
  <2> QED BY <2>3, <2>7, <2>8, <2>9
<1> QED BY <1>4, <1>5, <1>6, <1>7

\* main passes the semaphore behind the post only.
StackInv ==
    program = "clone" =>
       /\ pc[0] = 1 => pc[1] = 0
       /\ pc[1] <= 2 => sem = 0 /\ pc[0] <= 2
       /\ freed => pc[0] > 3

\* StackInv holds at every step.
LEMMA StackStep ==
    TeamInv /\ StackInv /\ Th!Next /\ program' = program => StackInv'
<1> SUFFICES ASSUME TeamInv, StackInv, program' = program, program = "clone",
                    NEW t \in Th!Thread, Th!Step(t) \/ Th!WakeSpuriously(t)
             PROVE  /\ pc'[0] = 1 => pc'[1] = 0
                    /\ pc'[1] <= 2 => sem' = 0 /\ pc'[0] <= 2
                    /\ freed' => pc'[0] > 3
  BY DEF Th!Next, StackInv
<1>1. /\ pc[0] = 1 => pc[1] = 0
      /\ pc[1] <= 2 => sem = 0 /\ pc[0] <= 2
      /\ freed => pc[0] > 3
  BY DEF StackInv
<1>2. /\ pc \in [Th!Thread -> Nat] /\ 0 \in Th!Thread /\ 1 \in Th!Thread
      /\ pc[0] \in Nat /\ pc[1] \in Nat
  BY DEF TeamInv, Th!Thread
<1>3. CASE Th!WakeSpuriously(t)
  BY <1>1, <1>3 DEF Th!WakeSpuriously
<1>4. CASE t = 0 /\ Th!Step(t)
  <2>1. \A op : Th!Is(0, op) =>
           \/ pc[0] = 1 /\ op = "create" /\ Th!Arg(0) = 1
           \/ pc[0] = 2 /\ op = "sem_wait" /\ Th!Arg(0) = "sem"
           \/ pc[0] = 3 /\ op = "free" /\ Th!Arg(0) = 1
           \/ pc[0] = 4 /\ op = "work" /\ Th!Arg(0) = "exit"
    BY <1>2, CloneMainLine
  <2>2. \A op : Th!Is(0, op) => op \in {"create", "sem_wait", "free", "work"}
    BY ONLY <2>1
  <2>3. Th!Create(t) \/ Th!SemWait(t) \/ Th!Free(t) \/ Th!Work(t)
    <3>1. /\ ~ Th!Is(0, "create or exit") /\ ~ Th!Is(0, "join") /\ ~ Th!Is(0, "lock")
          /\ ~ Th!Is(0, "unlock") /\ ~ Th!Is(0, "load") /\ ~ Th!Is(0, "store")
          /\ ~ Th!Is(0, "set") /\ ~ Th!Is(0, "await") /\ ~ Th!Is(0, "signal")
          /\ ~ Th!Is(0, "sem_post") /\ ~ Th!Is(0, "return")
      BY <2>2 DEF Th!Is
    <3> QED
      BY <1>4, <3>1 DEF Th!Step, Th!CreateFails, Th!Join, Th!Lock, Th!Unlock, Th!Load,
                  Th!Store, Th!AwaitOver, Th!Sleep, Th!Relock, Th!Signal, Th!SemPost,
                  Th!ReturnOn
  <2>4. Th!Advance(0) => pc'[0] = pc[0] + 1 /\ pc'[1] = pc[1]
    BY <1>2 DEF Th!Advance
  <2>5. CASE Th!Create(t)
    <3>1. pc[0] = 1 /\ Th!Arg(0) = 1
      <4>1. Th!Is(0, "create") \/ Th!Is(0, "create or exit")
        BY <1>4, <2>5 DEF Th!Create
      <4>2. ~ Th!Is(0, "create or exit")
        BY <2>2 DEF Th!Is
      <4>3. Th!Is(0, "create")
        BY ONLY <4>1, <4>2
      <4> QED BY ONLY <2>1, <4>3
    <3>2. pc' = [pc EXCEPT ![0] = pc[0] + 1, ![1] = 1] /\ sem' = sem /\ freed' = freed
      BY <1>4, <2>5, <3>1 DEF Th!Create
    <3>3. pc'[0] = 2 /\ pc'[1] = 1
      BY ONLY <1>2, <3>1, <3>2
    <3> QED BY ONLY <1>1, <1>2, <3>1, <3>2, <3>3
  <2>6. CASE Th!SemWait(t)
    <3>1. pc[0] = 2 /\ sem > 0 /\ Th!Advance(0) /\ freed' = freed
      BY <1>4, <2>1, <2>6 DEF Th!SemWait
    <3>2. ~ (pc[1] <= 2)
      BY ONLY <1>1, <3>1
    <3> QED BY ONLY <1>1, <1>2, <2>4, <3>1, <3>2
  <2>7. CASE Th!Free(t)
    <3>1. pc[0] = 3 /\ Th!Advance(0)
      BY <1>4, <2>1, <2>7 DEF Th!Free
    <3> QED BY ONLY <1>1, <1>2, <2>4, <3>1
  <2>8. CASE Th!Work(t)
    <3>1. pc[0] = 4 /\ Th!Advance(0) /\ freed' = freed
      BY <1>4, <2>1, <2>8 DEF Th!Work
    <3> QED BY ONLY <1>1, <1>2, <2>4, <3>1
  <2> QED BY <2>3, <2>5, <2>6, <2>7, <2>8
<1>5. CASE t = 1 /\ Th!Step(t)
  <2>1. \A op : Th!Is(1, op) =>
           \/ pc[1] = 1 /\ op = "work" /\ Th!Arg(1) = "hello"
           \/ pc[1] = 2 /\ op = "sem_post" /\ Th!Arg(1) = "sem"
           \/ pc[1] = 3 /\ op = "return" /\ Th!Arg(1) = 1
    BY <1>2, CloneLine
  <2>2. \A op : Th!Is(1, op) => op \in {"work", "sem_post", "return"}
    BY ONLY <2>1
  <2>3. Th!Work(t) \/ Th!SemPost(t) \/ Th!ReturnOn(t)
    <3>1. /\ ~ Th!Is(1, "create") /\ ~ Th!Is(1, "create or exit") /\ ~ Th!Is(1, "join")
          /\ ~ Th!Is(1, "lock") /\ ~ Th!Is(1, "unlock") /\ ~ Th!Is(1, "load")
          /\ ~ Th!Is(1, "store") /\ ~ Th!Is(1, "set") /\ ~ Th!Is(1, "await")
          /\ ~ Th!Is(1, "signal") /\ ~ Th!Is(1, "sem_wait") /\ ~ Th!Is(1, "free")
      BY <2>2 DEF Th!Is
    <3> QED
      BY <1>5, <3>1 DEF Th!Step, Th!Create, Th!CreateFails, Th!Join, Th!Lock, Th!Unlock,
                  Th!Load, Th!Store, Th!AwaitOver, Th!Sleep, Th!Relock, Th!Signal,
                  Th!SemWait, Th!Free
  <2>4. pc'[1] = pc[1] + 1 /\ pc'[0] = pc[0] /\ freed' = freed
    <3>1. Th!Advance(1) /\ freed' = freed
      BY <1>5, <2>3 DEF Th!Work, Th!SemPost, Th!ReturnOn
    <3> QED BY <1>2, <3>1 DEF Th!Advance
  <2>5. \/ pc[1] = 1 /\ sem' = sem
        \/ pc[1] \in {2, 3}
    <3>1. CASE Th!Work(t)
      <4>1. Th!Is(1, "work") /\ sem' = sem
        BY <1>5, <3>1 DEF Th!Work
      <4> QED BY <2>1, <4>1
    <3>2. CASE Th!SemPost(t) \/ Th!ReturnOn(t)
      <4>1. Th!Is(1, "sem_post") \/ Th!Is(1, "return")
        BY <1>5, <3>2 DEF Th!SemPost, Th!ReturnOn
      <4> QED BY <2>1, <4>1
    <3> QED BY <2>3, <3>1, <3>2
  <2>6. pc[0] # 1
    BY ONLY <1>1, <1>2, <2>5
  <2> QED BY ONLY <1>1, <1>2, <2>4, <2>5, <2>6
<1>6. CASE t \in Th!Thread \ {0, 1} /\ Th!Step(t)
  <2>1. \A op : ~ Th!Is(t, op)
    BY <1>2, <1>6, NobodyElse
  <2> QED
    BY <1>6, <2>1 DEF Th!Step, Th!Create, Th!CreateFails, Th!Join, Th!Lock, Th!Unlock,
                Th!Load, Th!Store, Th!AwaitOver, Th!Sleep, Th!Relock, Th!Signal, Th!SemWait,
                Th!SemPost, Th!Work, Th!Free, Th!ReturnOn
<1> QED BY <1>3, <1>4, <1>5, <1>6

\* What holds of the program with threads that runs.
ThreadsInv == TeamInv /\ MutexInv /\ RaceInv /\ ConsumerInv /\ AdmitInv /\ StackInv

\* It holds where main starts.
LEMMA ThreadsInit == Th!Init => ThreadsInv
<1> SUFFICES ASSUME Th!Init PROVE ThreadsInv
  OBVIOUS
<1>1. /\ pc = [t \in Th!Thread |-> IF t = 0 THEN 1 ELSE 0]
      /\ reg = [t \in Th!Thread |-> 0]
      /\ mem = [v \in Th!Var |-> 0]
      /\ owner = [m \in Th!Mutex |-> None]
      /\ sem = IF program = "semaphore" THEN MAX_CONCURRENT ELSE 0
      /\ freed = FALSE
  BY DEF Th!Init
<1>2. /\ pc \in [Th!Thread -> Nat] /\ pc[0] = 1
      /\ \A t \in 1 .. NUM_THREADS : pc[t] = 0 /\ t \in Th!Thread /\ reg[t] = 0
  BY <1>1 DEF Th!Thread
<1>3. Typed /\ mem["counter"] = 0 /\ mem["buffer"] = 0 /\ mem["data_ready"] = 0
  BY <1>1 DEF Typed, Th!Var, Th!Mutex
<1>4. 1 \in 1 .. NUM_THREADS /\ 2 \in 1 .. NUM_THREADS
  OBVIOUS
<1>5. TeamInv
  <2>1. Size \in Nat
    BY DEF Size
  <2>2. \A t \in 1 .. NUM_THREADS : ~ (pc[0] > Size + t)
    BY <1>2, <2>1
  <2> QED BY <1>2, <2>2 DEF TeamInv
<1>6. Cardinality(Done) = 0
  <2>1. \A c \in Counts : c[1] \in 1 .. NUM_THREADS /\ c[2] \in 1 .. NUM_INCREMENTS
    BY DEF Counts
  <2>2. \A k \in 1 .. NUM_INCREMENTS : StoreAt(k) \in Nat
    BY DEF StoreAt
  <2>3. \A c \in Counts : ~ (pc[c[1]] > StoreAt(c[2]))
    BY <1>2, <2>1, <2>2
  <2>4. Done = {}
    BY <2>3 DEF Done
  <2> QED BY <2>4, FS_EmptySet
<1>7. MutexInv
  BY <1>2, <1>3, <1>6 DEF MutexInv
<1>8. RaceInv
  <2>1. \E t \in 1 .. NUM_THREADS : pc[t] <= 4
    BY <1>2, <1>4
  <2>2. \A t \in 1 .. NUM_THREADS : reg[t] <= 0 /\ ~ (pc[t] > 2) /\ ~ (pc[t] > 3)
    BY <1>2
  <2> QED BY <1>3, <1>6, <2>1, <2>2 DEF RaceInv
<1>9. ConsumerInv
  BY <1>2, <1>3, <1>4 DEF ConsumerInv, Typed
<1>10. AdmitInv
  <2>1. Inside = {}
    BY <1>2 DEF Inside, Th!Thread
  <2>2. Cardinality(Inside) = 0
    BY <2>1, FS_EmptySet
  <2> QED BY <1>1, <2>2 DEF AdmitInv
<1>11. StackInv
  BY <1>1, <1>2, <1>4 DEF StackInv
<1> QED BY <1>5, <1>7, <1>8, <1>9, <1>10, <1>11 DEF ThreadsInv

\* The mutexes keep what they promise, with as many threads, increments and places
\* as one likes: counted exactly with the mutex, between two and all of them without
\* it; the consumer has what was produced; the semaphore lets in as many as it is
\* given, and main frees the stack of its thread behind the post.
THEOREM ThreadsAreExact == Spec => []ThreadsExact
<1>1. Init => ThreadsInv
  BY ThreadsInit DEF Init
<1>2. ThreadsInv /\ [Next]_vars => ThreadsInv'
  <2> SUFFICES ASSUME ThreadsInv, [Next]_vars PROVE ThreadsInv'
    OBVIOUS
  <2>1. program' = program /\ (Th!Next \/ UNCHANGED threads)
    BY StepsAlone
  <2>2. CASE Th!Next
    BY <2>1, <2>2, TeamStep, MutexStep, RaceStep, ConsumerStep, AdmitStep, StackStep
       DEF ThreadsInv
  <2>3. CASE UNCHANGED threads
    <3>1. UNCHANGED <<program, pc, reg, mem, owner, sem, freed>>
      BY <2>1, <2>3 DEF threads
    <3> QED
      BY <3>1 DEF ThreadsInv, TeamInv, MutexInv, RaceInv, ConsumerInv, AdmitInv, StackInv,
                  Typed, Size, Length, Done, StoreAt, Inside
  <2> QED BY <2>1, <2>2, <2>3
<1>3. ThreadsInv => ThreadsExact
  <2> SUFFICES ASSUME ThreadsInv PROVE ThreadsExact
    OBVIOUS
  <2>1. ASSUME Th!Ended(0), program \in Teams
        PROVE  \A t \in 1 .. NUM_THREADS : t <= Size => pc[t] > Length
    BY <2>1, TeamJoined DEF ThreadsInv
  <2>2. pc \in [Th!Thread -> Nat] /\ \A t \in 1 .. NUM_THREADS : pc[t] \in Nat
    BY DEF ThreadsInv, TeamInv, Th!Thread
  <2>3. ASSUME Th!Ended(0), program \in Mutexed \cup Racing
        PROVE  Cardinality(Done) = NUM_THREADS * NUM_INCREMENTS
    <3>1. program \in Teams /\ Size = NUM_THREADS
      BY <2>3 DEF Teams, Size, Mutexed, Racing
    <3>2. \A t \in 1 .. NUM_THREADS : pc[t] > Length
      BY <2>1, <2>3, <3>1
    <3> QED BY ONLY <2>2, <2>3, <3>2, AllDone
  <2>4. ASSUME Th!Ended(0), program \in Mutexed
        PROVE  mem["counter"] = NUM_THREADS * NUM_INCREMENTS
    BY <2>3, <2>4 DEF ThreadsInv, MutexInv
  <2>5. ASSUME Th!Ended(0), program \in Racing
        PROVE  /\ mem["counter"] <= NUM_THREADS * NUM_INCREMENTS
               /\ mem["counter"] >= IF NUM_INCREMENTS = 1 THEN 1 ELSE 2
    <3>1. program \in Teams /\ Size = NUM_THREADS /\ Length = 2 * NUM_INCREMENTS
      BY <2>5 DEF Teams, Size, Length, Mutexed, Racing
    <3>2. \A t \in 1 .. NUM_THREADS : pc[t] > Length
      BY <2>1, <2>5, <3>1
    <3>3. /\ mem["counter"] <= Cardinality(Done)
          /\ \A t \in 1 .. NUM_THREADS : pc[t] > 2 => mem["counter"] >= 1
          /\ mem["counter"] >= 2 \/ \E t \in 1 .. NUM_THREADS : pc[t] <= 4
      BY <2>5 DEF ThreadsInv, RaceInv
    <3>4. mem["counter"] <= NUM_THREADS * NUM_INCREMENTS
      BY <2>3, <2>5, <3>3
    <3>5. mem["counter"] >= 1
      <4>1. 1 \in 1 .. NUM_THREADS
        OBVIOUS
      <4>2. pc[1] > 2
        BY <2>2, <3>1, <3>2, <4>1
      <4> QED BY ONLY <3>3, <4>1, <4>2
    <3>6. NUM_INCREMENTS # 1 => mem["counter"] >= 2
      <4> SUFFICES ASSUME NUM_INCREMENTS # 1 PROVE mem["counter"] >= 2
        OBVIOUS
      <4>1. Length >= 4 /\ Length \in Nat
        BY <3>1
      <4>2. \A t \in 1 .. NUM_THREADS : ~ (pc[t] <= 4)
        BY ONLY <2>2, <3>2, <4>1
      <4> QED BY ONLY <3>3, <4>2
    <3> QED BY <3>4, <3>5, <3>6
  <2>6. ASSUME Th!Ended(0), program = "condition" PROVE reg[2] = 1
    <3>1. program \in Teams /\ Size = 2 /\ Length = 4
      BY <2>6 DEF Teams, Size, Length, Mutexed, Racing
    <3>2. 2 \in 1 .. NUM_THREADS
      OBVIOUS
    <3>3. pc[2] > 3
      BY <2>1, <2>2, <2>6, <3>1, <3>2
    <3> QED BY <2>6, <3>3 DEF ThreadsInv, ConsumerInv
  <2>7. Th!ResultsExact
    BY <2>4, <2>5, <2>6 DEF Th!ResultsExact, Mutexed, Racing
  <2>8. ASSUME program = "semaphore"
        PROVE  Cardinality(Inside) <= MAX_CONCURRENT
    <3>1. sem \in Nat /\ sem + Cardinality(Inside) = MAX_CONCURRENT
      BY <2>8 DEF ThreadsInv, AdmitInv
    <3>2. Cardinality(Inside) \in Nat
      <4>1. IsFiniteSet(1 .. NUM_THREADS)
        BY FS_Interval
      <4>2. Inside \subseteq 1 .. NUM_THREADS
        BY DEF Inside, Th!Thread
      <4> QED BY <4>1, <4>2, FS_Subset, FS_CardinalityType
    <3> QED BY ONLY <3>1, <3>2
  <2>9. ASSUME program = "clone", freed PROVE pc[1] > 2
    <3>1. pc[0] > 3 /\ (pc[1] <= 2 => pc[0] <= 2)
      BY <2>9 DEF ThreadsInv, StackInv
    <3>2. pc[0] \in Nat /\ pc[1] \in Nat
      BY <2>2 DEF Th!Thread
    <3> QED BY ONLY <3>1, <3>2
  <2>10. Th!Cardinality(Inside) = Cardinality(Inside)
    BY DEF Th!Cardinality, Cardinality
  <2>11. Th!SemaphoresHold
    BY <2>8, <2>9, <2>10 DEF Th!SemaphoresHold, Inside
  <2> QED BY <2>7, <2>11 DEF ThreadsExact
<1> QED BY <1>1, <1>2, <1>3, PTL DEF Spec

-----------------------------------------------------------------------------
(* The first chat server with TLS. *)

\* Where a connection's descriptor is open, where it is in the table, and where it
\* is a user in the room.
Open     == {"handshake", "auth", "enter", "hist", "read", "save", "broadcast", "close"}
Standing == {"hist", "read", "save", "broadcast", "close", "shutdown", "remove"}
Present  == {"hist", "read", "save", "broadcast"}
Places   == Open \cup Standing \cup {"off", "gone"}

Lines == Conn \X Nat

RelayType ==
    /\ place \in [Conn -> Places]
    /\ sock \in [Re!Fd -> Conn \cup {None}]
    /\ fd \in [Conn -> Re!Fd \cup {0}]
    /\ clients \in Seq(Conn)
    /\ lock \in Conn \cup {None}
    /\ cursor \in Nat \ {0}
    /\ lines \in [Conn -> Nat]
    /\ hist \in [Conn -> Nat]
    /\ chatlog \in Seq(Lines)
    /\ got \in [Conn -> SUBSET Lines]
    /\ garbled \in SUBSET Conn
    /\ peer \in [Conn -> {"open", "closed", "reset"}]

\* A thread's descriptor is its own until it closes it, and nobody's else.
DescriptorInv ==
    \A c \in Conn :
       /\ place[c] \in Open => fd[c] \in Re!Fd /\ sock[fd[c]] = c
       /\ \A f \in Re!Fd : sock[f] = c => place[c] \in Open /\ fd[c] = f

\* The table has those who entered it and have not been taken out, each once.
StandingInv ==
    /\ \A i \in 1 .. Len(clients) : place[clients[i]] \in Standing
    /\ \A c \in Conn : place[c] \in Standing => \E i \in 1 .. Len(clients) : clients[i] = c
    /\ \A i, j \in 1 .. Len(clients) : clients[i] = clients[j] => i = j

\* The mutex is held in a broadcast, which starts at the first entry; a replay
\* starts at the first line.
TurnInv ==
    /\ lock # None => place[lock] = "broadcast"
    /\ lock = None => cursor = 1
    /\ \A c \in Conn : place[c] \in {"off", "handshake", "auth", "enter"} => hist[c] = 0

\* Who has been sent bytes of another's object has a number that was another's.
GarbledInv ==
    \A c \in garbled :
       /\ place[c] # "off"
       /\ \E d \in Conn \ {c} : fd[d] = fd[c] /\ place[d] \in {"shutdown", "remove", "gone"}

\* The table still has an entry of c's in front of the broadcast of m.
Ahead(c, m) ==
    /\ place[m[1]] = "broadcast"
    /\ lines[m[1]] = m[2]
    /\ lock = m[1] => \E j \in 1 .. Len(clients) : j >= cursor /\ clients[j] = c

\* A user in the room has every line, or it is still to come: in the rest of the
\* replay, or in the rest of the table of its broadcast.
ToComeInv ==
    \A c \in Conn : place[c] \in Present /\ peer[c] = "open" =>
       \A i \in 1 .. Len(chatlog) :
          \/ chatlog[i][1] = c
          \/ chatlog[i] \in got[c]
          \/ place[c] = "hist" /\ i > hist[c]
          \/ Ahead(c, chatlog[i])

FreedInv == end = "freed object" => lock # None /\ \E c \in Conn : place[c] = "remove"

RelayInv ==
    /\ RelayType /\ DescriptorInv /\ StandingInv /\ TurnInv /\ GarbledInv /\ ToComeInv /\ FreedInv

\* What SSL_write does, and what it cannot do.
LEMMA WriteParts ==
    ASSUME RelayType, NEW c \in Conn, NEW m \in SUBSET Lines, Re!SslWrite(c, m)
    PROVE  /\ got' \in [Conn -> SUBSET Lines] /\ \A d \in Conn : got[d] \subseteq got'[d]
           /\ peer' \in [Conn -> {"open", "closed", "reset"}]
           /\ \A d \in Conn : peer'[d] = "open" => peer[d] = "open"
           /\ garbled' \in SUBSET Conn
           /\ \A d \in garbled' \ garbled : d # c /\ fd[c] \in Re!Fd /\ sock[fd[c]] = d
           /\ fd[c] \in Re!Fd /\ sock[fd[c]] = c => m \subseteq got'[c]
           /\ end' = "freed object" => place[c] \in {"remove", "gone"}
<1> DEFINE to == IF fd[c] = 0 THEN None ELSE sock[fd[c]]
<1>1. /\ got' = IF to = c THEN [got EXCEPT ![c] = got[c] \cup m] ELSE got
      /\ garbled' = IF to \in Conn \ {c} THEN garbled \cup {to} ELSE garbled
      /\ peer' \in IF to # None /\ peer[to] = "closed"
                   THEN {peer, [peer EXCEPT ![to] = "reset"]} ELSE {peer}
      /\ end' \in CASE place[c] \in {"remove", "gone"} -> {"freed object"}
                    [] to # None /\ peer[to] = "reset" -> {"SIGPIPE"}
                    [] place[c] \in {"hist", "read"} /\ lock \notin {None, c} ->
                         {"serving", "two threads in one object"}
                    [] OTHER -> {"serving"}
  BY DEF Re!SslWrite
<1>2. /\ got \in [Conn -> SUBSET Lines] /\ garbled \in SUBSET Conn
      /\ peer \in [Conn -> {"open", "closed", "reset"}]
      /\ fd[c] = 0 \/ fd[c] \in Re!Fd
      /\ to \in Conn \cup {None}
      /\ fd[c] \in Re!Fd => fd[c] # 0 /\ to = sock[fd[c]]
  <2>1. 0 \notin Re!Fd
    BY DEF Re!Fd
  <2> QED BY <2>1 DEF RelayType
<1> HIDE DEF to
<1>3. c # None
  OBVIOUS
<1>4. got' \in [Conn -> SUBSET Lines] /\ \A d \in Conn : got[d] \subseteq got'[d]
  BY ONLY <1>1, <1>2, c \in Conn, m \in SUBSET Lines
<1>5. to = c => m \subseteq got'[c]
  BY ONLY <1>1, <1>2, c \in Conn
<1>6. /\ peer' \in [Conn -> {"open", "closed", "reset"}]
      /\ \A d \in Conn : peer'[d] = "open" => peer[d] = "open"
  <2>1. peer' = peer \/ (to \in Conn /\ peer' = [peer EXCEPT ![to] = "reset"])
    BY <1>1, <1>2
  <2> QED BY ONLY <1>2, <2>1
<1>7. garbled' \in SUBSET Conn /\ \A d \in garbled' \ garbled : d = to /\ d # c /\ d \in Conn
  BY ONLY <1>1, <1>2
<1>8. \A d \in garbled' \ garbled : fd[c] \in Re!Fd
  <2>1. fd[c] = 0 => to = None
    BY DEF to
  <2> QED BY <1>2, <1>7, <2>1
<1>9. end' = "freed object" => place[c] \in {"remove", "gone"}
  BY ONLY <1>1
<1> QED BY ONLY <1>2, <1>4, <1>5, <1>6, <1>7, <1>8, <1>9

\* The table without its i-th entry.
LEMMA WithoutEntry ==
    ASSUME NEW t \in Seq(Conn), NEW i \in 1 .. Len(t)
    PROVE  /\ Re!Without(t, i) \in Seq(Conn) /\ Len(Re!Without(t, i)) = Len(t) - 1
           /\ \A j \in 1 .. Len(t) - 1 :
                 Re!Without(t, i)[j] = IF j < i THEN t[j] ELSE t[j + 1]
<1>1. Len(t) \in Nat /\ i \in Nat /\ 1 <= i /\ i <= Len(t)
  OBVIOUS
<1>2. Re!Without(t, i) = SubSeq(t, 1, i - 1) \o SubSeq(t, i + 1, Len(t))
  BY DEF Re!Without, Re!RemoveAt
<1> DEFINE A == SubSeq(t, 1, i - 1)
           B == SubSeq(t, i + 1, Len(t))
<1>3. A \in Seq(Conn) /\ Len(A) = i - 1 /\ \A j \in 1 .. i - 1 : A[j] = t[j]
  BY <1>1
<1>4. B \in Seq(Conn) /\ Len(B) = Len(t) - i /\ \A j \in 1 .. Len(t) - i : B[j] = t[i + j]
  BY <1>1
<1> HIDE DEF A, B
<1>5. Re!Without(t, i) = A \o B
  BY <1>2 DEF A, B
<1>6. /\ A \o B \in Seq(Conn) /\ Len(A \o B) = Len(A) + Len(B)
      /\ \A j \in 1 .. Len(A) + Len(B) : (A \o B)[j] = IF j <= Len(A) THEN A[j] ELSE B[j - Len(A)]
  BY ONLY <1>3, <1>4, ConcatProperties
<1>7. \A j \in 1 .. Len(t) - 1 : (A \o B)[j] = IF j < i THEN t[j] ELSE t[j + 1]
  <2> SUFFICES ASSUME NEW j \in 1 .. Len(t) - 1
               PROVE  (A \o B)[j] = IF j < i THEN t[j] ELSE t[j + 1]
    OBVIOUS
  <2>1. CASE j < i
    BY ONLY <1>1, <1>3, <1>4, <1>6, <2>1
  <2>2. CASE ~ (j < i)
    <3>1. j - (i - 1) \in 1 .. Len(t) - i /\ i + (j - (i - 1)) = j + 1
      BY ONLY <1>1, <2>2
    <3>2. (A \o B)[j] = B[j - (i - 1)]
      BY ONLY <1>1, <1>3, <1>4, <1>6, <2>2
    <3> QED BY ONLY <1>4, <2>2, <3>1, <3>2
  <2> QED BY <2>1, <2>2
<1>8. Len(A) + Len(B) = Len(t) - 1
  BY ONLY <1>1, <1>3, <1>4
<1> QED BY ONLY <1>5, <1>6, <1>7, <1>8

\* A step of a thread moves that thread only.
LEMMA GoPlace ==
    ASSUME RelayType, NEW c \in Conn, NEW from, NEW to \in Places, Re!Go(c, from, to)
    PROVE  /\ place' \in [Conn -> Places] /\ place[c] = from /\ place'[c] = to
           /\ \A d \in Conn \ {c} : place'[d] = place[d]
           /\ end = "serving"
BY DEF Re!Go, RelayType

\* A line of the log is one.
LEMMA LogLine ==
    ASSUME RelayType, NEW i \in 1 .. Len(chatlog)
    PROVE  chatlog[i] \in Lines
BY DEF RelayType

\* RelayType holds at every step.
LEMMA RelayTypeStep == RelayInv /\ Re!Next => RelayType'
<1> SUFFICES ASSUME RelayInv, NEW c \in Conn,
                    Re!Accept(c) \/ Re!PeerCloses(c) \/ Re!Serve(c)
             PROVE  RelayType'
  BY DEF Re!Next
<1>1. RelayType
  BY DEF RelayInv
<1>2. \A from, to : to \in Places /\ Re!Go(c, from, to) => place' \in [Conn -> Places]
  BY <1>1, GoPlace
<1>3. \A m \in SUBSET Lines : \A d \in Conn : Re!SslWrite(d, m) =>
         /\ got' \in [Conn -> SUBSET Lines] /\ garbled' \in SUBSET Conn
         /\ peer' \in [Conn -> {"open", "closed", "reset"}]
  BY <1>1, WriteParts
<1>4. \A f \in Re!Fd : f \in Nat \ {0}
  BY DEF Re!Fd
<1>5. CASE Re!Accept(c)
  <2>1. place' \in [Conn -> Places]
    <3>1. "handshake" \in Places
      BY DEF Places, Open
    <3> QED BY <1>2, <1>5, <3>1 DEF Re!Accept
  <2>2. PICK f \in Re!Fd : sock' = [sock EXCEPT ![f] = c] /\ fd' = [fd EXCEPT ![c] = f]
    BY <1>5 DEF Re!Accept
  <2>3. sock' \in [Re!Fd -> Conn \cup {None}] /\ fd' \in [Conn -> Re!Fd \cup {0}]
    BY <1>1, <2>2 DEF RelayType
  <2> QED BY <1>1, <1>5, <2>1, <2>3 DEF RelayType, Re!Accept, Re!table, Re!log, Re!wire
<1>6. CASE Re!PeerCloses(c)
  BY <1>1, <1>6 DEF RelayType, Re!PeerCloses, Re!kernel, Re!table, Re!log
<1>7. CASE Re!HandshakeFails(c) \/ Re!Close(c)
  <2>1. place' \in [Conn -> Places]
    <3>1. "gone" \in Places /\ "shutdown" \in Places
      BY DEF Places, Standing
    <3> QED BY <1>2, <1>7, <3>1 DEF Re!HandshakeFails, Re!Close
  <2>2. sock' = [sock EXCEPT ![fd[c]] = None] /\ UNCHANGED <<fd, Re!table, Re!log, Re!wire>>
    BY <1>7 DEF Re!HandshakeFails, Re!Close
  <2> QED BY <1>1, <2>1, <2>2 DEF RelayType, Re!table, Re!log, Re!wire
<1>8. CASE Re!HandshakeOK(c) \/ Re!ReadEnds(c)
  <2>1. place' \in [Conn -> Places]
    <3>1. "auth" \in Places /\ "close" \in Places
      BY DEF Places, Open
    <3> QED BY <1>2, <1>8, <3>1 DEF Re!HandshakeOK, Re!ReadEnds
  <2>2. UNCHANGED <<Re!kernel, Re!table, Re!log, Re!wire>>
    BY <1>8 DEF Re!HandshakeOK, Re!ReadEnds
  <2> QED BY <1>1, <2>1, <2>2 DEF RelayType, Re!kernel, Re!table, Re!log, Re!wire
<1>9. CASE Re!AuthReply(c) \/ Re!Shutdown(c)
  <2>1. place' \in [Conn -> Places]
    <3>1. "enter" \in Places /\ "remove" \in Places
      BY DEF Places, Open, Standing
    <3> QED BY <1>2, <1>9, <3>1 DEF Re!AuthReply, Re!Shutdown
  <2>2. Re!SslWrite(c, {}) /\ UNCHANGED <<Re!kernel, Re!table, Re!log>>
    BY <1>9 DEF Re!AuthReply, Re!Shutdown
  <2>3. /\ got' \in [Conn -> SUBSET Lines] /\ garbled' \in SUBSET Conn
        /\ peer' \in [Conn -> {"open", "closed", "reset"}]
    BY <1>3, <2>2
  <2> QED BY <1>1, <2>1, <2>2, <2>3 DEF RelayType, Re!kernel, Re!table, Re!log
<1>10. CASE Re!Enter(c)
  <2>1. place' \in [Conn -> Places]
    <3>1. "hist" \in Places
      BY DEF Places, Open
    <3> QED BY <1>2, <1>10, <3>1 DEF Re!Enter
  <2>2. clients' \in Seq(Conn)
    <3>1. clients \in Seq(Conn) /\ clients' = Append(clients, c)
      BY <1>1, <1>10 DEF RelayType, Re!Enter
    <3> QED BY ONLY <3>1, c \in Conn
  <2>3. UNCHANGED <<sock, fd, lock, cursor, lines, hist, chatlog, got, garbled, peer>>
    BY <1>10 DEF Re!Enter, Re!kernel, Re!log
  <2> QED BY <1>1, <2>1, <2>2, <2>3 DEF RelayType
<1>11. CASE Re!HistLine(c)
  <2>1. place' \in [Conn -> Places]
    <3>1. "hist" \in Places
      BY DEF Places, Open
    <3> QED BY <1>2, <1>11, <3>1 DEF Re!HistLine
  <2>2. hist[c] \in Nat /\ hist[c] + 1 \in 1 .. Len(chatlog)
    BY <1>1, <1>11 DEF RelayType, Re!HistLine
  <2>3. {chatlog[hist[c] + 1]} \in SUBSET Lines
    BY <1>1, <2>2, LogLine
  <2>4. /\ got' \in [Conn -> SUBSET Lines] /\ garbled' \in SUBSET Conn
        /\ peer' \in [Conn -> {"open", "closed", "reset"}]
    BY <1>3, <1>11, <2>3 DEF Re!HistLine
  <2>5. hist' \in [Conn -> Nat]
    BY <1>1, <1>11, <2>2 DEF RelayType, Re!HistLine
  <2> QED BY <1>1, <1>11, <2>1, <2>4, <2>5 DEF RelayType, Re!HistLine, Re!kernel, Re!table
<1>12. CASE Re!HistEnd(c)
  <2>1. place' \in [Conn -> Places]
    <3>1. "read" \in Places
      BY DEF Places, Open
    <3> QED BY <1>2, <1>12, <3>1 DEF Re!HistEnd
  <2> QED BY <1>1, <1>12, <2>1 DEF RelayType, Re!HistEnd, Re!kernel, Re!table, Re!wire
<1>13. CASE Re!ReadLine(c)
  <2>1. place' \in [Conn -> Places]
    <3>1. "save" \in Places
      BY DEF Places, Open
    <3> QED BY <1>2, <1>13, <3>1 DEF Re!ReadLine
  <2>2. lines' \in [Conn -> Nat]
    <3>1. lines \in [Conn -> Nat] /\ lines' = [lines EXCEPT ![c] = lines[c] + 1]
      BY <1>1, <1>13 DEF RelayType, Re!ReadLine
    <3> QED BY ONLY <3>1
  <2> QED BY <1>1, <1>13, <2>1, <2>2 DEF RelayType, Re!ReadLine, Re!kernel, Re!table, Re!wire
<1>14. CASE Re!Save(c)
  <2>1. place' \in [Conn -> Places]
    <3>1. "broadcast" \in Places
      BY DEF Places, Open
    <3> QED BY <1>2, <1>14, <3>1 DEF Re!Save
  <2>2. <<c, lines[c]>> \in Lines
    BY <1>1 DEF RelayType, Lines
  <2>3. chatlog' \in Seq(Lines)
    BY <1>1, <1>14, <2>2 DEF RelayType, Re!Save
  <2> QED BY <1>1, <1>14, <2>1, <2>3 DEF RelayType, Re!Save, Re!kernel, Re!table, Re!wire
<1>15. CASE Re!Lock(c)
  <2>1. place' \in [Conn -> Places]
    <3>1. "broadcast" \in Places
      BY DEF Places, Open
    <3> QED BY <1>2, <1>15, <3>1 DEF Re!Lock
  <2> QED BY <1>1, <1>15, <2>1 DEF RelayType, Re!Lock, Re!kernel, Re!log, Re!wire
<1>16. CASE Re!SendTo(c)
  <2>1. place' \in [Conn -> Places]
    <3>1. "broadcast" \in Places
      BY DEF Places, Open
    <3> QED BY <1>2, <1>16, <3>1 DEF Re!SendTo
  <2>2. clients[cursor] \in Conn /\ {<<c, lines[c]>>} \in SUBSET Lines
    BY <1>1, <1>16 DEF RelayType, Lines, Re!SendTo
  <2>3. /\ got' \in [Conn -> SUBSET Lines] /\ garbled' \in SUBSET Conn
        /\ peer' \in [Conn -> {"open", "closed", "reset"}]
    <3>1. CASE UNCHANGED Re!wire
      BY <1>1, <3>1 DEF RelayType, Re!wire
    <3>2. CASE Re!SslWrite(clients[cursor], {<<c, lines[c]>>})
      BY <1>3, <2>2, <3>2
    <3> QED BY <1>16, <3>1, <3>2 DEF Re!SendTo
  <2>4. cursor' \in Nat \ {0}
    BY <1>1, <1>16 DEF RelayType, Re!SendTo
  <2> QED BY <1>1, <1>16, <2>1, <2>3, <2>4 DEF RelayType, Re!SendTo, Re!kernel, Re!log
<1>17. CASE Re!Unlock(c)
  <2>1. place' \in [Conn -> Places]
    <3>1. "read" \in Places
      BY DEF Places, Open
    <3> QED BY <1>2, <1>17, <3>1 DEF Re!Unlock
  <2> QED BY <1>1, <1>17, <2>1 DEF RelayType, Re!Unlock, Re!kernel, Re!log, Re!wire
<1>18. CASE Re!RemoveEntry(c)
  <2>1. place' \in [Conn -> Places]
    <3>1. "gone" \in Places
      BY DEF Places
    <3> QED BY <1>2, <1>18, <3>1 DEF Re!RemoveEntry
  <2>2. PICK i \in 1 .. Len(clients) : clients' = Re!Without(clients, i)
    BY <1>18 DEF Re!RemoveEntry
  <2>3. clients' \in Seq(Conn)
    BY <1>1, <2>2, WithoutEntry DEF RelayType
  <2> QED
    BY <1>1, <1>18, <2>1, <2>3 DEF RelayType, Re!RemoveEntry, Re!kernel, Re!log, Re!wire
<1> QED
  BY <1>5, <1>6, <1>7, <1>8, <1>9, <1>10, <1>11, <1>12, <1>13, <1>14, <1>15, <1>16, <1>17,
     <1>18 DEF Re!Serve

\* Steps that leave descriptors and table alone, and where they lead.
Passes(c) ==
    /\ UNCHANGED <<sock, fd, clients>>
    /\ \/ place' = place
       \/ Re!Go(c, "handshake", "auth") \/ Re!Go(c, "auth", "enter")
       \/ Re!Go(c, "hist", "hist") \/ Re!Go(c, "hist", "read")
       \/ Re!Go(c, "read", "save") \/ Re!Go(c, "read", "close")
       \/ Re!Go(c, "save", "broadcast") \/ Re!Go(c, "broadcast", "broadcast")
       \/ Re!Go(c, "broadcast", "read") \/ Re!Go(c, "shutdown", "remove")

\* Those that take a descriptor or give it back.
Opens(c) ==
    /\ Re!Go(c, "off", "handshake") /\ UNCHANGED clients
    /\ \E f \in Re!Fd :
          sock[f] = None /\ sock' = [sock EXCEPT ![f] = c] /\ fd' = [fd EXCEPT ![c] = f]

Closes(c) ==
    /\ Re!Go(c, "handshake", "gone") \/ Re!Go(c, "close", "shutdown")
    /\ UNCHANGED <<fd, clients>>
    /\ sock' = [sock EXCEPT ![fd[c]] = None]

\* Every step is one of them, or enters the table, or leaves it.
LEMMA RelaySteps ==
    ASSUME NEW c \in Conn, Re!Accept(c) \/ Re!PeerCloses(c) \/ Re!Serve(c)
    PROVE  Opens(c) \/ Closes(c) \/ Passes(c) \/ Re!Enter(c) \/ Re!RemoveEntry(c)
<1>1. CASE Re!Accept(c)
  BY <1>1 DEF Opens, Re!Accept, Re!table
<1>2. CASE Re!HandshakeFails(c) \/ Re!Close(c)
  BY <1>2 DEF Closes, Re!HandshakeFails, Re!Close, Re!table
<1>3. CASE \/ Re!PeerCloses(c) \/ Re!HandshakeOK(c) \/ Re!AuthReply(c) \/ Re!HistLine(c)
           \/ Re!HistEnd(c)
  BY <1>3 DEF Passes, Re!PeerCloses, Re!HandshakeOK, Re!AuthReply, Re!HistLine, Re!HistEnd,
              Re!kernel, Re!table
<1>4. CASE \/ Re!ReadLine(c) \/ Re!ReadEnds(c) \/ Re!Save(c) \/ Re!Lock(c) \/ Re!SendTo(c)
           \/ Re!Unlock(c) \/ Re!Shutdown(c)
  BY <1>4 DEF Passes, Re!ReadLine, Re!ReadEnds, Re!Save, Re!Lock, Re!SendTo, Re!Unlock,
              Re!Shutdown, Re!kernel, Re!table
<1> QED BY <1>1, <1>2, <1>3, <1>4 DEF Re!Serve

\* Where a step that passes leads, by what matters of a place.
LEMMA PassesPlace ==
    ASSUME RelayType, NEW c \in Conn, Passes(c)
    PROVE  \A d \in Conn : /\ place'[d] \in Open <=> place[d] \in Open
                           /\ place'[d] \in Standing <=> place[d] \in Standing
                           /\ place'[d] = "off" <=> place[d] = "off"
                           /\ place[d] \in {"shutdown", "remove", "gone"} =>
                                 place'[d] \in {"shutdown", "remove", "gone"}
<1>1. CASE place' = place
  BY <1>1
<1>2. ASSUME NEW from \in Places, NEW to \in Places, Re!Go(c, from, to),
             from \in Open <=> to \in Open, from \in Standing <=> to \in Standing,
             from # "off", to # "off", from \in {"shutdown", "remove", "gone"} =>
                                          to \in {"shutdown", "remove", "gone"}
      PROVE  \A d \in Conn : /\ place'[d] \in Open <=> place[d] \in Open
                             /\ place'[d] \in Standing <=> place[d] \in Standing
                             /\ place'[d] = "off" <=> place[d] = "off"
                             /\ place[d] \in {"shutdown", "remove", "gone"} =>
                                   place'[d] \in {"shutdown", "remove", "gone"}
  <2>1. place[c] = from /\ place'[c] = to /\ \A d \in Conn \ {c} : place'[d] = place[d]
    BY <1>2, GoPlace
  <2> QED BY ONLY <1>2, <2>1
<1>3. CASE Re!Go(c, "handshake", "auth") \/ Re!Go(c, "auth", "enter")
  BY <1>2, <1>3 DEF Open, Standing, Places
<1>4. CASE Re!Go(c, "hist", "hist") \/ Re!Go(c, "hist", "read") \/ Re!Go(c, "read", "save")
  BY <1>2, <1>4 DEF Open, Standing, Places
<1>5. CASE \/ Re!Go(c, "read", "close") \/ Re!Go(c, "save", "broadcast")
           \/ Re!Go(c, "broadcast", "broadcast")
  BY <1>2, <1>5 DEF Open, Standing, Places
<1>6. CASE Re!Go(c, "broadcast", "read") \/ Re!Go(c, "shutdown", "remove")
  BY <1>2, <1>6 DEF Open, Standing, Places
<1> QED BY <1>1, <1>3, <1>4, <1>5, <1>6 DEF Passes

\* Where the others lead.
LEMMA OpensPlace ==
    ASSUME RelayType, NEW c \in Conn, Opens(c)
    PROVE  /\ place[c] = "off" /\ place'[c] = "handshake"
           /\ \A d \in Conn \ {c} : place'[d] = place[d]
           /\ clients' = clients
           /\ \E f \in Re!Fd : /\ sock[f] = None /\ fd'[c] = f /\ sock'[f] = c
                               /\ \A d \in Conn \ {c} : fd'[d] = fd[d]
                               /\ \A g \in Re!Fd \ {f} : sock'[g] = sock[g]
<1>1. "handshake" \in Places
  BY DEF Places, Open
<1>2. PICK f \in Re!Fd : sock[f] = None /\ sock' = [sock EXCEPT ![f] = c]
                         /\ fd' = [fd EXCEPT ![c] = f]
  BY DEF Opens
<1>3. sock \in [Re!Fd -> Conn \cup {None}] /\ fd \in [Conn -> Re!Fd \cup {0}]
  BY DEF RelayType
<1>4. /\ fd'[c] = f /\ sock'[f] = c
      /\ \A d \in Conn \ {c} : fd'[d] = fd[d]
      /\ \A g \in Re!Fd \ {f} : sock'[g] = sock[g]
  BY ONLY <1>2, <1>3, c \in Conn, f \in Re!Fd
<1> QED BY <1>1, <1>2, <1>4, GoPlace DEF Opens

\* A descriptor that is closed was its own thread's.
LEMMA ClosesPlace ==
    ASSUME RelayType, DescriptorInv, NEW c \in Conn, Closes(c)
    PROVE  /\ \/ place[c] = "handshake" /\ place'[c] = "gone"
              \/ place[c] = "close" /\ place'[c] = "shutdown"
           /\ \A d \in Conn \ {c} : place'[d] = place[d]
           /\ clients' = clients /\ fd' = fd
           /\ fd[c] \in Re!Fd /\ sock[fd[c]] = c /\ sock'[fd[c]] = None
           /\ \A g \in Re!Fd \ {fd[c]} : sock'[g] = sock[g]
<1>1. "gone" \in Places /\ "shutdown" \in Places
  BY DEF Places, Standing
<1>2. /\ \/ place[c] = "handshake" /\ place'[c] = "gone"
         \/ place[c] = "close" /\ place'[c] = "shutdown"
      /\ \A d \in Conn \ {c} : place'[d] = place[d]
  <2>1. CASE Re!Go(c, "handshake", "gone")
    BY <1>1, <2>1, GoPlace
  <2>2. CASE Re!Go(c, "close", "shutdown")
    BY <1>1, <2>2, GoPlace
  <2> QED BY <2>1, <2>2 DEF Closes
<1>3. place[c] \in Open
  BY <1>2 DEF Open
<1>4. fd[c] \in Re!Fd /\ sock[fd[c]] = c
  BY <1>3 DEF DescriptorInv
<1>5. sock \in [Re!Fd -> Conn \cup {None}] /\ sock' = [sock EXCEPT ![fd[c]] = None]
  BY DEF RelayType, Closes
<1>6. sock'[fd[c]] = None /\ \A g \in Re!Fd \ {fd[c]} : sock'[g] = sock[g]
  BY ONLY <1>4, <1>5
<1> QED BY <1>2, <1>4, <1>6 DEF Closes

\* One who enters stands behind the others.
LEMMA EntersPlace ==
    ASSUME RelayType, NEW c \in Conn, Re!Enter(c)
    PROVE  /\ place[c] = "enter" /\ place'[c] = "hist" /\ lock = None
           /\ \A d \in Conn \ {c} : place'[d] = place[d]
           /\ UNCHANGED <<sock, fd, lock, cursor, lines, hist, chatlog, got, garbled, peer>>
           /\ Len(clients') = Len(clients) + 1 /\ clients'[Len(clients) + 1] = c
           /\ \A i \in 1 .. Len(clients) : clients'[i] = clients[i]
<1>1. "hist" \in Places
  BY DEF Places, Open
<1>2. clients \in Seq(Conn) /\ clients' = Append(clients, c)
  BY DEF RelayType, Re!Enter
<1>3. /\ Len(clients') = Len(clients) + 1 /\ clients'[Len(clients) + 1] = c
      /\ \A i \in 1 .. Len(clients) : clients'[i] = clients[i]
  BY ONLY <1>2, c \in Conn
<1> QED BY <1>1, <1>3, GoPlace DEF Re!Enter, Re!kernel, Re!log

\* One who leaves is taken out, and those behind move up.
LEMMA RemovesPlace ==
    ASSUME RelayType, NEW c \in Conn, Re!RemoveEntry(c)
    PROVE  /\ place[c] = "remove" /\ place'[c] = "gone" /\ lock = None
           /\ \A d \in Conn \ {c} : place'[d] = place[d]
           /\ UNCHANGED <<sock, fd, lock, cursor, lines, hist, chatlog, got, garbled, peer, end>>
           /\ \E i \in 1 .. Len(clients) :
                 /\ clients[i] = c /\ Len(clients') = Len(clients) - 1
                 /\ \A j \in 1 .. Len(clients) - 1 :
                       clients'[j] = IF j < i THEN clients[j] ELSE clients[j + 1]
<1>1. "gone" \in Places
  BY DEF Places
<1>2. PICK i \in 1 .. Len(clients) : clients[i] = c /\ clients' = Re!Without(clients, i)
  BY DEF Re!RemoveEntry
<1>3. clients \in Seq(Conn)
  BY DEF RelayType
<1>4. /\ Len(clients') = Len(clients) - 1
      /\ \A j \in 1 .. Len(clients) - 1 :
            clients'[j] = IF j < i THEN clients[j] ELSE clients[j + 1]
  BY <1>2, <1>3, WithoutEntry
<1> QED BY <1>1, <1>2, <1>4, GoPlace DEF Re!RemoveEntry, Re!kernel, Re!log, Re!wire

\* DescriptorInv holds at every step: a number is given when it is free, and given
\* back by the thread that has it.
LEMMA DescriptorStep == RelayInv /\ Re!Next => DescriptorInv'
<1> SUFFICES ASSUME RelayInv, NEW c \in Conn,
                    Re!Accept(c) \/ Re!PeerCloses(c) \/ Re!Serve(c)
             PROVE  DescriptorInv'
  BY DEF Re!Next
<1>1. RelayType /\ DescriptorInv
  BY DEF RelayInv
<1>2. \A d \in Conn :
         /\ place[d] \in Open => fd[d] \in Re!Fd /\ sock[fd[d]] = d
         /\ \A f \in Re!Fd : sock[f] = d => place[d] \in Open /\ fd[d] = f
  BY <1>1 DEF DescriptorInv
<1>3. SUFFICES \A d \in Conn :
         /\ place'[d] \in Open => fd'[d] \in Re!Fd /\ sock'[fd'[d]] = d
         /\ \A f \in Re!Fd : sock'[f] = d => place'[d] \in Open /\ fd'[d] = f
  BY DEF DescriptorInv, Re!Fd
<1>4. "handshake" \in Open /\ "off" \notin Open /\ "gone" \notin Open /\ "shutdown" \notin Open
      /\ "enter" \in Open /\ "hist" \in Open /\ "remove" \notin Open
  BY DEF Open
<1>5. \A d \in Conn : d # None
  OBVIOUS
<1>6. CASE Opens(c)
  <2>1. /\ place[c] = "off" /\ place'[c] = "handshake"
        /\ \A d \in Conn \ {c} : place'[d] = place[d]
    BY <1>1, <1>6, OpensPlace
  <2>2. PICK f \in Re!Fd : /\ sock[f] = None /\ fd'[c] = f /\ sock'[f] = c
                           /\ \A d \in Conn \ {c} : fd'[d] = fd[d]
                           /\ \A g \in Re!Fd \ {f} : sock'[g] = sock[g]
    BY <1>1, <1>6, OpensPlace
  <2> QED BY ONLY <1>2, <1>4, <1>5, <2>1, <2>2
<1>7. CASE Closes(c)
  <2>1. /\ place'[c] = "gone" \/ place'[c] = "shutdown"
        /\ \A d \in Conn \ {c} : place'[d] = place[d]
        /\ fd' = fd /\ fd[c] \in Re!Fd /\ sock[fd[c]] = c /\ sock'[fd[c]] = None
        /\ \A g \in Re!Fd \ {fd[c]} : sock'[g] = sock[g]
    BY <1>1, <1>7, ClosesPlace
  <2> QED BY ONLY <1>2, <1>4, <1>5, <2>1
<1>8. CASE Passes(c)
  <2>1. \A d \in Conn : place'[d] \in Open <=> place[d] \in Open
    BY <1>1, <1>8, PassesPlace
  <2>2. sock' = sock /\ fd' = fd
    BY <1>8 DEF Passes
  <2> QED BY ONLY <1>2, <2>1, <2>2
<1>9. CASE Re!Enter(c)
  <2>1. /\ place[c] = "enter" /\ place'[c] = "hist" /\ sock' = sock /\ fd' = fd
        /\ \A d \in Conn \ {c} : place'[d] = place[d]
    BY <1>1, <1>9, EntersPlace
  <2> QED BY ONLY <1>2, <1>4, <2>1
<1>10. CASE Re!RemoveEntry(c)
  <2>1. /\ place[c] = "remove" /\ place'[c] = "gone" /\ sock' = sock /\ fd' = fd
        /\ \A d \in Conn \ {c} : place'[d] = place[d]
    BY <1>1, <1>10, RemovesPlace
  <2> QED BY ONLY <1>2, <1>4, <2>1
<1> QED BY <1>6, <1>7, <1>8, <1>9, <1>10, RelaySteps

\* StandingInv holds at every step: an entry is added behind the others and taken
\* out from among them.
LEMMA StandingStep == RelayInv /\ Re!Next => StandingInv'
<1> SUFFICES ASSUME RelayInv, NEW c \in Conn,
                    Re!Accept(c) \/ Re!PeerCloses(c) \/ Re!Serve(c)
             PROVE  StandingInv'
  BY DEF Re!Next
<1>1. RelayType /\ DescriptorInv
  BY DEF RelayInv
<1>2. /\ \A i \in 1 .. Len(clients) : place[clients[i]] \in Standing
      /\ \A d \in Conn : place[d] \in Standing => \E i \in 1 .. Len(clients) : clients[i] = d
      /\ \A i, j \in 1 .. Len(clients) : clients[i] = clients[j] => i = j
  BY DEF RelayInv, StandingInv
<1>3. SUFFICES
      /\ \A i \in 1 .. Len(clients') : place'[clients'[i]] \in Standing
      /\ \A d \in Conn : place'[d] \in Standing => \E i \in 1 .. Len(clients') : clients'[i] = d
      /\ \A i, j \in 1 .. Len(clients') : clients'[i] = clients'[j] => i = j
  BY DEF StandingInv
<1>4. Len(clients) \in Nat /\ \A i \in 1 .. Len(clients) : clients[i] \in Conn
  BY <1>1 DEF RelayType
<1>5. /\ "off" \notin Standing /\ "handshake" \notin Standing /\ "gone" \notin Standing
      /\ "close" \in Standing /\ "shutdown" \in Standing /\ "enter" \notin Standing
      /\ "hist" \in Standing
  BY DEF Standing
<1>6. ASSUME clients' = clients,
             \A d \in Conn : place'[d] \in Standing <=> place[d] \in Standing
      PROVE  /\ \A i \in 1 .. Len(clients') : place'[clients'[i]] \in Standing
             /\ \A d \in Conn : place'[d] \in Standing =>
                                   \E i \in 1 .. Len(clients') : clients'[i] = d
             /\ \A i, j \in 1 .. Len(clients') : clients'[i] = clients'[j] => i = j
  BY ONLY <1>2, <1>4, <1>6
<1>7. CASE Opens(c)
  <2>1. clients' = clients /\ \A d \in Conn : place'[d] \in Standing <=> place[d] \in Standing
    BY <1>1, <1>5, <1>7, OpensPlace
  <2> QED BY ONLY <1>6, <2>1
<1>8. CASE Closes(c)
  <2>1. clients' = clients /\ \A d \in Conn : place'[d] \in Standing <=> place[d] \in Standing
    BY <1>1, <1>5, <1>8, ClosesPlace
  <2> QED BY ONLY <1>6, <2>1
<1>9. CASE Passes(c)
  <2>1. \A d \in Conn : place'[d] \in Standing <=> place[d] \in Standing
    BY <1>1, <1>9, PassesPlace
  <2>2. clients' = clients
    BY <1>9 DEF Passes
  <2> QED BY ONLY <1>6, <2>1, <2>2
<1>10. CASE Re!Enter(c)
  <2>1. /\ place[c] = "enter" /\ place'[c] = "hist"
        /\ \A d \in Conn \ {c} : place'[d] = place[d]
        /\ Len(clients') = Len(clients) + 1 /\ clients'[Len(clients) + 1] = c
        /\ \A i \in 1 .. Len(clients) : clients'[i] = clients[i]
    BY <1>1, <1>10, EntersPlace
  <2>2. \A i \in 1 .. Len(clients) : clients[i] # c /\ place'[clients[i]] = place[clients[i]]
    BY ONLY <1>2, <1>4, <1>5, <2>1
  <2>3. \A i \in 1 .. Len(clients') :
           \/ i \in 1 .. Len(clients) /\ clients'[i] = clients[i]
           \/ i = Len(clients) + 1 /\ clients'[i] = c
    BY ONLY <1>4, <2>1
  <2>4. \A i \in 1 .. Len(clients') : place'[clients'[i]] \in Standing
    BY ONLY <1>2, <1>5, <2>1, <2>2, <2>3
  <2>5. \A i, j \in 1 .. Len(clients') : clients'[i] = clients'[j] => i = j
    BY ONLY <1>2, <2>2, <2>3
  <2>6. ASSUME NEW d \in Conn, place'[d] \in Standing
        PROVE  \E i \in 1 .. Len(clients') : clients'[i] = d
    <3>1. CASE d = c
      <4>1. Len(clients) + 1 \in 1 .. Len(clients')
        BY ONLY <1>4, <2>1
      <4> QED BY ONLY <2>1, <3>1, <4>1
    <3>2. CASE d # c
      <4>1. PICK i \in 1 .. Len(clients) : clients[i] = d
        BY ONLY <1>2, <2>1, <2>6, <3>2, d \in Conn
      <4>2. i \in 1 .. Len(clients')
        BY ONLY <1>4, <2>1
      <4> QED BY ONLY <2>1, <4>1, <4>2
    <3> QED BY <3>1, <3>2
  <2> QED BY ONLY <2>4, <2>5, <2>6
<1>11. CASE Re!RemoveEntry(c)
  <2>1. /\ place[c] = "remove" /\ place'[c] = "gone"
        /\ \A d \in Conn \ {c} : place'[d] = place[d]
    BY <1>1, <1>11, RemovesPlace
  <2>2. PICK i \in 1 .. Len(clients) :
           /\ clients[i] = c /\ Len(clients') = Len(clients) - 1
           /\ \A j \in 1 .. Len(clients) - 1 :
                 clients'[j] = IF j < i THEN clients[j] ELSE clients[j + 1]
    BY <1>1, <1>11, RemovesPlace
  <2>3. \A j \in 1 .. Len(clients') : \E k \in 1 .. Len(clients) :
           k # i /\ clients'[j] = clients[k] /\ (j < i => k = j) /\ (~ (j < i) => k = j + 1)
    <3> SUFFICES ASSUME NEW j \in 1 .. Len(clients')
                 PROVE  \E k \in 1 .. Len(clients) :
                           /\ k # i /\ clients'[j] = clients[k]
                           /\ j < i => k = j
                           /\ ~ (j < i) => k = j + 1
      OBVIOUS
    <3>1. j \in 1 .. Len(clients) - 1 /\ j \in 1 .. Len(clients) /\ j + 1 \in 1 .. Len(clients)
      BY ONLY <1>4, <2>2
    <3>2. CASE j < i
      BY ONLY <2>2, <3>1, <3>2
    <3>3. CASE ~ (j < i)
      BY ONLY <2>2, <3>1, <3>3
    <3> QED BY <3>2, <3>3
  <2>4. \A k \in 1 .. Len(clients) : k # i => clients[k] # c /\ clients[k] \in Conn
    BY ONLY <1>2, <1>4, <2>2
  <2>5. \A j \in 1 .. Len(clients') : place'[clients'[j]] \in Standing
    BY ONLY <1>2, <2>1, <2>3, <2>4
  <2>6. \A j, l \in 1 .. Len(clients') : clients'[j] = clients'[l] => j = l
    <3> SUFFICES ASSUME NEW j \in 1 .. Len(clients'), NEW l \in 1 .. Len(clients'),
                        clients'[j] = clients'[l]
                 PROVE  j = l
      OBVIOUS
    <3>1. PICK k \in 1 .. Len(clients) :
             clients'[j] = clients[k] /\ (j < i => k = j) /\ (~ (j < i) => k = j + 1)
      BY <2>3
    <3>2. PICK m \in 1 .. Len(clients) :
             clients'[l] = clients[m] /\ (l < i => m = l) /\ (~ (l < i) => m = l + 1)
      BY <2>3
    <3>3. k = m
      BY <1>2, <3>1, <3>2
    <3>4. j \in Nat /\ l \in Nat /\ i \in Nat
      BY <1>4
    <3> QED BY ONLY <3>1, <3>2, <3>3, <3>4
  <2>7. ASSUME NEW d \in Conn, place'[d] \in Standing
        PROVE  \E j \in 1 .. Len(clients') : clients'[j] = d
    <3>1. d # c /\ place[d] \in Standing
      BY ONLY <1>5, <2>1, <2>7, d \in Conn
    <3>2. PICK k \in 1 .. Len(clients) : clients[k] = d
      BY ONLY <1>2, <3>1, d \in Conn
    <3>3. k # i
      BY ONLY <2>2, <3>1, <3>2
    <3>4. CASE k < i
      <4>1. k \in 1 .. Len(clients')
        BY ONLY <1>4, <2>2, <3>4, k \in 1 .. Len(clients), i \in 1 .. Len(clients)
      <4>2. clients'[k] = d
        BY ONLY <2>2, <3>2, <3>4, <4>1
      <4> QED BY ONLY <4>1, <4>2
    <3>5. CASE k > i
      <4>1. k - 1 \in 1 .. Len(clients') /\ ~ (k - 1 < i) /\ k - 1 + 1 = k
        BY ONLY <1>4, <2>2, <3>5, k \in 1 .. Len(clients), i \in 1 .. Len(clients)
      <4>2. clients'[k - 1] = d
        BY ONLY <2>2, <3>2, <4>1
      <4> QED BY ONLY <4>1, <4>2
    <3> QED BY ONLY <1>4, <3>3, <3>4, <3>5, k \in 1 .. Len(clients), i \in 1 .. Len(clients)
  <2> QED BY ONLY <2>5, <2>6, <2>7
<1> QED BY <1>7, <1>8, <1>9, <1>10, <1>11, RelaySteps

\* Where nothing has been replayed yet.
Early == {"off", "handshake", "auth", "enter"}

\* TurnInv holds at every step: only a broadcast takes the mutex and moves its index.
LEMMA TurnStep == RelayInv /\ Re!Next => TurnInv'
<1> SUFFICES ASSUME RelayInv, NEW c \in Conn,
                    Re!Accept(c) \/ Re!PeerCloses(c) \/ Re!Serve(c)
             PROVE  TurnInv'
  BY DEF Re!Next
<1>1. RelayType
  BY DEF RelayInv
<1>2. /\ lock # None => place[lock] = "broadcast"
      /\ lock = None => cursor = 1
      /\ \A d \in Conn : place[d] \in Early => hist[d] = 0
  BY DEF RelayInv, TurnInv, Early
<1>3. SUFFICES
      /\ lock' # None => place'[lock'] = "broadcast"
      /\ lock' = None => cursor' = 1
      /\ \A d \in Conn : place'[d] \in Early => hist'[d] = 0
  BY DEF TurnInv, Early
<1>4. lock \in Conn \cup {None} /\ hist \in [Conn -> Nat] /\ c # None
  BY <1>1 DEF RelayType
<1>5. ASSUME NEW from \in Places, NEW to \in Places, Re!Go(c, from, to), from # "broadcast",
             lock' = lock, cursor' = cursor, \A d \in Conn \ {c} : hist'[d] = hist[d],
             to \in Early => from \in Early /\ hist'[c] = hist[c]
      PROVE  /\ lock' # None => place'[lock'] = "broadcast"
             /\ lock' = None => cursor' = 1
             /\ \A d \in Conn : place'[d] \in Early => hist'[d] = 0
  <2>1. place[c] = from /\ place'[c] = to /\ \A d \in Conn \ {c} : place'[d] = place[d]
    BY <1>1, <1>5, GoPlace
  <2> QED BY ONLY <1>2, <1>4, <1>5, <2>1
<1>6. CASE Re!Accept(c) \/ Re!HandshakeFails(c) \/ Re!HandshakeOK(c) \/ Re!AuthReply(c)
  <2>1. /\ UNCHANGED <<lock, cursor, hist>>
        /\ \/ Re!Go(c, "off", "handshake") \/ Re!Go(c, "handshake", "gone")
           \/ Re!Go(c, "handshake", "auth") \/ Re!Go(c, "auth", "enter")
    BY <1>6 DEF Re!Accept, Re!HandshakeFails, Re!HandshakeOK, Re!AuthReply, Re!table, Re!log
  <2> QED BY <1>5, <2>1 DEF Places, Open, Standing, Early
<1>7. CASE Re!Enter(c) \/ Re!RemoveEntry(c) \/ Re!Close(c) \/ Re!Shutdown(c)
  <2>1. /\ UNCHANGED <<lock, cursor, hist>>
        /\ \/ Re!Go(c, "enter", "hist") \/ Re!Go(c, "remove", "gone")
           \/ Re!Go(c, "close", "shutdown") \/ Re!Go(c, "shutdown", "remove")
    BY <1>7 DEF Re!Enter, Re!RemoveEntry, Re!Close, Re!Shutdown, Re!table, Re!log
  <2> QED BY <1>5, <2>1 DEF Places, Open, Standing, Early
<1>8. CASE Re!ReadLine(c) \/ Re!ReadEnds(c) \/ Re!Save(c)
  <2>1. /\ UNCHANGED <<lock, cursor, hist>>
        /\ \/ Re!Go(c, "read", "save") \/ Re!Go(c, "read", "close")
           \/ Re!Go(c, "save", "broadcast")
    BY <1>8 DEF Re!ReadLine, Re!ReadEnds, Re!Save, Re!table, Re!log
  <2> QED BY <1>5, <2>1 DEF Places, Open, Standing, Early
<1>9. CASE Re!HistLine(c) \/ Re!HistEnd(c)
  <2>1. /\ UNCHANGED <<lock, cursor>>
        /\ Re!Go(c, "hist", "hist") \/ Re!Go(c, "hist", "read")
        /\ \E n : hist' = [hist EXCEPT ![c] = n]
    BY <1>9 DEF Re!HistLine, Re!HistEnd, Re!table
  <2>2. \A d \in Conn \ {c} : hist'[d] = hist[d]
    BY ONLY <1>4, <2>1
  <2> QED BY <1>5, <2>1, <2>2 DEF Places, Open, Standing, Early
<1>10. CASE Re!PeerCloses(c)
  BY <1>2, <1>10 DEF Re!PeerCloses, Re!table, Re!log
<1>11. CASE Re!Lock(c) \/ Re!SendTo(c)
  <2>1. "broadcast" \in Places /\ "broadcast" \notin Early
    BY DEF Places, Open, Early
  <2>2. lock' = c /\ hist' = hist /\ Re!Go(c, "broadcast", "broadcast")
    BY <1>11 DEF Re!Lock, Re!SendTo, Re!log
  <2>3. \A d \in Conn : place'[d] = place[d] /\ place'[c] = "broadcast"
    BY <1>1, <2>1, <2>2, GoPlace
  <2> QED BY <1>2, <1>4, <2>2, <2>3
<1>12. CASE Re!Unlock(c)
  <2>1. "read" \in Places /\ "read" \notin Early
    BY DEF Places, Open, Early
  <2>2. lock' = None /\ cursor' = 1 /\ hist' = hist /\ Re!Go(c, "broadcast", "read")
    BY <1>12 DEF Re!Unlock, Re!log
  <2>3. place'[c] = "read" /\ \A d \in Conn \ {c} : place'[d] = place[d]
    BY <1>1, <2>1, <2>2, GoPlace
  <2> QED BY ONLY <1>2, <2>1, <2>2, <2>3
<1> QED BY <1>6, <1>7, <1>8, <1>9, <1>10, <1>11, <1>12 DEF Re!Serve

\* Whose object a broadcast writes with: one of the table's, not its own.
LEMMA BroadcastWrites ==
    ASSUME RelayInv, NEW c \in Conn, Re!SendTo(c)
    PROVE  /\ place[c] = "broadcast" /\ place' = place /\ lock = c /\ lock' = c
           /\ clients[cursor] \in Conn /\ place[clients[cursor]] \in Standing
           /\ {<<c, lines[c]>>} \in SUBSET Lines
           /\ \/ clients[cursor] = c /\ UNCHANGED Re!wire
              \/ clients[cursor] # c /\ Re!SslWrite(clients[cursor], {<<c, lines[c]>>})
<1>1. RelayType /\ StandingInv
  BY DEF RelayInv
<1>2. cursor \in 1 .. Len(clients)
  BY <1>1 DEF RelayType, Re!SendTo
<1>3. clients[cursor] \in Conn /\ place[clients[cursor]] \in Standing
  BY <1>1, <1>2 DEF RelayType, StandingInv
<1>4. place[c] = "broadcast" /\ place' = [place EXCEPT ![c] = "broadcast"]
  BY DEF Re!SendTo, Re!Go
<1>5. place' = place
  BY ONLY <1>1, <1>4, c \in Conn DEF RelayType
<1>6. {<<c, lines[c]>>} \in SUBSET Lines
  BY <1>1 DEF RelayType, Lines
<1> QED BY <1>3, <1>4, <1>5, <1>6 DEF Re!SendTo

\* A replay goes on with a line of the log.
LEMMA NextLine ==
    ASSUME RelayType, NEW c \in Conn, Re!HistLine(c)
    PROVE  hist[c] \in Nat /\ hist[c] + 1 \in 1 .. Len(chatlog)
           /\ {chatlog[hist[c] + 1]} \in SUBSET Lines
<1>1. hist[c] \in Nat /\ hist[c] + 1 \in 1 .. Len(chatlog)
  BY DEF RelayType, Re!HistLine
<1> QED BY <1>1, LogLine

\* FreedInv holds at every step: a broadcast is the only one to write with another's
\* object.
LEMMA FreedStep == RelayInv /\ Re!Next => FreedInv'
<1> SUFFICES ASSUME RelayInv, NEW c \in Conn,
                    Re!Accept(c) \/ Re!PeerCloses(c) \/ Re!Serve(c), end' = "freed object"
             PROVE  lock' # None /\ \E d \in Conn : place'[d] = "remove"
  BY DEF Re!Next, FreedInv
<1>1. RelayType
  BY DEF RelayInv
<1>2. CASE Re!SendTo(c)
  <2>1. ~ UNCHANGED Re!wire
    BY <1>2 DEF Re!SendTo, Re!Go, Re!wire
  <2>2. /\ Re!SslWrite(clients[cursor], {<<c, lines[c]>>}) /\ {<<c, lines[c]>>} \in SUBSET Lines
        /\ place' = place /\ lock' = c
        /\ clients[cursor] \in Conn /\ place[clients[cursor]] \in Standing
    BY <1>2, <2>1, BroadcastWrites
  <2>3. place[clients[cursor]] \in {"remove", "gone"}
    BY <1>1, <2>2, WriteParts
  <2>4. "gone" \notin Standing
    BY DEF Standing
  <2> QED BY <2>2, <2>3, <2>4
<1>3. CASE Re!AuthReply(c) \/ Re!Shutdown(c)
  <2>1. Re!SslWrite(c, {}) /\ place[c] \in {"auth", "shutdown"}
    BY <1>3 DEF Re!AuthReply, Re!Shutdown, Re!Go
  <2>2. place[c] \in {"remove", "gone"}
    BY <1>1, <2>1, WriteParts
  <2> QED BY <2>1, <2>2
<1>4. CASE Re!HistLine(c)
  <2>1. place[c] = "hist"
    BY <1>4 DEF Re!HistLine, Re!Go
  <2>2. {chatlog[hist[c] + 1]} \in SUBSET Lines
    BY <1>1, <1>4, NextLine
  <2>3. place[c] \in {"remove", "gone"}
    BY <1>1, <1>4, <2>2, WriteParts DEF Re!HistLine
  <2> QED BY <2>1, <2>3
<1>5. CASE Re!Accept(c) \/ Re!HandshakeFails(c) \/ Re!HandshakeOK(c) \/ Re!Enter(c)
  BY <1>5 DEF Re!Accept, Re!HandshakeFails, Re!HandshakeOK, Re!Enter, Re!Go, Re!wire
<1>6. CASE \/ Re!PeerCloses(c) \/ Re!HistEnd(c) \/ Re!ReadLine(c) \/ Re!ReadEnds(c)
           \/ Re!Save(c)
  BY <1>6 DEF Re!PeerCloses, Re!HistEnd, Re!ReadLine, Re!ReadEnds, Re!Save, Re!Go, Re!wire
<1>7. CASE Re!Lock(c) \/ Re!Unlock(c) \/ Re!Close(c) \/ Re!RemoveEntry(c)
  BY <1>7 DEF Re!Lock, Re!Unlock, Re!Close, Re!RemoveEntry, Re!Go, Re!wire
<1> QED BY <1>2, <1>3, <1>4, <1>5, <1>6, <1>7 DEF Re!Serve

\* Nobody goes back to before they were accepted, or to their descriptor once they
\* have closed it, and a number given is kept.
LEMMA NoWayBack ==
    ASSUME RelayInv, NEW c \in Conn, Re!Accept(c) \/ Re!PeerCloses(c) \/ Re!Serve(c)
    PROVE  \A d \in Conn :
              /\ place[d] \in {"shutdown", "remove", "gone"} =>
                    place'[d] \in {"shutdown", "remove", "gone"}
              /\ place[d] # "off" => place'[d] # "off" /\ fd'[d] = fd[d]
<1>1. RelayType /\ DescriptorInv
  BY DEF RelayInv
<1>2. CASE Opens(c)
  BY <1>1, <1>2, OpensPlace
<1>3. CASE Closes(c)
  BY <1>1, <1>3, ClosesPlace
<1>4. CASE Passes(c)
  <2>1. fd' = fd
    BY <1>4 DEF Passes
  <2> QED BY <1>1, <1>4, <2>1, PassesPlace
<1>5. CASE Re!Enter(c)
  BY <1>1, <1>5, EntersPlace
<1>6. CASE Re!RemoveEntry(c)
  BY <1>1, <1>6, RemovesPlace
<1> QED BY <1>2, <1>3, <1>4, <1>5, <1>6, RelaySteps

\* What a step does to what the clients have: it takes nothing away, mends no end, and
\* what goes to a wrong client is written by one who has closed the same number.
LEMMA WireStep ==
    ASSUME RelayInv, NEW c \in Conn, Re!Accept(c) \/ Re!PeerCloses(c) \/ Re!Serve(c)
    PROVE  /\ \A d \in Conn : got[d] \subseteq got'[d]
           /\ \A d \in Conn : peer'[d] = "open" => peer[d] = "open"
           /\ \A e \in garbled' \ garbled : e \in Conn /\
                 \E x \in Conn \ {e} : /\ fd[x] \in Re!Fd /\ sock[fd[x]] = e
                                       /\ place[x] \in Open \cup Standing
<1> DEFINE P == /\ \A d \in Conn : got[d] \subseteq got'[d]
                /\ \A d \in Conn : peer'[d] = "open" => peer[d] = "open"
                /\ \A e \in garbled' \ garbled : e \in Conn /\
                      \E x \in Conn \ {e} : /\ fd[x] \in Re!Fd /\ sock[fd[x]] = e
                                            /\ place[x] \in Open \cup Standing
<1>1. RelayType
  BY DEF RelayInv
<1>2. ASSUME NEW x \in Conn, NEW m \in SUBSET Lines, Re!SslWrite(x, m),
             place[x] \in Open \cup Standing
      PROVE  P
  BY <1>1, <1>2, WriteParts
<1>3. ASSUME UNCHANGED <<got, peer, garbled>> PROVE P
  BY <1>3
<1> HIDE DEF P
<1>4. CASE Re!SendTo(c)
  <2>1. \/ UNCHANGED <<got, peer, garbled>>
        \/ /\ Re!SslWrite(clients[cursor], {<<c, lines[c]>>})
           /\ clients[cursor] \in Conn /\ place[clients[cursor]] \in Standing
           /\ {<<c, lines[c]>>} \in SUBSET Lines
    BY <1>4, BroadcastWrites DEF Re!wire
  <2> QED BY <1>2, <1>3, <2>1 DEF P
<1>5. CASE Re!AuthReply(c) \/ Re!Shutdown(c)
  <2>1. Re!SslWrite(c, {}) /\ place[c] \in Open \cup Standing
    BY <1>5 DEF Re!AuthReply, Re!Shutdown, Re!Go, Open, Standing
  <2> QED BY <1>2, <2>1 DEF P
<1>6. CASE Re!HistLine(c)
  <2>1. place[c] \in Open
    BY <1>6 DEF Re!HistLine, Re!Go, Open
  <2>2. {chatlog[hist[c] + 1]} \in SUBSET Lines
    BY <1>1, <1>6, NextLine
  <2> QED BY <1>2, <1>6, <2>1, <2>2 DEF P, Re!HistLine
<1>7. CASE Re!PeerCloses(c)
  <2>1. UNCHANGED <<got, garbled>> /\ peer' = [peer EXCEPT ![c] = "closed"]
    BY <1>7 DEF Re!PeerCloses
  <2>2. peer \in [Conn -> {"open", "closed", "reset"}]
    BY <1>1 DEF RelayType
  <2>3. \A d \in Conn : peer'[d] = "open" => peer[d] = "open"
    BY ONLY <2>1, <2>2
  <2> QED BY <2>1, <2>3 DEF P
<1>8. CASE Re!Accept(c) \/ Re!HandshakeFails(c) \/ Re!HandshakeOK(c) \/ Re!Enter(c)
  BY <1>3, <1>8 DEF P, Re!Accept, Re!HandshakeFails, Re!HandshakeOK, Re!Enter, Re!wire
<1>9. CASE Re!HistEnd(c) \/ Re!ReadLine(c) \/ Re!ReadEnds(c) \/ Re!Save(c)
  BY <1>3, <1>9 DEF P, Re!HistEnd, Re!ReadLine, Re!ReadEnds, Re!Save, Re!wire
<1>10. CASE Re!Lock(c) \/ Re!Unlock(c) \/ Re!Close(c) \/ Re!RemoveEntry(c)
  BY <1>3, <1>10 DEF P, Re!Lock, Re!Unlock, Re!Close, Re!RemoveEntry, Re!wire
<1> QED BY <1>4, <1>5, <1>6, <1>7, <1>8, <1>9, <1>10 DEF Re!Serve

\* GarbledInv holds at every step: a number leads to another's connection only after its
\* thread has closed it.
LEMMA GarbledStep == RelayInv /\ Re!Next => GarbledInv'
<1> SUFFICES ASSUME RelayInv, NEW c \in Conn,
                    Re!Accept(c) \/ Re!PeerCloses(c) \/ Re!Serve(c)
             PROVE  GarbledInv'
  BY DEF Re!Next
<1> DEFINE Left == {"shutdown", "remove", "gone"}
<1>1. \A d \in Conn : /\ place[d] \in Left => place'[d] \in Left
                      /\ place[d] # "off" => place'[d] # "off" /\ fd'[d] = fd[d]
  BY NoWayBack
<1>2. \A e \in garbled' \ garbled : e \in Conn /\
         \E x \in Conn \ {e} : /\ fd[x] \in Re!Fd /\ sock[fd[x]] = e
                               /\ place[x] \in Open \cup Standing
  BY WireStep
<1>3. \A e \in garbled : e \in Conn /\ place[e] # "off"
                         /\ \E d \in Conn \ {e} : fd[d] = fd[e] /\ place[d] \in Left
  BY DEF RelayInv, GarbledInv, RelayType
<1>4. \A d \in Conn :
         /\ place[d] \in Open => fd[d] \in Re!Fd /\ sock[fd[d]] = d
         /\ \A f \in Re!Fd : sock[f] = d => place[d] \in Open /\ fd[d] = f
  BY DEF RelayInv, DescriptorInv
<1>5. "off" \notin Open /\ "off" \notin Left /\ \A p \in Standing \ Open : p \in Left
  BY DEF Open, Standing
<1> HIDE DEF Left
<1>6. \A e \in garbled' : e \in Conn /\ place[e] # "off"
                          /\ \E d \in Conn \ {e} : fd[d] = fd[e] /\ place[d] \in Left
  <2> SUFFICES ASSUME NEW e \in garbled' \ garbled
               PROVE  e \in Conn /\ place[e] # "off"
                      /\ \E d \in Conn \ {e} : fd[d] = fd[e] /\ place[d] \in Left
    BY <1>3
  <2>1. PICK x \in Conn \ {e} : /\ fd[x] \in Re!Fd /\ sock[fd[x]] = e
                                /\ place[x] \in Open \cup Standing
    BY <1>2
  <2>2. e \in Conn
    BY <1>2
  <2>3. place[e] \in Open /\ fd[e] = fd[x]
    BY ONLY <1>4, <2>1, <2>2
  <2>4. place[x] \notin Open
    BY ONLY <1>4, <2>1
  <2>5. place[x] \in Left
    BY ONLY <1>5, <2>1, <2>4
  <2> QED BY ONLY <1>5, <2>1, <2>2, <2>3, <2>5
<1>7. \A e \in garbled' : place'[e] # "off"
                          /\ \E d \in Conn \ {e} : fd'[d] = fd'[e] /\ place'[d] \in Left
  <2> SUFFICES ASSUME NEW e \in garbled'
               PROVE  place'[e] # "off"
                      /\ \E d \in Conn \ {e} : fd'[d] = fd'[e] /\ place'[d] \in Left
    OBVIOUS
  <2>1. PICK d \in Conn \ {e} : fd[d] = fd[e] /\ place[d] \in Left
    BY <1>6
  <2>2. e \in Conn /\ place[e] # "off"
    BY <1>6
  <2> QED BY ONLY <1>1, <1>5, <2>1, <2>2
<1> QED BY <1>7 DEF GarbledInv, Left

\* ToComeInv holds at every step.
LEMMA ToComeStep == RelayInv /\ Re!Next => ToComeInv'
<1> SUFFICES ASSUME RelayInv, NEW c \in Conn,
                    Re!Accept(c) \/ Re!PeerCloses(c) \/ Re!Serve(c)
             PROVE  ToComeInv'
  BY DEF Re!Next
<1> DEFINE Old(d, i) ==
              \/ chatlog[i][1] = d
              \/ chatlog[i] \in got[d]
              \/ place[d] = "hist" /\ i > hist[d]
              \/ /\ place[chatlog[i][1]] = "broadcast"
                 /\ lines[chatlog[i][1]] = chatlog[i][2]
                 /\ lock = chatlog[i][1] =>
                       \E j \in 1 .. Len(clients) : j >= cursor /\ clients[j] = d
           New(d, i) ==
              \/ chatlog'[i][1] = d
              \/ chatlog'[i] \in got'[d]
              \/ place'[d] = "hist" /\ i > hist'[d]
              \/ /\ place'[chatlog'[i][1]] = "broadcast"
                 /\ lines'[chatlog'[i][1]] = chatlog'[i][2]
                 /\ lock' = chatlog'[i][1] =>
                       \E j \in 1 .. Len(clients') : j >= cursor' /\ clients'[j] = d
<1>1. RelayType /\ DescriptorInv /\ StandingInv /\ TurnInv
  BY DEF RelayInv
<1>2. \A d \in Conn : place[d] \in Present /\ peer[d] = "open" =>
         \A i \in 1 .. Len(chatlog) : Old(d, i)
  BY DEF RelayInv, ToComeInv, Ahead
<1>3. SUFFICES ASSUME NEW d \in Conn, place'[d] \in Present, peer'[d] = "open",
                      NEW i \in 1 .. Len(chatlog')
               PROVE  New(d, i)
  BY DEF ToComeInv, Ahead
<1>4. got[d] \subseteq got'[d] /\ peer[d] = "open"
  BY <1>3, WireStep
<1>5. /\ Len(chatlog) \in Nat
      /\ \A k \in 1 .. Len(chatlog) : chatlog[k][1] \in Conn /\ chatlog[k][2] \in Nat
                                      /\ chatlog[k] = <<chatlog[k][1], chatlog[k][2]>>
  <2>1. Len(chatlog) \in Nat
    BY <1>1 DEF RelayType
  <2>2. ASSUME NEW k \in 1 .. Len(chatlog)
        PROVE  chatlog[k][1] \in Conn /\ chatlog[k][2] \in Nat
               /\ chatlog[k] = <<chatlog[k][1], chatlog[k][2]>>
    <3>1. chatlog[k] \in Conn \X Nat
      BY <1>1, LogLine DEF Lines
    <3> QED BY ONLY <3>1
  <2> QED BY ONLY <2>1, <2>2
<1>6. place[d] \in Present /\ i \in 1 .. Len(chatlog) => Old(d, i)
  BY <1>2, <1>4
<1>7. "broadcast" \in Present /\ "hist" \in Present /\ "hist" \in Places
      /\ "broadcast" \in Places /\ "read" \in Places /\ "gone" \in Places
  BY DEF Present, Places, Open
<1>8. ASSUME NEW from \in Places, NEW to \in Places, Re!Go(c, from, to), from # "broadcast",
             to \in Present => from \in Present /\ (from = "hist" => to = "hist"),
             UNCHANGED <<clients, lock, cursor, hist, chatlog>>,
             \A e \in Conn \ {c} : lines'[e] = lines[e]
      PROVE  New(d, i)
  <2>1. place[c] = from /\ place'[c] = to /\ \A e \in Conn \ {c} : place'[e] = place[e]
    BY <1>1, <1>8, GoPlace
  <2>2. place[d] \in Present /\ (place[d] = "hist" => place'[d] = "hist")
    BY ONLY <1>3, <1>8, <2>1, d \in Conn
  <2>3. chatlog' = chatlog /\ i \in 1 .. Len(chatlog) /\ chatlog[i][1] \in Conn
    BY <1>5, <1>8
  <2>4. Old(d, i)
    BY <1>6, <2>2, <2>3
  <2>5. place[chatlog[i][1]] = "broadcast" =>
           /\ place'[chatlog[i][1]] = "broadcast"
           /\ lines'[chatlog[i][1]] = lines[chatlog[i][1]]
    BY ONLY <1>8, <2>1, <2>3
  <2> QED BY ONLY <1>4, <1>8, <2>2, <2>3, <2>4, <2>5
<1>9. CASE Re!Accept(c) \/ Re!HandshakeFails(c) \/ Re!HandshakeOK(c) \/ Re!AuthReply(c)
  <2>1. /\ UNCHANGED <<clients, lock, cursor, hist, chatlog, lines>>
        /\ \/ Re!Go(c, "off", "handshake") \/ Re!Go(c, "handshake", "gone")
           \/ Re!Go(c, "handshake", "auth") \/ Re!Go(c, "auth", "enter")
    BY <1>9 DEF Re!Accept, Re!HandshakeFails, Re!HandshakeOK, Re!AuthReply, Re!table, Re!log
  <2> QED BY <1>8, <2>1 DEF Places, Open, Standing, Present
<1>10. CASE Re!Close(c) \/ Re!Shutdown(c) \/ Re!ReadEnds(c)
  <2>1. /\ UNCHANGED <<clients, lock, cursor, hist, chatlog, lines>>
        /\ \/ Re!Go(c, "close", "shutdown") \/ Re!Go(c, "shutdown", "remove")
           \/ Re!Go(c, "read", "close")
    BY <1>10 DEF Re!Close, Re!Shutdown, Re!ReadEnds, Re!table, Re!log
  <2> QED BY <1>8, <2>1 DEF Places, Open, Standing, Present
<1>11. CASE Re!ReadLine(c)
  <2>1. /\ UNCHANGED <<clients, lock, cursor, hist, chatlog>>
        /\ Re!Go(c, "read", "save") /\ lines' = [lines EXCEPT ![c] = lines[c] + 1]
    BY <1>11 DEF Re!ReadLine, Re!table
  <2>2. \A e \in Conn \ {c} : lines'[e] = lines[e]
    BY <1>1, <2>1 DEF RelayType
  <2> QED BY <1>8, <2>1, <2>2 DEF Places, Open, Standing, Present
<1>12. CASE Re!PeerCloses(c)
  <2>1. UNCHANGED <<place, clients, lock, cursor, lines, hist, chatlog, got>>
    BY <1>12 DEF Re!PeerCloses, Re!table, Re!log
  <2> QED BY <1>3, <1>6, <2>1
<1>13. CASE Re!Enter(c)
  <2>1. /\ place[c] = "enter" /\ place'[c] = "hist" /\ lock = None
        /\ \A e \in Conn \ {c} : place'[e] = place[e]
        /\ UNCHANGED <<lock, cursor, lines, hist, chatlog, got>>
    BY <1>1, <1>13, EntersPlace
  <2>2. i \in Nat /\ i > 0 /\ i \in 1 .. Len(chatlog) /\ chatlog[i][1] \in Conn
    BY <1>5, <2>1
  <2>3. CASE d = c
    <3>1. hist[c] = 0
      BY <1>1, <2>1 DEF TurnInv
    <3> QED BY ONLY <2>1, <2>2, <2>3, <3>1
  <2>4. CASE d # c
    <3>1. Old(d, i)
      BY <1>3, <1>6, <2>1, <2>2, <2>4
    <3>2. chatlog[i][1] # None
      BY <2>2
    <3> QED BY ONLY <1>4, <2>1, <2>2, <2>4, <3>1, <3>2, d \in Conn
  <2> QED BY <2>3, <2>4
<1>14. CASE Re!RemoveEntry(c)
  <2>1. /\ place[c] = "remove" /\ place'[c] = "gone" /\ lock = None
        /\ \A e \in Conn \ {c} : place'[e] = place[e]
        /\ UNCHANGED <<lock, cursor, lines, hist, chatlog, got>>
    BY <1>1, <1>14, RemovesPlace
  <2>2. i \in 1 .. Len(chatlog) /\ chatlog[i][1] \in Conn /\ chatlog[i][1] # None
    BY <1>5, <2>1
  <2>3. d # c
    BY <1>3, <2>1 DEF Present
  <2>4. Old(d, i)
    BY <1>3, <1>6, <2>1, <2>2, <2>3
  <2> QED BY ONLY <1>4, <2>1, <2>2, <2>3, <2>4, d \in Conn
<1>15. CASE Re!HistLine(c)
  <2>1. Re!Go(c, "hist", "hist") /\ UNCHANGED <<clients, lock, cursor, lines, chatlog>>
        /\ hist' = [hist EXCEPT ![c] = hist[c] + 1]
    BY <1>15 DEF Re!HistLine, Re!table
  <2>2. place[c] = "hist" /\ place'[c] = "hist" /\ \A e \in Conn \ {c} : place'[e] = place[e]
    BY <1>1, <1>7, <2>1, GoPlace
  <2>3. hist'[c] = hist[c] + 1 /\ \A e \in Conn \ {c} : hist'[e] = hist[e]
    <3>1. hist \in [Conn -> Nat]
      BY <1>1 DEF RelayType
    <3> QED BY ONLY <2>1, <3>1, c \in Conn
  <2>4. i \in 1 .. Len(chatlog) /\ i \in Nat /\ hist[c] \in Nat
    BY <1>1, <1>5, <2>1 DEF RelayType
  <2>5. Old(d, i)
    BY <1>3, <1>6, <1>7, <2>2, <2>4
  <2>6. \A e \in Conn : place'[e] = place[e]
    BY ONLY <2>2
  <2>7. chatlog[i][1] \in Conn
    BY <1>5, <2>4
  <2>8. chatlog[hist[c] + 1] \in got'[c]
    <3>1. fd[c] \in Re!Fd /\ sock[fd[c]] = c
      BY <1>1, <2>2 DEF DescriptorInv, Open
    <3>2. /\ {chatlog[hist[c] + 1]} \in SUBSET Lines
          /\ Re!SslWrite(c, {chatlog[hist[c] + 1]})
      BY <1>1, <1>15, NextLine DEF Re!HistLine
    <3>3. {chatlog[hist[c] + 1]} \subseteq got'[c]
      BY <1>1, <3>1, <3>2, WriteParts
    <3> QED BY <3>3
  <2>9. CASE d = c /\ i > hist[c]
    <3>1. i = hist[c] + 1 \/ i > hist'[c]
      BY ONLY <2>3, <2>4, <2>9
    <3>2. CASE i = hist[c] + 1
      BY ONLY <2>1, <2>8, <2>9, <3>2
    <3>3. CASE i > hist'[c]
      BY ONLY <2>2, <2>9, <3>3
    <3> QED BY <3>1, <3>2, <3>3
  <2>10. CASE ~ (d = c /\ i > hist[c])
    BY ONLY <1>4, <2>1, <2>3, <2>5, <2>6, <2>7, <2>10, d \in Conn
  <2> QED BY <2>9, <2>10
<1>16. CASE Re!HistEnd(c)
  <2>1. Re!Go(c, "hist", "read") /\ UNCHANGED <<clients, lock, cursor, lines, chatlog>>
        /\ hist' = [hist EXCEPT ![c] = 0] /\ hist[c] = Len(chatlog)
    BY <1>16 DEF Re!HistEnd, Re!table
  <2>2. place[c] = "hist" /\ place'[c] = "read" /\ \A e \in Conn \ {c} : place'[e] = place[e]
    BY <1>1, <1>7, <2>1, GoPlace
  <2>3. \A e \in Conn \ {c} : hist'[e] = hist[e]
    <3>1. hist \in [Conn -> Nat]
      BY <1>1 DEF RelayType
    <3> QED BY ONLY <2>1, <3>1, c \in Conn
  <2>4. i \in 1 .. Len(chatlog) /\ ~ (i > Len(chatlog)) /\ chatlog[i][1] \in Conn
    <3>1. i \in 1 .. Len(chatlog)
      BY <2>1
    <3> QED BY ONLY <1>5, <3>1
  <2>5. Old(d, i)
    BY <1>3, <1>6, <1>7, <2>2, <2>4
  <2> QED BY ONLY <1>4, <2>1, <2>2, <2>3, <2>4, <2>5, d \in Conn
<1>17. CASE Re!Save(c)
  <2>1. Re!Go(c, "save", "broadcast") /\ chatlog' = Append(chatlog, <<c, lines[c]>>)
        /\ UNCHANGED <<clients, lock, cursor, lines, hist>>
    BY <1>17 DEF Re!Save, Re!table
  <2>2. place[c] = "save" /\ place'[c] = "broadcast"
        /\ \A e \in Conn \ {c} : place'[e] = place[e]
    BY <1>1, <1>7, <2>1, GoPlace
  <2>3. lock # c
    <3>1. lock # None => place[lock] = "broadcast"
      BY <1>1 DEF TurnInv
    <3> QED BY <2>2, <3>1
  <2>4. place[d] \in Present /\ (place[d] = "hist" => place'[d] = "hist")
    BY <1>3, <2>2 DEF Present
  <2>5. chatlog \in Seq(Lines) /\ <<c, lines[c]>> \in Lines
    BY <1>1 DEF RelayType, Lines
  <2>6. \/ i = Len(chatlog) + 1 /\ chatlog'[i] = <<c, lines[c]>>
        \/ i \in 1 .. Len(chatlog) /\ chatlog'[i] = chatlog[i]
    <3>1. /\ Len(chatlog') = Len(chatlog) + 1
          /\ chatlog'[Len(chatlog) + 1] = <<c, lines[c]>>
          /\ \A k \in 1 .. Len(chatlog) : chatlog'[k] = chatlog[k]
      BY ONLY <2>1, <2>5
    <3> QED BY ONLY <1>5, <3>1, i \in 1 .. Len(chatlog')
  <2>7. CASE chatlog'[i] = <<c, lines[c]>>
    <3>1. chatlog'[i][1] = c /\ chatlog'[i][2] = lines[c]
      BY <2>7
    <3> QED BY ONLY <2>1, <2>2, <2>3, <3>1
  <2>8. CASE i \in 1 .. Len(chatlog) /\ chatlog'[i] = chatlog[i]
    <3>1. Old(d, i) /\ chatlog[i][1] \in Conn
      BY <1>5, <1>6, <2>4, <2>8
    <3> QED BY ONLY <1>4, <2>1, <2>2, <2>4, <2>8, <3>1
  <2> QED BY <2>6, <2>7, <2>8
<1>18. CASE Re!Lock(c)
  <2>1. Re!Go(c, "broadcast", "broadcast") /\ lock = None /\ lock' = c
        /\ UNCHANGED <<clients, cursor, lines, hist, chatlog, got>>
    BY <1>18 DEF Re!Lock, Re!log, Re!wire
  <2>2. \A e \in Conn : place'[e] = place[e]
    BY <1>1, <1>7, <2>1, GoPlace
  <2>3. i \in 1 .. Len(chatlog) /\ chatlog[i][1] \in Conn
    BY <1>5, <2>1
  <2>4. Old(d, i)
    BY <1>3, <1>6, <2>2, <2>3
  <2>5. \E j \in 1 .. Len(clients) : j >= cursor /\ clients[j] = d
    <3>1. cursor = 1
      BY <1>1, <2>1 DEF TurnInv
    <3>2. place[d] \in Standing
      BY <1>3, <2>2 DEF Present, Standing
    <3>3. PICK j \in 1 .. Len(clients) : clients[j] = d
      BY <1>1, <3>2 DEF StandingInv
    <3>4. Len(clients) \in Nat
      BY <1>1 DEF RelayType
    <3>5. j >= 1
      BY ONLY <3>4, j \in 1 .. Len(clients)
    <3> QED BY <3>1, <3>3, <3>5
  <2> QED BY ONLY <2>1, <2>2, <2>3, <2>4, <2>5, d \in Conn
<1>19. CASE Re!SendTo(c)
  <2>1. /\ place' = place /\ lock = c /\ lock' = c
        /\ clients[cursor] \in Conn
        /\ {<<c, lines[c]>>} \in SUBSET Lines
        /\ \/ clients[cursor] = c
           \/ Re!SslWrite(clients[cursor], {<<c, lines[c]>>})
    BY <1>19, BroadcastWrites
  <2>2. cursor' = cursor + 1 /\ UNCHANGED <<clients, lines, hist, chatlog>>
    BY <1>19 DEF Re!SendTo, Re!log
  <2>3. /\ i \in 1 .. Len(chatlog) /\ chatlog[i][1] \in Conn
        /\ chatlog[i] = <<chatlog[i][1], chatlog[i][2]>>
    BY <1>5, <2>2
  <2>4. Old(d, i)
    BY <1>3, <1>6, <2>1, <2>3
  <2>5. cursor \in Nat /\ Len(clients) \in Nat
    BY <1>1 DEF RelayType
  <2>6. CASE clients[cursor] = d /\ chatlog[i] = <<c, lines[c]>> /\ d # c
    <3>1. fd[d] \in Re!Fd /\ sock[fd[d]] = d
      BY <1>1, <1>3, <2>1 DEF DescriptorInv, Open, Present
    <3>2. {<<c, lines[c]>>} \subseteq got'[d]
      BY <1>1, <2>1, <2>6, <3>1, WriteParts
    <3> QED BY <2>2, <2>6, <3>2
  <2>7. CASE d = c /\ chatlog[i][1] = c
    BY <2>2, <2>7
  <2>8. CASE chatlog[i][1] = c /\ lines[c] = chatlog[i][2] /\ clients[cursor] # d
    <3>1. (\E j \in 1 .. Len(clients) : j >= cursor /\ clients[j] = d) =>
             \E j \in 1 .. Len(clients) : j >= cursor' /\ clients[j] = d
      BY ONLY <2>2, <2>5, <2>8
    <3> QED BY ONLY <1>4, <2>1, <2>2, <2>3, <2>4, <2>8, <3>1
  <2>9. CASE chatlog[i][1] # c
    BY ONLY <1>4, <2>1, <2>2, <2>3, <2>4, <2>9
  <2>10. CASE lines[c] # chatlog[i][2] /\ chatlog[i][1] = c
    BY ONLY <1>4, <2>1, <2>2, <2>3, <2>4, <2>10
  <2> QED BY <2>3, <2>6, <2>7, <2>8, <2>9, <2>10
<1>20. CASE Re!Unlock(c)
  <2>1. Re!Go(c, "broadcast", "read") /\ lock = c /\ cursor > Len(clients) /\ lock' = None
        /\ UNCHANGED <<clients, lines, hist, chatlog, got>>
    BY <1>20 DEF Re!Unlock, Re!log, Re!wire
  <2>2. place[c] = "broadcast" /\ place'[c] = "read"
        /\ \A e \in Conn \ {c} : place'[e] = place[e]
    BY <1>1, <1>7, <2>1, GoPlace
  <2>3. i \in 1 .. Len(chatlog) /\ chatlog[i][1] \in Conn /\ chatlog[i][1] # None
    BY <1>5, <2>1
  <2>4. place[d] \in Present /\ (place[d] = "hist" => place'[d] = "hist")
    BY <1>3, <1>7, <2>2
  <2>5. Old(d, i)
    BY <1>6, <2>3, <2>4
  <2>6. ~ \E j \in 1 .. Len(clients) : j >= cursor /\ clients[j] = d
    <3>1. cursor \in Nat /\ Len(clients) \in Nat
      BY <1>1 DEF RelayType
    <3> QED BY ONLY <2>1, <3>1
  <2> QED BY ONLY <1>4, <2>1, <2>2, <2>3, <2>4, <2>5, <2>6
<1> QED
  BY <1>9, <1>10, <1>11, <1>12, <1>13, <1>14, <1>15, <1>16, <1>17, <1>18, <1>19, <1>20
     DEF Re!Serve

\* RelayInv holds when nobody has connected.
LEMMA RelayStart == Re!Init => RelayInv
<1> SUFFICES ASSUME Re!Init PROVE RelayInv
  OBVIOUS
<1>1. /\ place = [c \in Conn |-> "off"] /\ sock = [f \in Re!Fd |-> None]
      /\ fd = [c \in Conn |-> 0] /\ clients = <<>> /\ lock = None /\ cursor = 1
      /\ lines = [c \in Conn |-> 0] /\ hist = [c \in Conn |-> 0] /\ chatlog = <<>>
      /\ got = [c \in Conn |-> {}] /\ garbled = {}
      /\ peer = [c \in Conn |-> "open"] /\ end = "serving"
  BY DEF Re!Init
<1>2. RelayType
  <2>1. "off" \in Places
    BY DEF Places
  <2> QED BY <1>1, <2>1 DEF RelayType
<1>3. DescriptorInv
  <2>1. "off" \notin Open /\ \A c \in Conn : c # None
    BY DEF Open
  <2> QED BY <1>1, <2>1 DEF DescriptorInv
<1>4. StandingInv
  BY <1>1 DEF StandingInv, Standing
<1>5. TurnInv
  BY <1>1 DEF TurnInv
<1>6. GarbledInv /\ FreedInv
  BY <1>1 DEF GarbledInv, FreedInv
<1>7. ToComeInv
  BY <1>1 DEF ToComeInv, Present
<1> QED BY <1>2, <1>3, <1>4, <1>5, <1>6, <1>7 DEF RelayInv

\* assignment9/chat_app/server_tls.c, for any number of connections and lines: the
\* server's two faults need a thread that is leaving, and a user whose connection holds
\* has every line that is not still to be broadcast (RelayServes).
THEOREM RelayReaches == Spec => []RelayServes
<1>1. Init => RelayInv
  BY RelayStart DEF Init
<1>2. RelayInv /\ [Next]_vars => RelayInv'
  <2>1. CASE Re!Next
    BY <2>1, RelayTypeStep, DescriptorStep, StandingStep, TurnStep, GarbledStep, ToComeStep,
       FreedStep DEF RelayInv
  <2>2. CASE UNCHANGED relay
    <3>1. RelayType <=> RelayType'
      BY <2>2 DEF relay, RelayType
    <3>2. (DescriptorInv <=> DescriptorInv') /\ (StandingInv <=> StandingInv')
      BY <2>2 DEF relay, DescriptorInv, StandingInv
    <3>3. (TurnInv <=> TurnInv') /\ (GarbledInv <=> GarbledInv') /\ (FreedInv <=> FreedInv')
      BY <2>2 DEF relay, TurnInv, GarbledInv, FreedInv
    <3>4. ToComeInv <=> ToComeInv'
      BY <2>2 DEF relay, ToComeInv, Ahead
    <3> QED BY <3>1, <3>2, <3>3, <3>4 DEF RelayInv
  <2> QED BY <2>1, <2>2, StepsAlone
<1>3. RelayInv => RelayServes
  <2> SUFFICES ASSUME RelayInv PROVE RelayServes
    OBVIOUS
  <2>1. Re!RelayFaultsNeedDeparture
    BY DEF RelayInv, RelayType, GarbledInv, FreedInv, Re!RelayFaultsNeedDeparture
  <2>2. Re!RelayReachesAll
    <3>1. \A c \in Conn : place[c] \in Present /\ peer[c] = "open" =>
             \A i \in 1 .. Len(chatlog) :
                \/ chatlog[i][1] = c
                \/ chatlog[i] \in got[c]
                \/ place[c] = "hist" /\ i > hist[c]
                \/ place[chatlog[i][1]] = "broadcast" /\ lines[chatlog[i][1]] = chatlog[i][2]
      BY DEF RelayInv, ToComeInv, Ahead
    <3>2. "read" \in Present /\ "read" # "hist"
      BY DEF Present
    <3> QED BY <3>1, <3>2 DEF Re!RelayReachesAll
  <2> QED BY <2>1, <2>2 DEF RelayServes
<1>4. QED BY <1>1, <1>2, <1>3, PTL DEF Spec
=============================================================================
