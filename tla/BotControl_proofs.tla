-------------------------- MODULE BotControl_proofs --------------------------
(***************************************************************************)
(* Theorems about BotControl: its types, the two invariants its run checks *)
(* and the precedence of emergency stops, for any orders, callers, number  *)
(* of loops and of inputs.  (A heap of at most three commands is an        *)
(* assumption of the module itself.)                                       *)
(*                                                                         *)
(* For the queue the invariant follows a command through post, heap and    *)
(* task, and keeps the heap's root the most urgent.  For the loop it says, *)
(* of the one caller that is inside start() or stop(), what it has already *)
(* found or done at each of its steps.                                     *)
(***************************************************************************)
EXTENDS BotControl, FiniteSetTheorems, WellFoundedInduction, TLAPS

Entered(c) == post[c] \in {"put", "error"}

Reached(c) == c \in Queued \/ task = c \/ status[c] \in Ended \cup {"RUNNING"}

(* The clock moves at most once per command. *)
Stamps == \A c \in Commands : order[c].stamp <= c

(* What waits, runs or has run was put, with the permission for it. *)
Admitted == \A c \in Commands : Reached(c) => Entered(c) /\ MayRun(c)

HeapDistinct == \A i, j \in DOMAIN heap : heap[i] = heap[j] => i = j

RootFirst == \A i \in DOMAIN heap : Priority(heap[1]) <= Priority(heap[i])

(* What was put is waiting, held or ended, and task_done() is called once  *)
(* for each command that put() counted.                                    *)
Placed ==
    /\ \A c \in Commands :
          /\ Entered(c) => c \in Queued \/ task = c \/ status[c] \in Ended
          /\ c \in Queued => task # c /\ status[c] \notin Ended
          /\ task = c => status[c] \notin Ended
    /\ unfinished = Len(heap) + (IF task = None THEN 0 ELSE 1)
    /\ worker # "dead"

QueueOK == Stamps /\ Admitted /\ HeapDistinct /\ RootFirst /\ (Tied \/ Placed)

(* What caller t has found or done before its next step. *)
CallOK(t) ==
    /\ call[t] \in {"clear", "cron", "launch"} => ~calm /\ ~IsActive
    /\ call[t] \in {"clear", "cron", "signal", "join", "wait", "forget"} => ~cronHeld
    /\ call[t] \in {"cron", "launch"} => ~stopping
    /\ call[t] \in {"join", "wait", "forget"} => stopping /\ thread # None
    /\ call[t] = "wait" => joined[t] = thread
    /\ call[t] = "forget" => timedOut \/ ~Alive(thread)

(* As long as calls do not overlap: the scheduler lives and dies with the  *)
(* loop, a bot without a loop has been stopped, and only a stop that gave  *)
(* up leaves a loop the bot does not know of.                              *)
BotAlone ==
    /\ \A s, t \in Callers : Busy(s) /\ Busy(t) => s = t
    /\ \A t \in Callers : CallOK(t)
    /\ crons = IF cronHeld THEN 1 ELSE 0
    /\ cronHeld => (IsActive /\ ~stopping) \/ \E t \in Callers : call[t] = "launch"
    /\ thread = None => stopping \/ \E t \in Callers : call[t] \in {"cron", "launch"}
    /\ calm => thread = None /\ stopping /\ ~cronHeld
    /\ timedOut \/ \A l \in Loops : Alive(l) => l = thread

LoopsOK ==
    /\ cronHeld => crons > 0
    /\ worker # "call" => call["worker"] = "idle"
    /\ overlapped \/ BotAlone

IInv == TypeOK /\ QueueOK /\ LoopsOK

LEMMA Constants ==
    /\ None \notin Commands \cup Loops
    /\ Callers = Outsiders \cup {"worker"}
    /\ Commands \subseteq Nat /\ Loops \subseteq Nat
    /\ MaxCommands \in 1..3 /\ Commands = 1..MaxCommands
    /\ MaxInputs \in Nat /\ 1 \in Loops
    /\ Orders \subseteq Types \X Roles
  BY OrdersAssumption DEF Commands, Loops, Callers

------------------------------------------------------------------------------
(* Sequences and sets *)

(* A sequence of commands without repetition holds three at most. *)
LEMMA AtMostThree ==
    ASSUME TypeOK, HeapDistinct
    PROVE  Len(heap) <= 3
  <1>1. Len(heap) \in Nat /\ DOMAIN heap = 1..Len(heap)
    BY DEF TypeOK
  <1>2. ASSUME Len(heap) > 3
        PROVE  FALSE
    <2>1. {1, 2, 3, 4} \subseteq DOMAIN heap
      BY <1>1, <1>2
    <2>2. heap[1] \in 1..3 /\ heap[2] \in 1..3 /\ heap[3] \in 1..3 /\ heap[4] \in 1..3
      <3>1. \A i \in DOMAIN heap : heap[i] \in Commands
        BY DEF TypeOK
      <3>2. \A c \in Commands : c \in 1..3
        BY Constants
      <3> QED
        BY <2>1, <3>1, <3>2
    <2>3. /\ heap[1] # heap[2] /\ heap[1] # heap[3] /\ heap[1] # heap[4]
          /\ heap[2] # heap[3] /\ heap[2] # heap[4] /\ heap[3] # heap[4]
      BY <2>1 DEF HeapDistinct
    <2> QED
      BY <2>2, <2>3
  <1> QED
    BY <1>1, <1>2

LEMMA HeadQueued ==
    ASSUME TypeOK, heap # <<>>
    PROVE  Head(heap) = heap[1] /\ 1 \in DOMAIN heap /\ heap[1] \in Commands
                                /\ heap[1] \in Queued
  BY DEF TypeOK, Queued

(* What heappush leaves, and heappop, when a comparison raises and when    *)
(* none does.                                                              *)
PutHeap(c) == IF PushTies(c) THEN Append(heap, c) ELSE Pushed(c)
PopHeap == IF PopTies THEN Tail(heap) ELSE Popped

LEMMA AfterPush ==
    ASSUME TypeOK, HeapDistinct, RootFirst, NEW c \in Commands, c \notin Queued,
           NEW h, h = PutHeap(c)
    PROVE  /\ h \in Seq(Commands)
           /\ Len(h) = Len(heap) + 1
           /\ {h[i] : i \in DOMAIN h} = Queued \cup {c}
           /\ \A i, j \in DOMAIN h : h[i] = h[j] => i = j
           /\ \A i \in DOMAIN h : Priority(h[1]) <= Priority(h[i])
  <1>1. /\ heap \in Seq(Commands) /\ Len(heap) \in Nat
        /\ DOMAIN heap = 1..Len(heap)
        /\ \A i \in 1..Len(heap) : heap[i] \in Commands
    BY DEF TypeOK
  <1>2. \A d \in Commands : Priority(d) \in Nat
    BY DEF Priority
  <1>3. CASE heap # <<>> /\ ~PushTies(c) /\ Before(c, Head(heap))
    <2> DEFINE L == Len(heap)
    <2>1. h = <<c>> \o Tail(heap) \o <<Head(heap)>>
      BY <1>3 DEF PutHeap, Pushed
    <2>2. /\ h \in Seq(Commands) /\ Len(h) = L + 1
          /\ h[1] = c /\ h[L + 1] = heap[1]
          /\ \A i \in 2..L : h[i] = heap[i]
      BY <1>1, <1>3, <2>1
    <2>3. DOMAIN h = 1..(L + 1) /\ L \in Nat \ {0}
      BY <1>1, <1>3, <2>2
    <2> HIDE DEF L
    <2>4. /\ DOMAIN heap = 1..L /\ \A i \in 1..L : heap[i] \in Commands /\ heap[i] # c
          /\ Queued = {heap[i] : i \in 1..L}
      BY <1>1 DEF L, Queued
    <2>5. \A i \in 1..(L + 1) : i = 1 \/ i = L + 1 \/ i \in 2..L
      BY <2>3
    <2>6. {h[i] : i \in DOMAIN h} = Queued \cup {c}
      <3>1. ASSUME NEW i \in DOMAIN h
            PROVE  h[i] \in Queued \cup {c}
        BY <2>2, <2>3, <2>4, <2>5
      <3>2. ASSUME NEW i \in 1..L
            PROVE  heap[i] \in {h[k] : k \in DOMAIN h}
        <4>1. CASE i = 1
          BY <4>1, <2>2, <2>3
        <4>2. CASE i \in 2..L
          BY <4>2, <2>2, <2>3
        <4> QED
          BY <4>1, <4>2, <2>3
      <3>3. c \in {h[k] : k \in DOMAIN h}
        BY <2>2, <2>3
      <3> QED
        BY <3>1, <3>2, <3>3, <2>4
    <2>7. \A i, j \in DOMAIN h : h[i] = h[j] => i = j
      BY <2>2, <2>3, <2>4, <2>5 DEF HeapDistinct
    <2>8. \A i \in DOMAIN h : Priority(h[1]) <= Priority(h[i])
      <3>1. Priority(c) <= Priority(heap[1])
        BY <1>1, <1>2, <1>3 DEF Before
      <3>2. \A i \in 1..L : Priority(heap[1]) <= Priority(heap[i])
        BY <2>4 DEF RootFirst
      <3>3. \A i \in 1..L : Priority(c) <= Priority(heap[i])
        BY <3>1, <3>2, <1>2, <2>3, <2>4
      <3> QED
        BY <3>1, <3>3, <1>2, <2>2, <2>3, <2>5
    <2> QED
      BY <2>2, <2>6, <2>7, <2>8 DEF L
  <1>4. CASE ~(heap # <<>> /\ ~PushTies(c) /\ Before(c, Head(heap)))
    <2>1. h = Append(heap, c)
      BY <1>4 DEF PutHeap, Pushed
    <2>2. /\ h \in Seq(Commands) /\ Len(h) = Len(heap) + 1
          /\ h[Len(heap) + 1] = c
          /\ \A i \in 1..Len(heap) : h[i] = heap[i]
      BY <1>1, <2>1
    <2>3. DOMAIN h = 1..(Len(heap) + 1)
      BY <1>1, <2>2
    <2>4. {h[i] : i \in DOMAIN h} = Queued \cup {c}
      BY <1>1, <2>2, <2>3 DEF Queued
    <2>5. \A i, j \in DOMAIN h : h[i] = h[j] => i = j
      BY <1>1, <2>2, <2>3 DEF Queued, HeapDistinct
    <2>6. \A i \in DOMAIN h : Priority(h[1]) <= Priority(h[i])
      <3>1. CASE heap = <<>>
        BY <3>1, <1>1, <1>2, <2>2, <2>3
      <3>2. CASE heap # <<>>
        <4>1. Head(heap) = heap[1] /\ heap[1] \in Commands /\ 1 \in 1..Len(heap)
          BY <3>2, <1>1
        <4>2. Priority(heap[1]) <= Priority(c)
          BY <1>2, <1>4, <3>2, <4>1 DEF PushTies, Tie, Before
        <4>3. \A i \in 1..Len(heap) : Priority(heap[1]) <= Priority(heap[i])
          BY <1>1 DEF RootFirst
        <4>4. \A i \in 1..(Len(heap) + 1) : i \in 1..Len(heap) \/ i = Len(heap) + 1
          BY <1>1
        <4> QED
          BY <2>2, <2>3, <4>1, <4>2, <4>3, <4>4
      <3> QED
        BY <3>1, <3>2
    <2> QED
      BY <2>2, <2>4, <2>5, <2>6
  <1> QED
    BY <1>3, <1>4

(* Short sequences, as the provers like to have them. *)
LEMMA Pair ==
    ASSUME NEW S, NEW a \in S, NEW b \in S
    PROVE  /\ <<a, b>> \in Seq(S) /\ Len(<<a, b>>) = 2 /\ DOMAIN <<a, b>> = {1, 2}
           /\ <<a, b>>[1] = a /\ <<a, b>>[2] = b
  <1>1. DOMAIN <<a, b>> = 1..2
    OBVIOUS
  <1>2. 1..2 = {1, 2}
    OBVIOUS
  <1> QED
    BY <1>1, <1>2

LEMMA Rest ==
    ASSUME NEW S, NEW q \in Seq(S), Len(q) > 0
    PROVE  /\ Tail(q) \in Seq(S) /\ Len(Tail(q)) = Len(q) - 1
           /\ DOMAIN Tail(q) = 1..(Len(q) - 1)
           /\ \A i \in 1..(Len(q) - 1) : Tail(q)[i] = q[i + 1]
  <1>1. q # <<>> /\ Len(q) \in Nat
    OBVIOUS
  <1>2. Tail(q) \in Seq(S) /\ Len(Tail(q)) = Len(q) - 1
    BY <1>1
  <1> QED
    BY <1>1, <1>2

LEMMA AfterPop ==
    ASSUME TypeOK, HeapDistinct, RootFirst, heap # <<>>,
           NEW h, h = PopHeap
    PROVE  /\ h \in Seq(Commands)
           /\ Len(h) = Len(heap) - 1
           /\ {h[i] : i \in DOMAIN h} = Queued \ {heap[1]}
           /\ \A i, j \in DOMAIN h : h[i] = h[j] => i = j
           /\ \A i \in DOMAIN h : Priority(h[1]) <= Priority(h[i])
  <1>1. /\ heap \in Seq(Commands) /\ DOMAIN heap = 1..Len(heap)
        /\ \A i \in 1..Len(heap) : heap[i] \in Commands
        /\ Len(heap) = 1 \/ Len(heap) = 2 \/ Len(heap) = 3
    <2>1. heap \in Seq(Commands) /\ DOMAIN heap = 1..Len(heap) /\ Len(heap) \in Nat
      BY DEF TypeOK
    <2>2. Len(heap) # 0
      BY <2>1
    <2>3. Len(heap) <= 3
      BY AtMostThree
    <2> QED
      BY <2>1, <2>2, <2>3
  <1>2. \A d \in Commands : Priority(d) \in Nat
    BY DEF Priority
  <1>3. \A i, j \in 1..Len(heap) : heap[i] = heap[j] => i = j
    BY <1>1 DEF HeapDistinct
  <1>4. Queued = {heap[i] : i \in 1..Len(heap)}
    BY <1>1 DEF Queued
  <1>0. /\ Tail(heap) \in Seq(Commands) /\ Len(Tail(heap)) = Len(heap) - 1
        /\ DOMAIN Tail(heap) = 1..(Len(heap) - 1)
        /\ \A i \in 1..(Len(heap) - 1) : Tail(heap)[i] = heap[i + 1]
    <2>1. Len(heap) > 0
      BY <1>1
    <2> QED
      BY <2>1, <1>1, Rest
  <1>5. CASE Len(heap) = 1
    <2>1. h = Tail(heap)
      BY <1>5 DEF PopHeap, PopTies, Popped
    <2>2. h \in Seq(Commands) /\ Len(h) = 0 /\ DOMAIN h = 1..0
      BY <1>0, <1>5, <2>1
    <2>3. Queued = {heap[1]}
      BY <1>4, <1>5
    <2>4. 1..0 = {}
      OBVIOUS
    <2> QED
      BY <2>2, <2>3, <2>4, <1>5
  <1>6. CASE Len(heap) = 2
    <2>1. h = Tail(heap)
      BY <1>6 DEF PopHeap, PopTies, Popped
    <2>2. /\ h \in Seq(Commands) /\ Len(h) = 1 /\ DOMAIN h = {1} /\ h[1] = heap[2]
          /\ heap[1] # heap[2] /\ heap[2] \in Commands
      <3>1. 1..1 = {1} /\ 1 \in 1..2 /\ 2 \in 1..2
        OBVIOUS
      <3>2. /\ h \in Seq(Commands) /\ Len(h) = 2 - 1 /\ DOMAIN h = 1..(2 - 1)
            /\ \A i \in 1..(2 - 1) : h[i] = heap[i + 1]
        BY <1>0, <1>6, <2>1
      <3> QED
        BY <3>1, <3>2, <1>1, <1>3, <1>6
    <2>3. Queued = {heap[1], heap[2]}
      BY <1>4, <1>6
    <2>4. {h[i] : i \in DOMAIN h} = {heap[2]}
      BY <2>2
    <2>5. Queued \ {heap[1]} = {heap[2]}
      BY <2>2, <2>3
    <2> QED
      BY <2>2, <2>4, <2>5, <1>2, <1>6
  <1>7. CASE Len(heap) = 3
    <2>1. /\ heap[1] \in Commands /\ heap[2] \in Commands /\ heap[3] \in Commands
          /\ heap[1] # heap[2] /\ heap[1] # heap[3] /\ heap[2] # heap[3]
      BY <1>1, <1>3, <1>7
    <2>2. Queued = {heap[1], heap[2], heap[3]}
      BY <1>4, <1>7
    <2>3. CASE ~PopTies /\ Before(heap[3], heap[2])
      <3>1. h = <<heap[3], heap[2]>>
        BY <2>3, <1>7 DEF PopHeap, Popped
      <3>2. /\ h \in Seq(Commands) /\ Len(h) = 2 /\ DOMAIN h = {1, 2}
            /\ h[1] = heap[3] /\ h[2] = heap[2]
                <4>1. /\ <<heap[3], heap[2]>> \in Seq(Commands) /\ Len(<<heap[3], heap[2]>>) = 2
              /\ DOMAIN <<heap[3], heap[2]>> = {1, 2}
              /\ <<heap[3], heap[2]>>[1] = heap[3] /\ <<heap[3], heap[2]>>[2] = heap[2]
          BY <2>1, Pair
        <4> QED
          BY <4>1, <3>1, Zenon
      <3>3. Priority(heap[3]) <= Priority(heap[2])
        BY <2>1, <2>3, <1>2 DEF Before
      <3>4. {h[i] : i \in DOMAIN h} = Queued \ {heap[1]}
        BY <3>2, <2>1, <2>2
      <3>5. \A i, j \in DOMAIN h : h[i] = h[j] => i = j
        BY <3>2, <2>1
      <3>6. \A i \in DOMAIN h : Priority(h[1]) <= Priority(h[i])
        BY <3>2, <3>3, <2>1, <1>2
      <3>7. Len(h) = Len(heap) - 1
        BY <3>2, <1>7
      <3> QED
        BY <3>2, <3>4, <3>5, <3>6, <3>7, Zenon
    <2>4. CASE ~(~PopTies /\ Before(heap[3], heap[2]))
      <3>1. h = Tail(heap)
        BY <2>4, <1>7 DEF PopHeap, Popped
      <3>2. /\ h \in Seq(Commands) /\ Len(h) = 2 /\ DOMAIN h = {1, 2}
            /\ h[1] = heap[2] /\ h[2] = heap[3]
        <4>1. 1..2 = {1, 2} /\ 3 - 1 = 2 /\ 1 + 1 = 2 /\ 2 + 1 = 3
          OBVIOUS
        <4>2. /\ h \in Seq(Commands) /\ Len(h) = 3 - 1 /\ DOMAIN h = 1..(3 - 1)
              /\ \A i \in 1..(3 - 1) : h[i] = heap[i + 1]
          BY <1>0, <1>7, <3>1
        <4> QED
          BY <4>1, <4>2
      <3>3. Priority(heap[2]) <= Priority(heap[3])
        BY <2>1, <2>4, <1>2, <1>7 DEF PopTies, Tie, Before
      <3>4. {h[i] : i \in DOMAIN h} = Queued \ {heap[1]}
        BY <3>2, <2>1, <2>2
      <3>5. \A i, j \in DOMAIN h : h[i] = h[j] => i = j
        BY <3>2, <2>1
      <3>6. \A i \in DOMAIN h : Priority(h[1]) <= Priority(h[i])
        BY <3>2, <3>3, <2>1, <1>2
      <3>7. Len(h) = Len(heap) - 1
        BY <3>2, <1>7
      <3> QED
        BY <3>2, <3>4, <3>5, <3>6, <3>7, Zenon
    <2> QED
      BY <2>3, <2>4
  <1> QED
    BY <1>1, <1>5, <1>6, <1>7

------------------------------------------------------------------------------
(* Types *)

(* A set of numbers that is not empty has a least. *)
LEMMA Least ==
    ASSUME NEW S \in SUBSET Nat, S # {}
    PROVE  \E n \in S : \A m \in S : n <= m
  <1> DEFINE R == {ss \in Nat \X Nat : ss[1] < ss[2]}
  <1>1. IsWellFoundedOn(R, Nat)
    BY NatLessThanWellFounded DEF OpToRel
  <1>2. \A x, y \in Nat : y < x => <<y, x>> \in R
    OBVIOUS
  <1> HIDE DEF R
  <1>3. PICK n \in S : \A m \in S : ~(<<m, n>> \in R)
    BY <1>1, WFMin
  <1>4. ASSUME NEW m \in S
        PROVE  n <= m
    <2>1. m \in Nat /\ n \in Nat
      OBVIOUS
    <2>2. m < n => <<m, n>> \in R
      BY <1>2, <2>1
    <2>3. ~(m < n)
      BY <1>3, <2>2
    <2> QED
      BY <2>1, <2>3
  <1> QED
    BY <1>4

LEMMA OneMoreInput ==
    ASSUME TypeOK, MoreInputs
    PROVE  chats + 1 \in 0 .. MaxInputs
  <1> DEFINE P == {c \in Commands : post[c] # "new"}
             E == {ending} \ {None}
  <1>1. Cardinality(P) \in Nat
    <2>1. IsFiniteSet(Commands)
      BY Constants, FS_Interval
    <2>2. P \in SUBSET Commands
      OBVIOUS
    <2>3. IsFiniteSet(P)
      BY <2>1, <2>2, FS_Subset
    <2> QED
      BY <2>3, FS_CardinalityType
  <1>2. Cardinality(E) \in Nat
    <2>1. IsFiniteSet({ending}) /\ E \in SUBSET {ending}
      BY FS_Singleton
    <2>2. IsFiniteSet(E)
      BY <2>1, FS_Subset
    <2> QED
      BY <2>2, FS_CardinalityType
  <1>3. Cardinality(P) + chats + Cardinality(E) < MaxInputs
    BY DEF MoreInputs, Inputs
  <1> HIDE DEF P, E
  <1>4. chats \in Nat /\ MaxInputs \in Nat
    BY Constants DEF TypeOK
  <1> QED
    BY <1>1, <1>2, <1>3, <1>4

(* A stamp is no later than the count of commands. *)
LEMMA NextStamp ==
    ASSUME TypeOK, Stamps, NEW c \in Commands, NEW s \in {Latest(c), Latest(c) + 1}
    PROVE  s \in 0 .. MaxCommands /\ s <= c
  <1>1. CASE c = 1
    BY <1>1, Constants DEF Latest
  <1>2. CASE c # 1
    <2>1. c - 1 \in Commands /\ c \in Nat /\ c <= MaxCommands /\ MaxCommands \in Nat
      BY <1>2, Constants
    <2>2. order[c - 1].stamp \in Nat /\ order[c - 1].stamp <= c - 1
      <3>1. order[c - 1] \in [type : Types, role : Roles, stamp : 0 .. MaxCommands]
        BY <2>1 DEF TypeOK
      <3>2. order[c - 1].stamp <= c - 1
        BY <2>1 DEF Stamps
      <3> QED
        BY <2>1, <3>1, <3>2
    <2> QED
      BY <1>2, <2>1, <2>2 DEF Latest
  <1> QED
    BY <1>1, <1>2

(* What start() does last, whichever free thread it is given. *)
LEMMA Launches ==
    ASSUME TypeOK, NEW t \in Callers, StartLaunch(t)
    PROVE  \E l \in Loops :
               /\ thread' = l /\ loop' = [loop EXCEPT ![l] = "idle"]
               /\ \A s \in Callers : joined[s] # l
  <1> DEFINE l == CHOOSE l \in FreeLoops : \A k \in FreeLoops : l <= k
  <1>1. FreeLoops # {} /\ FreeLoops \in SUBSET Nat /\ FreeLoops \subseteq Loops
    BY Constants DEF StartLaunch, FreeLoops
  <1>2. \E n \in FreeLoops : \A m \in FreeLoops : n <= m
    BY <1>1, Least
  <1>3. l \in FreeLoops
    BY <1>2
  <1>4. thread' = l /\ loop' = [loop EXCEPT ![l] = "idle"]
    BY DEF StartLaunch
  <1> HIDE DEF l
  <1> QED
    BY <1>1, <1>3, <1>4 DEF FreeLoops

(* What a put leaves. *)
LEMMA Puts ==
    ASSUME TypeOK, QueueOK, NEW c \in Commands, Put(c)
    PROVE  /\ c \notin Queued /\ task # c /\ status[c] \notin Ended \cup {"RUNNING"}
           /\ heap' \in Seq(Commands) /\ Len(heap') = Len(heap) + 1
           /\ Queued' = Queued \cup {c}
           /\ HeapDistinct' /\ (\A i \in DOMAIN heap' : Priority(heap'[1]) <= Priority(heap'[i]))
  <1>1. c \notin Queued /\ task # c /\ status[c] \notin Ended \cup {"RUNNING"}
    BY DEF Put, QueueOK, Admitted, Reached, Entered
  <1>2. PICK h : h = heap'
    OBVIOUS
  <1>3. h = PutHeap(c)
    BY <1>2 DEF Put, PutHeap
  <1>4. HeapDistinct /\ RootFirst
    BY DEF QueueOK
  <1>5. /\ h \in Seq(Commands) /\ Len(h) = Len(heap) + 1
        /\ {h[i] : i \in DOMAIN h} = Queued \cup {c}
        /\ \A i, j \in DOMAIN h : h[i] = h[j] => i = j
        /\ \A i \in DOMAIN h : Priority(h[1]) <= Priority(h[i])
    BY <1>1, <1>3, <1>4, AfterPush
  <1>6. Queued' = {h[i] : i \in DOMAIN h}
    BY <1>2 DEF Queued
  <1> QED
    BY <1>1, <1>2, <1>5, <1>6 DEF HeapDistinct

(* What the worker takes from a heap it can put in order again. *)
LEMMA Takes ==
    ASSUME TypeOK, HeapDistinct, RootFirst, WorkerGet
    PROVE  /\ heap # <<>> /\ heap[1] \in Commands /\ heap[1] \in Queued
           /\ heap' \in Seq(Commands) /\ Len(heap') = Len(heap) - 1
           /\ Queued' = Queued \ {heap[1]}
           /\ HeapDistinct' /\ (\A i \in DOMAIN heap' : Priority(heap'[1]) <= Priority(heap'[i]))
           /\ task' = heap[1] /\ status' = [status EXCEPT ![heap[1]] = "RUNNING"]
           /\ \/ worker' = "call" /\ Begin("worker", "check")
              \/ worker' = "call" /\ Begin("worker", "quiet")
              \/ worker' = "do" /\ UNCHANGED callVars
  <1>1. Head(heap) = heap[1] /\ heap # <<>> /\ heap[1] \in Commands /\ heap[1] \in Queued
    BY HeadQueued DEF WorkerGet
  <1>2. heap' = Popped /\ ~PopTies
    BY DEF WorkerGet
  <1>3. /\ heap' \in Seq(Commands) /\ Len(heap') = Len(heap) - 1
        /\ {heap'[i] : i \in DOMAIN heap'} = Queued \ {heap[1]}
        /\ \A i, j \in DOMAIN heap' : heap'[i] = heap'[j] => i = j
        /\ \A i \in DOMAIN heap' : Priority(heap'[1]) <= Priority(heap'[i])
    <2>1. PICK h : h = heap'
      OBVIOUS
    <2>2. h = PopHeap
      BY <1>2, <2>1 DEF PopHeap
    <2>3. /\ h \in Seq(Commands) /\ Len(h) = Len(heap) - 1
          /\ {h[i] : i \in DOMAIN h} = Queued \ {heap[1]}
          /\ \A i, j \in DOMAIN h : h[i] = h[j] => i = j
          /\ \A i \in DOMAIN h : Priority(h[1]) <= Priority(h[i])
      BY <1>1, <2>2, AfterPop
    <2> QED
      BY <2>1, <2>3
  <1>4. task' = heap[1] /\ status' = [status EXCEPT ![heap[1]] = "RUNNING"]
    BY <1>1 DEF WorkerGet
  <1>5. \/ worker' = "call" /\ Begin("worker", "check")
        \/ worker' = "call" /\ Begin("worker", "quiet")
        \/ worker' = "do" /\ UNCHANGED callVars
    <2>1. CASE order[Head(heap)].type = "START"
      BY <2>1 DEF WorkerGet
    <2>2. CASE order[Head(heap)].type \in {"STOP", "EMERGENCY"}
      BY <2>2 DEF WorkerGet
    <2>3. CASE order[Head(heap)].type \notin {"START", "STOP", "EMERGENCY"}
      BY <2>3 DEF WorkerGet
    <2> QED
      BY <2>1, <2>2, <2>3
  <1> QED
    BY <1>1, <1>3, <1>4, <1>5 DEF HeapDistinct, Queued

(* And from one whose two remaining commands it cannot compare. *)
LEMMA TakesTie ==
    ASSUME TypeOK, Admitted, HeapDistinct, RootFirst, WorkerGetTie
    PROVE  /\ heap' \in Seq(Commands)
           /\ Queued' \subseteq Queued
           /\ HeapDistinct' /\ (\A i \in DOMAIN heap' : Priority(heap'[1]) <= Priority(heap'[i]))
           /\ Tied
  <1>1. heap # <<>> /\ PopTies /\ heap' = Tail(heap) /\ Len(heap) = 3
    <2>1. PopTies /\ heap' = Tail(heap) /\ Len(heap) = 3
      BY DEF WorkerGetTie, PopTies
    <2> QED
      BY <2>1
  <1>2. PICK h : h = heap'
    OBVIOUS
  <1>3. h = PopHeap
    BY <1>1, <1>2 DEF PopHeap
  <1>4. /\ h \in Seq(Commands)
        /\ {h[i] : i \in DOMAIN h} = Queued \ {heap[1]}
        /\ \A i, j \in DOMAIN h : h[i] = h[j] => i = j
        /\ \A i \in DOMAIN h : Priority(h[1]) <= Priority(h[i])
    BY <1>1, <1>3, AfterPop
  <1>5. Queued' = {h[i] : i \in DOMAIN h}
    BY <1>2 DEF Queued
  <1>6. Tied
    <2>1. /\ 2 \in DOMAIN heap /\ 3 \in DOMAIN heap
          /\ heap[2] \in Commands /\ heap[3] \in Commands
      <3>1. heap \in Seq(Commands) /\ Len(heap) = 3
        BY <1>1 DEF TypeOK
      <3>2. DOMAIN heap = 1..3 /\ 2 \in 1..3 /\ 3 \in 1..3
        BY <3>1
      <3> QED
        BY <3>1, <3>2
    <2>2. heap[2] # heap[3] /\ heap[2] \in Queued /\ heap[3] \in Queued
      BY <2>1 DEF HeapDistinct, Queued
    <2>3. Entered(heap[2]) /\ Entered(heap[3])
      BY <2>1, <2>2 DEF Admitted, Reached
    <2>4. {post[heap[2]], post[heap[3]]} \cap {"new", "made", "refused"} = {}
      BY <2>3 DEF Entered
    <2> QED
      BY <1>1, <2>1, <2>2, <2>4 DEF Tied, PopTies
  <1> QED
    BY <1>2, <1>4, <1>5, <1>6 DEF HeapDistinct

(* One action after the other; Next has no other. *)
LEMMA Steps ==
    ASSUME [Next]_vars
    PROVE  \/ UNCHANGED vars
           \/ \E c \in Commands : Create(c) \/ Reject(c) \/ Put(c)
           \/ \E t \in Callers :
                  \/ StartCheck(t) \/ StartClear(t) \/ StartCron(t) \/ StartLaunch(t)
                  \/ StopCron(t) \/ StopSignal(t) \/ StopJoin(t) \/ StopWait(t) \/ StopForget(t)
           \/ \E l \in Loops : LoopTest(l) \/ LoopRest(l)
           \/ Chat \/ WorkerEmpty \/ WorkerGetTie \/ WorkerGet \/ WorkerFinish
           \/ Signal \/ StopWorker \/ Exit
  BY DEF Next, Post, Start, Stop, Loop, Worker, Main

LEMMA TypeStep ==
    ASSUME TypeOK, QueueOK, LoopsOK, [Next]_vars
    PROVE  TypeOK'
  <1>1. ASSUME NEW c \in Commands, Create(c)
        PROVE  TypeOK'
    <2>1. \A s \in {Latest(c), Latest(c) + 1} : s \in 0 .. MaxCommands
      BY NextStamp DEF QueueOK
    <2>2. order' \in [Commands -> [type : Types, role : Roles, stamp : 0 .. MaxCommands]]
      BY <1>1, <2>1, Constants DEF Create, TypeOK
    <2> QED
      BY <1>1, <2>2 DEF TypeOK, Create, queueVars, workVars, botVars, procVars, callVars
  <1>2. ASSUME NEW c \in Commands, Reject(c)
        PROVE  TypeOK'
    BY <1>2, Constants DEF TypeOK, Reject, queueVars, workVars, botVars, procVars, callVars
  <1>3. ASSUME NEW c \in Commands, Put(c)
        PROVE  TypeOK'
    <2>1. heap' \in Seq(Commands)
      BY <1>3, Puts
    <2> QED
      BY <1>3, <2>1, Constants DEF TypeOK, Put, queueVars, workVars, botVars, procVars, callVars
  <1>4. ASSUME NEW t \in Callers, StartCheck(t)
        PROVE  TypeOK'
    BY <1>4, Constants DEF TypeOK, StartCheck, Goto, queueVars, workVars, botVars, procVars, callVars
  <1>5. ASSUME NEW t \in Callers, StartClear(t)
        PROVE  TypeOK'
    BY <1>5, Constants DEF TypeOK, StartClear, Goto, queueVars, workVars, botVars, procVars, callVars
  <1>6. ASSUME NEW t \in Callers, StartCron(t)
        PROVE  TypeOK'
    BY <1>6, Constants DEF TypeOK, StartCron, Goto, queueVars, workVars, botVars, procVars, callVars
  <1>7. ASSUME NEW t \in Callers, StartLaunch(t)
        PROVE  TypeOK'
    <2>1. PICK l \in Loops : thread' = l /\ loop' = [loop EXCEPT ![l] = "idle"]
      BY <1>7, Launches
    <2> QED
      BY <1>7, <2>1 DEF TypeOK, StartLaunch, Goto, queueVars, workVars, botVars, procVars, callVars
  <1>8. ASSUME NEW t \in Callers, StopCron(t)
        PROVE  TypeOK'
    <2>1. crons' \in Nat
      BY <1>8 DEF StopCron, TypeOK, LoopsOK
    <2> QED
      BY <1>8, <2>1 DEF TypeOK, StopCron, Goto, queueVars, workVars, botVars, procVars, callVars
  <1>9. ASSUME NEW t \in Callers, StopSignal(t)
        PROVE  TypeOK'
    BY <1>9, Constants DEF TypeOK, StopSignal, Goto, queueVars, workVars, botVars, procVars, callVars
  <1>10. ASSUME NEW t \in Callers, StopJoin(t)
        PROVE  TypeOK'
    BY <1>10, Constants DEF TypeOK, StopJoin, Goto, queueVars, workVars, botVars, procVars, callVars
  <1>11. ASSUME NEW t \in Callers, StopWait(t)
        PROVE  TypeOK'
    BY <1>11, Constants DEF TypeOK, StopWait, Goto, queueVars, workVars, botVars, procVars, callVars
  <1>12. ASSUME NEW t \in Callers, StopForget(t)
        PROVE  TypeOK'
    BY <1>12, Constants DEF TypeOK, StopForget, Goto, queueVars, workVars, botVars, procVars, callVars
  <1>13. ASSUME Chat
        PROVE  TypeOK'
    <2>1. chats' \in 0 .. MaxInputs
      BY <1>13, OneMoreInput DEF Chat
    <2> QED
      BY <1>13, <2>1, Constants DEF TypeOK, Chat, Begin, queueVars, workVars, botVars, procVars, callVars
  <1>14. ASSUME NEW l \in Loops, LoopTest(l)
        PROVE  TypeOK'
    BY <1>14, Constants DEF TypeOK, LoopTest, queueVars, workVars, botVars, procVars, callVars
  <1>15. ASSUME NEW l \in Loops, LoopRest(l)
        PROVE  TypeOK'
    BY <1>15, Constants DEF TypeOK, LoopRest, queueVars, workVars, botVars, procVars, callVars
  <1>16. ASSUME WorkerEmpty
        PROVE  TypeOK'
    BY <1>16, Constants DEF TypeOK, WorkerEmpty, queueVars, workVars, botVars, procVars, callVars
  <1>17. ASSUME WorkerGetTie
        PROVE  TypeOK'
    <2>1. heap' \in Seq(Commands)
      BY <1>17, TakesTie DEF QueueOK
    <2> QED
      BY <1>17, <2>1 DEF TypeOK, WorkerGetTie, queueVars, workVars, botVars, procVars, callVars
  <1>18. ASSUME WorkerGet
        PROVE  TypeOK'
    <2>1. /\ heap' \in Seq(Commands) /\ heap[1] \in Commands
          /\ task' = heap[1] /\ status' = [status EXCEPT ![heap[1]] = "RUNNING"]
          /\ \/ worker' = "call" /\ Begin("worker", "check")
             \/ worker' = "call" /\ Begin("worker", "quiet")
             \/ worker' = "do" /\ UNCHANGED callVars
      BY <1>18, Takes DEF QueueOK
    <2>2. UNCHANGED <<order, post, unfinished, running, chats, botVars, procVars>>
      BY <1>18 DEF WorkerGet
    <2>3. heap[1] # None
      BY <2>1, Constants
    <2>4. CASE worker' = "do"
      BY <2>4, <2>1, <2>2, <2>3, Constants DEF TypeOK, Begin, queueVars, workVars, botVars, procVars, callVars
    <2>5. CASE worker' = "call"
      <3>1. call' \in [Callers -> {"idle", "check", "clear", "cron", "launch", "quiet",
                             "signal", "join", "wait", "forget", "returned", "failed"}]
        BY <2>1, <2>5, Constants DEF TypeOK, Begin, callVars
      <3>2. /\ joined' = joined /\ calm' = calm /\ timedOut' = timedOut
            /\ overlapped' \in BOOLEAN
        BY <2>1, <2>5 DEF TypeOK, Begin, callVars
      <3> QED
        BY <2>1, <2>2, <2>3, <2>5, <3>1, <3>2 DEF TypeOK, botVars, procVars
    <2> QED
      BY <2>1, <2>4, <2>5
  <1>19. ASSUME WorkerFinish
        PROVE  TypeOK'
    BY <1>19, Constants DEF TypeOK, WorkerFinish, Outcomes, Ended, queueVars, workVars, botVars, procVars, callVars
  <1>20. ASSUME Signal
        PROVE  TypeOK'
    BY <1>20, Constants DEF TypeOK, Signal, Begin, queueVars, workVars, botVars, procVars, callVars
  <1>21. ASSUME StopWorker
        PROVE  TypeOK'
    BY <1>21, Constants DEF TypeOK, StopWorker, queueVars, workVars, botVars, procVars, callVars
  <1>22. ASSUME Exit
        PROVE  TypeOK'
    BY <1>22, Constants DEF TypeOK, Exit, queueVars, workVars, botVars, procVars, callVars
  <1>23. ASSUME UNCHANGED vars
        PROVE  TypeOK'
    BY <1>23 DEF TypeOK, vars
  <1> QED
    BY Steps, <1>1, <1>2, <1>3, <1>4, <1>5, <1>6, <1>7, <1>8, <1>9, <1>10, <1>11, <1>12, <1>13, <1>14, <1>15, <1>16, <1>17, <1>18, <1>19, <1>20, <1>21, <1>22, <1>23

------------------------------------------------------------------------------
(* The queue *)

LEMMA QueueFrame ==
    ASSUME QueueOK, UNCHANGED <<queueVars, task>>, worker' = worker \/ worker' # "dead"
    PROVE  QueueOK'
  <1>1. UNCHANGED <<order, post, status, heap, unfinished, task>>
    BY DEF queueVars
  <1>2. Stamps'
    BY <1>1 DEF QueueOK, Stamps
  <1>3. Admitted'
    BY <1>1 DEF QueueOK, Admitted, Reached, Entered, Queued, MayRun
  <1>4. HeapDistinct'
    BY <1>1 DEF QueueOK, HeapDistinct
  <1>5. RootFirst'
    BY <1>1 DEF QueueOK, RootFirst, Priority
  <1>6. Tied => Tied'
    BY <1>1 DEF Tied, Tie, Priority
  <1>7. Placed => Placed'
    BY <1>1 DEF Placed, Entered, Queued
  <1> QED
    BY <1>2, <1>3, <1>4, <1>5, <1>6, <1>7 DEF QueueOK

(* A new command is nowhere yet. *)
LEMMA CreateQueue ==
    ASSUME TypeOK, QueueOK, NEW c \in Commands, Create(c)
    PROVE  QueueOK'
  <1>1. /\ UNCHANGED <<status, heap, unfinished, task, worker>>
        /\ post' = [post EXCEPT ![c] = "made"] /\ post[c] = "new"
    BY DEF Create, workVars
  <1>2. PICK o \in Orders, s \in {Latest(c), Latest(c) + 1} :
            order' = [order EXCEPT ![c] = [type |-> o[1], role |-> o[2], stamp |-> s]]
    BY DEF Create
  <1>3. order'[c].stamp = s /\ \A d \in Commands \ {c} : order'[d] = order[d]
    BY <1>2 DEF TypeOK
  <1>4. ~Reached(c) /\ ~Entered(c) /\ c \notin Queued
    BY <1>1 DEF QueueOK, Admitted, Entered, Reached
  <1>5. \A d \in Commands : Reached(d)' <=> Reached(d)
    BY <1>1 DEF Reached, Queued
  <1>6. \A d \in Commands : Entered(d)' <=> Entered(d)
    BY <1>1 DEF Entered, TypeOK
  <1>7. \A i \in DOMAIN heap : heap[i] \in Commands \ {c}
    BY <1>4 DEF Queued, TypeOK
  <1>8. Stamps'
    <2>1. s <= c
      BY NextStamp DEF QueueOK
    <2> QED
      BY <1>3, <2>1 DEF QueueOK, Stamps
  <1>9. Admitted'
    BY <1>3, <1>4, <1>5, <1>6 DEF QueueOK, Admitted, MayRun
  <1>10. HeapDistinct'
    BY <1>1 DEF QueueOK, HeapDistinct
  <1>11. RootFirst'
    <2>1. ASSUME NEW i \in DOMAIN heap
          PROVE  order'[heap[i]] = order[heap[i]] /\ order'[heap[1]] = order[heap[1]]
      <3>1. 1 \in DOMAIN heap
        BY DEF TypeOK
      <3> QED
        BY <1>3, <1>7, <3>1
    <2> QED
      BY <1>1, <2>1 DEF QueueOK, RootFirst, Priority
  <1>12. Tied => Tied'
    <2> SUFFICES ASSUME Tied
                 PROVE  Tied'
      OBVIOUS
    <2>1. PICK a, b \in Commands : a # b /\ Tie(a, b)
                /\ {post[a], post[b]} \cap {"new", "made", "refused"} = {}
      BY DEF Tied
    <2>2. a # c /\ b # c
      BY <1>1, <2>1
    <2>3. order'[a] = order[a] /\ order'[b] = order[b] /\ post'[a] = post[a] /\ post'[b] = post[b]
      BY <1>1, <1>3, <2>2 DEF TypeOK
    <2> QED
      BY <2>1, <2>3 DEF Tied, Tie, Priority
  <1>13. Placed => Placed'
    <2>1. Queued' = Queued
      BY <1>1 DEF Queued
    <2> QED
      BY <1>1, <1>6, <2>1 DEF Placed
  <1> QED
    BY <1>8, <1>9, <1>10, <1>11, <1>12, <1>13 DEF QueueOK

LEMMA RejectQueue ==
    ASSUME TypeOK, QueueOK, NEW c \in Commands, Reject(c)
    PROVE  QueueOK'
  <1>1. /\ UNCHANGED <<order, heap, unfinished, task, worker>>
        /\ post' = [post EXCEPT ![c] = "refused"] /\ post[c] = "made"
        /\ status' = [status EXCEPT ![c] = "REJECTED"]
    BY DEF Reject, workVars
  <1>2. \A d \in Commands : Entered(d)' <=> Entered(d)
    BY <1>1 DEF Entered, TypeOK
  <1>3. ~Reached(c) /\ ~Entered(c)
    BY <1>1 DEF QueueOK, Admitted, Entered
  <1>4. \A d \in Commands : status'[d] \in Ended \cup {"RUNNING"} => status[d] = status'[d]
    BY <1>1 DEF TypeOK, Ended
  <1>5. \A d \in Commands : status[d] \in Ended => status'[d] = status[d]
    BY <1>1, <1>3 DEF TypeOK, Ended, Reached
  <1>6. Queued' = Queued
    BY <1>1 DEF Queued
  <1>7. Stamps'
    BY <1>1 DEF QueueOK, Stamps
  <1>8. Admitted'
    <2>1. \A d \in Commands : Reached(d)' => Reached(d)
      BY <1>1, <1>4, <1>6 DEF Reached
    <2>2. \A d \in Commands : MayRun(d) => MayRun(d)'
      BY <1>1 DEF MayRun
    <2> QED
      BY <1>2, <2>1, <2>2 DEF QueueOK, Admitted
  <1>9. HeapDistinct' /\ RootFirst'
    BY <1>1 DEF QueueOK, HeapDistinct, RootFirst, Priority
  <1>10. Tied => Tied'
    <2> SUFFICES ASSUME Tied
                 PROVE  Tied'
      OBVIOUS
    <2>1. PICK a, b \in Commands : a # b /\ Tie(a, b)
                /\ {post[a], post[b]} \cap {"new", "made", "refused"} = {}
      BY DEF Tied
    <2>2. post'[a] = post[a] /\ post'[b] = post[b]
      BY <1>1, <2>1 DEF TypeOK
    <2> QED
      BY <1>1, <2>1, <2>2 DEF Tied, Tie, Priority
  <1>11. Placed => Placed'
    <2>1. \A d \in Commands : status'[d] \in Ended <=> status[d] \in Ended
      BY <1>4, <1>5
    <2> QED
      BY <1>1, <1>2, <1>6, <2>1 DEF Placed
  <1> QED
    BY <1>7, <1>8, <1>9, <1>10, <1>11 DEF QueueOK

(* A put adds the command to the heap, counted unless it ties. *)
LEMMA PutQueue ==
    ASSUME TypeOK, QueueOK, NEW c \in Commands, Put(c)
    PROVE  QueueOK'
  <1>1. /\ UNCHANGED <<order, status, task, worker>> /\ MayRun(c) /\ post[c] = "made"
        /\ post' = [post EXCEPT ![c] = IF PushTies(c) THEN "error" ELSE "put"]
        /\ unfinished' = IF PushTies(c) THEN unfinished ELSE unfinished + 1
    BY DEF Put, workVars
  <1>2. /\ c \notin Queued /\ task # c /\ status[c] \notin Ended \cup {"RUNNING"}
        /\ heap' \in Seq(Commands) /\ Len(heap') = Len(heap) + 1
        /\ Queued' = Queued \cup {c}
        /\ HeapDistinct' /\ (\A i \in DOMAIN heap' : Priority(heap'[1]) <= Priority(heap'[i]))
    BY Puts
  <1>3. \A d \in Commands : Entered(d)' <=> Entered(d) \/ d = c
    BY <1>1 DEF Entered, TypeOK
  <1>4. \A d \in Commands : Reached(d)' <=> Reached(d) \/ d = c
    BY <1>1, <1>2 DEF Reached
  <1>5. Stamps'
    BY <1>1 DEF QueueOK, Stamps
  <1>6. Admitted'
    <2>1. \A d \in Commands : MayRun(d) => MayRun(d)'
      BY <1>1 DEF MayRun
    <2> QED
      BY <1>1, <1>3, <1>4, <2>1 DEF QueueOK, Admitted
  <1>7. RootFirst'
    BY <1>1, <1>2 DEF RootFirst, Priority
  <1>8. Tied => Tied'
    <2> SUFFICES ASSUME Tied
                 PROVE  Tied'
      OBVIOUS
    <2>1. PICK a, b \in Commands : a # b /\ Tie(a, b)
                /\ {post[a], post[b]} \cap {"new", "made", "refused"} = {}
      BY DEF Tied
    <2>2. post'[a] = post[a] /\ post'[b] = post[b]
      BY <1>1, <2>1 DEF TypeOK
    <2> QED
      BY <1>1, <2>1, <2>2 DEF Tied, Tie, Priority
  <1>9. CASE PushTies(c)
    <2>1. heap # <<>> /\ Tie(c, heap[1])
      BY <1>9, HeadQueued DEF PushTies
    <2>2. heap[1] \in Commands /\ heap[1] \in Queued
      BY <2>1, HeadQueued
    <2>3. Entered(heap[1]) /\ heap[1] # c
      BY <1>2, <2>2 DEF QueueOK, Admitted, Reached
    <2>4. {post'[c], post'[heap[1]]} \cap {"new", "made", "refused"} = {}
      BY <1>1, <1>9, <2>2, <2>3 DEF Entered, TypeOK
    <2>5. Tied'
      BY <1>1, <2>1, <2>2, <2>3, <2>4 DEF Tied, Tie, Priority
    <2> QED
      BY <1>2, <1>5, <1>6, <1>7, <2>5 DEF QueueOK
  <1>10. CASE ~PushTies(c)
    <2>1. Placed => Placed'
      <3> SUFFICES ASSUME Placed
                   PROVE  Placed'
        OBVIOUS
      <3>1. unfinished' = unfinished + 1 /\ Len(heap) \in Nat
        BY <1>1, <1>10 DEF TypeOK
      <3>2. unfinished' = Len(heap') + (IF task' = None THEN 0 ELSE 1)
        BY <1>1, <1>2, <3>1 DEF Placed
      <3>3. \A d \in Commands :
          /\ Entered(d)' => d \in Queued' \/ task' = d \/ status'[d] \in Ended
          /\ d \in Queued' => task' # d /\ status'[d] \notin Ended
          /\ task' = d => status'[d] \notin Ended
        BY <1>1, <1>2, <1>3 DEF Placed
      <3> QED
        BY <1>1, <3>2, <3>3 DEF Placed
    <2> QED
      BY <1>2, <1>5, <1>6, <1>7, <1>8, <2>1 DEF QueueOK
  <1> QED
    BY <1>9, <1>10

(* A tie ends the worker; the root is lost. *)
LEMMA GetTieQueue ==
    ASSUME TypeOK, QueueOK, WorkerGetTie
    PROVE  QueueOK'
  <1>1. UNCHANGED <<order, post, status, task>>
    BY DEF WorkerGetTie
  <1>2. /\ Queued' \subseteq Queued /\ Tied
        /\ HeapDistinct' /\ (\A i \in DOMAIN heap' : Priority(heap'[1]) <= Priority(heap'[i]))
    BY TakesTie DEF QueueOK
  <1>3. Stamps'
    BY <1>1 DEF QueueOK, Stamps
  <1>4. Admitted'
    <2>1. \A d \in Commands : Reached(d)' => Reached(d)
      BY <1>1, <1>2 DEF Reached
    <2> QED
      BY <1>1, <2>1 DEF QueueOK, Admitted, Entered, MayRun
  <1>5. RootFirst'
    BY <1>1, <1>2 DEF RootFirst, Priority
  <1>6. Tied'
    BY <1>1, <1>2 DEF Tied, Tie, Priority
  <1> QED
    BY <1>2, <1>3, <1>4, <1>5, <1>6 DEF QueueOK

LEMMA GetQueue ==
    ASSUME TypeOK, QueueOK, WorkerGet
    PROVE  QueueOK'
  <1>1. UNCHANGED <<order, post, unfinished>> /\ task = None
    BY DEF WorkerGet, TypeOK
  <1>2. /\ heap[1] \in Commands /\ heap[1] \in Queued /\ heap # <<>>
        /\ Queued' = Queued \ {heap[1]} /\ Len(heap') = Len(heap) - 1
        /\ HeapDistinct' /\ (\A i \in DOMAIN heap' : Priority(heap'[1]) <= Priority(heap'[i]))
        /\ task' = heap[1] /\ status' = [status EXCEPT ![heap[1]] = "RUNNING"]
        /\ worker' # "dead"
    BY Takes DEF QueueOK
  <1>3. Stamps'
    BY <1>1 DEF QueueOK, Stamps
  <1>4. Admitted'
    <2>1. \A d \in Commands : Reached(d)' => Reached(d)
      BY <1>1, <1>2 DEF Reached, TypeOK
    <2> QED
      BY <1>1, <2>1 DEF QueueOK, Admitted, Entered, MayRun
  <1>5. RootFirst'
    BY <1>1, <1>2 DEF RootFirst, Priority
  <1>6. Tied => Tied'
    BY <1>1 DEF Tied, Tie, Priority
  <1>7. Placed => Placed'
    <2> SUFFICES ASSUME Placed
                 PROVE  Placed'
      OBVIOUS
    <2>1. unfinished' = Len(heap') + (IF task' = None THEN 0 ELSE 1)
      <3>1. unfinished = Len(heap) + 0 /\ Len(heap) \in Nat
        BY <1>1 DEF Placed, TypeOK
      <3>2. task' # None
        BY <1>2, Constants
      <3> QED
        BY <1>1, <1>2, <3>1, <3>2
    <2>2. \A d \in Commands : status'[d] \in Ended <=> status[d] \in Ended
      BY <1>2 DEF Placed, TypeOK, Ended
    <2>3. \A d \in Commands :
          /\ Entered(d)' => d \in Queued' \/ task' = d \/ status'[d] \in Ended
          /\ d \in Queued' => task' # d /\ status'[d] \notin Ended
          /\ task' = d => status'[d] \notin Ended
      <3>1. \A d \in Commands : Entered(d)' <=> Entered(d)
        BY <1>1 DEF Entered
      <3>2. \A d \in Commands : task # d
        BY <1>1, Constants
      <3> QED
        BY <1>2, <2>2, <3>1, <3>2 DEF Placed
    <2> QED
      BY <1>2, <2>1, <2>3 DEF Placed
  <1> QED
    BY <1>2, <1>3, <1>4, <1>5, <1>6, <1>7 DEF QueueOK

(* task_done() cannot raise while every put was counted. *)
LEMMA FinishQueue ==
    ASSUME TypeOK, QueueOK, WorkerFinish
    PROVE  QueueOK'
  <1>1. UNCHANGED <<order, post, heap>> /\ task \in Commands /\ task' = None
    BY DEF WorkerFinish, TypeOK
  <1>2. /\ \A d \in Commands \ {task} : status'[d] = status[d]
        /\ status'[task] \in Ended
        /\ worker' = IF unfinished = 0 THEN "dead" ELSE IF running THEN "get" ELSE "ended"
        /\ unfinished' = IF unfinished = 0 THEN 0 ELSE unfinished - 1
    BY <1>1 DEF WorkerFinish, TypeOK, Outcomes, Ended
  <1>3. Queued' = Queued
    BY <1>1 DEF Queued
  <1>4. Stamps' /\ HeapDistinct' /\ RootFirst'
    BY <1>1 DEF QueueOK, Stamps, HeapDistinct, RootFirst, Priority
  <1>5. Admitted'
    <2>1. \A d \in Commands : Reached(d)' => Reached(d)
      <3> SUFFICES ASSUME NEW d \in Commands, Reached(d)'
                   PROVE  Reached(d)
        OBVIOUS
      <3>1. CASE d = task
        BY <3>1 DEF Reached
      <3>2. CASE d # task
        <4>1. task' # d
          BY <1>1, Constants
        <4> QED
          BY <1>2, <1>3, <3>2, <4>1 DEF Reached
      <3> QED
        BY <3>1, <3>2
    <2> QED
      BY <1>1, <2>1 DEF QueueOK, Admitted, Entered, MayRun
  <1>6. Tied => Tied'
    BY <1>1 DEF Tied, Tie, Priority
  <1>7. Placed => Placed'
    <2> SUFFICES ASSUME Placed
                 PROVE  Placed'
      OBVIOUS
    <2>1. unfinished = Len(heap) + 1 /\ Len(heap) \in Nat
      BY <1>1, Constants DEF Placed, TypeOK
    <2>2. unfinished' = Len(heap') + (IF task' = None THEN 0 ELSE 1) /\ worker' # "dead"
      BY <1>1, <1>2, <2>1
    <2>3. \A d \in Commands :
          /\ Entered(d)' => d \in Queued' \/ task' = d \/ status'[d] \in Ended
          /\ d \in Queued' => task' # d /\ status'[d] \notin Ended
          /\ task' = d => status'[d] \notin Ended
      <3>1. \A d \in Commands : (Entered(d)' <=> Entered(d)) /\ task' # d
        BY <1>1, Constants DEF Entered
      <3>2. task \notin Queued
        BY <1>1 DEF Placed
      <3> QED
        BY <1>1, <1>2, <1>3, <3>1, <3>2 DEF Placed
    <2> QED
      BY <2>2, <2>3 DEF Placed
  <1> QED
    BY <1>4, <1>5, <1>6, <1>7 DEF QueueOK

LEMMA QueueStep ==
    ASSUME TypeOK, QueueOK, [Next]_vars
    PROVE  QueueOK'
  <1>1. ASSUME NEW c \in Commands, Create(c)
        PROVE  QueueOK'
    BY <1>1, CreateQueue
  <1>2. ASSUME NEW c \in Commands, Reject(c)
        PROVE  QueueOK'
    BY <1>2, RejectQueue
  <1>3. ASSUME NEW c \in Commands, Put(c)
        PROVE  QueueOK'
    BY <1>3, PutQueue
  <1>4. ASSUME NEW t \in Callers, StartCheck(t) \/ StartClear(t) \/ StartCron(t) \/ StartLaunch(t)
        PROVE  QueueOK'
    <2>1. UNCHANGED <<queueVars, task>> /\ (worker' = worker \/ worker' # "dead")
      BY <1>4 DEF StartCheck, StartClear, StartCron, StartLaunch, workVars
    <2> QED
      BY <2>1, QueueFrame
  <1>5. ASSUME NEW t \in Callers, StopCron(t) \/ StopSignal(t) \/ StopJoin(t) \/ StopWait(t) \/ StopForget(t)
        PROVE  QueueOK'
    <2>1. UNCHANGED <<queueVars, task>> /\ (worker' = worker \/ worker' # "dead")
      BY <1>5 DEF StopCron, StopSignal, StopJoin, StopWait, StopForget, workVars
    <2> QED
      BY <2>1, QueueFrame
  <1>6. ASSUME NEW l \in Loops, LoopTest(l) \/ LoopRest(l)
        PROVE  QueueOK'
    <2>1. UNCHANGED <<queueVars, task>> /\ (worker' = worker \/ worker' # "dead")
      BY <1>6 DEF LoopTest, LoopRest, workVars
    <2> QED
      BY <2>1, QueueFrame
  <1>7. ASSUME Chat \/ Signal \/ StopWorker \/ Exit
        PROVE  QueueOK'
    <2>1. UNCHANGED <<queueVars, task>> /\ (worker' = worker \/ worker' # "dead")
      BY <1>7 DEF Chat, Signal, StopWorker, Exit, workVars
    <2> QED
      BY <2>1, QueueFrame
  <1>8. ASSUME WorkerEmpty
        PROVE  QueueOK'
    <2>1. UNCHANGED <<queueVars, task>> /\ (worker' = worker \/ worker' # "dead")
      BY <1>8 DEF WorkerEmpty, workVars
    <2> QED
      BY <2>1, QueueFrame
  <1>9. ASSUME WorkerGetTie
        PROVE  QueueOK'
    BY <1>9, GetTieQueue
  <1>10. ASSUME WorkerGet
        PROVE  QueueOK'
    BY <1>10, GetQueue
  <1>11. ASSUME WorkerFinish
        PROVE  QueueOK'
    BY <1>11, FinishQueue
  <1>12. ASSUME UNCHANGED vars
        PROVE  QueueOK'
    <2>1. UNCHANGED <<queueVars, task>> /\ (worker' = worker \/ worker' # "dead")
      BY <1>12 DEF vars, queueVars, workVars
    <2> QED
      BY <2>1, QueueFrame
  <1> QED
    BY Steps, <1>1, <1>2, <1>3, <1>4, <1>5, <1>6, <1>7, <1>8, <1>9, <1>10, <1>11, <1>12

------------------------------------------------------------------------------
(* The loops *)

LEMMA LoopsFrame ==
    ASSUME LoopsOK, UNCHANGED <<callVars, botVars>>, worker' # "call" => worker # "call"
    PROVE  LoopsOK'
  <1>1. UNCHANGED <<call, joined, overlapped, timedOut, calm,
                    thread, stopping, loop, crons, cronHeld>>
    BY DEF callVars, botVars
  <1>2. BotAlone => BotAlone'
    BY <1>1 DEF BotAlone, CallOK, IsActive, Alive, Busy
  <1> QED
    BY <1>1, <1>2 DEF LoopsOK

(* What BotAlone says when nobody but caller t may be inside a call. *)
Alone(t) ==
    /\ CallOK(t)
    /\ crons = IF cronHeld THEN 1 ELSE 0
    /\ cronHeld => (IsActive /\ ~stopping) \/ call[t] = "launch"
    /\ thread = None => stopping \/ call[t] \in {"cron", "launch"}
    /\ calm => thread = None /\ stopping /\ ~cronHeld
    /\ timedOut \/ \A l \in Loops : Alive(l) => l = thread

LEMMA OthersOut ==
    ASSUME BotAlone, NEW t \in Callers, Busy(t) \/ \A s \in Callers : ~Busy(s)
    PROVE  Alone(t) /\ \A s \in Callers \ {t} : ~Busy(s)
  <1>1. \A s \in Callers \ {t} : ~Busy(s)
    BY DEF BotAlone
  <1>2. \A s \in Callers \ {t} : call[s] \notin {"cron", "launch"}
    BY <1>1 DEF Busy
  <1> QED
    BY <1>1, <1>2 DEF BotAlone, Alone

LEMMA Joint ==
    ASSUME NEW t \in Callers, Alone(t)', \A s \in Callers \ {t} : ~Busy(s)'
    PROVE  BotAlone'
  <1>1. \A s \in Callers \ {t} : CallOK(s)'
    BY DEF Busy, CallOK
  <1> QED
    BY <1>1 DEF BotAlone, Alone

(* A caller takes a step of start() or stop(). *)
LEMMA CallerStep ==
    ASSUME TypeOK, LoopsOK, NEW t \in Callers, Busy(t), NEW step,
           call' = [call EXCEPT ![t] = step], UNCHANGED <<overlapped, worker>>,
           cronHeld' => crons' > 0, Alone(t) => Alone(t)'
    PROVE  LoopsOK'
  <1>1. \A s \in Callers \ {t} : call'[s] = call[s]
    BY DEF TypeOK
  <1>2. worker # "call" => t # "worker" /\ call["worker"] = "idle"
    BY DEF LoopsOK, Busy
  <1>3. worker' # "call" => call'["worker"] = "idle"
    BY <1>1, <1>2, Constants
  <1>4. ASSUME BotAlone
        PROVE  BotAlone'
    <2>1. Alone(t)' /\ \A s \in Callers \ {t} : ~Busy(s)
      BY <1>4, OthersOut
    <2>2. \A s \in Callers \ {t} : ~Busy(s)'
      BY <1>1, <2>1 DEF Busy
    <2> QED
      BY <2>1, <2>2, Joint
  <1> QED
    BY <1>3, <1>4 DEF LoopsOK

LEMMA StartStopLoops ==
    ASSUME TypeOK, LoopsOK, NEW t \in Callers,
           \/ StartCheck(t) \/ StartClear(t) \/ StartCron(t) \/ StartLaunch(t)
           \/ StopCron(t) \/ StopSignal(t) \/ StopJoin(t) \/ StopWait(t) \/ StopForget(t)
    PROVE  LoopsOK'
  <1>1. CASE StartCheck(t)
    <2> DEFINE step == IF IsActive THEN "returned" ELSE "clear"
    <2>1. Busy(t) /\ call' = [call EXCEPT ![t] = step] /\ UNCHANGED <<overlapped, worker>>
      BY <1>1 DEF StartCheck, Goto, Busy, workVars, botVars
    <2>2. call'[t] = step
      BY <2>1 DEF TypeOK
    <2>3. cronHeld' => crons' > 0
      BY <1>1 DEF StartCheck, TypeOK, LoopsOK, botVars
    <2>6. Alone(t) => Alone(t)'
      BY <1>1, <2>2, Constants DEF StartCheck, Alone, CallOK, IsActive, Alive, TypeOK, botVars
    <2> HIDE DEF step
    <2> QED
      BY <2>1, <2>3, <2>6, CallerStep
  <1>2. CASE StartClear(t)
    <2> DEFINE step == "cron"
    <2>1. Busy(t) /\ call' = [call EXCEPT ![t] = step] /\ UNCHANGED <<overlapped, worker>>
      BY <1>2 DEF StartClear, Goto, Busy, workVars, botVars
    <2>2. call'[t] = step
      BY <2>1 DEF TypeOK
    <2>3. cronHeld' => crons' > 0
      BY <1>2 DEF StartClear, TypeOK, LoopsOK, botVars
    <2>6. Alone(t) => Alone(t)'
      BY <1>2, <2>2, Constants DEF StartClear, Alone, CallOK, IsActive, Alive, TypeOK, botVars
    <2> HIDE DEF step
    <2> QED
      BY <2>1, <2>3, <2>6, CallerStep
  <1>3. CASE StartCron(t)
    <2> DEFINE step == "launch"
    <2>1. Busy(t) /\ call' = [call EXCEPT ![t] = step] /\ UNCHANGED <<overlapped, worker>>
      BY <1>3 DEF StartCron, Goto, Busy, workVars, botVars
    <2>2. call'[t] = step
      BY <2>1 DEF TypeOK
    <2>3. cronHeld' => crons' > 0
      BY <1>3 DEF StartCron, TypeOK, LoopsOK, botVars
    <2>6. Alone(t) => Alone(t)'
      BY <1>3, <2>2, Constants DEF StartCron, Alone, CallOK, IsActive, Alive, TypeOK, botVars
    <2> HIDE DEF step
    <2> QED
      BY <2>1, <2>3, <2>6, CallerStep
  <1>4. CASE StartLaunch(t)
    <2> DEFINE step == "returned"
    <2>1. Busy(t) /\ call' = [call EXCEPT ![t] = step] /\ UNCHANGED <<overlapped, worker>>
      BY <1>4 DEF StartLaunch, Goto, Busy, workVars, botVars
    <2>2. call'[t] = step
      BY <2>1 DEF TypeOK
    <2>3. cronHeld' => crons' > 0
      BY <1>4 DEF StartLaunch, TypeOK, LoopsOK, botVars
    <2>4. PICK l \in Loops : thread' = l /\ loop' = [loop EXCEPT ![l] = "idle"]
      BY <1>4, Launches
    <2>5. /\ loop'[l] = "idle" /\ \A k \in Loops \ {l} : loop'[k] = loop[k]
          /\ UNCHANGED <<calm, stopping, crons, cronHeld, timedOut>>
      BY <1>4, <2>4 DEF StartLaunch, TypeOK
    <2>6. Alone(t) => Alone(t)'
      <3> SUFFICES ASSUME Alone(t)
                   PROVE  Alone(t)'
        OBVIOUS
      <3>1. call[t] = "launch" /\ l # None
        BY <1>4, Constants DEF StartLaunch
      <3>2. ~calm /\ ~stopping /\ ~IsActive
        BY <3>1 DEF Alone, CallOK
      <3>3. timedOut \/ \A k \in Loops : ~Alive(k)
        BY <3>2, Constants DEF Alone, IsActive
      <3>4. timedOut' \/ \A k \in Loops : Alive(k)' => k = thread'
        BY <3>3, <2>4, <2>5 DEF Alive
      <3>5. IsActive'
        BY <3>1, <2>4, <2>5 DEF IsActive, Alive
      <3>6. crons' = IF cronHeld' THEN 1 ELSE 0
        BY <2>5 DEF Alone
      <3>7. CallOK(t)'
        BY <2>2 DEF CallOK
      <3> QED
        BY <3>1, <3>2, <3>4, <3>5, <3>6, <3>7, <2>4, <2>5 DEF Alone
    <2> HIDE DEF step
    <2> QED
      BY <2>1, <2>3, <2>6, CallerStep
  <1>5. CASE StopCron(t)
    <2> DEFINE step == "signal"
    <2>1. Busy(t) /\ call' = [call EXCEPT ![t] = step] /\ UNCHANGED <<overlapped, worker>>
      BY <1>5 DEF StopCron, Goto, Busy, workVars, botVars
    <2>2. call'[t] = step
      BY <2>1 DEF TypeOK
    <2>3. cronHeld' => crons' > 0
      BY <1>5 DEF StopCron, TypeOK, LoopsOK, botVars
    <2>6. Alone(t) => Alone(t)'
      BY <1>5, <2>2, Constants DEF StopCron, Alone, CallOK, IsActive, Alive, TypeOK, botVars
    <2> HIDE DEF step
    <2> QED
      BY <2>1, <2>3, <2>6, CallerStep
  <1>6. CASE StopSignal(t)
    <2> DEFINE step == IF thread = None THEN "returned" ELSE "join"
    <2>1. Busy(t) /\ call' = [call EXCEPT ![t] = step] /\ UNCHANGED <<overlapped, worker>>
      BY <1>6 DEF StopSignal, Goto, Busy, workVars, botVars
    <2>2. call'[t] = step
      BY <2>1 DEF TypeOK
    <2>3. cronHeld' => crons' > 0
      BY <1>6 DEF StopSignal, TypeOK, LoopsOK, botVars
    <2>6. Alone(t) => Alone(t)'
      BY <1>6, <2>2, Constants DEF StopSignal, Alone, CallOK, IsActive, Alive, TypeOK, botVars
    <2> HIDE DEF step
    <2> QED
      BY <2>1, <2>3, <2>6, CallerStep
  <1>7. CASE StopJoin(t)
    <2> DEFINE step == IF thread = None THEN "failed" ELSE "wait"
    <2>1. Busy(t) /\ call' = [call EXCEPT ![t] = step] /\ UNCHANGED <<overlapped, worker>>
      BY <1>7 DEF StopJoin, Goto, Busy, workVars, botVars
    <2>2. call'[t] = step
      BY <2>1 DEF TypeOK
    <2>3. cronHeld' => crons' > 0
      BY <1>7 DEF StopJoin, TypeOK, LoopsOK, botVars
    <2>6. Alone(t) => Alone(t)'
      BY <1>7, <2>2, Constants DEF StopJoin, Alone, CallOK, IsActive, Alive, TypeOK, botVars
    <2> HIDE DEF step
    <2> QED
      BY <2>1, <2>3, <2>6, CallerStep
  <1>8. CASE StopWait(t)
    <2> DEFINE step == "forget"
    <2>1. Busy(t) /\ call' = [call EXCEPT ![t] = step] /\ UNCHANGED <<overlapped, worker>>
      BY <1>8 DEF StopWait, Goto, Busy, workVars, botVars
    <2>2. call'[t] = step
      BY <2>1 DEF TypeOK
    <2>3. cronHeld' => crons' > 0
      BY <1>8 DEF StopWait, TypeOK, LoopsOK, botVars
    <2>6. Alone(t) => Alone(t)'
      BY <1>8, <2>2, Constants DEF StopWait, Alone, CallOK, IsActive, Alive, TypeOK, botVars
    <2> HIDE DEF step
    <2> QED
      BY <2>1, <2>3, <2>6, CallerStep
  <1>9. CASE StopForget(t)
    <2> DEFINE step == "returned"
    <2>1. Busy(t) /\ call' = [call EXCEPT ![t] = step] /\ UNCHANGED <<overlapped, worker>>
      BY <1>9 DEF StopForget, Goto, Busy, workVars, botVars
    <2>2. call'[t] = step
      BY <2>1 DEF TypeOK
    <2>3. cronHeld' => crons' > 0
      BY <1>9 DEF StopForget, TypeOK, LoopsOK, botVars
    <2>6. Alone(t) => Alone(t)'
      BY <1>9, <2>2, Constants DEF StopForget, Alone, CallOK, IsActive, Alive, TypeOK, botVars
    <2> HIDE DEF step
    <2> QED
      BY <2>1, <2>3, <2>6, CallerStep
  <1> QED
    BY <1>1, <1>2, <1>3, <1>4, <1>5, <1>6, <1>7, <1>8, <1>9

(* A caller that was outside enters. *)
LEMMA BeginLoops ==
    ASSUME TypeOK, LoopsOK, NEW t \in Callers, ~Busy(t), NEW step \in {"check", "quiet"},
           Begin(t, step), UNCHANGED botVars, t = "worker" => worker' = "call",
           t # "worker" => worker' = worker
    PROVE  LoopsOK'
  <1>1. /\ call' = [call EXCEPT ![t] = step] /\ UNCHANGED <<joined, timedOut, calm>>
        /\ overlapped' = (overlapped \/ \E s \in Callers \ {t} : Busy(s))
        /\ UNCHANGED <<thread, stopping, loop, crons, cronHeld>>
    BY DEF Begin, botVars
  <1>2. call'[t] = step /\ \A s \in Callers \ {t} : call'[s] = call[s]
    BY <1>1 DEF TypeOK
  <1>3. worker' # "call" => call'["worker"] = "idle"
    BY <1>2, Constants DEF LoopsOK
  <1>4. ASSUME ~overlapped'
        PROVE  BotAlone'
    <2>1. BotAlone /\ \A s \in Callers : ~Busy(s)
      BY <1>1, <1>4 DEF LoopsOK
    <2>2. Alone(t)
      BY <2>1, OthersOut
    <2>3. Alone(t)'
      BY <1>1, <1>2, <2>1, <2>2 DEF Alone, CallOK, IsActive, Alive, Busy
    <2>4. \A s \in Callers \ {t} : ~Busy(s)'
      BY <1>2, <2>1 DEF Busy
    <2> QED
      BY <2>3, <2>4, Joint
  <1> QED
    BY <1>1, <1>3, <1>4 DEF LoopsOK

LEMMA LoopLoops ==
    ASSUME TypeOK, LoopsOK, NEW l \in Loops, LoopTest(l) \/ LoopRest(l)
    PROVE  LoopsOK'
  <1>1. /\ UNCHANGED <<worker, call, joined, overlapped, timedOut, calm,
                       thread, stopping, crons, cronHeld>>
        /\ Alive(l) /\ loop'[l] \in {"idle", "body", "dead"}
        /\ \A k \in Loops \ {l} : loop'[k] = loop[k]
        /\ ~stopping => loop'[l] \in {"idle", "body"}
    BY DEF LoopTest, LoopRest, TypeOK, Alive, callVars, workVars
  <1>2. \A k \in Loops : Alive(k)' => Alive(k)
    BY <1>1 DEF Alive
  <1>3. ~stopping => \A k \in Loops : Alive(k) => Alive(k)'
    BY <1>1 DEF Alive
  <1>4. IsActive' => IsActive
    BY <1>1, <1>2 DEF IsActive, TypeOK
  <1>5. IsActive /\ ~stopping => IsActive'
    BY <1>1, <1>3 DEF IsActive, TypeOK
  <1>6. ASSUME BotAlone
        PROVE  BotAlone'
    <2>1. \A t \in Callers : CallOK(t)'
      <3>1. \A t \in Callers : CallOK(t)
        BY <1>6 DEF BotAlone
      <3>2. \A t \in Callers : call[t] = "forget" => thread \in Loops
        BY <3>1 DEF CallOK, TypeOK
      <3> QED
        BY <1>1, <1>2, <1>4, <3>1, <3>2 DEF CallOK
    <2> QED
      BY <1>1, <1>2, <1>5, <1>6, <2>1 DEF BotAlone, Busy
  <1> QED
    BY <1>1, <1>6 DEF LoopsOK

LEMMA GetLoops ==
    ASSUME TypeOK, QueueOK, LoopsOK, WorkerGet
    PROVE  LoopsOK'
  <1>1. worker = "get" /\ UNCHANGED botVars
    BY DEF WorkerGet
  <1>2. ~Busy("worker") /\ "worker" \in Callers
    BY <1>1, Constants DEF LoopsOK, Busy
  <1>3. \/ worker' = "call" /\ Begin("worker", "check")
        \/ worker' = "call" /\ Begin("worker", "quiet")
        \/ worker' = "do" /\ UNCHANGED callVars
    BY Takes DEF QueueOK
  <1>4. CASE worker' = "do" /\ UNCHANGED callVars
    BY <1>1, <1>4, LoopsFrame
  <1>5. CASE worker' = "call" /\ Begin("worker", "check")
    BY <1>1, <1>2, <1>5, BeginLoops
  <1>6. CASE worker' = "call" /\ Begin("worker", "quiet")
    BY <1>1, <1>2, <1>6, BeginLoops
  <1> QED
    BY <1>3, <1>4, <1>5, <1>6

LEMMA FinishLoops ==
    ASSUME TypeOK, LoopsOK, WorkerFinish
    PROVE  LoopsOK'
  <1>1. /\ ~Busy("worker") /\ "worker" \in Callers
        /\ call'["worker"] = "idle"
        /\ \A s \in Callers \ {"worker"} : call'[s] = call[s]
        /\ UNCHANGED <<joined, overlapped, timedOut, calm,
                       thread, stopping, loop, crons, cronHeld>>
    BY Constants DEF WorkerFinish, LoopsOK, Busy, TypeOK, botVars
  <1>2. ASSUME BotAlone
        PROVE  BotAlone'
    <2>1. \A t \in Callers : Busy(t)' => Busy(t)
      BY <1>1 DEF Busy
    <2>2. \A t \in Callers : CallOK(t)'
      BY <1>1, <1>2 DEF BotAlone, CallOK, IsActive, Alive
    <2>3. \A t \in Callers : call[t] \in {"cron", "launch"} => call'[t] = call[t]
      BY <1>1 DEF Busy
    <2> QED
      BY <1>1, <1>2, <2>1, <2>2, <2>3 DEF BotAlone, IsActive, Alive
  <1> QED
    BY <1>1, <1>2 DEF LoopsOK

LEMMA LoopsStep ==
    ASSUME TypeOK, QueueOK, LoopsOK, [Next]_vars
    PROVE  LoopsOK'
  <1>1. ASSUME NEW c \in Commands, Create(c) \/ Reject(c) \/ Put(c)
        PROVE  LoopsOK'
    <2>1. UNCHANGED <<callVars, botVars, worker>>
      BY <1>1 DEF Create, Reject, Put, workVars
    <2> QED
      BY <2>1, LoopsFrame
  <1>2. ASSUME NEW t \in Callers,
               \/ StartCheck(t) \/ StartClear(t) \/ StartCron(t) \/ StartLaunch(t)
               \/ StopCron(t) \/ StopSignal(t) \/ StopJoin(t) \/ StopWait(t) \/ StopForget(t)
        PROVE  LoopsOK'
    BY <1>2, StartStopLoops
  <1>3. ASSUME NEW l \in Loops, LoopTest(l) \/ LoopRest(l)
        PROVE  LoopsOK'
    BY <1>3, LoopLoops
  <1>4. CASE Chat
    <2>1. PICK t \in Outsiders \ {ending}, step \in {"check", "quiet"} :
              ~Busy(t) /\ Begin(t, step)
      BY <1>4 DEF Chat
    <2>2. t \in Callers /\ t # "worker"
      BY OrdersAssumption DEF Callers
    <2>3. UNCHANGED botVars /\ worker' = worker
      BY <1>4 DEF Chat, workVars
    <2> QED
      BY <2>1, <2>2, <2>3, BeginLoops
  <1>5. CASE Signal
    <2>1. PICK t \in Outsiders : ~Busy(t) /\ Begin(t, "quiet")
      BY <1>5 DEF Signal
    <2>2. t \in Callers /\ t # "worker"
      BY OrdersAssumption DEF Callers
    <2>3. UNCHANGED botVars /\ worker' = worker
      BY <1>5 DEF Signal, workVars
    <2> QED
      BY <2>1, <2>2, <2>3, BeginLoops
  <1>6. CASE WorkerEmpty \/ WorkerGetTie \/ StopWorker \/ Exit \/ UNCHANGED vars
    <2>1. UNCHANGED <<callVars, botVars>> /\ (worker' # "call" => worker # "call")
      BY <1>6 DEF WorkerEmpty, WorkerGetTie, StopWorker, Exit, vars, callVars, botVars, workVars
    <2> QED
      BY <2>1, LoopsFrame
  <1> QED
    BY Steps, <1>1, <1>2, <1>3, <1>4, <1>5, <1>6, GetLoops, FinishLoops

------------------------------------------------------------------------------
(* The theorems *)

LEMMA Initially ==
    ASSUME Init
    PROVE  IInv
  <1>1. TypeOK
    <2>1. 0 \in 0 .. MaxCommands /\ 0 \in 0 .. MaxInputs /\ 1 \in Loops
      BY Constants
    <2>2. order \in [Commands -> [type : Types, role : Roles, stamp : 0 .. MaxCommands]]
      BY <2>1 DEF Init, Types, Roles
    <2>3. heap \in Seq(Commands)
      BY DEF Init
    <2> QED
      BY <2>1, <2>2, <2>3, Constants DEF Init, TypeOK
  <1>2. QueueOK
    <2>1. Queued = {} /\ DOMAIN heap = {} /\ Len(heap) = 0
      BY DEF Init, Queued
    <2>2. Stamps
      BY Constants DEF Init, Stamps
    <2>3. \A c \in Commands : ~Entered(c) /\ ~Reached(c)
      BY <2>1, Constants DEF Init, Entered, Reached, Ended
    <2>4. Placed
      BY <2>1, <2>3, Constants DEF Init, Placed, Reached
    <2> QED
      BY <2>1, <2>2, <2>3, <2>4 DEF QueueOK, Admitted, HeapDistinct, RootFirst
  <1>3. LoopsOK
    <2>1. thread = 1 /\ thread # None /\ Alive(1) /\ \A l \in Loops : Alive(l) => l = 1
      BY Constants DEF Init, Alive
    <2>2. \A t \in Callers : call[t] = "idle"
      BY DEF Init
    <2>3. \A t \in Callers : ~Busy(t) /\ CallOK(t)
      BY <2>2 DEF Busy, CallOK
    <2> QED
      BY <2>1, <2>2, <2>3, Constants DEF Init, LoopsOK, BotAlone, IsActive
  <1> QED
    BY <1>1, <1>2, <1>3 DEF IInv

(* The queue's, the loop's and the types' parts hold together. *)
LEMMA Inductive == Spec => []IInv
  <1>1. Init => IInv
    BY Initially
  <1>2. IInv /\ [Next]_vars => IInv'
    <2> SUFFICES ASSUME IInv, [Next]_vars
                 PROVE  IInv'
      OBVIOUS
    <2>1. TypeOK /\ QueueOK /\ LoopsOK
      BY DEF IInv
    <2> QED
      BY <2>1, TypeStep, QueueStep, LoopsStep DEF IInv
  <1> QED
    BY <1>1, <1>2, PTL DEF Spec

(* Every variable of the command path keeps its type. *)
THEOREM TypeCorrect == Spec => []TypeOK
  <1>1. IInv => TypeOK
    BY DEF IInv
  <1> QED
    BY <1>1, Inductive, PTL

LEMMA OneOfThree ==
    ASSUME IInv, Placed
    PROVE  OnePlace
  <1> SUFFICES ASSUME NEW c \in Commands
               PROVE  /\ Cardinality({i \in DOMAIN heap : heap[i] = c}) <= 1
                      /\ Cardinality({p \in {"waiting", "held", "ended"} :
                             \/ p = "waiting" /\ c \in Queued
                             \/ p = "held" /\ task = c
                             \/ p = "ended" /\ status[c] \in Ended})
                         = IF post[c] \in {"new", "made", "refused"} THEN 0 ELSE 1
    BY DEF OnePlace
  <1>1. TypeOK /\ QueueOK
    BY DEF IInv
  <1>2. \A x : Cardinality({x}) = 1
    BY FS_Singleton
  <1>3. Cardinality({}) = 0
    BY FS_EmptySet
  <1>4. Cardinality({i \in DOMAIN heap : heap[i] = c}) <= 1
    <2> DEFINE I == {i \in DOMAIN heap : heap[i] = c}
    <2>1. I = {} \/ \E i : I = {i}
      BY <1>1 DEF QueueOK, HeapDistinct
    <2> HIDE DEF I
    <2>2. Cardinality(I) = 0 \/ Cardinality(I) = 1
      BY <1>2, <1>3, <2>1
    <2>3. Cardinality(I) <= 1
      BY <2>2
    <2> QED
      BY <2>3 DEF I
  <1> DEFINE P == {p \in {"waiting", "held", "ended"} :
                      \/ p = "waiting" /\ c \in Queued
                      \/ p = "held" /\ task = c
                      \/ p = "ended" /\ status[c] \in Ended}
  <1>5. CASE post[c] \in {"new", "made", "refused"}
    <2>1. ~Entered(c)
      BY <1>5 DEF Entered
    <2>2. c \notin Queued /\ task # c /\ status[c] \notin Ended
      BY <1>1, <2>1 DEF QueueOK, Admitted, Reached
    <2>3. P = {}
      BY <2>2
    <2> QED
      BY <1>3, <1>4, <1>5, <2>3
  <1>6. CASE post[c] \notin {"new", "made", "refused"}
    <2>1. Entered(c)
      BY <1>1, <1>6 DEF Entered, TypeOK
    <2>2. \/ c \in Queued /\ task # c /\ status[c] \notin Ended
          \/ c \notin Queued /\ task = c /\ status[c] \notin Ended
          \/ c \notin Queued /\ task # c /\ status[c] \in Ended
      BY <2>1 DEF Placed
    <2>3. P = {"waiting"} \/ P = {"held"} \/ P = {"ended"}
      BY <2>2
    <2> HIDE DEF P
    <2>4. Cardinality(P) = 1
      BY <1>2, <2>3
    <2> QED
      BY <1>4, <1>6, <2>4 DEF P
  <1> QED
    BY <1>5, <1>6

(* However many requests, orders and workers' turns interleave, a command  *)
(* that enqueue() accepted is in one place, once, and nothing runs that    *)
(* the permission matrix refuses; only a shared time stamp breaks this.    *)
THEOREM CommandsHold == Spec => []CommandsAccounted
  <1>1. ASSUME IInv
        PROVE  CommandsAccounted
    <2>1. Tied \/ (OnePlace /\ worker # "dead")
      BY <1>1, OneOfThree DEF IInv, QueueOK, Placed
    <2>2. \A c \in Commands :
              status[c] \in Ended \cup {"RUNNING"} => order[c].role \in Permitted(order[c].type)
      BY <1>1 DEF IInv, QueueOK, Admitted, Reached, MayRun
    <2> QED
      BY <2>1, <2>2 DEF CommandsAccounted
  <1> QED
    BY <1>1, Inductive, PTL

(* However starts and stops follow each other from the worker, the chat    *)
(* and the shutdown, as long as no two overlap: one loop unless a stop     *)
(* gave up, one scheduler, and after a stop nothing that was not told.     *)
THEOREM LoopsHold == Spec => []LoopsAccounted
  <1>1. ASSUME IInv
        PROVE  LoopsAccounted
    <2> DEFINE A == {l \in Loops : Alive(l)}
    <2>1. CASE overlapped
      BY <2>1 DEF LoopsAccounted
    <2>2. CASE ~overlapped
      <3>1. BotAlone
        BY <1>1, <2>2 DEF IInv, LoopsOK
      <3>2. timedOut \/ Cardinality(A) <= 1
        <4>1. timedOut \/ A = {} \/ A = {thread}
          BY <3>1 DEF BotAlone
        <4>2. Cardinality({}) = 0 /\ Cardinality({thread}) = 1
          BY FS_EmptySet, FS_Singleton
        <4> HIDE DEF A
        <4> QED
          BY <4>1, <4>2
      <3>3. crons <= 1
        BY <3>1 DEF BotAlone
      <3>4. calm => crons = 0 /\ stopping /\ ((\E l \in Loops : Alive(l)) => timedOut)
        <4>1. calm => thread = None /\ stopping /\ ~cronHeld /\ crons = 0
          BY <3>1 DEF BotAlone
        <4>2. thread = None => timedOut \/ \A l \in Loops : ~Alive(l)
          BY <3>1, Constants DEF BotAlone
        <4> QED
          BY <4>1, <4>2
      <3> QED
        BY <3>2, <3>3, <3>4 DEF LoopsAccounted
    <2> QED
      BY <2>1, <2>2
  <1> QED
    BY <1>1, Inductive, PTL

(* The worker passes over no emergency stop that waits. *)
THEOREM EmergencyFirstHolds == Spec => EmergencyFirst
  <1>1. ASSUME IInv, [Next]_vars, task' # None, task' # task, order[task'].type # "EMERGENCY"
        PROVE  \A c \in Queued : order[c].type # "EMERGENCY"
    <2>1. TypeOK /\ QueueOK
      BY <1>1 DEF IInv
    <2>2. WorkerGet
      <3>1. task' = task \/ task' = None \/ WorkerGet
        BY <1>1, Steps DEF vars, workVars, Create, Reject, Put, StartCheck, StartClear,
           StartCron, StartLaunch, StopCron, StopSignal, StopJoin, StopWait, StopForget,
           LoopTest, LoopRest, Chat, WorkerEmpty, WorkerGetTie, WorkerFinish, Signal,
           StopWorker, Exit
      <3> QED
        BY <1>1, <3>1
    <2>3. task' = heap[1] /\ heap[1] \in Commands
      BY <2>1, <2>2, Takes DEF QueueOK
    <2>4. Priority(heap[1]) = 1
      BY <1>1, <2>3 DEF Priority
    <2>5. \A i \in DOMAIN heap : 1 <= Priority(heap[i])
      BY <2>1, <2>4 DEF QueueOK, RootFirst
    <2> QED
      BY <2>5 DEF Queued, Priority
  <1> QED
    BY <1>1, Inductive, PTL DEF Spec, EmergencyFirst
=============================================================================
