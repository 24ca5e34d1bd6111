---------------------------- MODULE SchedProofs ----------------------------
(***************************************************************************)
(* Lemmas about the internal functions of TaskSched: what the sorted       *)
(* insertion, the ready-queue functions and the switch do to the lists and *)
(* to the kernel's record.                                                 *)
(***************************************************************************)
EXTENDS TaskSched, ListProofs

----------------------------------------------------------------------------
(* Lists.                                                                  *)

\* The sorted insertions keep the elements and add the new one.
LEMMA InsertBeforeFacts ==
  ASSUME NEW S, NEW s \in Seq(S), NEW e \in S, NEW Behind
  PROVE  /\ InsertBefore(s, e, Behind) \in Seq(S)
         /\ ToSet(InsertBefore(s, e, Behind)) = ToSet(s) \cup {e}
         /\ IsInjective(s) /\ e \notin ToSet(s) => IsInjective(InsertBefore(s, e, Behind))
<1> DEFINE after == {i \in DOMAIN s : s[i] \in Behind}
<1>1. CASE after = {}
  BY <1>1, AppendFacts DEF InsertBefore
<1>2. CASE after # {}
  <2>0. DOMAIN s = 1 .. Len(s) /\ Len(s) \in Nat
    OBVIOUS
  <2>1. Min(after) \in after
    <3>1. after \in SUBSET Nat
      BY <2>0
    <3> HIDE DEF after
    <3> QED BY <3>1, <1>2, MinOfNat
  <2> DEFINE i == Min(after)
             r == InsertAt(s, i, e)
  <2>2. i \in 1 .. Len(s)
    BY <2>0, <2>1
  <2> HIDE DEF i
  <2>3. /\ r \in Seq(S) /\ Len(r) = Len(s) + 1
        /\ \A j \in 1 .. Len(s) + 1 :
             r[j] = IF j < i THEN s[j] ELSE IF j = i THEN e ELSE s[j - 1]
    BY <2>2, InsertAtFacts
  <2> HIDE DEF r
  <2>4. DOMAIN r = 1 .. Len(s) + 1
    BY <2>3
  <2>5. ToSet(r) \subseteq ToSet(s) \cup {e}
    <3> SUFFICES ASSUME NEW j \in 1 .. Len(s) + 1 PROVE r[j] \in ToSet(s) \cup {e}
      BY <2>4 DEF ToSet
    <3>1. CASE j < i
      BY <3>1, <2>0, <2>2, <2>3 DEF ToSet
    <3>2. CASE j = i
      BY <3>2, <2>3
    <3>3. CASE j > i
      <4>1. j - 1 \in DOMAIN s /\ r[j] = s[j - 1]
        BY <3>3, <2>0, <2>2, <2>3
      <4> QED BY <4>1 DEF ToSet
    <3> QED BY <3>1, <3>2, <3>3, <2>2
  <2>6. ASSUME NEW j \in 1 .. Len(s) PROVE s[j] \in ToSet(r)
    <3>1. CASE j < i
      BY <3>1, <2>3, <2>4 DEF ToSet
    <3>2. CASE j >= i
      <4>1. j + 1 \in DOMAIN r /\ r[j + 1] = s[j]
        BY <3>2, <2>2, <2>3, <2>4
      <4> QED BY <4>1 DEF ToSet
    <3> QED BY <3>1, <3>2, <2>2
  <2>7. e \in ToSet(r)
    BY <2>2, <2>3, <2>4 DEF ToSet
  <2>8. InsertBefore(s, e, Behind) = r
    BY <1>2 DEF InsertBefore, r, i
  <2>9. ASSUME IsInjective(s), e \notin ToSet(s) PROVE IsInjective(r)
    <3>0. \A x, y \in 1 .. Len(s) : s[x] = s[y] => x = y
      BY <2>0, <2>9 DEF IsInjective
    <3>1. \A x \in 1 .. Len(s) : s[x] # e
      BY <2>0, <2>9 DEF ToSet
    <3> SUFFICES ASSUME NEW x \in 1 .. Len(s) + 1, NEW y \in 1 .. Len(s) + 1, r[x] = r[y]
                 PROVE  x = y
      BY <2>4 DEF IsInjective
    <3> DEFINE o(j) == IF j < i THEN j ELSE j - 1
    <3>2. \A j \in 1 .. Len(s) + 1 : j # i => o(j) \in 1 .. Len(s) /\ r[j] = s[o(j)]
      <4> SUFFICES ASSUME NEW j \in 1 .. Len(s) + 1, j # i
                   PROVE  o(j) \in 1 .. Len(s) /\ r[j] = s[o(j)]
        OBVIOUS
      <4>1. j < i \/ j > i
        BY <2>2
      <4> QED BY <4>1, <2>0, <2>2, <2>3
    <3>3. r[i] = e
      BY <2>2, <2>3
    <3>4. CASE x = i \/ y = i
      <4> HIDE DEF o
      <4> QED BY <3>1, <3>2, <3>3, <3>4
    <3>5. CASE x # i /\ y # i
      <4>1. o(x) = o(y)
        <5> HIDE DEF o
        <5> QED BY <3>0, <3>2, <3>5
      <4>2. CASE x < i /\ y < i
        BY <4>1, <4>2
      <4>3. CASE x > i /\ y > i
        BY <4>1, <4>3, <2>2
      <4>4. (x < i \/ x > i) /\ (y < i \/ y > i)
        BY <3>5, <2>2
      <4>5. ~(x < i /\ y > i) /\ ~(x > i /\ y < i)
        BY <4>1, <2>2
      <4> QED BY <4>2, <4>3, <4>4, <4>5
    <3> QED BY <3>4, <3>5
  <2>10. ToSet(r) = ToSet(s) \cup {e}
    BY <2>0, <2>5, <2>6, <2>7 DEF ToSet
  <2> QED BY <2>3, <2>8, <2>9, <2>10
<1> QED BY <1>1, <1>2

\* The first delays to expire come first.
Sorted(s, l) == \A i, j \in DOMAIN s : i < j => l[s[i]] <= l[s[j]]

\* The sorted insertion keeps the order: what is in front of the new task expires
\* no later, what is behind it later.
LEMMA InsertSorted ==
  ASSUME NEW s \in Seq(Task), NEW l \in [Task -> Nat], NEW t \in Task, NEW n \in Nat,
         t \notin ToSet(s), Sorted(s, l)
  PROVE  Sorted(InsertBefore(s, t, {u \in Task : l[u] > n}), [l EXCEPT ![t] = n])
<1> DEFINE after == {i \in DOMAIN s : s[i] \in {u \in Task : l[u] > n}}
           r == InsertBefore(s, t, {u \in Task : l[u] > n})
           m == [l EXCEPT ![t] = n]
<1>0. DOMAIN s = 1 .. Len(s) /\ Len(s) \in Nat
  OBVIOUS
<1>1. \A x \in 1 .. Len(s) : s[x] \in Task /\ s[x] # t /\ m[s[x]] = l[s[x]] /\ l[s[x]] \in Nat
  BY <1>0 DEF ToSet
<1>2. \A x, y \in 1 .. Len(s) : x < y => m[s[x]] <= m[s[y]]
  BY <1>0, <1>1 DEF Sorted
<1>3. m[t] = n
  OBVIOUS
<1>4. CASE after = {}
  <2>1. r = Append(s, t)
    BY <1>4 DEF InsertBefore
  <2>2. /\ DOMAIN r = 1 .. Len(s) + 1 /\ r[Len(s) + 1] = t
        /\ \A x \in 1 .. Len(s) : r[x] = s[x]
    BY <2>1
  <2>3. \A x \in 1 .. Len(s) : m[s[x]] <= n
    BY <1>0, <1>1, <1>4
  <2> HIDE DEF r, m, after
  <2> SUFFICES ASSUME NEW x \in 1 .. Len(s) + 1, NEW y \in 1 .. Len(s) + 1, x < y
               PROVE  m[r[x]] <= m[r[y]]
    BY <2>2 DEF Sorted, r, m
  <2>4. x \in 1 .. Len(s)
    BY <1>0
  <2>5. CASE y = Len(s) + 1
    BY <1>3, <2>2, <2>3, <2>4, <2>5
  <2>6. CASE y \in 1 .. Len(s)
    BY <1>2, <2>2, <2>4, <2>6
  <2> QED BY <1>0, <2>5, <2>6
<1>5. CASE after # {}
  <2> DEFINE i == Min(after)
  <2>1. i \in after /\ \A x \in after : i <= x
    <3>1. after \in SUBSET Nat
      BY <1>0
    <3> HIDE DEF after
    <3> QED BY <3>1, <1>5, MinOfNat
  <2>2. i \in 1 .. Len(s) /\ m[s[i]] > n
    BY <1>0, <1>1, <2>1
  <2>3. \A x \in 1 .. Len(s) : x < i => m[s[x]] <= n
    <3> SUFFICES ASSUME NEW x \in 1 .. Len(s), x < i PROVE m[s[x]] <= n
      OBVIOUS
    <3>1. x \notin after
      <4> HIDE DEF i, after
      <4> QED BY <2>1, <2>2
    <3> QED BY <1>0, <1>1, <3>1
  <2>4. r = InsertAt(s, i, t)
    BY <1>5 DEF InsertBefore
  <2> HIDE DEF i, r
  <2>5. /\ r \in Seq(Task) /\ Len(r) = Len(s) + 1
        /\ \A j \in 1 .. Len(s) + 1 :
             r[j] = IF j < i THEN s[j] ELSE IF j = i THEN t ELSE s[j - 1]
    <3> DEFINE q == InsertAt(s, i, t)
    <3>1. i \in 1 .. Len(s)
      BY <2>2
    <3>2. /\ q \in Seq(Task) /\ Len(q) = Len(s) + 1
          /\ \A j \in 1 .. Len(s) + 1 :
               q[j] = IF j < i THEN s[j] ELSE IF j = i THEN t ELSE s[j - 1]
      BY <3>1, InsertAtFacts
    <3> HIDE DEF q
    <3>3. r = q
      BY <2>4 DEF q
    <3> QED BY <3>2, <3>3
  <2>6. DOMAIN r = 1 .. Len(s) + 1
    BY <2>5
  <2>7. \A x \in 1 .. Len(s) : x >= i => m[s[x]] >= n
    BY <1>1, <1>2, <2>2
  <2> HIDE DEF m, after
  <2> SUFFICES ASSUME NEW x \in 1 .. Len(s) + 1, NEW y \in 1 .. Len(s) + 1, x < y
               PROVE  m[r[x]] <= m[r[y]]
    BY <2>6 DEF Sorted, r, m
  <2>8. CASE y < i
    <3>1. x \in 1 .. Len(s) /\ y \in 1 .. Len(s) /\ r[x] = s[x] /\ r[y] = s[y]
      BY <1>0, <2>2, <2>5, <2>8
    <3> QED BY <1>2, <3>1
  <2>9. CASE y = i
    <3>1. x \in 1 .. Len(s) /\ x < i /\ r[x] = s[x] /\ r[y] = t
      BY <1>0, <2>2, <2>5, <2>9
    <3> QED BY <1>3, <2>3, <3>1
  <2>10. CASE y > i
    <3>0. r[y] = s[y - 1]
      BY <2>2, <2>5, <2>10
    <3>1. y - 1 \in 1 .. Len(s) /\ y - 1 >= i /\ r[y] = s[y - 1]
      BY <1>0, <2>2, <2>10, <3>0
    <3>2. CASE x < i
      <4>1. x \in 1 .. Len(s) /\ x < y - 1 /\ r[x] = s[x]
        BY <1>0, <2>2, <2>5, <3>1, <3>2
      <4> QED BY <1>2, <3>1, <4>1
    <3>3. CASE x = i
      <4>1. r[x] = t
        BY <2>2, <2>5, <3>3
      <4> QED BY <1>3, <2>7, <3>1, <4>1
    <3>4. CASE x > i
      <4>1. x - 1 \in 1 .. Len(s) /\ x - 1 < y - 1 /\ r[x] = s[x - 1]
        BY <1>0, <2>2, <2>5, <3>1, <3>4
      <4> QED BY <1>2, <3>1, <4>1
    <3> QED BY <2>2, <3>2, <3>3, <3>4
  <2> QED BY <2>2, <2>8, <2>9, <2>10
<1> QED BY <1>4, <1>5

\* Removing a task keeps the order of the others.
LEMMA RemoveSorted ==
  ASSUME NEW s \in Seq(Task), NEW l \in [Task -> Nat], NEW t \in ToSet(s), IsInjective(s),
         Sorted(s, l)
  PROVE  Sorted(RemoveFirst(s, t), [l EXCEPT ![t] = 0])
<1> DEFINE r == RemoveFirst(s, t)
           m == [l EXCEPT ![t] = 0]
<1>0. DOMAIN s = 1 .. Len(s) /\ Len(s) \in Nat
  OBVIOUS
<1>1. PICK i \in 1 .. Len(s) : s[i] = t /\ r = RemoveAt(s, i)
  BY RemoveFirstAt
<1>2. /\ r \in Seq(Task) /\ Len(r) = Len(s) - 1
      /\ \A j \in 1 .. Len(s) - 1 : r[j] = IF j < i THEN s[j] ELSE s[j + 1]
  BY <1>1, RemoveAtFacts
<1>3. DOMAIN r = 1 .. Len(s) - 1
  BY <1>2
<1>4. \A x \in 1 .. Len(s) : x # i => m[s[x]] = l[s[x]]
  BY <1>0, <1>1 DEF IsInjective
<1>5. \A x, y \in 1 .. Len(s) : x < y => l[s[x]] <= l[s[y]]
  BY <1>0 DEF Sorted
<1> HIDE DEF r, m
<1> SUFFICES ASSUME NEW x \in 1 .. Len(s) - 1, NEW y \in 1 .. Len(s) - 1, x < y
             PROVE  m[r[x]] <= m[r[y]]
  BY <1>3 DEF Sorted, r, m
<1> DEFINE o(j) == IF j < i THEN j ELSE j + 1
<1>6. ASSUME NEW j \in 1 .. Len(s) - 1
      PROVE  o(j) \in 1 .. Len(s) /\ o(j) # i /\ r[j] = s[o(j)]
  <2>1. CASE j < i
    <3>1. r[j] = s[j]
      BY <1>2, <2>1
    <3> QED BY <1>0, <2>1, <3>1
  <2>2. CASE j >= i
    BY <1>0, <1>2, <2>2
  <2> QED BY <2>1, <2>2
<1>7. o(x) < o(y)
  BY <1>0
<1> HIDE DEF o
<1>8. m[r[x]] = l[s[o(x)]] /\ m[r[y]] = l[s[o(y)]]
  BY <1>4, <1>6
<1>9. l[s[o(x)]] <= l[s[o(y)]]
  BY <1>5, <1>6, <1>7
<1> QED BY <1>8, <1>9

----------------------------------------------------------------------------
(* The kernel's record.                                                    *)

\* The first task of the highest priority that has a ready task.
Top(kk) == Head(kk.readyList[Min({p \in Prio : kk.readyList[p] # << >>})])

\* The idle task is always ready: OsTskHighestSet finds a task.
IdleReady(kk) == Idle \in ToSet(kk.readyList[Lowest])

\* The ready lists hold exactly the tasks with OS_TSK_READY, each once and in the
\* list of its priority, and g_highestTask is the first of them.
ReadyQueue(kk) ==
  /\ \A p \in Prio : IsInjective(kk.readyList[p])
  /\ \A t \in Thread, p \in Prio :
       t \in ToSet(kk.readyList[p]) <=> "READY" \in kk.status[t] /\ kk.priority[t] = p
  /\ kk.highest = Top(kk)

\* OS_TSK_RUNNING is on for RUNNING_TASK only.
RunningBit(kk) == \A t \in Thread : "RUNNING" \in kk.status[t] <=> t = kk.running

\* The delay list holds each task once, and only tasks in PRT_TaskDelay.
Delays(kk) ==
  /\ IsInjective(kk.delayList)
  /\ \A t \in ToSet(kk.delayList) : "DELAY" \in kk.status[t]

\* No task is ready and blocked, and a control block with any bit is in use.
Bits(kk) ==
  \A t \in Thread :
    /\ kk.status[t] \subseteq {"INUSE", "SUSPEND", "DELAY", "READY", "RUNNING"}
    /\ "READY" \in kk.status[t] => kk.status[t] \cap {"SUSPEND", "DELAY"} = {}
    /\ kk.status[t] # {} => "INUSE" \in kk.status[t]

Core(kk) == ReadyQueue(kk) /\ RunningBit(kk) /\ Delays(kk) /\ Bits(kk)

\* What the ready-queue functions and the switch leave alone.
SwitchFrame(r, kk) ==
  /\ r.priority = kk.priority /\ r.origPriority = kk.origPriority
  /\ r.pendList = kk.pendList /\ r.delayList = kk.delayList /\ r.left = kk.left
  /\ r.taskLock = kk.taskLock /\ r.intActive = kk.intActive /\ r.scan = kk.scan

\* What the ready-queue functions leave alone.
ReadyFrame(r, kk) ==
  SwitchFrame(r, kk) /\ r.running = kk.running /\ r.taskReq = kk.taskReq

\* What arming and disarming a timeout leave alone.
TimerFrame(r, kk) ==
  /\ r.status = kk.status /\ r.readyList = kk.readyList /\ r.highest = kk.highest
  /\ r.priority = kk.priority /\ r.running = kk.running /\ r.taskLock = kk.taskLock
  /\ r.taskReq = kk.taskReq /\ r.intActive = kk.intActive /\ r.scan = kk.scan

\* The lowest priority is a priority and the idle task is a thread.
LEMMA LowestFacts == Lowest \in Prio /\ Prio \in SUBSET Nat /\ Idle \in Thread
  BY SchedAssumption DEF Prio, Thread

\* The bitmap search: the list it finds is not empty and no higher one is ready.
LEMMA TopFacts ==
  ASSUME NEW kk, kk.readyList \in [Prio -> Seq(Thread)],
         NEW q \in Prio, kk.readyList[q] # << >>
  PROVE  /\ Top(kk) \in Thread
         /\ \E p \in Prio : /\ kk.readyList[p] # << >> /\ Top(kk) = Head(kk.readyList[p])
                            /\ \A x \in Prio : kk.readyList[x] # << >> => p <= x
<1> DEFINE P == {p \in Prio : kk.readyList[p] # << >>}
<1>1. P # {} /\ P \in SUBSET Nat
  BY LowestFacts
<1>2. Min(P) \in P /\ \A y \in P : Min(P) <= y
  <2> HIDE DEF P
  <2> QED BY <1>1, MinOfNat
<1>3. Top(kk) = Head(kk.readyList[Min(P)])
  BY DEF Top
<1>4. Min(P) \in Prio /\ kk.readyList[Min(P)] # << >> /\ kk.readyList[Min(P)] \in Seq(Thread)
  BY <1>2
<1>5. Top(kk) \in Thread
  BY <1>3, <1>4
<1>6. \A x \in Prio : kk.readyList[x] # << >> => Min(P) <= x
  BY <1>2
<1> HIDE DEF P
<1> QED BY <1>3, <1>4, <1>5, <1>6

\* The other way round: such a task is the top.
LEMMA TopIs ==
  ASSUME NEW kk, kk.readyList \in [Prio -> Seq(Thread)],
         NEW q \in Prio, kk.readyList[q] # << >>,
         \A x \in Prio : kk.readyList[x] # << >> => q <= x
  PROVE  Top(kk) = Head(kk.readyList[q])
<1>1. PICK p \in Prio : /\ kk.readyList[p] # << >> /\ Top(kk) = Head(kk.readyList[p])
                       /\ \A x \in Prio : kk.readyList[x] # << >> => p <= x
  BY TopFacts
<1>2. p = q
  BY <1>1, LowestFacts
<1> QED BY <1>1, <1>2

\* OsTskReadyAdd, field by field.
LEMMA ReadyAddFields ==
  ASSUME NEW kk \in KernelState, NEW t \in Thread
  PROVE  LET r == OsTskReadyAdd(kk, t)
         IN  /\ r \in KernelState
             /\ r.status = [kk.status EXCEPT ![t] = @ \cup {"READY"}]
             /\ r.readyList = [kk.readyList EXCEPT ![kk.priority[t]] = Append(@, t)]
             /\ r.highest = Top(r)
             /\ ReadyFrame(r, kk) /\ r.fault = kk.fault
<1> DEFINE q == kk.priority[t]
           m == [kk EXCEPT !.status[t] = @ \cup {"READY"},
                           !.readyList[q] = Append(@, t)]
           r == OsTskReadyAdd(kk, t)
<1>1. q \in Prio
  BY DEF KernelState
<1>2. Append(kk.readyList[q], t) \in Seq(Thread) /\ Append(kk.readyList[q], t) # << >>
  <2>1. kk.readyList[q] \in Seq(Thread)
    BY <1>1 DEF KernelState
  <2> HIDE DEF q
  <2> QED BY <2>1, AppendFacts
<1>3. /\ m.status = [kk.status EXCEPT ![t] = @ \cup {"READY"}]
      /\ m.readyList = [kk.readyList EXCEPT ![q] = Append(@, t)]
      /\ ReadyFrame(m, kk) /\ m.fault = kk.fault
  BY DEF KernelState, ReadyFrame, SwitchFrame
<1>4. m.status \in [Thread -> SUBSET TskStatus]
  BY <1>3 DEF KernelState, TskStatus
<1>5. m.readyList \in [Prio -> Seq(Thread)] /\ m.readyList[q] # << >>
  BY <1>1, <1>2, <1>3 DEF KernelState
<1>6. Top(m) \in Thread
  BY <1>1, <1>5, TopFacts
<1>7. r = [m EXCEPT !.highest = Top(m)]
  BY DEF OsTskReadyAdd, OsTskHighestSet, StatusSet, Top
<1>8. m \in KernelState
  BY <1>4, <1>5 DEF KernelState
<1> HIDE DEF m
<1>9. r \in KernelState /\ r.readyList = m.readyList /\ r.status = m.status
      /\ r.highest = Top(m) /\ ReadyFrame(r, m) /\ r.fault = m.fault
  BY <1>6, <1>7, <1>8 DEF KernelState, ReadyFrame, SwitchFrame
<1>10. Top(r) = Top(m)
  BY <1>9 DEF Top
<1> HIDE DEF r
<1> QED BY <1>3, <1>9, <1>10 DEF ReadyFrame, SwitchFrame, r

\* OsTskReadyDel, field by field, when another task is ready.
LEMMA ReadyDelFields ==
  ASSUME NEW kk \in KernelState, NEW t \in Thread,
         NEW q \in Prio, NEW u \in ToSet(kk.readyList[q]), u # t
  PROVE  LET r == OsTskReadyDel(kk, t)
             l == kk.readyList[kk.priority[t]]
         IN  /\ r \in KernelState
             /\ r.status = [kk.status EXCEPT ![t] = @ \ {"READY"}]
             /\ ReadyFrame(r, kk)
             /\ t \in ToSet(l) =>
                  /\ r.readyList = [kk.readyList EXCEPT ![kk.priority[t]] = RemoveFirst(l, t)]
                  /\ r.highest = Top(r) /\ r.fault = kk.fault
             /\ t \notin ToSet(l) => r.readyList = kk.readyList /\ r.fault
<1> DEFINE p == kk.priority[t]
           l == kk.readyList[p]
           r == OsTskReadyDel(kk, t)
<1>1. p \in Prio /\ l \in Seq(Thread) /\ kk.readyList[q] \in Seq(Thread)
  BY DEF KernelState
<1>2. CASE t \in ToSet(l)
  <2> DEFINE s == RemoveFirst(l, t)
             m == [kk EXCEPT !.status[t] = @ \ {"READY"}, !.readyList[p] = s]
  <2>1. /\ s \in Seq(Thread) /\ ToSet(kk.readyList[q]) \ {t} \subseteq ToSet(RemoveFirst(kk.readyList[q], t))
    <3> HIDE DEF l
    <3> QED BY <1>1, RemoveFirstFacts
  <2>2. /\ m.status = [kk.status EXCEPT ![t] = @ \ {"READY"}]
        /\ m.readyList = [kk.readyList EXCEPT ![p] = s]
        /\ ReadyFrame(m, kk) /\ m.fault = kk.fault
    BY DEF KernelState, ReadyFrame, SwitchFrame
  <2>3. m.status \in [Thread -> SUBSET TskStatus]
    BY <2>2 DEF KernelState
  <2>4. m.readyList \in [Prio -> Seq(Thread)]
    BY <1>1, <2>1, <2>2 DEF KernelState
  <2>5. m.readyList[q] = IF q = p THEN s ELSE kk.readyList[q]
    BY <1>1, <2>2 DEF KernelState
  <2>6. u \in ToSet(m.readyList[q])
    BY <2>1, <2>5
  <2>7. m.readyList[q] # << >>
    BY <2>6 DEF ToSet
  <2>8. Top(m) \in Thread
    BY <2>4, <2>7, TopFacts
  <2>9. r = [m EXCEPT !.highest = Top(m)]
    BY <1>2 DEF OsTskReadyDel, OsTskHighestSet, StatusClear, Top
  <2>10. m \in KernelState
    BY <2>3, <2>4 DEF KernelState
  <2> HIDE DEF m
  <2>11. r \in KernelState /\ r.readyList = m.readyList /\ r.status = m.status
         /\ r.highest = Top(m) /\ ReadyFrame(r, m) /\ r.fault = m.fault
    BY <2>8, <2>9, <2>10 DEF KernelState, ReadyFrame, SwitchFrame
  <2>12. Top(r) = Top(m)
    BY <2>11 DEF Top
  <2> HIDE DEF r
  <2> QED BY <1>2, <2>2, <2>11, <2>12 DEF ReadyFrame, SwitchFrame, r
<1>3. CASE t \notin ToSet(l)
  <2>1. r = [kk EXCEPT !.status[t] = @ \ {"READY"}, !.fault = TRUE]
    BY <1>3 DEF OsTskReadyDel, StatusClear, Fault
  <2>2. /\ r.status = [kk.status EXCEPT ![t] = @ \ {"READY"}]
        /\ r.readyList = kk.readyList /\ ReadyFrame(r, kk) /\ r.fault
    BY <2>1 DEF KernelState, ReadyFrame, SwitchFrame
  <2>3. r.status \in [Thread -> SUBSET TskStatus]
    BY <2>2 DEF KernelState
  <2>4. r \in KernelState
    BY <2>1, <2>3 DEF KernelState
  <2> HIDE DEF r
  <2> QED BY <1>3, <2>2, <2>4 DEF r
<1> QED BY <1>2, <1>3

\* A task that is in use and not blocked can be made ready.
LEMMA ReadyAddCore ==
  ASSUME NEW kk \in KernelState, IdleReady(kk), NEW t \in Thread
  PROVE  LET r == OsTskReadyAdd(kk, t)
         IN  /\ IdleReady(r)
             /\ (/\ Core(kk) /\ "INUSE" \in kk.status[t]
                 /\ kk.status[t] \cap {"READY", "SUSPEND", "DELAY"} = {}) => Core(r)
<1> DEFINE r == OsTskReadyAdd(kk, t)
           q == kk.priority[t]
           l == kk.readyList[q]
<1>1. /\ r \in KernelState
      /\ r.status = [kk.status EXCEPT ![t] = @ \cup {"READY"}]
      /\ r.readyList = [kk.readyList EXCEPT ![q] = Append(l, t)]
      /\ r.highest = Top(r)
      /\ ReadyFrame(r, kk) /\ r.fault = kk.fault
  BY ReadyAddFields
<1>2. q \in Prio /\ l \in Seq(Thread)
  BY DEF KernelState
<1>3. /\ ToSet(Append(l, t)) = ToSet(l) \cup {t}
      /\ IsInjective(l) /\ t \notin ToSet(l) => IsInjective(Append(l, t))
  <2> HIDE DEF l
  <2> QED BY <1>2, AppendFacts
<1>4. \A p \in Prio : r.readyList[p] = IF p = q THEN Append(l, t) ELSE kk.readyList[p]
  BY <1>1, <1>2 DEF KernelState
<1>5. \A u \in Thread : r.status[u] = IF u = t THEN kk.status[t] \cup {"READY"} ELSE kk.status[u]
  BY <1>1 DEF KernelState
<1> HIDE DEF r
<1>6. \A p \in Prio : ToSet(r.readyList[p]) =
                         IF p = q THEN ToSet(l) \cup {t} ELSE ToSet(kk.readyList[p])
  BY <1>3, <1>4
<1>7. IdleReady(r)
  BY <1>6, LowestFacts DEF IdleReady
<1>8. ASSUME Core(kk), "INUSE" \in kk.status[t],
             kk.status[t] \cap {"READY", "SUSPEND", "DELAY"} = {}
      PROVE  Core(r)
  <2>1. \A p \in Prio : IsInjective(r.readyList[p])
    BY <1>2, <1>3, <1>4, <1>8 DEF Core, ReadyQueue
  <2>2. \A u \in Thread, p \in Prio :
          u \in ToSet(r.readyList[p]) <=> "READY" \in r.status[u] /\ r.priority[u] = p
    BY <1>1, <1>2, <1>5, <1>6, <1>8 DEF Core, ReadyQueue, ReadyFrame, SwitchFrame
  <2>3. RunningBit(r)
    BY <1>1, <1>5, <1>8 DEF Core, RunningBit, ReadyFrame, SwitchFrame
  <2>4. Delays(r)
    BY <1>1, <1>5, <1>8 DEF Core, Delays, ReadyFrame, SwitchFrame
  <2>5. Bits(r)
    BY <1>5, <1>8 DEF Core, Bits
  <2> QED BY <1>1, <2>1, <2>2, <2>3, <2>4, <2>5 DEF Core, ReadyQueue
<1> QED BY <1>7, <1>8 DEF r

\* A ready task can be taken off the queue; the top stays unless it was the task.
LEMMA ReadyDelCore ==
  ASSUME NEW kk \in KernelState, IdleReady(kk), NEW t \in Task
  PROVE  LET r == OsTskReadyDel(kk, t)
         IN  /\ r \in KernelState /\ IdleReady(r)
             /\ r.status = [kk.status EXCEPT ![t] = @ \ {"READY"}]
             /\ ReadyFrame(r, kk)
             /\ Core(kk) /\ "READY" \in kk.status[t] =>
                  /\ Core(r) /\ r.fault = kk.fault
                  /\ kk.highest # t => r.highest = kk.highest
             /\ Core(kk) /\ "READY" \notin kk.status[t] => r.fault
<1> DEFINE r == OsTskReadyDel(kk, t)
           q == kk.priority[t]
           l == kk.readyList[q]
<1>0. Idle # t /\ t \in Thread /\ Idle \in ToSet(kk.readyList[Lowest])
  BY SchedAssumption DEF IdleReady, Thread
<1>1. /\ r \in KernelState
      /\ r.status = [kk.status EXCEPT ![t] = @ \ {"READY"}]
      /\ ReadyFrame(r, kk)
      /\ t \in ToSet(l) =>
           /\ r.readyList = [kk.readyList EXCEPT ![q] = RemoveFirst(l, t)]
           /\ r.highest = Top(r) /\ r.fault = kk.fault
      /\ t \notin ToSet(l) => r.readyList = kk.readyList /\ r.fault
  BY <1>0, LowestFacts, ReadyDelFields
<1>2. q \in Prio /\ l \in Seq(Thread) /\ kk.readyList \in [Prio -> Seq(Thread)]
  BY <1>0 DEF KernelState
<1> DEFINE s == RemoveFirst(l, t)
<1>3. /\ s \in Seq(Thread) /\ ToSet(l) \ {t} \subseteq ToSet(s)
      /\ IsInjective(l) => IsInjective(s) /\ ToSet(s) = ToSet(l) \ {t}
      /\ l # << >> /\ Head(l) # t => s # << >> /\ Head(s) = Head(l)
  <2> HIDE DEF l
  <2> QED BY <1>2, RemoveFirstFacts
<1> HIDE DEF r, s
<1>4. t \in ToSet(l) =>
        \A p \in Prio : r.readyList[p] = IF p = q THEN s ELSE kk.readyList[p]
  BY <1>1, <1>2 DEF s
<1>5. IdleReady(r)
  <2>1. CASE t \in ToSet(l)
    BY <1>0, <1>3, <1>4, <2>1, LowestFacts DEF IdleReady
  <2>2. CASE t \notin ToSet(l)
    BY <1>0, <1>1, <2>2 DEF IdleReady
  <2> QED BY <2>1, <2>2
<1>6. Core(kk) => (t \in ToSet(l) <=> "READY" \in kk.status[t])
  BY <1>0, <1>2 DEF Core, ReadyQueue
<1>7. ASSUME Core(kk), t \in ToSet(l)
      PROVE  Core(r) /\ (kk.highest # t => r.highest = kk.highest)
  <2>1. \A u \in Thread : r.status[u] = IF u = t THEN kk.status[t] \ {"READY"} ELSE kk.status[u]
    BY <1>0, <1>1 DEF KernelState
  <2>2. \A p \in Prio : IsInjective(kk.readyList[p])
    BY <1>7 DEF Core, ReadyQueue
  <2>3. \A p \in Prio : IsInjective(r.readyList[p])
    BY <1>2, <1>3, <1>4, <1>7, <2>2
  <2>4. \A p \in Prio : ToSet(r.readyList[p]) =
                           IF p = q THEN ToSet(l) \ {t} ELSE ToSet(kk.readyList[p])
    BY <1>2, <1>3, <1>4, <1>7, <2>2
  <2>5. \A u \in Thread, p \in Prio :
          u \in ToSet(r.readyList[p]) <=> "READY" \in r.status[u] /\ r.priority[u] = p
    BY <1>1, <1>2, <2>1, <2>4, <1>7 DEF Core, ReadyQueue, ReadyFrame, SwitchFrame
  <2>6. RunningBit(r)
    BY <1>1, <2>1, <1>7 DEF Core, RunningBit, ReadyFrame, SwitchFrame
  <2>7. Delays(r)
    BY <1>1, <2>1, <1>7 DEF Core, Delays, ReadyFrame, SwitchFrame
  <2>8. Bits(r)
    BY <2>1, <1>7 DEF Core, Bits
  <2>9. ASSUME kk.highest # t PROVE r.highest = kk.highest
    <3>1. kk.readyList[q] # << >>
      BY <1>7 DEF ToSet
    <3>2. PICK p \in Prio : /\ kk.readyList[p] # << >> /\ Top(kk) = Head(kk.readyList[p])
                           /\ \A x \in Prio : kk.readyList[x] # << >> => p <= x
      BY <1>2, <3>1, TopFacts
    <3>3. Head(kk.readyList[p]) # t
      BY <3>2, <2>9, <1>7 DEF Core, ReadyQueue
    <3>4. r.readyList[p] # << >> /\ Head(r.readyList[p]) = Top(kk)
      BY <1>3, <1>4, <1>7, <3>2, <3>3
    <3>5. \A x \in Prio : r.readyList[x] # << >> => kk.readyList[x] # << >>
      BY <1>4, <1>7, <3>1
    <3>6. r.readyList \in [Prio -> Seq(Thread)]
      BY <1>1 DEF KernelState
    <3>7. Top(r) = Head(r.readyList[p])
      BY <3>2, <3>4, <3>5, <3>6, TopIs
    <3> QED BY <1>1, <1>7, <3>4, <3>7 DEF Core, ReadyQueue
  <2> QED BY <1>1, <1>7, <2>3, <2>5, <2>6, <2>7, <2>8, <2>9 DEF Core, ReadyQueue
<1> QED BY <1>1, <1>5, <1>6, <1>7 DEF r

----------------------------------------------------------------------------
(* Timeouts.                                                               *)

\* OsTskTimerAdd of a task in PRT_TaskDelay that is in no list.
LEMMA TimerAddCore ==
  ASSUME NEW kk \in KernelState, NEW t \in Task, NEW n \in Nat
  PROVE  LET r == OsTskTimerAdd(kk, t, n)
         IN  /\ r \in KernelState
             /\ TimerFrame(r, kk) /\ r.fault = kk.fault
             /\ (/\ Core(kk) /\ t \notin ToSet(kk.delayList) 
                 /\ "DELAY" \in kk.status[t]) => Core(r)
<1> DEFINE r == OsTskTimerAdd(kk, t, n)
           s == InsertBefore(kk.delayList, t, {u \in Task : kk.left[u] > n})
<1>1. kk.delayList \in Seq(Task) /\ kk.left \in [Task -> Nat]
  BY DEF KernelState
<1>2. /\ s \in Seq(Task) /\ ToSet(s) = ToSet(kk.delayList) \cup {t}
      /\ IsInjective(kk.delayList) /\ t \notin ToSet(kk.delayList) => IsInjective(s)
  BY <1>1, InsertBeforeFacts
<1>3. r = [kk EXCEPT !.left = [kk.left EXCEPT ![t] = n], !.delayList = s]
  BY DEF OsTskTimerAdd
<1>4. [kk.left EXCEPT ![t] = n] \in [Task -> Nat]
  BY <1>1
<1> HIDE DEF r, s
<1>5. r \in KernelState
  BY <1>2, <1>3, <1>4 DEF KernelState
<1>6. TimerFrame(r, kk) /\ r.delayList = s /\ r.fault = kk.fault
  BY <1>3 DEF KernelState, TimerFrame
<1>7. ASSUME Core(kk), t \notin ToSet(kk.delayList), "DELAY" \in kk.status[t]
      PROVE  Core(r)
  <2>1. Top(r) = Top(kk)
    BY <1>6 DEF Top, TimerFrame
  <2>2. Delays(r)
    BY <1>2, <1>6, <1>7 DEF Core, Delays, TimerFrame
  <2> QED BY <1>6, <1>7, <2>1, <2>2 DEF Core, ReadyQueue, RunningBit, Bits, TimerFrame
<1> QED BY <1>5, <1>6, <1>7 DEF r

\* TimerDelete takes the task off the delay list.
LEMMA TimerDeleteCore ==
  ASSUME NEW kk \in KernelState, NEW t \in Task
  PROVE  LET r == TimerDelete(kk, t)
         IN  /\ r \in KernelState
             /\ TimerFrame(r, kk)
             /\ Core(kk) => Core(r) /\ t \notin ToSet(r.delayList)
             /\ t \in ToSet(kk.delayList) => r.fault = kk.fault
<1> DEFINE r == TimerDelete(kk, t)
           s == RemoveFirst(kk.delayList, t)
<1>1. kk.delayList \in Seq(Task) /\ kk.left \in [Task -> Nat]
  BY DEF KernelState
<1>2. CASE t \in ToSet(kk.delayList)
  <2>1. /\ s \in Seq(Task)
        /\ IsInjective(kk.delayList) => IsInjective(s) /\ ToSet(s) = ToSet(kk.delayList) \ {t}
    BY <1>1, RemoveFirstFacts
  <2>2. r = [kk EXCEPT !.left = [kk.left EXCEPT ![t] = 0], !.delayList = s]
    BY <1>2 DEF TimerDelete
  <2>3. [kk.left EXCEPT ![t] = 0] \in [Task -> Nat]
    BY <1>1
  <2> HIDE DEF r, s
  <2>4. r \in KernelState
    BY <2>1, <2>2, <2>3 DEF KernelState
  <2>5. TimerFrame(r, kk) /\ r.fault = kk.fault /\ r.delayList = s
    BY <2>2 DEF KernelState, TimerFrame
  <2>6. ASSUME Core(kk) PROVE Core(r) /\ t \notin ToSet(r.delayList)
    <3>1. Top(r) = Top(kk)
      BY <2>5 DEF Top, TimerFrame
    <3>2. Delays(r) /\ t \notin ToSet(r.delayList)
      BY <2>1, <2>5, <2>6 DEF Core, Delays, TimerFrame
    <3> QED BY <2>5, <2>6, <3>1, <3>2 DEF Core, ReadyQueue, RunningBit, Bits, TimerFrame
  <2> QED BY <2>4, <2>5, <2>6 DEF r
<1>3. CASE t \notin ToSet(kk.delayList)
  <2>1. r = [kk EXCEPT !.fault = TRUE]
    BY <1>3 DEF TimerDelete, Fault
  <2> HIDE DEF r
  <2>2. r \in KernelState /\ TimerFrame(r, kk) /\ r.delayList = kk.delayList
    BY <2>1 DEF KernelState, TimerFrame
  <2>3. Top(r) = Top(kk)
    BY <2>2 DEF Top, TimerFrame
  <2>4. Core(kk) => Core(r)
    BY <2>2, <2>3 DEF Core, ReadyQueue, RunningBit, Bits, Delays, TimerFrame
  <2> QED BY <1>3, <2>2, <2>4 DEF r
<1> QED BY <1>2, <1>3

----------------------------------------------------------------------------
(* The switch.                                                             *)

\* OsTskHighestSet changes nothing but g_highestTask, and nothing at all when the
\* ready queue is in order.
LEMMA HighestSetFields ==
  ASSUME NEW kk \in KernelState, IdleReady(kk)
  PROVE  LET h == OsTskHighestSet(kk)
         IN  /\ h \in KernelState /\ IdleReady(h)
             /\ h.status = kk.status /\ h.readyList = kk.readyList
             /\ ReadyFrame(h, kk) /\ h.fault = kk.fault
             /\ h.highest = Top(kk)
             /\ kk.highest = Top(kk) => h = kk
<1> DEFINE h == OsTskHighestSet(kk)
<1>1. kk.readyList \in [Prio -> Seq(Thread)]
  BY DEF KernelState
<1>2. kk.readyList[Lowest] # << >>
  BY DEF IdleReady, ToSet
<1>3. Top(kk) \in Thread
  BY <1>1, <1>2, LowestFacts, TopFacts
<1>4. h = [kk EXCEPT !.highest = Top(kk)]
  BY DEF OsTskHighestSet, Top
<1> HIDE DEF h
<1>5. /\ h \in KernelState
      /\ h.status = kk.status /\ h.readyList = kk.readyList
      /\ ReadyFrame(h, kk) /\ h.fault = kk.fault /\ h.highest = Top(kk)
  BY <1>3, <1>4 DEF KernelState, ReadyFrame, SwitchFrame
<1>6. kk.highest = Top(kk) => h = kk
  BY <1>4 DEF KernelState
<1> QED BY <1>5, <1>6 DEF h, IdleReady

\* OsMainSchedule, field by field.
LEMMA MainScheduleFields ==
  ASSUME NEW kk \in KernelState
  PROVE  LET r == OsMainSchedule(kk)
         IN  /\ r \in KernelState
             /\ r.readyList = kk.readyList /\ r.highest = kk.highest
             /\ SwitchFrame(r, kk) /\ r.fault = kk.fault
             /\ ~r.taskReq
             /\ ~kk.taskReq => r = kk
             /\ kk.taskReq =>
                  /\ r.running = kk.highest
                  /\ r.status = [t \in Thread |->
                       IF t = kk.highest THEN kk.status[t] \cup {"RUNNING"}
                       ELSE IF t = kk.running THEN kk.status[t] \ {"RUNNING"}
                       ELSE kk.status[t]]
<1> DEFINE r == OsMainSchedule(kk)
<1>1. CASE kk.taskReq
  <2> DEFINE st == [t \in Thread |->
                      IF t = kk.highest THEN kk.status[t] \cup {"RUNNING"}
                      ELSE IF t = kk.running THEN kk.status[t] \ {"RUNNING"}
                      ELSE kk.status[t]]
  <2>1. r = [kk EXCEPT !.taskReq = FALSE, !.running = kk.highest, !.status = st]
    BY <1>1 DEF OsMainSchedule
  <2>2. st \in [Thread -> SUBSET TskStatus]
    BY DEF KernelState, TskStatus
  <2> HIDE DEF r, st
  <2>3. r \in KernelState
    BY <2>1, <2>2 DEF KernelState
  <2>4. /\ r.readyList = kk.readyList /\ r.highest = kk.highest /\ ~r.taskReq
        /\ SwitchFrame(r, kk) /\ r.fault = kk.fault /\ r.running = kk.highest /\ r.status = st
    BY <2>1 DEF KernelState, SwitchFrame
  <2> QED BY <1>1, <2>3, <2>4 DEF r, st
<1>2. CASE ~kk.taskReq
  BY <1>2 DEF OsMainSchedule, SwitchFrame
<1> QED BY <1>1, <1>2

\* The top is a ready task and the first of the list of its priority.
LEMMA TopReady ==
  ASSUME NEW kk \in KernelState, IdleReady(kk), ReadyQueue(kk)
  PROVE  /\ "READY" \in kk.status[kk.highest]
         /\ kk.readyList[kk.priority[kk.highest]] # << >>
         /\ Head(kk.readyList[kk.priority[kk.highest]]) = kk.highest
<1>1. kk.readyList \in [Prio -> Seq(Thread)] /\ kk.highest \in Thread
  BY DEF KernelState
<1>2. kk.readyList[Lowest] # << >>
  BY DEF IdleReady, ToSet
<1>3. PICK p \in Prio : kk.readyList[p] # << >> /\ Top(kk) = Head(kk.readyList[p])
  BY <1>1, <1>2, LowestFacts, TopFacts
<1>4. kk.readyList[p] \in Seq(Thread)
  BY <1>1
<1>5. Head(kk.readyList[p]) \in ToSet(kk.readyList[p])
  <2> DEFINE s == kk.readyList[p]
  <2>1. s \in Seq(Thread) /\ s # << >>
    BY <1>3, <1>4
  <2> HIDE DEF s
  <2>2. 1 \in DOMAIN s /\ Head(s) = s[1]
    BY <2>1
  <2>3. Head(s) \in ToSet(s)
    BY <2>2 DEF ToSet
  <2> QED BY <2>3 DEF s
<1> QED BY <1>1, <1>3, <1>5 DEF ReadyQueue

\* A switch keeps the core when the highest task is the top.
LEMMA MainScheduleCore ==
  ASSUME NEW kk \in KernelState, IdleReady(kk)
  PROVE  LET r == OsMainSchedule(kk)
         IN  /\ IdleReady(r)
             /\ Core(kk) => Core(r)
             /\ \A t \in Thread : r.status[t] \ {"RUNNING"} = kk.status[t] \ {"RUNNING"}
<1> DEFINE r == OsMainSchedule(kk)
<1>1. /\ r.readyList = kk.readyList /\ r.highest = kk.highest
      /\ SwitchFrame(r, kk) /\ r.fault = kk.fault
      /\ ~kk.taskReq => r = kk
      /\ kk.taskReq =>
           /\ r.running = kk.highest
           /\ r.status = [t \in Thread |->
                IF t = kk.highest THEN kk.status[t] \cup {"RUNNING"}
                ELSE IF t = kk.running THEN kk.status[t] \ {"RUNNING"}
                ELSE kk.status[t]]
  BY MainScheduleFields
<1> HIDE DEF r
<1>2. IdleReady(r)
  BY <1>1 DEF IdleReady
<1>3. CASE kk.taskReq
  <2>1. \A t \in Thread : r.status[t] =
          IF t = kk.highest THEN kk.status[t] \cup {"RUNNING"}
          ELSE IF t = kk.running THEN kk.status[t] \ {"RUNNING"}
          ELSE kk.status[t]
    BY <1>1, <1>3
  <2>2. ASSUME Core(kk) PROVE Core(r)
    <3>1. ReadyQueue(r)
      <4>1. Top(r) = Top(kk)
        BY <1>1 DEF Top
      <4> QED BY <1>1, <2>1, <2>2, <4>1 DEF Core, ReadyQueue, SwitchFrame
    <3>2. RunningBit(r)
      BY <1>1, <1>3, <2>1, <2>2 DEF Core, RunningBit
    <3>3. Delays(r)
      <4>1. ToSet(kk.delayList) \subseteq Thread
        BY DEF KernelState, ToSet, Thread
      <4> QED BY <1>1, <2>1, <2>2, <4>1 DEF Core, Delays, SwitchFrame
    <3>4. Bits(r)
      <4>1. "INUSE" \in kk.status[kk.highest]
        <5>1. "READY" \in kk.status[kk.highest] /\ kk.highest \in Thread
          BY <2>2, TopReady DEF Core, KernelState
        <5> QED BY <2>2, <5>1 DEF Core, Bits
      <4> SUFFICES ASSUME NEW t \in Thread
                   PROVE  /\ r.status[t] \subseteq {"INUSE", "SUSPEND", "DELAY", "READY", "RUNNING"}
                          /\ "READY" \in r.status[t] => r.status[t] \cap {"SUSPEND", "DELAY"} = {}
                          /\ r.status[t] # {} => "INUSE" \in r.status[t]
        BY DEF Bits
      <4>2. /\ kk.status[t] \subseteq {"INUSE", "SUSPEND", "DELAY", "READY", "RUNNING"}
            /\ "READY" \in kk.status[t] => kk.status[t] \cap {"SUSPEND", "DELAY"} = {}
            /\ kk.status[t] # {} => "INUSE" \in kk.status[t]
        BY <2>2 DEF Core, Bits
      <4>3. CASE t = kk.highest
        <5>1. r.status[t] = kk.status[t] \cup {"RUNNING"}
          BY <2>1, <4>3
        <5> QED BY <4>1, <4>2, <4>3, <5>1
      <4>4. CASE t # kk.highest /\ t = kk.running
        <5>1. r.status[t] = kk.status[t] \ {"RUNNING"}
          BY <2>1, <4>4
        <5> QED BY <4>2, <5>1
      <4>5. CASE t # kk.highest /\ t # kk.running
        BY <2>1, <4>2, <4>5
      <4> QED BY <4>3, <4>4, <4>5
    <3> QED BY <3>1, <3>2, <3>3, <3>4 DEF Core
  <2> QED BY <1>2, <2>1, <2>2 DEF r
<1>4. CASE ~kk.taskReq
  BY <1>1, <1>2, <1>4 DEF r
<1> QED BY <1>3, <1>4

\* The task that OsTskSchedule leaves running, or the request it leaves.
Switched(kk) ==
  \/ kk.intActive /\ kk.taskReq
  \/ ~kk.taskReq /\ kk.running = kk.highest

\* OsTskSchedule: it keeps the core, and with the scheduler unlocked it ends with
\* the top task running or, in an interrupt, with a request for it.  While the
\* scheduler is locked it neither switches nor asks for a switch.
LEMMA ScheduleCore ==
  ASSUME NEW kk \in KernelState, IdleReady(kk)
  PROVE  LET r == OsTskSchedule(kk)
         IN  /\ r \in KernelState /\ IdleReady(r)
             /\ SwitchFrame(r, kk) /\ r.readyList = kk.readyList /\ r.fault = kk.fault
             /\ \A t \in Thread : r.status[t] \ {"RUNNING"} = kk.status[t] \ {"RUNNING"}
             /\ kk.taskLock # 0 => r.taskReq = kk.taskReq /\ r.running = kk.running
             /\ (kk.taskLock = 0 /\ (~kk.intActive => ~kk.taskReq)) => Switched(r)
             /\ (~kk.intActive => ~kk.taskReq) => (~r.intActive => ~r.taskReq)
             /\ Core(kk) => Core(r)
<1> DEFINE h == OsTskHighestSet(kk)
           m == [h EXCEPT !.taskReq = TRUE]
           r == OsTskSchedule(kk)
<1>1. /\ h \in KernelState /\ IdleReady(h)
      /\ h.status = kk.status /\ h.readyList = kk.readyList
      /\ ReadyFrame(h, kk) /\ h.fault = kk.fault
      /\ kk.highest = Top(kk) => h = kk
  BY HighestSetFields
<1>2. Core(kk) => Core(h)
  BY <1>1 DEF Core, ReadyQueue
<1>3. r = IF h.highest = h.running \/ h.taskLock # 0 THEN h
          ELSE IF h.intActive THEN m ELSE OsMainSchedule(m)
  BY DEF OsTskSchedule
<1> HIDE DEF h, r
<1>4. /\ m \in KernelState /\ m.status = h.status /\ m.readyList = h.readyList
      /\ m.taskReq /\ m.highest = h.highest /\ m.running = h.running
      /\ SwitchFrame(m, h) /\ m.fault = h.fault
  BY <1>1 DEF KernelState, SwitchFrame
<1>5. IdleReady(m) /\ (Core(h) => Core(m))
  <2>1. Top(m) = Top(h)
    BY <1>4 DEF Top
  <2> QED BY <1>1, <1>4, <2>1
       DEF IdleReady, Core, ReadyQueue, RunningBit, Delays, Bits, SwitchFrame
<1> HIDE DEF m
<1>6. CASE h.highest = h.running \/ h.taskLock # 0
  <2>1. r = h
    BY <1>3, <1>6
  <2> QED BY <1>1, <1>2, <1>6, <2>1 DEF r, Switched, ReadyFrame, SwitchFrame
<1>7. CASE ~(h.highest = h.running \/ h.taskLock # 0) /\ h.intActive
  <2>1. r = m
    BY <1>3, <1>7
  <2>2. SwitchFrame(r, kk) /\ r.readyList = kk.readyList /\ r.fault = kk.fault
    BY <1>1, <1>4, <2>1 DEF ReadyFrame, SwitchFrame
  <2>3. kk.taskLock = 0 /\ r.intActive /\ r.taskReq
    <3>1. kk.taskLock = 0
      BY <1>1, <1>7 DEF ReadyFrame, SwitchFrame
    <3>2. r.taskReq
      BY <1>4, <2>1
    <3>3. m.intActive = h.intActive
      BY <1>4 DEF SwitchFrame
    <3>4. r.intActive
      BY <1>7, <2>1, <3>3
    <3> QED BY <3>1, <3>2, <3>4
  <2>4. Switched(r)
    BY <2>3 DEF Switched
  <2>5. r.status = kk.status
    BY <1>1, <1>4, <2>1
  <2> QED BY <1>2, <1>4, <1>5, <2>1, <2>2, <2>3, <2>4, <2>5 DEF r
<1>8. CASE ~(h.highest = h.running \/ h.taskLock # 0) /\ ~h.intActive
  <2>1. r = OsMainSchedule(m)
    BY <1>3, <1>8
  <2>2. /\ r \in KernelState
        /\ r.readyList = m.readyList /\ r.highest = m.highest
        /\ SwitchFrame(r, m) /\ r.fault = m.fault
        /\ ~r.taskReq /\ r.running = m.highest
    BY <1>4, <2>1, MainScheduleFields
  <2>3. /\ IdleReady(r) /\ (Core(m) => Core(r))
        /\ \A t \in Thread : r.status[t] \ {"RUNNING"} = m.status[t] \ {"RUNNING"}
    BY <1>4, <1>5, <2>1, MainScheduleCore
  <2>4. SwitchFrame(r, kk) /\ r.readyList = kk.readyList /\ r.fault = kk.fault
    BY <1>1, <1>4, <2>2 DEF ReadyFrame, SwitchFrame
  <2>5. \A t \in Thread : r.status[t] \ {"RUNNING"} = kk.status[t] \ {"RUNNING"}
    BY <1>1, <1>4, <2>3
  <2>6. kk.taskLock = 0
    BY <1>1, <1>8 DEF ReadyFrame, SwitchFrame
  <2>7. Switched(r)
    BY <1>4, <2>2 DEF Switched
  <2>8. Core(kk) => Core(r)
    BY <1>2, <1>5, <2>3
  <2> QED BY <2>2, <2>3, <2>4, <2>5, <2>6, <2>7, <2>8 DEF r
<1> QED BY <1>6, <1>7, <1>8
=============================================================================
