-------------------------- MODULE ThreadPoolProofs --------------------------
(***************************************************************************)
(* Proofs about ThreadPool, for every set of tasks, whoever submits and    *)
(* waits for whom, and every number of threads.                            *)
(***************************************************************************)
EXTENDS ThreadPool, SequenceTheorems, TLAPS

-----------------------------------------------------------------------------
(* Queues. *)

Distinct(s) == \A i, j \in 1..Len(s) : s[i] = s[j] => i = j

\* m_tasks.emplace_back().
LEMMA AppendElements ==
    ASSUME NEW S, NEW s \in Seq(S), NEW e \in S
    PROVE  /\ Append(s, e) \in Seq(S)
           /\ Elements(Append(s, e)) = Elements(s) \cup {e}
           /\ Distinct(s) /\ e \notin Elements(s) => Distinct(Append(s, e))
<1> USE DEF Elements, Distinct
<1>1. /\ Append(s, e) \in Seq(S) /\ Len(Append(s, e)) = Len(s) + 1
      /\ \A i \in 1..Len(s) : Append(s, e)[i] = s[i]
      /\ Append(s, e)[Len(s) + 1] = e
  BY AppendProperties
<1>2. Len(s) \in Nat
  BY LenProperties
<1>3. Elements(Append(s, e)) = Elements(s) \cup {e}
  <2>1. ASSUME NEW x \in Elements(Append(s, e)) PROVE x \in Elements(s) \cup {e}
    <3>1. PICK i \in 1..(Len(s) + 1) : x = Append(s, e)[i]
      BY <1>1, <2>1
    <3> QED BY <1>1, <1>2, <3>1
  <2>2. ASSUME NEW x \in Elements(s) PROVE x \in Elements(Append(s, e))
    <3>1. PICK i \in 1..Len(s) : x = s[i]
      BY <2>2
    <3> QED BY <1>1, <1>2, <3>1
  <2>3. e \in Elements(Append(s, e))
    BY <1>1, <1>2
  <2> QED BY <2>1, <2>2, <2>3
<1>4. ASSUME Distinct(s), e \notin Elements(s) PROVE Distinct(Append(s, e))
  <2> SUFFICES ASSUME NEW i \in 1..(Len(s) + 1), NEW j \in 1..(Len(s) + 1),
                      Append(s, e)[i] = Append(s, e)[j]
               PROVE  i = j
    BY <1>1
  <2>1. \A k \in 1..Len(s) : Append(s, e)[k] # e
    BY <1>1, <1>4
  <2> QED BY <1>1, <1>2, <1>4, <2>1
<1> QED BY <1>1, <1>3, <1>4

\* m_tasks.front() and m_tasks.pop_front().
LEMMA TailElements ==
    ASSUME NEW S, NEW s \in Seq(S), s # <<>>, Distinct(s)
    PROVE  /\ Head(s) \in S /\ Head(s) \in Elements(s)
           /\ Tail(s) \in Seq(S) /\ Distinct(Tail(s))
           /\ Elements(Tail(s)) = Elements(s) \ {Head(s)}
<1> USE DEF Elements, Distinct
<1>1. /\ Len(s) \in Nat \ {0} /\ Head(s) = s[1]
      /\ Tail(s) \in Seq(S) /\ Len(Tail(s)) = Len(s) - 1
      /\ \A i \in 1..(Len(s) - 1) : Tail(s)[i] = s[i + 1]
  BY HeadTailProperties, EmptySeq
<1>2. Head(s) \in S /\ Head(s) \in Elements(s)
  BY <1>1, HeadTailProperties
<1>3. Distinct(Tail(s))
  <2> SUFFICES ASSUME NEW i \in 1..(Len(s) - 1), NEW j \in 1..(Len(s) - 1),
                      s[i + 1] = s[j + 1]
               PROVE  i = j
    BY <1>1
  <2>1. i + 1 \in 1..Len(s) /\ j + 1 \in 1..Len(s)
    BY <1>1
  <2> QED BY <1>1, <2>1
<1>4. ASSUME NEW x \in Elements(Tail(s)) PROVE x \in Elements(s) \ {Head(s)}
  <2>1. PICK i \in 1..(Len(s) - 1) : x = s[i + 1]
    BY <1>1, <1>4
  <2>2. i + 1 \in 1..Len(s) /\ i + 1 # 1 /\ 1 \in 1..Len(s)
    BY <1>1
  <2> QED BY <1>1, <2>1, <2>2
<1>5. ASSUME NEW x \in Elements(s) \ {Head(s)} PROVE x \in Elements(Tail(s))
  <2>1. PICK i \in 1..Len(s) : x = s[i]
    BY <1>5
  <2>2. i - 1 \in 1..(Len(s) - 1) /\ Tail(s)[i - 1] = s[i]
    BY <1>1, <1>5, <2>1
  <2> QED BY <1>1, <2>1, <2>2
<1> QED BY <1>1, <1>2, <1>3, <1>4, <1>5

-----------------------------------------------------------------------------
(* Where a task is. *)

\* A task's state tells where it is: in the queue, once, or in the hands of one
\* thread, or in neither.
TaskInv ==
    /\ Distinct(tasks)
    /\ \A t \in Tasks : t \in Elements(tasks) <=> state[t] = "queued"
    /\ \A w \in Threads : Holding(w) => state[worker[w].task] = worker[w].at
    /\ \A w, v \in Threads :
         Holding(w) /\ Holding(v) /\ worker[w].task = worker[v].task => w = v
    /\ \A t \in Tasks : state[t] \in {"taken", "running"} =>
         \E w \in Threads : Holding(w) /\ worker[w].task = t

\* Threads not started do nothing.
Fresh == \A w \in Threads : w > made => worker[w].at = "none"

Inv == TypeOK /\ Fresh /\ TaskInv

\* Where the threads are while shutdown() walks: whoever is at work is in the
\* vector, a walk has no tasks and its request to stop stands, and who was joined has ended.
ThreadInv ==
    /\ \A w \in Threads : worker[w].at \notin {"none", "ended"} => w \in Elements(workers)
    /\ workers = <<>> => tasks = <<>>
    /\ caller.at # "idle" => stop /\ tasks = <<>>
    /\ caller.at = "clearing" =>
         \A w \in Elements(workers) : w \in caller.todo \/ worker[w].at = "ended"

Workers == [at : {"none", "look", "wait", "ended"}, task : {"none"}]
             \cup [at : {"taken", "running"}, task : Tasks]

Callers == [at : {"idle", "asking", "joining", "clearing"}, todo : SUBSET Threads]

\* What StartThreads does, whatever walk it disturbs.
LEMMA StartEffect ==
    ASSUME TypeOK, Fresh, StartThreads,
           NEW new, new = (made + 1)..(made + PoolSize)
    PROVE  /\ workers' \in Seq(Threads) /\ workers' # <<>>
           /\ Elements(workers') = Elements(workers) \cup new
           /\ made' \in 0..MaxThreads /\ stop' = FALSE
           /\ new \subseteq Threads /\ worker' \in [Threads -> Workers]
           /\ \A w \in new : ~Holding(w) /\ worker'[w].at = "look"
           /\ \A w \in Threads \ new : worker'[w] = worker[w]
           /\ Fresh'
           /\ caller' \in Callers /\ caller'.at = caller.at
<1> USE PoolAssumption
<1>1. made \in Nat /\ PoolSize \in Nat \ {0} /\ made' = made + PoolSize /\ made' <= MaxThreads
  BY DEF TypeOK, StartThreads
<1>2. /\ new \subseteq Threads /\ made' \in 0..MaxThreads
      /\ \A w \in new : w > made /\ worker[w].at = "none"
      /\ \A w \in Threads : w > made' => w > made /\ w \notin new
  BY <1>1 DEF Threads, Fresh
<1>3. workers' \in Seq(Threads) /\ workers' # <<>> /\ Elements(workers') = Elements(workers) \cup new
  <2> DEFINE added == [i \in 1..PoolSize |-> made + i]
  <2>1. added \in Seq(Threads) /\ Len(added) = PoolSize
    <3>1. \A i \in 1..PoolSize : made + i \in Threads
      BY <1>1 DEF Threads
    <3>2. added \in [1..PoolSize -> Threads]
      BY <3>1
    <3>3. added \in Seq(Threads)
      BY <1>1, <3>2, SeqDef
    <3> QED BY <1>1, <3>3, LenProperties
  <2>2. workers \in Seq(Threads) /\ workers' = workers \o added
    BY DEF TypeOK, StartThreads
  <2>0. \A i \in 1..PoolSize : added[i] = made + i
    OBVIOUS
  <2> HIDE DEF added
  <2>3. /\ workers' \in Seq(Threads) /\ Len(workers') = Len(workers) + PoolSize
        /\ \A i \in 1..(Len(workers) + PoolSize) :
             workers'[i] = IF i <= Len(workers) THEN workers[i] ELSE added[i - Len(workers)]
    BY <2>1, <2>2, ConcatProperties
  <2>4. Len(workers) \in Nat
    BY <2>2, LenProperties
  <2>5. ASSUME NEW w \in Elements(workers') PROVE w \in Elements(workers) \cup new
    <3>1. PICK i \in 1..(Len(workers) + PoolSize) : w = workers'[i]
      BY <2>3, <2>5 DEF Elements
    <3>2. CASE i <= Len(workers)
      <4>1. i \in 1..Len(workers) /\ w = workers[i]
        BY <2>3, <2>4, <3>1, <3>2
      <4> QED BY <4>1 DEF Elements
    <3>3. CASE ~(i <= Len(workers))
      <4>1. i - Len(workers) \in 1..PoolSize
        BY <1>1, <2>4, <3>3
      <4>2. w = made + (i - Len(workers))
        BY <2>0, <2>3, <3>1, <3>3, <4>1
      <4> QED BY <1>1, <4>1, <4>2
    <3> QED BY <3>2, <3>3
  <2>6. ASSUME NEW w \in Elements(workers) PROVE w \in Elements(workers')
    <3>1. PICK i \in 1..Len(workers) : w = workers[i]
      BY <2>6 DEF Elements
    <3> QED BY <1>1, <2>0, <2>3, <2>4, <3>1 DEF Elements
  <2>7. ASSUME NEW w \in new PROVE w \in Elements(workers')
    <3>1. w - made \in 1..PoolSize
      BY <1>1, <2>7
    <3> DEFINE i == Len(workers) + (w - made)
    <3>2. /\ i \in 1..Len(workers') /\ i \in 1..(Len(workers) + PoolSize)
          /\ ~(i <= Len(workers)) /\ i - Len(workers) = w - made
      BY <1>1, <2>3, <2>4, <3>1
    <3> HIDE DEF i
    <3>3. workers'[i] = made + (w - made)
      BY <2>0, <2>3, <3>1, <3>2
    <3>4. workers'[i] = w
      BY <1>1, <2>7, <3>3
    <3> QED BY <3>2, <3>4 DEF Elements
  <2>8. workers' # <<>>
    BY <1>1, <2>3, <2>4, EmptySeq
  <2> QED BY <2>3, <2>5, <2>6, <2>7, <2>8
<1>4. worker' = [w \in Threads |-> IF w \in new THEN [worker[w] EXCEPT !.at = "look"] ELSE worker[w]]
  BY DEF StartThreads
<1>5. worker \in [Threads -> Workers]
  BY DEF TypeOK, Workers
<1>6. \A w \in new : worker[w] = [at |-> "none", task |-> "none"]
  BY <1>2, <1>5 DEF Workers
<1>7. \A w \in new : worker'[w] = [at |-> "look", task |-> "none"]
  BY <1>2, <1>4, <1>6
<1>8. \A w \in Threads \ new : worker'[w] = worker[w]
  BY <1>4
<1>9. worker' \in [Threads -> Workers]
  BY ZenonT(60), <1>4, <1>5, <1>7, <1>8 DEF Workers
<1>10. Fresh'
  BY <1>2, <1>8 DEF Fresh
<1>11. caller' \in Callers /\ caller'.at = caller.at
  BY DEF TypeOK, StartThreads, Callers
<1>12. stop' = FALSE
  BY DEF StartThreads
<1> QED BY <1>2, <1>3, <1>6, <1>7, <1>8, <1>9, <1>10, <1>11, <1>12 DEF Holding

LEMMA InitInv == Init => Inv
<1> SUFFICES ASSUME Init PROVE Inv
  OBVIOUS
<1> USE PoolAssumption DEF Init
<1>1. TypeOK
  <2>1. workers \in Seq(Threads) /\ tasks \in Seq(Tasks)
    BY EmptySeq
  <2>2. made \in 0..MaxThreads
    OBVIOUS
  <2>3. [at |-> "none", task |-> "none"]
          \in [at : {"none", "look", "wait", "ended"}, task : {"none"}]
    OBVIOUS
  <2>4. caller \in [at : {"idle", "asking", "joining", "clearing"}, todo : SUBSET Threads]
    OBVIOUS
  <2> QED BY <2>1, <2>2, <2>3, <2>4 DEF TypeOK
<1>2. Elements(tasks) = {} /\ Distinct(tasks)
  BY DEF Elements, Distinct
<1> QED BY <1>1, <1>2 DEF Inv, Fresh, TaskInv, Holding

LEMMA EnqueueInv ==
    ASSUME Inv, NEW t \in Tasks, Enqueue(t)
    PROVE  Inv'
<1> USE DEF Inv
<1> DEFINE new == (made + 1)..(made + PoolSize)
<1>1. /\ workers' \in Seq(Threads) /\ made' \in 0..MaxThreads /\ stop' \in BOOLEAN
      /\ worker' \in [Threads -> Workers] /\ caller' \in Callers /\ Fresh'
      /\ \A w \in Threads : Holding(w) <=> Holding(w)'
      /\ \A w \in Threads : Holding(w) => worker'[w] = worker[w]
  <2>1. CASE workers = <<>> \/ stop
    <3>1. StartThreads
      BY <2>1 DEF Enqueue
    <3> HIDE DEF new
    <3>2. new = (made + 1)..(made + PoolSize)
      BY DEF new
    <3> QED BY <3>1, <3>2, StartEffect DEF Holding
  <2>2. CASE ~(workers = <<>> \/ stop)
    BY <2>2 DEF Enqueue, TypeOK, Workers, Callers, Fresh, Holding
  <2> QED BY <2>1, <2>2
<1>2. /\ state[t] = "new" /\ state' = [state EXCEPT ![t] = "queued"]
      /\ tasks' = Append(tasks, t) /\ asked' = asked
  BY DEF Enqueue
<1>3. /\ tasks' \in Seq(Tasks) /\ Elements(tasks') = Elements(tasks) \cup {t}
      /\ Distinct(tasks')
  <2>1. tasks \in Seq(Tasks) /\ Distinct(tasks) /\ t \notin Elements(tasks)
    BY <1>2 DEF TypeOK, TaskInv
  <2> QED BY <1>2, <2>1, AppendElements
<1>4. TypeOK'
  BY <1>1, <1>2, <1>3 DEF TypeOK, Workers, Callers
<1>5. TaskInv'
  <2>1. \A u \in Tasks : state'[u] = IF u = t THEN "queued" ELSE state[u]
    BY <1>2 DEF TypeOK
  <2>2. \A w \in Threads : Holding(w)' => Holding(w) /\ worker'[w] = worker[w] /\ worker[w].task # t
    BY <1>1, <1>2 DEF TaskInv, Holding
  <2>3. \A w \in Threads : Holding(w) => worker[w].task \in Tasks
    BY DEF TypeOK, Holding
  <2>4. \A w \in Threads : Holding(w)' => state'[worker'[w].task] = worker'[w].at
    BY <2>1, <2>2, <2>3 DEF TaskInv
  <2>5. \A w, v \in Threads :
         (Holding(w) /\ Holding(v) /\ worker[w].task = worker[v].task)' => w = v
    BY <2>2 DEF TaskInv
  <2>6. \A u \in Tasks : state'[u] \in {"taken", "running"} =>
         \E w \in Threads : (Holding(w) /\ worker[w].task = u)'
    <3> SUFFICES ASSUME NEW u \in Tasks, state'[u] \in {"taken", "running"}
                 PROVE  \E w \in Threads : (Holding(w) /\ worker[w].task = u)'
      OBVIOUS
    <3>1. state[u] \in {"taken", "running"}
      BY <2>1
    <3>2. PICK w \in Threads : Holding(w) /\ worker[w].task = u
      BY <3>1 DEF TaskInv
    <3> QED BY <1>1, <3>2
  <2>7. \A u \in Tasks : u \in Elements(tasks') <=> state'[u] = "queued"
    BY <1>3, <2>1 DEF TaskInv
  <2> QED BY <1>3, <2>4, <2>5, <2>6, <2>7 DEF TaskInv
<1> QED BY <1>1, <1>4, <1>5
\* What becomes of the tasks when they are dropped, all at once.
LEMMA DropTasks ==
    ASSUME TypeOK, TaskInv, tasks' = <<>>,
           state' = [t \in Tasks |-> IF t \in Elements(tasks) THEN "broken" ELSE state[t]],
           \A w \in Threads : Holding(w) <=> Holding(w)',
           \A w \in Threads : Holding(w) => worker'[w] = worker[w]
    PROVE  /\ TaskInv' /\ tasks' \in Seq(Tasks)
           /\ state' \in [Tasks -> {"new", "queued", "taken", "running", "ready", "broken"}]
<1>1. tasks' \in Seq(Tasks) /\ Elements(tasks') = {} /\ Distinct(tasks')
  <2>1. tasks' \in Seq(Tasks) /\ Len(tasks') = 0
    BY EmptySeq
  <2> QED BY <2>1 DEF Elements, Distinct
<1>2. \A t \in Tasks : state'[t] = IF state[t] = "queued" THEN "broken" ELSE state[t]
  BY DEF TaskInv
<1>3. state' \in [Tasks -> {"new", "queued", "taken", "running", "ready", "broken"}]
  BY DEF TypeOK
<1>4. \A w \in Threads : Holding(w) => worker[w].task \in Tasks
  BY DEF TypeOK, Holding
<1>5. \A w \in Threads : Holding(w)' => state'[worker'[w].task] = worker'[w].at
  <2> SUFFICES ASSUME NEW w \in Threads, Holding(w)
               PROVE  state'[worker[w].task] = worker[w].at
    OBVIOUS
  <2>1. state[worker[w].task] = worker[w].at /\ worker[w].at # "queued"
    BY DEF TaskInv, Holding
  <2> QED BY <1>2, <1>4, <2>1
<1>6. \A w, v \in Threads :
        (Holding(w) /\ Holding(v) /\ worker[w].task = worker[v].task)' => w = v
  BY DEF TaskInv
<1>7. \A t \in Tasks : state'[t] \in {"taken", "running"} =>
        \E w \in Threads : (Holding(w) /\ worker[w].task = t)'
  <2> SUFFICES ASSUME NEW t \in Tasks, state'[t] \in {"taken", "running"}
               PROVE  \E w \in Threads : (Holding(w) /\ worker[w].task = t)'
    OBVIOUS
  <2>1. state[t] \in {"taken", "running"}
    BY <1>2
  <2>2. PICK w \in Threads : Holding(w) /\ worker[w].task = t
    BY <2>1 DEF TaskInv
  <2> QED BY <2>2
<1>8. \A t \in Tasks : t \in Elements(tasks') <=> state'[t] = "queued"
  BY <1>1, <1>2
<1> QED BY <1>1, <1>3, <1>5, <1>6, <1>7, <1>8 DEF TaskInv

LEMMA StartInv ==
    ASSUME Inv, Start
    PROVE  Inv'
<1> USE DEF Inv
<1> DEFINE new == (made + 1)..(made + PoolSize)
<1>1. new = (made + 1)..(made + PoolSize) /\ StartThreads
  BY DEF Start
<1> HIDE DEF new
<1>2. /\ workers' \in Seq(Threads) /\ made' \in 0..MaxThreads /\ stop' = FALSE
      /\ worker' \in [Threads -> Workers] /\ caller' \in Callers /\ Fresh'
      /\ \A w \in new : ~Holding(w) /\ worker'[w].at = "look"
      /\ \A w \in Threads \ new : worker'[w] = worker[w]
  BY <1>1, StartEffect
<1>3. /\ \A w \in Threads : Holding(w) <=> Holding(w)'
      /\ \A w \in Threads : Holding(w) => worker'[w] = worker[w]
  BY <1>2 DEF Holding
<1>4. /\ TaskInv' /\ tasks' \in Seq(Tasks)
      /\ state' \in [Tasks -> {"new", "queued", "taken", "running", "ready", "broken"}]
  BY <1>3, DropTasks DEF Start
<1>5. asked' = asked
  BY DEF Start
<1> QED BY <1>2, <1>4, <1>5 DEF TypeOK, Workers, Callers

\* A thread that puts its task down, with what becomes of it, or takes a step with it.
LEMMA HandInv ==
    ASSUME Inv, NEW w \in Threads, Holding(w), NEW to,
           \/ /\ worker' = [worker EXCEPT ![w] = [at |-> "look", task |-> "none"]]
              /\ to \in {"ready", "broken"}
           \/ /\ worker' = [worker EXCEPT ![w].at = "running"]
              /\ to = "running",
           state' = [state EXCEPT ![worker[w].task] = to],
           UNCHANGED <<workers, made, stop, asked, tasks, caller>>
    PROVE  Inv'
<1> USE DEF Inv
<1>1. worker[w].task \in Tasks /\ worker[w] \in [at : {"taken", "running"}, task : Tasks]
  BY DEF TypeOK, Holding
<1>2. TypeOK'
  BY SMTT(30), <1>1 DEF TypeOK
<1>3. Fresh'
  BY DEF Fresh, Holding, TypeOK
<1>4. \A v \in Threads : v # w => worker'[v] = worker[v] /\ (Holding(v)' <=> Holding(v))
  BY DEF TypeOK, Holding
<1>5. Holding(w)' => worker'[w].at = "running" /\ worker'[w].task = worker[w].task /\ to = "running"
  BY <1>1 DEF TypeOK, Holding
<1>6. to = "running" => Holding(w)'
  BY <1>1 DEF TypeOK, Holding
<1>7. \A t \in Tasks : state'[t] = IF t = worker[w].task THEN to ELSE state[t]
  BY <1>1 DEF TypeOK
<1>8. state[worker[w].task] \in {"taken", "running"}
  BY DEF TaskInv, Holding
<1>9. \A v \in Threads : Holding(v)' => state'[worker'[v].task] = worker'[v].at
  <2> SUFFICES ASSUME NEW v \in Threads, Holding(v)'
               PROVE  state'[worker'[v].task] = worker'[v].at
    OBVIOUS
  <2>1. CASE v = w
    BY <1>1, <1>5, <1>7, <2>1
  <2>2. CASE v # w
    <3>1. Holding(v) /\ worker[v].task \in Tasks /\ worker[v].task # worker[w].task
      BY <1>4, <2>2 DEF TaskInv, TypeOK, Holding
    <3> QED BY <1>4, <1>7, <2>2, <3>1 DEF TaskInv
  <2> QED BY <2>1, <2>2
<1>10. \A v, u \in Threads :
         (Holding(v) /\ Holding(u) /\ worker[v].task = worker[u].task)' => v = u
  BY <1>4, <1>5 DEF TaskInv
<1>11. \A t \in Tasks : state'[t] \in {"taken", "running"} =>
         \E v \in Threads : (Holding(v) /\ worker[v].task = t)'
  <2> SUFFICES ASSUME NEW t \in Tasks, state'[t] \in {"taken", "running"}
               PROVE  \E v \in Threads : (Holding(v) /\ worker[v].task = t)'
    OBVIOUS
  <2>1. CASE t = worker[w].task
    <3>1. Holding(w)'
      BY <1>6, <1>7, <2>1
    <3> QED BY <1>5, <2>1, <3>1
  <2>2. CASE t # worker[w].task
    <3>1. PICK v \in Threads : Holding(v) /\ worker[v].task = t
      BY <1>7, <2>2 DEF TaskInv
    <3> QED BY <1>4, <2>2, <3>1
  <2> QED BY <2>1, <2>2
<1>12. \A t \in Tasks : t \in Elements(tasks') <=> state'[t] = "queued"
  BY <1>7, <1>8 DEF TaskInv
<1>13. TaskInv'
  BY <1>9, <1>10, <1>11, <1>12 DEF TaskInv
<1> QED BY <1>2, <1>3, <1>13

LEMMA TakeInv ==
    ASSUME Inv, NEW w \in Threads, Take(w)
    PROVE  Inv'
<1> USE DEF Inv
<1> DEFINE t == Head(tasks)
<1>1. /\ worker[w].at = "wait" /\ tasks # <<>> /\ tasks' = Tail(tasks)
      /\ worker' = [worker EXCEPT ![w] = [at |-> "taken", task |-> t]]
      /\ state' = [state EXCEPT ![t] = "taken"]
      /\ UNCHANGED <<workers, made, stop, asked, caller>>
  BY DEF Take
<1>2. /\ t \in Tasks /\ t \in Elements(tasks)
      /\ Tail(tasks) \in Seq(Tasks) /\ Distinct(Tail(tasks))
      /\ Elements(Tail(tasks)) = Elements(tasks) \ {t}
  BY <1>1, TailElements DEF TypeOK, TaskInv
<1> HIDE DEF t
<1>3. TypeOK'
  BY <1>1, <1>2 DEF TypeOK
<1>4. Fresh'
  BY <1>1 DEF Fresh, TypeOK
<1>5. state[t] = "queued"
  BY <1>2 DEF TaskInv
<1>6. \A u \in Tasks : state'[u] = IF u = t THEN "taken" ELSE state[u]
  BY <1>1, <1>2 DEF TypeOK
<1>7. \A v \in Threads : Holding(v) => v # w /\ worker[v].task \in Tasks /\ worker[v].task # t
  BY <1>1, <1>5 DEF TypeOK, TaskInv, Holding
<1>8. worker'[w] = [at |-> "taken", task |-> t] /\ Holding(w)'
  BY <1>1 DEF TypeOK, Holding
<1>9. \A v \in Threads : v # w => worker'[v] = worker[v] /\ (Holding(v)' <=> Holding(v))
  BY <1>1 DEF TypeOK, Holding
<1>10. \A v \in Threads : Holding(v)' => state'[worker'[v].task] = worker'[v].at
  BY <1>2, <1>6, <1>7, <1>8, <1>9 DEF TaskInv
<1>11. \A v, u \in Threads :
         (Holding(v) /\ Holding(u) /\ worker[v].task = worker[u].task)' => v = u
  BY <1>7, <1>8, <1>9 DEF TaskInv
<1>12. \A u \in Tasks : state'[u] \in {"taken", "running"} =>
         \E v \in Threads : (Holding(v) /\ worker[v].task = u)'
  <2> SUFFICES ASSUME NEW u \in Tasks, state'[u] \in {"taken", "running"}
               PROVE  \E v \in Threads : (Holding(v) /\ worker[v].task = u)'
    OBVIOUS
  <2>1. CASE u = t
    BY <1>8, <2>1
  <2>2. CASE u # t
    <3>1. PICK v \in Threads : Holding(v) /\ worker[v].task = u
      BY <1>6, <2>2 DEF TaskInv
    <3> QED BY <1>7, <1>9, <3>1
  <2> QED BY <2>1, <2>2
<1>13. \A u \in Tasks : u \in Elements(tasks') <=> state'[u] = "queued"
  BY <1>1, <1>2, <1>6 DEF TaskInv
<1>14. TaskInv'
  BY <1>1, <1>2, <1>10, <1>11, <1>12, <1>13 DEF TaskInv
<1> QED BY <1>3, <1>4, <1>14

\* Steps that move no task.
LEMMA IdleInv ==
    ASSUME Inv, UNCHANGED <<tasks, state>>,
           workers' \in Seq(Threads), made' = made, stop' \in BOOLEAN,
           asked' \subseteq Threads, caller' \in Callers, worker' \in [Threads -> Workers],
           \A w \in Threads : worker[w].at = "none" => worker'[w] = worker[w],
           \A w \in Threads : Holding(w) \/ Holding(w)' => worker'[w] = worker[w]
    PROVE  Inv'
<1> USE DEF Inv
<1>1. TypeOK'
  BY DEF TypeOK, Workers, Callers
<1>2. Fresh'
  BY DEF Fresh
<1>3. \A w \in Threads : (Holding(w)' <=> Holding(w))
  BY DEF Holding
<1>4. \A t \in Tasks : state'[t] \in {"taken", "running"} =>
        \E w \in Threads : (Holding(w) /\ worker[w].task = t)'
  BY <1>3 DEF TaskInv
<1>5. TaskInv'
  BY <1>3, <1>4 DEF TaskInv
<1> QED BY <1>1, <1>2, <1>5

LEMMA NextInv == Inv /\ [Next]_vars => Inv'
<1> SUFFICES ASSUME Inv, [Next]_vars PROVE Inv'
  OBVIOUS
<1> USE DEF Inv
<1>0. /\ workers \in Seq(Threads) /\ stop \in BOOLEAN /\ asked \subseteq Threads
      /\ worker \in [Threads -> Workers] /\ caller \in Callers
      /\ Elements(workers) \subseteq Threads
  BY DEF TypeOK, Workers, Callers, Elements
<1>1. CASE Start
  BY <1>1, StartInv
<1>2. CASE Submit
  BY <1>2, EnqueueInv DEF Submit, Roots
<1>3. CASE Raise
  <2>1. /\ TaskInv' /\ tasks' \in Seq(Tasks)
        /\ state' \in [Tasks -> {"new", "queued", "taken", "running", "ready", "broken"}]
    BY <1>3, DropTasks DEF Raise, Holding
  <2>2. caller' \in Callers /\ stop' \in BOOLEAN /\ UNCHANGED <<workers, made, asked, worker>>
    BY <1>0, <1>3 DEF Raise, Callers
  <2> QED BY <2>1, <2>2 DEF TypeOK, Fresh, Callers
<1>4. CASE Shutdown
  <2>1. UNCHANGED <<made, tasks, state, worker>>
    BY <1>4 DEF Shutdown, BeginJoin, BeginClear, EndClear, Ask, Join
  <2>2. stop' = stop /\ asked' \subseteq Threads
    BY <1>0, <1>4 DEF Shutdown, BeginJoin, BeginClear, EndClear, Ask, Join
  <2>3. workers' \in Seq(Threads)
    BY <1>0, <1>4, EmptySeq DEF Shutdown, BeginJoin, BeginClear, EndClear, Ask, Join
  <2>4. caller' \in Callers
    BY <1>0, <1>4 DEF Shutdown, BeginJoin, BeginClear, EndClear, Ask, Join, Callers
  <2> QED BY <1>0, <2>1, <2>2, <2>3, <2>4, IdleInv
<1>5. ASSUME NEW w \in Threads, WorkerLoop(w) PROVE Inv'
  <2>1. CASE Look(w) \/ Quit(w)
    <3>1. worker' \in [Threads -> Workers]
      BY <1>0, <2>1 DEF Look, Quit, Goto, Workers
    <3>2. \A v \in Threads : worker[v].at = "none" \/ Holding(v) \/ Holding(v)' =>
            worker'[v] = worker[v]
      BY <1>0, <2>1 DEF Look, Quit, Goto, Workers, Holding
    <3> QED BY <1>0, <2>1, <3>1, <3>2, IdleInv DEF Look, Quit
  <2>2. CASE Take(w)
    BY <2>2, TakeInv
  <2>3. CASE Run(w)
    <3>1. Holding(w)
      BY <2>3 DEF Run, Holding
    <3>2. CASE Told(w)
      BY <2>3, <3>1, <3>2, HandInv DEF Run
    <3>3. CASE ~Told(w)
      BY <2>3, <3>1, <3>3, HandInv DEF Run, Goto
    <3> QED BY <3>2, <3>3
  <2>4. CASE Return(w)
    <3>1. Holding(w)
      BY <2>4 DEF Return, Holding
    <3> QED BY <2>4, <3>1, HandInv DEF Return
  <2> QED BY <1>5, <2>1, <2>2, <2>3, <2>4 DEF WorkerLoop
<1>6. ASSUME NEW w \in Threads, SubmitChild(w) PROVE Inv'
  <2>1. worker[w].task \in Tasks
    BY <1>6 DEF SubmitChild, TypeOK
  <2>2. Children[worker[w].task] \subseteq Tasks
    BY <2>1, PoolAssumption
  <2> QED BY <1>6, <2>2, EnqueueInv DEF SubmitChild
<1>7. CASE UNCHANGED vars
  BY <1>0, <1>7, IdleInv DEF vars
<1> QED BY <1>1, <1>2, <1>3, <1>4, <1>5, <1>6, <1>7 DEF Next

LEMMA Invariance == Spec => []Inv
BY InitInv, NextInv, PTL DEF Spec

\* Every variable of the pool (sdk/Async.h:177) keeps its type.
THEOREM TypeCorrect == Spec => []TypeOK
BY Invariance, PTL DEF Inv

\* workerLoop() takes a task under the mutex (sdk/Async.h:165): no two threads have the
\* same one, and none that is still queued, whenever tasks are submitted and however often
\* the pool is shut down and restarted, even in the middle of a shutdown.
THEOREM TasksAreRunByOne == Spec => []RunByOne
<1>1. Inv => RunByOne
  <2> SUFFICES ASSUME Inv, NEW w \in Threads, NEW v \in Threads, Holding(w)
               PROVE  /\ worker[w].task \notin Elements(tasks)
                      /\ Holding(v) /\ worker[v].task = worker[w].task => w = v
    BY DEF RunByOne
  <2>1. worker[w].task \in Tasks /\ state[worker[w].task] # "queued"
    BY DEF Inv, TypeOK, TaskInv, Holding
  <2> QED BY <2>1 DEF Inv, TaskInv
<1> QED BY <1>1, Invariance, PTL
-----------------------------------------------------------------------------
(* The end of a shutdown. *)

LEMMA InitThreadInv == Init => ThreadInv
<1> SUFFICES ASSUME Init PROVE ThreadInv
  OBVIOUS
<1> QED BY DEF Init, ThreadInv

\* A thread goes on, and none of the dead wakes.
LEMMA WorkerThreadInv ==
    ASSUME Inv, ThreadInv, NEW w \in Threads,
           worker[w].at \notin {"none", "ended"},
           \A v \in Threads : v # w => worker'[v] = worker[v],
           UNCHANGED <<workers, stop, caller>>,
           tasks' = tasks \/ tasks # <<>>
    PROVE  ThreadInv'
<1>1. \A v \in Threads : worker'[v].at \notin {"none", "ended"} => v \in Elements(workers)
  BY DEF ThreadInv
<1>2. caller.at = "clearing" =>
        \A v \in Elements(workers) : v \in caller.todo \/ worker'[v].at = "ended"
  <2>1. Elements(workers) \subseteq Threads
    BY DEF Inv, TypeOK, Elements
  <2>2. caller.at = "clearing" => w \in caller.todo
    BY DEF ThreadInv
  <2> QED BY <2>1, <2>2 DEF ThreadInv
<1>3. workers = <<>> \/ caller.at # "idle" => tasks' = <<>>
  BY DEF ThreadInv
<1> QED BY <1>1, <1>2, <1>3 DEF ThreadInv

\* Threads are added, or were there, before a task is queued; nobody walks.
LEMMA QueueThreadInv ==
    ASSUME Inv, ThreadInv, caller.at = "idle",
           StartThreads \/ (workers # <<>> /\ UNCHANGED <<workers, worker, stop, caller>>)
    PROVE  ThreadInv'
<1> USE DEF ThreadInv
<1>1. CASE StartThreads
  <2> DEFINE new == (made + 1)..(made + PoolSize)
  <2>1. new = (made + 1)..(made + PoolSize)
    OBVIOUS
  <2> HIDE DEF new
  <2>2. /\ workers' # <<>> /\ Elements(workers') = Elements(workers) \cup new
        /\ \A w \in Threads \ new : worker'[w] = worker[w]
        /\ caller'.at = "idle"
    BY <1>1, <2>1, StartEffect DEF Inv
  <2> QED BY <2>2
<1>2. CASE workers # <<>> /\ UNCHANGED <<workers, worker, stop, caller>>
  BY <1>2
<1> QED BY <1>1, <1>2

LEMMA NextThreadInv == ~Late /\ Inv /\ ThreadInv /\ [Next]_vars => ThreadInv'
<1> SUFFICES ASSUME ~Late, Inv, ThreadInv, [Next]_vars PROVE ThreadInv'
  OBVIOUS
<1>0. Elements(<<>>) = {} /\ Elements(workers) \subseteq Threads
  BY DEF Inv, TypeOK, Elements
<1>1. CASE Start
  BY <1>1, QueueThreadInv DEF Start
<1>2. ASSUME NEW t \in Tasks, Enqueue(t) PROVE ThreadInv'
  BY <1>2, QueueThreadInv DEF Enqueue
<1>3. CASE Raise
  BY <1>3 DEF Raise, ThreadInv
<1>4. CASE BeginJoin \/ \E w \in Threads : Ask(w)
  <2>1. UNCHANGED <<workers, worker, stop, tasks>>
    BY <1>4 DEF BeginJoin, Ask
  <2>2. caller.at # "idle" /\ caller'.at \in {"asking", "joining"}
    BY <1>4 DEF BeginJoin, Ask, Inv, TypeOK
  <2> QED BY <2>1, <2>2 DEF ThreadInv
<1>5. CASE BeginClear
  BY <1>5 DEF BeginClear, ThreadInv
<1>6. CASE EndClear
  <2>1. \A w \in Elements(workers) : worker[w].at = "ended"
    BY <1>6 DEF EndClear, ThreadInv
  <2> QED BY <1>0, <1>6, <2>1 DEF EndClear, ThreadInv
<1>7. ASSUME NEW w \in Threads, Join(w) PROVE ThreadInv'
  BY <1>7 DEF Join, ThreadInv
<1>8. ASSUME NEW w \in Threads, WorkerLoop(w) PROVE ThreadInv'
  <2>1. worker[w].at \notin {"none", "ended"} /\ UNCHANGED <<workers, stop, caller>>
    BY <1>8 DEF WorkerLoop, Look, Take, Quit, Run, Return
  <2>2. \A v \in Threads : v # w => worker'[v] = worker[v]
    BY <1>8 DEF WorkerLoop, Look, Take, Quit, Run, Return, Goto, Inv, TypeOK
  <2>3. tasks' = tasks \/ tasks # <<>>
    BY <1>8 DEF WorkerLoop, Look, Take, Quit, Run, Return
  <2> QED BY <2>1, <2>2, <2>3, WorkerThreadInv
<1>9. CASE UNCHANGED vars
  BY <1>9 DEF vars, ThreadInv
<1>10. CASE Submit
  BY <1>2, <1>10 DEF Submit, Roots
<1>11. ASSUME NEW w \in Threads, SubmitChild(w) PROVE ThreadInv'
  <2>1. worker[w].task \in Tasks
    BY <1>11 DEF SubmitChild, Inv, TypeOK
  <2>2. Children[worker[w].task] \subseteq Tasks
    BY <2>1, PoolAssumption
  <2> QED BY <1>2, <1>11, <2>2 DEF SubmitChild
<1> QED BY <1>1, <1>3, <1>4, <1>5, <1>6, <1>7, <1>8, <1>9, <1>10, <1>11 DEF Next, Shutdown

\* shutdown() (sdk/Async.h:104) returns when every thread has ended, every task has run or
\* was dropped, and no future is left unsettled, whatever ran when it began; unless
\* somebody submits meanwhile (Late), which restarts the pool under its feet.
THEOREM QuietAfterShutdown == ~Late => (Spec => []Quiet)
<1> SUFFICES ASSUME ~Late PROVE Spec => []Quiet
  OBVIOUS
<1>1. Inv /\ ThreadInv => Quiet
  <2> SUFFICES ASSUME Inv, ThreadInv, workers = <<>>
               PROVE  /\ \A w \in Threads : worker[w].at \in {"none", "ended"}
                      /\ \A t \in Tasks : state[t] = "new" \/ t \in Settled
    BY DEF Quiet
  <2>1. Elements(workers) = {} /\ Elements(tasks) = {}
    BY DEF ThreadInv, Elements
  <2>2. \A w \in Threads : worker[w].at \in {"none", "ended"}
    BY <2>1 DEF ThreadInv
  <2>3. \A t \in Tasks : state[t] \notin {"queued", "taken", "running"}
    BY <2>1, <2>2 DEF Inv, TaskInv, Holding
  <2> QED BY <2>2, <2>3 DEF Settled, Inv, TypeOK
<1>2. Inv /\ ThreadInv /\ [Next]_vars => ThreadInv'
  BY NextThreadInv
<1> QED BY <1>1, <1>2, InitThreadInv, Invariance, PTL DEF Spec

=============================================================================
