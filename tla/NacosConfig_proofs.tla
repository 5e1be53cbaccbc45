-------------------------- MODULE NacosConfig_proofs --------------------------
(***************************************************************************)
(* What NacosConfig guarantees for every number of requests and of         *)
(* published contents, and what ConfigWatcher, its second implementation,  *)
(* guarantees beside it for every number of receivers (as W, with the      *)
(* variables w_...), whatever the order of the tasks.                      *)
(***************************************************************************)
EXTENDS MCNacosConfig, SequenceTheorems, TLAPS

-----------------------------------------------------------------------------
(* Lemmas on the history, on one read and on the lock                      *)

\* Publishing leaves what was published before in place.
LEMMA PublishKeeps ==
  ASSUME TypeOK, NEW c \in Content, history' = Append(history, c)
  PROVE  /\ history' \in Seq(Content) /\ Len(history') = Latest + 1
         /\ \A v \in 1..Latest : history'[v] = history[v]
         /\ \A v \in 0..Latest : (Parses(v)' <=> Parses(v)) /\ (HasRpcs(v)' <=> HasRpcs(v))
<1>1. /\ history' \in Seq(Content) /\ Len(history') = Latest + 1 /\ Latest \in Nat
      /\ \A v \in 1..Latest : history'[v] = history[v]
  BY DEF TypeOK, Latest
<1>2. ASSUME NEW v \in 0..Latest
      PROVE  (Parses(v)' <=> Parses(v)) /\ (HasRpcs(v)' <=> HasRpcs(v))
  BY <1>1 DEF Parses, HasRpcs, Latest
<1> QED
  BY <1>1, <1>2

\* A read appends the version in the global to what the request has read.
LEMMA ReadAppends ==
  ASSUME TypeOK, NEW r \in Request, reads' = [reads EXCEPT ![r] = Append(@, global)]
  PROVE  /\ reads' \in [Request -> Seq(0..Latest)]
         /\ Len(reads'[r]) = Len(reads[r]) + 1
         /\ reads'[r][Len(reads'[r])] = global
         /\ \A i \in 1..Len(reads[r]) : reads'[r][i] = reads[r][i]
         /\ \A s \in Request \ {r} : reads'[s] = reads[s]
<1>1. reads[r] \in Seq(0..Latest) /\ global \in 0..Latest
  BY DEF TypeOK
<1>2. /\ Append(reads[r], global) \in Seq(0..Latest)
      /\ Len(Append(reads[r], global)) = Len(reads[r]) + 1
      /\ Append(reads[r], global)[Len(reads[r]) + 1] = global
      /\ \A i \in 1..Len(reads[r]) : Append(reads[r], global)[i] = reads[r][i]
  BY <1>1
<1>3. reads' = [s \in Request |-> IF s = r THEN Append(reads[r], global) ELSE reads[s]]
  BY DEF TypeOK
<1> QED
  BY <1>1, <1>2, <1>3 DEF TypeOK

\* What may be at the lock.
Waiter == {Writer(v) : v \in {w \in notified : Parses(w)}} \cup {"reading", "rereading"} \X Request

\* Joining the queue adds one that may be there.
LEMMA JoinKeeps ==
  ASSUME NEW S, lock \in Seq(S), NEW e \in S, Join(e)
  PROVE  lock' \in Seq(S)
BY DEF Join

\* Only one that was in the queue leaves it.
LEMMA ReleaseKeeps ==
  ASSUME NEW S, lock \in Seq(S), NEW e, Release(e)
  PROVE  lock' \in Seq(S) /\ e \in S
<1>1. PICK p \in 1..Len(lock) : lock[p] = e /\ lock' = RemoveAt(lock, p)
  BY DEF Release
<1>2. p \in Nat /\ Len(lock) \in Nat /\ p >= 1 /\ p <= Len(lock)
  OBVIOUS
<1>3. SubSeq(lock, 1, p - 1) \in Seq(S) /\ SubSeq(lock, p + 1, Len(lock)) \in Seq(S)
  <2>1. \A i \in 1..Len(lock) : lock[i] \in S
    BY ElementOfSeq
  <2>2. \A i \in 1..(p - 1) : lock[i] \in S
    BY <1>2, <2>1
  <2>3. \A i \in (p + 1)..Len(lock) : lock[i] \in S
    BY <1>2, <2>1
  <2> QED
    BY <1>2, <2>2, <2>3, SubSeqProperties
<1>4. lock' \in Seq(S)
  BY <1>1, <1>3, ConcatProperties DEF RemoveAt
<1> QED
  BY <1>1, <1>4, ElementOfSeq

\* A task at the lock carries a content that parses.
LEMMA WriterParses ==
  ASSUME TypeOK, NEW v, Release(Writer(v))
  PROVE  Parses(v) /\ lock' \in Seq(Waiter)
<1>1. lock \in Seq(Waiter)
  BY DEF TypeOK, Waiter
<1>2. Writer(v) \in Waiter /\ lock' \in Seq(Waiter)
  BY <1>1, ReleaseKeeps
<1>3. PICK w \in notified : Parses(w) /\ Writer(v) = Writer(w)
  BY <1>2 DEF Waiter, Writer
<1>4. v = w
  BY <1>3 DEF Writer
<1> QED
  BY <1>2, <1>3, <1>4

-----------------------------------------------------------------------------
(* Type correctness                                                        *)

\* Nothing is fetched, heard, spawned, queued or read at the start.
LEMMA InitType == Init => TypeOK
<1> SUFFICES ASSUME Init PROVE TypeOK
  OBVIOUS
<1>1. PICK c \in Content : history = <<c>>
  BY DEF Init
<1>2. history \in Seq(Content) /\ Len(history) = 1
  BY <1>1
<1>3. 1 \in 1..MaxVersions
  BY NacosAssumption
<1>4. <<>> \in Seq(0..Latest) /\ \A S : <<>> \in Seq(S)
  OBVIOUS
<1>5. reads \in [Request -> Seq(0..Latest)]
  BY <1>4 DEF Init
<1>6. /\ boot = "start" /\ fetched = 0 /\ heard = 0 /\ global = 0
      /\ tasks = {} /\ lock = <<>> /\ notified = {}
      /\ pc = [r \in Request |-> "idle"]
      /\ settled = [v \in 0..MaxVersions |-> {}]
  BY DEF Init
<1>7. Latest = 1
  BY <1>2 DEF Latest
<1>8. {fetched, heard, global} \subseteq 0..Latest /\ notified \subseteq 1..Latest
  BY <1>6, <1>7
<1>9. pc \in [Request -> {"idle", "reading", "building", "rereading", "answered", "panicked"}]
  BY <1>6
<1>10. tasks \subseteq notified /\ boot \in {"start", "fetched", "set", "serving", "exited"}
  BY <1>6
<1>11. Len(history) \in 1..MaxVersions
  BY <1>2, <1>3
<1>12. settled \in [0..MaxVersions -> SUBSET (0..Latest)]
  BY <1>6
<1>13. lock \in Seq(Waiter)
  BY <1>4, <1>6
<1> QED
  BY <1>2, <1>5, <1>8, <1>9, <1>10, <1>11, <1>12, <1>13 DEF TypeOK, Waiter

\* What may be at the lock only grows, with what is published and spawned.
LEMMA WaiterGrows ==
  ASSUME TypeOK, notified \subseteq notified', \A v \in notified : Parses(v) => Parses(v)'
  PROVE  Seq(Waiter) \subseteq Seq(Waiter')
<1>1. Waiter \subseteq Waiter'
  <2>1. ASSUME NEW v \in notified, Parses(v) PROVE Writer(v) \in Waiter'
    BY <2>1 DEF Waiter, Writer
  <2> QED
    BY <2>1 DEF Waiter
<1> QED
  BY <1>1, SeqMonotonic

\* A spawn records a version that was published, and what was over by then.
LEMMA SpawnType ==
  ASSUME TypeOK, Spawn(Latest), UNCHANGED <<history, lock>>
  PROVE  /\ tasks' \subseteq notified' /\ notified' \subseteq 1..Latest
         /\ lock' \in Seq(Waiter')
         /\ settled' \in [0..MaxVersions -> SUBSET (0..Latest)]
<1>1. Latest \in 1..Latest /\ Latest \in Nat
  BY DEF TypeOK, Latest
<1>2. tasks' \subseteq notified' /\ notified' \subseteq 1..Latest /\ notified \subseteq notified'
  BY <1>1 DEF Spawn, TypeOK
<1>3. lock' \in Seq(Waiter')
  <2>1. lock \in Seq(Waiter)
    BY DEF TypeOK, Waiter
  <2>2. \A v \in notified : Parses(v) => Parses(v)'
    BY DEF Parses
  <2>3. Seq(Waiter) \subseteq Seq(Waiter')
    BY <1>2, <2>2, WaiterGrows
  <2> QED
    BY <2>1, <2>3
<1>4. (notified \cup {fetched}) \ (tasks \cup {Latest}) \in SUBSET (0..Latest)
  <2>1. notified \subseteq 0..Latest /\ fetched \in 0..Latest
    BY <1>1 DEF TypeOK
  <2> QED
    BY <2>1
<1>5. settled' \in [0..MaxVersions -> SUBSET (0..Latest)]
  BY <1>4 DEF Spawn, TypeOK
<1> QED
  BY <1>2, <1>3, <1>5

\* No step of the SDK, of the tasks or of the requests breaks a type.
LEMMA NextType == TypeOK /\ [Next]_vars => TypeOK'
<1> SUFFICES ASSUME TypeOK, [Next]_vars PROVE TypeOK'
  OBVIOUS
<1>0. Latest \in Nat \ {0} /\ Latest \in 1..Latest /\ Latest \in 0..Latest
  BY DEF TypeOK, Latest
<1>w. lock \in Seq(Waiter)
  BY DEF TypeOK, Waiter
<1>k. ASSUME UNCHANGED <<history, notified>> PROVE Waiter' = Waiter /\ Latest' = Latest
  BY <1>k DEF Waiter, Parses, Latest, Writer
<1>1. ASSUME NEW c \in Content, Publish(c) PROVE TypeOK'
  <2>1. /\ history' \in Seq(Content) /\ Latest' = Latest + 1 /\ Latest < MaxVersions
        /\ \A v \in notified : Parses(v) => Parses(v)'
    BY <1>1, PublishKeeps DEF Publish, Latest, TypeOK
  <2>2. 0..Latest \subseteq 0..Latest' /\ 1..Latest \subseteq 1..Latest'
    BY <1>0, <2>1
  <2>3. Seq(0..Latest) \subseteq Seq(0..Latest')
    BY <2>2, SeqMonotonic
  <2>4. reads' \in [Request -> Seq(0..Latest')]
    BY <1>1, <2>3 DEF Publish, TypeOK
  <2>5. Len(history') \in 1..MaxVersions
    BY <1>0, <2>1, NacosAssumption DEF Latest
  <2>6. lock' \in Seq(Waiter')
    BY <1>1, <1>w, <2>1, WaiterGrows DEF Publish
  <2>7. settled' \in [0..MaxVersions -> SUBSET (0..Latest')]
    BY <1>1, <2>2 DEF Publish, TypeOK
  <2> QED
    BY <1>1, <2>1, <2>2, <2>4, <2>5, <2>6, <2>7 DEF Publish, TypeOK, Waiter
<1>2. CASE Notify
  <2>1. Latest' = Latest
    BY <1>2 DEF Notify, Latest
  <2>2. /\ tasks' \subseteq notified' /\ notified' \subseteq 1..Latest /\ lock' \in Seq(Waiter')
        /\ settled' \in [0..MaxVersions -> SUBSET (0..Latest)]
    BY <1>2, SpawnType DEF Notify
  <2> QED
    BY <1>0, <1>2, <2>1, <2>2 DEF Notify, TypeOK, Waiter
<1>3. CASE GetConfig
  BY <1>0, <1>3 DEF GetConfig, TypeOK, Latest, Parses, Writer
<1>4. CASE SetInitial
  BY <1>0, <1>4 DEF SetInitial, TypeOK, Latest, Parses, Writer
<1>5. CASE AddListener
  <2>1. Latest' = Latest
    BY <1>5 DEF AddListener, Latest
  <2>2. /\ tasks' \subseteq notified' /\ notified' \subseteq 1..Latest /\ lock' \in Seq(Waiter')
        /\ settled' \in [0..MaxVersions -> SUBSET (0..Latest)]
    <3>1. CASE Spawn(Latest)
      BY <1>5, <3>1, SpawnType DEF AddListener
    <3>2. CASE UNCHANGED <<tasks, notified, settled>>
      BY <1>5, <1>w, <1>k, <3>2 DEF AddListener, TypeOK
    <3> QED
      BY <1>5, <3>1, <3>2 DEF AddListener
  <2> QED
    BY <1>0, <1>5, <2>1, <2>2 DEF AddListener, TypeOK, Waiter
<1>6. CASE BootFails
  BY <1>0, <1>6 DEF BootFails, TypeOK, Latest, Parses, Writer
<1>7. ASSUME NEW v \in tasks, Task(v) PROVE TypeOK'
  <2>1. v \in 0..Latest
    BY <1>0 DEF TypeOK
  <2>2. CASE Drop(v)
    BY <1>0, <2>2 DEF Drop, TypeOK, Latest, Parses, Writer
  <2>3. CASE AwaitWrite(v)
    <3>1. Writer(v) \in Waiter
      BY <2>3 DEF AwaitWrite, Waiter, TypeOK
    <3>2. lock' \in Seq(Waiter)
      BY <1>w, <2>3, <3>1, JoinKeeps DEF AwaitWrite
    <3> QED
      BY <1>0, <1>k, <2>3, <3>2 DEF AwaitWrite, TypeOK, Waiter
  <2>4. CASE Apply(v)
    <3>1. lock' \in Seq(Waiter)
      BY <2>4, WriterParses DEF Apply
    <3> QED
      BY <1>0, <1>k, <2>1, <2>4, <3>1 DEF Apply, TypeOK, Waiter
  <2> QED
    BY <1>7, <2>2, <2>3, <2>4 DEF Task
<1>8. ASSUME NEW r \in Request, Arrive(r) PROVE TypeOK'
  <2>1. lock' \in Seq(Waiter)
    BY <1>8, <1>w, JoinKeeps, <<"reading", r>> \in Waiter DEF Arrive, Waiter
  <2> QED
    BY <1>0, <1>k, <1>8, <2>1 DEF Arrive, TypeOK, Waiter
<1>9. ASSUME NEW r \in Request, Handle(r) PROVE TypeOK'
  <2>1. ASSUME NEW then \in {"building", "answered"}, Read(r, then), Release(Reader(r)) PROVE TypeOK'
    <3>1. reads' \in [Request -> Seq(0..Latest)]
      BY <2>1, ReadAppends DEF Read
    <3>2. lock' \in Seq(Waiter)
      BY <2>1, <1>w, ReleaseKeeps
    <3> QED
      BY <1>0, <1>k, <2>1, <3>1, <3>2 DEF Read, TypeOK, Waiter
  <2>2. CASE FirstRead(r)
    BY <2>1, <2>2 DEF FirstRead
  <2>3. CASE SecondRead(r)
    BY <2>1, <2>3 DEF SecondRead
  <2>4. CASE BuildFails(r)
    BY <1>0, <2>4 DEF BuildFails, TypeOK, Latest, Parses, Writer
  <2>5. CASE AwaitSecond(r)
    <3>1. lock' \in Seq(Waiter)
      BY <2>5, <1>w, JoinKeeps, <<"rereading", r>> \in Waiter DEF AwaitSecond, Waiter
    <3> QED
      BY <1>0, <1>k, <2>5, <3>1 DEF AwaitSecond, TypeOK, Waiter
  <2> QED
    BY <1>9, <2>2, <2>3, <2>4, <2>5 DEF Handle
<1>10. CASE UNCHANGED vars
  BY <1>10 DEF vars, TypeOK, Latest, Parses, Writer
<1> QED
  BY <1>1, <1>2, <1>3, <1>4, <1>5, <1>6, <1>7, <1>8, <1>9, <1>10 DEF Next

\* Every version fetched, reported, spawned, stored or read is a published one or
\* the default, and only contents that parse come to the lock.
THEOREM TypeCorrect == Spec => []TypeOK
<1> QED
  BY InitType, NextType, PTL DEF Spec

-----------------------------------------------------------------------------
(* Start-up                                                                *)

\* The strengthening that is inductive: nothing is spawned or read before init_nacos
\* is done, and from its first write on the global holds a content that parses.
BootOrder ==
  /\ boot \in {"set", "serving"} => Parses(global)
  /\ boot # "serving" =>
       tasks = {} /\ notified = {} /\ \A r \in Request : pc[r] = "idle" /\ reads[r] = <<>>

\* The process starts with nothing spawned, no request and the boot not done.
LEMMA BootInit == Init => BootOrder
BY DEF Init, BootOrder

\* A parse precedes every write of the global, and the listener precedes the server.
LEMMA BootNext == TypeOK /\ BootOrder /\ [Next]_vars => BootOrder'
<1> SUFFICES ASSUME TypeOK, BootOrder, [Next]_vars PROVE BootOrder'
  OBVIOUS
<1>0. global \in 0..Latest
  BY DEF TypeOK
<1>1. ASSUME NEW c \in Content, Publish(c) PROVE BootOrder'
  BY <1>0, <1>1, PublishKeeps DEF Publish, BootOrder
<1>2. CASE Notify
  BY <1>2 DEF Notify, BootOrder, Parses
<1>3. CASE GetConfig
  BY <1>3 DEF GetConfig, BootOrder, Parses
<1>4. CASE SetInitial
  BY <1>4 DEF SetInitial, BootOrder, Parses
<1>5. CASE AddListener
  BY <1>5 DEF AddListener, BootOrder, Parses
<1>6. CASE BootFails
  BY <1>6 DEF BootFails, BootOrder, Parses
<1>7. ASSUME NEW v \in tasks, Task(v) PROVE BootOrder'
  <2>1. boot = "serving" /\ UNCHANGED <<history, boot>>
    BY <1>7 DEF Task, Drop, AwaitWrite, Apply, BootOrder
  <2>2. global' = global \/ (global' = v /\ Parses(v))
    BY <1>7, WriterParses DEF Task, Drop, AwaitWrite, Apply
  <2> QED
    BY <2>1, <2>2 DEF BootOrder, Parses
<1>8. ASSUME NEW r \in Request, Arrive(r) PROVE BootOrder'
  BY <1>8 DEF Arrive, BootOrder, Parses
<1>9. ASSUME NEW r \in Request, Handle(r) PROVE BootOrder'
  <2>1. pc[r] # "idle" /\ UNCHANGED <<history, boot, tasks, global, notified>>
    BY <1>9 DEF Handle, FirstRead, SecondRead, BuildFails, AwaitSecond, Read
  <2> QED
    BY <2>1 DEF BootOrder, Parses
<1>10. CASE UNCHANGED vars
  BY <1>10 DEF vars, BootOrder, Parses
<1> QED
  BY <1>1, <1>2, <1>3, <1>4, <1>5, <1>6, <1>7, <1>8, <1>9, <1>10 DEF Next

\* The start-up order holds in every reachable state.
LEMMA BootOrdered == Spec => []BootOrder
BY TypeCorrect, BootInit, BootNext, PTL DEF Spec

\* Once the server listens, no request is ever served with the empty default.
THEOREM DefaultNeverServed == Spec => []NeverServesDefault
<1>1. BootOrder => NeverServesDefault
  BY DEF BootOrder, NeverServesDefault, Parses
<1> QED
  BY <1>1, BootOrdered, PTL

-----------------------------------------------------------------------------
(* Panics                                                                  *)

\* The strengthening that is inductive: a request that panicked has read something,
\* and the last it read was a published content without rpcs.
PanicCause ==
  \A r \in Request : pc[r] = "panicked" =>
    /\ Len(reads[r]) > 0
    /\ reads[r][Len(reads[r])] > 0
    /\ history[reads[r][Len(reads[r])]] = "no_rpcs"

\* No request has panicked at the start.
LEMMA PanicInit == Init => PanicCause
BY DEF Init, PanicCause

\* A read that panics found a global that parses and lists no rpcs.
LEMMA PanicNext == TypeOK /\ BootOrder /\ PanicCause /\ [Next]_vars => PanicCause'
<1> SUFFICES ASSUME TypeOK, BootOrder, PanicCause, [Next]_vars,
                    NEW s \in Request, pc'[s] = "panicked"
             PROVE  /\ Len(reads'[s]) > 0
                    /\ reads'[s][Len(reads'[s])] > 0
                    /\ history'[reads'[s][Len(reads'[s])]] = "no_rpcs"
  BY DEF PanicCause
<1> DEFINE Caused == /\ Len(reads'[s]) > 0
                     /\ reads'[s][Len(reads'[s])] > 0
                     /\ history'[reads'[s][Len(reads'[s])]] = "no_rpcs"
<1>1. ASSUME NEW c \in Content, Publish(c) PROVE Caused
  <2>1. pc[s] = "panicked" /\ reads' = reads
    BY <1>1 DEF Publish
  <2>2. reads[s] \in Seq(0..Latest) /\ Len(reads[s]) \in Nat /\ Len(reads[s]) > 0
    BY <2>1 DEF TypeOK, PanicCause
  <2>3. reads[s][Len(reads[s])] \in 0..Latest
    BY <2>2, Len(reads[s]) \in 1..Len(reads[s]), ElementOfSeq
  <2>4. reads[s][Len(reads[s])] \in 1..Latest
    BY <2>1, <2>3 DEF PanicCause
  <2> QED
    BY <1>1, <2>1, <2>4, PublishKeeps DEF Publish, PanicCause
<1>2. CASE pc' = pc /\ UNCHANGED <<history, reads>>
  BY <1>2 DEF PanicCause
<1>3. ASSUME NEW r \in Request, Arrive(r) PROVE Caused
  BY <1>3 DEF Arrive, PanicCause, TypeOK
<1>4. ASSUME NEW r \in Request, BuildFails(r) \/ AwaitSecond(r) PROVE Caused
  BY <1>4 DEF BuildFails, AwaitSecond, PanicCause, TypeOK
<1>5. ASSUME NEW r \in Request, NEW then \in {"building", "answered"}, pc[r] # "idle", Read(r, then)
      PROVE  Caused
  <2>1. CASE s = r
    <3>1. ~HasRpcs(global)
      BY <1>5, <2>1 DEF Read, TypeOK
    <3>2. boot = "serving" /\ Parses(global) /\ global \in 1..Latest
      BY <1>5 DEF BootOrder, TypeOK, Parses
    <3>3. history[global] = "no_rpcs"
      BY <3>1, <3>2 DEF HasRpcs, Parses, TypeOK, Content, Latest
    <3>4. Len(reads[r]) \in Nat
      BY DEF TypeOK
    <3>5. Len(reads'[r]) = Len(reads[r]) + 1 /\ reads'[r][Len(reads'[r])] = global
      BY <1>5, ReadAppends DEF Read
    <3>6. Len(reads'[s]) > 0 /\ reads'[s][Len(reads'[s])] = global
      BY <2>1, <3>4, <3>5
    <3> QED
      BY <1>5, <3>2, <3>3, <3>6 DEF Read
  <2>2. CASE s # r
    <3>1. pc[s] = "panicked" /\ reads'[s] = reads[s] /\ history' = history
      BY <1>5, <2>2, ReadAppends DEF Read, TypeOK
    <3> QED
      BY <3>1 DEF PanicCause
  <2> QED
    BY <2>1, <2>2
<1>6. ASSUME NEW r \in Request, Handle(r) PROVE Caused
  <2>1. CASE FirstRead(r)
    BY <1>5, <2>1 DEF FirstRead
  <2>2. CASE SecondRead(r)
    BY <1>5, <2>2 DEF SecondRead
  <2> QED
    BY <1>4, <1>6, <2>1, <2>2 DEF Handle
<1> QED
  BY <1>1, <1>2, <1>3, <1>6
     DEF Next, vars, Notify, GetConfig, SetInitial, AddListener, BootFails, Task, Drop, AwaitWrite, Apply

\* A handler only panics because the operator published an empty rpcs list.
THEOREM PanicsHaveOneCause == Spec => []PanicOnlyOnEmptyRpcs
<1>1. PanicCause => PanicOnlyOnEmptyRpcs
  BY DEF PanicCause, PanicOnlyOnEmptyRpcs
<1> QED
  BY <1>1, TypeCorrect, BootOrdered, PanicInit, PanicNext, PTL DEF Spec

-----------------------------------------------------------------------------
(* Order of the configurations                                             *)

\* What was over when a task was spawned never comes back: it is no pending task, and
\* was notified, or fetched, before.
SettledIsOver ==
  \A v \in 0..MaxVersions :
    /\ settled[v] \cap (tasks \cup {v}) = {}
    /\ settled[v] \subseteq notified \cup {fetched}
    /\ v \notin notified => settled[v] = {}
    /\ v \in notified => fetched \in notified \/ fetched \in settled[v]

\* What the SDK has reported is not newer than what it says it has, so it never reports
\* a version twice.
HeardIsNewest ==
  boot = "serving" =>
    /\ notified \subseteq 1..heard /\ fetched <= heard
    /\ heard \in notified \/ notified = {}

\* The global holds the fetched version or one that a task wrote, and nothing that was
\* over when the task of one that is applied, or that a request has read, was spawned.
GlobalMovesOn ==
  /\ boot \in {"set", "serving"} => global \in notified \cup {fetched}
  /\ boot = "serving" => \A v \in notified \ tasks : Parses(v) => global \notin settled[v]
  /\ \A r \in Request : \A i \in 1..Len(reads[r]) :
       /\ reads[r][i] \in notified \cup {fetched}
       /\ global \notin settled[reads[r][i]]

\* The strengthening that is inductive.
InOrder == SettledIsOver /\ HeardIsNewest /\ GlobalMovesOn /\ ReadsForward

\* Nothing is pending, applied or read at the start.
LEMMA OrderInit == Init => InOrder
BY DEF Init, InOrder, SettledIsOver, HeardIsNewest, GlobalMovesOn, ReadsForward

\* A step that leaves the versions alone leaves their order alone.
LEMMA OrderKept ==
  ASSUME TypeOK, InOrder, UNCHANGED <<history, boot, fetched, heard, global, reads, notified, settled>>,
         tasks' = tasks
  PROVE  InOrder'
BY DEF InOrder, SettledIsOver, HeardIsNewest, GlobalMovesOn, ReadsForward, Parses

\* The task of a version nobody has seen starts after all that is over.
LEMMA SpawnInOrder ==
  ASSUME TypeOK, BootOrder, InOrder, Spawn(Latest), heard' = Latest, boot' = "serving",
         UNCHANGED <<history, fetched, global, reads>>,
         \/ boot = "set"
         \/ boot = "serving" /\ heard < Latest
  PROVE  InOrder'
<1>1. /\ Latest \in 1..Latest /\ Latest \in 0..MaxVersions /\ Latest \in Nat
      /\ fetched \in Nat /\ heard \in Nat /\ fetched <= Latest
      /\ notified \subseteq 1..Latest /\ tasks \subseteq notified
      /\ \A v \in notified : v \in 0..MaxVersions
      /\ fetched \in 0..MaxVersions
  BY NacosAssumption DEF TypeOK, Latest
<1>2. Latest \notin notified
  BY <1>1 DEF BootOrder, InOrder, HeardIsNewest
<1>3. \A v \in 0..MaxVersions : Latest \notin settled[v]
  <2>1. CASE boot = "set"
    BY <2>1 DEF BootOrder, InOrder, SettledIsOver
  <2>2. CASE boot = "serving" /\ heard < Latest
    <3>1. Latest # fetched
      BY <1>1, <2>2 DEF InOrder, HeardIsNewest
    <3> QED
      BY <1>2, <3>1 DEF InOrder, SettledIsOver
  <2> QED
    BY <2>1, <2>2
<1>4. /\ tasks' = tasks \cup {Latest} /\ notified' = notified \cup {Latest}
      /\ settled'[Latest] = (notified \cup {fetched}) \ (tasks \cup {Latest})
      /\ \A v \in (0..MaxVersions) \ {Latest} : settled'[v] = settled[v]
  BY <1>1 DEF Spawn, TypeOK
<1>5. SettledIsOver'
  <2> SUFFICES ASSUME NEW v \in 0..MaxVersions
               PROVE  /\ settled'[v] \cap (tasks' \cup {v}) = {}
                      /\ settled'[v] \subseteq notified' \cup {fetched'}
                      /\ v \notin notified' => settled'[v] = {}
                      /\ v \in notified' => fetched' \in notified' \/ fetched' \in settled'[v]
    BY DEF SettledIsOver
  <2>1. CASE v = Latest
    BY <1>1, <1>4, <2>1
  <2>2. CASE v # Latest
    BY <1>3, <1>4, <2>2 DEF InOrder, SettledIsOver
  <2> QED
    BY <2>1, <2>2
<1>6. HeardIsNewest'
  BY <1>1, <1>4 DEF HeardIsNewest
<1>7. GlobalMovesOn'
  <2>1. global' \in notified' \cup {fetched'}
    BY <1>4 DEF InOrder, GlobalMovesOn
  <2>2. ASSUME NEW v \in notified' \ tasks', Parses(v)' PROVE global' \notin settled'[v]
    <3>1. v \in notified \ tasks /\ v # Latest /\ Parses(v) /\ settled'[v] = settled[v]
      BY <1>1, <1>4, <2>2 DEF Parses
    <3>2. boot = "serving"
      BY <3>1 DEF BootOrder
    <3> QED
      BY <3>1, <3>2 DEF InOrder, GlobalMovesOn
  <2>3. ASSUME NEW r \in Request, NEW i \in 1..Len(reads'[r])
        PROVE  reads'[r][i] \in notified' \cup {fetched'} /\ global' \notin settled'[reads'[r][i]]
    <3>1. i \in 1..Len(reads[r]) /\ reads'[r][i] = reads[r][i]
      BY <2>3
    <3>2. boot = "serving"
      BY <3>1 DEF BootOrder
    <3>3. reads[r][i] \in notified \cup {fetched} /\ global \notin settled[reads[r][i]]
      BY <3>1 DEF InOrder, GlobalMovesOn
    <3>4. Latest # fetched
      BY <1>1, <3>2 DEF InOrder, HeardIsNewest
    <3>5. settled'[reads[r][i]] = settled[reads[r][i]]
      BY <1>1, <1>2, <1>4, <3>3, <3>4
    <3> QED
      BY <1>4, <3>1, <3>3, <3>5
  <2> QED
    BY <2>1, <2>2, <2>3 DEF GlobalMovesOn
<1>8. ReadsForward'
  <2> SUFFICES ASSUME NEW r \in Request, Len(reads[r]) = 2
               PROVE  reads[r][2] \notin settled'[reads[r][1]]
    BY DEF ReadsForward
  <2>1. 1 \in 1..Len(reads[r])
    OBVIOUS
  <2>2. boot = "serving"
    BY <2>1 DEF BootOrder
  <2>3. reads[r][1] \in notified \cup {fetched} /\ reads[r][2] \notin settled[reads[r][1]]
    BY <2>1 DEF InOrder, GlobalMovesOn, ReadsForward
  <2>4. Latest # fetched
    BY <1>1, <2>2 DEF InOrder, HeardIsNewest
  <2> QED
    BY <1>1, <1>2, <1>4, <2>3, <2>4
<1> QED
  BY <1>5, <1>6, <1>7, <1>8 DEF InOrder

\* A task that writes was pending, so it was not over when any other was spawned.
LEMMA ApplyInOrder ==
  ASSUME TypeOK, InOrder, NEW v \in tasks, Apply(v)
  PROVE  InOrder'
<1>1. /\ v \in notified /\ v \in 0..MaxVersions /\ tasks' = tasks \ {v} /\ global' = v
      /\ UNCHANGED <<history, boot, fetched, heard, reads, notified, settled>>
      /\ \A w \in notified \cup {fetched} : w \in 0..MaxVersions
  BY NacosAssumption DEF Apply, TypeOK, Latest
<1>2. \A w \in 0..MaxVersions : v \notin settled[w]
  BY DEF InOrder, SettledIsOver
<1>3. SettledIsOver' /\ HeardIsNewest' /\ ReadsForward'
  BY <1>1 DEF InOrder, SettledIsOver, HeardIsNewest, ReadsForward
<1>4. GlobalMovesOn'
  BY <1>1, <1>2 DEF InOrder, GlobalMovesOn
<1> QED
  BY <1>3, <1>4 DEF InOrder

\* A read is of the global, which has moved on from what the request read before.
LEMMA ReadInOrder ==
  ASSUME TypeOK, BootOrder, InOrder, NEW r \in Request, NEW then, pc[r] # "idle", Read(r, then),
         tasks' = tasks
  PROVE  InOrder'
<1>1. /\ Len(reads[r]) \in Nat
      /\ Len(reads'[r]) = Len(reads[r]) + 1
      /\ reads'[r][Len(reads'[r])] = global
      /\ \A i \in 1..Len(reads[r]) : reads'[r][i] = reads[r][i]
      /\ \A s \in Request \ {r} : reads'[s] = reads[s]
  BY ReadAppends DEF Read, TypeOK
<1>2. UNCHANGED <<history, boot, fetched, heard, global, notified, settled>>
  BY DEF Read
<1>3. boot = "serving" /\ global \in notified \cup {fetched} /\ global \in 0..MaxVersions
  BY NacosAssumption DEF BootOrder, InOrder, GlobalMovesOn, TypeOK, Latest
<1>4. global \notin settled[global]
  BY <1>3 DEF InOrder, SettledIsOver
<1>5. ASSUME NEW s \in Request, NEW i \in 1..Len(reads'[s])
      PROVE  reads'[s][i] \in notified \cup {fetched} /\ global \notin settled[reads'[s][i]]
  <2>1. CASE s # r
    BY <1>1, <1>5, <2>1 DEF InOrder, GlobalMovesOn
  <2>2. CASE s = r /\ i = Len(reads'[r])
    BY <1>1, <1>3, <1>4, <2>2
  <2>3. CASE s = r /\ i # Len(reads'[r])
    <3>1. i \in 1..Len(reads[r])
      BY <1>1, <1>5, <2>3
    <3> QED
      BY <1>1, <2>3, <3>1 DEF InOrder, GlobalMovesOn
  <2> QED
    BY <2>1, <2>2, <2>3
<1>6. ASSUME NEW s \in Request, Len(reads'[s]) = 2
      PROVE  reads'[s][2] \notin settled[reads'[s][1]]
  <2>1. CASE s # r
    BY <1>1, <1>6, <2>1 DEF InOrder, ReadsForward
  <2>2. CASE s = r
    <3>1. reads'[r][2] = global /\ 1 \in 1..Len(reads'[r])
      BY <1>1, <1>6, <2>2
    <3> QED
      BY <1>5, <2>2, <3>1
  <2> QED
    BY <2>1, <2>2
<1>7. SettledIsOver' /\ HeardIsNewest'
  BY <1>2 DEF InOrder, SettledIsOver, HeardIsNewest
<1>8. GlobalMovesOn'
  BY <1>2, <1>5 DEF InOrder, GlobalMovesOn, Parses
<1>9. ReadsForward'
  BY <1>2, <1>6 DEF ReadsForward
<1> QED
  BY <1>7, <1>8, <1>9 DEF InOrder

\* No step brings back what was over.
LEMMA OrderNext == TypeOK /\ BootOrder /\ InOrder /\ [Next]_vars => InOrder'
<1> SUFFICES ASSUME TypeOK, BootOrder, InOrder, [Next]_vars PROVE InOrder'
  OBVIOUS
<1>1. ASSUME NEW c \in Content, Publish(c) PROVE InOrder'
  <2>1. \A u \in notified : Parses(u)' <=> Parses(u)
    BY <1>1, PublishKeeps DEF Publish, TypeOK
  <2>2. UNCHANGED <<boot, fetched, heard, tasks, global, reads, notified, settled>>
    BY <1>1 DEF Publish
  <2> QED
    BY <2>1, <2>2 DEF InOrder, SettledIsOver, HeardIsNewest, GlobalMovesOn, ReadsForward
<1>2. CASE Notify
  BY <1>2, SpawnInOrder DEF Notify
<1>3. CASE GetConfig
  BY <1>3 DEF GetConfig, BootOrder, InOrder, SettledIsOver, HeardIsNewest, GlobalMovesOn, ReadsForward
<1>4. CASE SetInitial
  BY <1>4 DEF SetInitial, BootOrder, InOrder, SettledIsOver, HeardIsNewest, GlobalMovesOn, ReadsForward
<1>5. CASE AddListener
  <2>1. CASE UNCHANGED <<tasks, notified, settled>>
    <3>1. fetched <= Latest /\ notified = {}
      BY <1>5 DEF AddListener, BootOrder, TypeOK
    <3> QED
      BY <1>5, <2>1, <3>1
         DEF AddListener, BootOrder, InOrder, SettledIsOver, HeardIsNewest, GlobalMovesOn, ReadsForward
  <2>2. CASE Spawn(Latest)
    BY <1>5, <2>2, SpawnInOrder DEF AddListener
  <2> QED
    BY <1>5, <2>1, <2>2 DEF AddListener
<1>6. CASE BootFails
  BY <1>6 DEF BootFails, BootOrder, InOrder, SettledIsOver, HeardIsNewest, GlobalMovesOn, ReadsForward
<1>7. ASSUME NEW v \in tasks, Task(v) PROVE InOrder'
  <2>1. CASE Drop(v)
    <3>1. /\ ~Parses(v) /\ tasks' = tasks \ {v}
          /\ UNCHANGED <<history, boot, fetched, heard, global, reads, notified, settled>>
      BY <2>1 DEF Drop
    <3> QED
      BY <3>1 DEF InOrder, SettledIsOver, HeardIsNewest, GlobalMovesOn, ReadsForward, Parses
  <2>2. CASE AwaitWrite(v)
    BY <2>2, OrderKept DEF AwaitWrite
  <2>3. CASE Apply(v)
    BY <2>3, ApplyInOrder
  <2> QED
    BY <1>7, <2>1, <2>2, <2>3 DEF Task
<1>8. ASSUME NEW r \in Request, Arrive(r) PROVE InOrder'
  BY <1>8, OrderKept DEF Arrive
<1>9. ASSUME NEW r \in Request, Handle(r) PROVE InOrder'
  <2>1. CASE BuildFails(r) \/ AwaitSecond(r)
    BY <2>1, OrderKept DEF BuildFails, AwaitSecond
  <2>2. CASE FirstRead(r)
    BY <2>2, ReadInOrder DEF FirstRead, Read
  <2>3. CASE SecondRead(r)
    BY <2>3, ReadInOrder DEF SecondRead, Read
  <2> QED
    BY <1>9, <2>1, <2>2, <2>3 DEF Handle
<1>10. CASE UNCHANGED vars
  BY <1>10, OrderKept DEF vars
<1> QED
  BY <1>1, <1>2, <1>3, <1>4, <1>5, <1>6, <1>7, <1>8, <1>9, <1>10 DEF Next

\* The order holds in every reachable state.
LEMMA Ordered == Spec => []InOrder
BY TypeCorrect, BootOrdered, OrderInit, OrderNext, PTL DEF Spec

\* Once the task of a version has written, what was over before it is never served.
THEOREM NothingOldReturns == Spec => []OldNeverReturns
<1>1. InOrder => OldNeverReturns
  BY DEF InOrder, GlobalMovesOn, OldNeverReturns
<1> QED
  BY <1>1, Ordered, PTL

\* The newest content is served unless an older task overlapped with its own, or nothing
\* was ever notified.
THEOREM OnlyTwoWaysToMiss == Spec => []NewestServed
<1>1. TypeOK /\ InOrder => NewestServed
  <2> SUFFICES ASSUME TypeOK, InOrder, boot = "serving", tasks = {}, heard = Latest, Parses(Latest)
               PROVE  \/ global \in notified \ settled[Latest]
                      \/ global = fetched /\ notified = {}
    BY DEF NewestServed
  <2>1. global \in notified \cup {fetched} /\ Latest \in 0..MaxVersions
    BY NacosAssumption DEF InOrder, GlobalMovesOn, TypeOK, Latest
  <2>2. CASE notified = {}
    BY <2>1, <2>2
  <2>3. CASE notified # {}
    <3>1. Latest \in notified
      BY <2>3 DEF InOrder, HeardIsNewest
    <3>2. global \notin settled[Latest]
      BY <3>1 DEF InOrder, GlobalMovesOn
    <3>3. fetched \in notified \/ fetched \in settled[Latest]
      BY <2>1, <3>1 DEF InOrder, SettledIsOver
    <3> QED
      BY <2>1, <3>2, <3>3
  <2> QED
    BY <2>2, <2>3
<1> QED
  BY <1>1, TypeCorrect, Ordered, PTL

\* A swap is never built with what was over when the configuration its pool was read
\* with was notified.
THEOREM SecondReadMovesOn == Spec => []ReadsForward
<1>1. InOrder => ReadsForward
  BY DEF InOrder
<1> QED
  BY <1>1, Ordered, PTL

-----------------------------------------------------------------------------
(* The watcher's invariant                                                 *)

\* A version that a task works on was published, and no task runs before the listener
\* is registered.
WatcherTasks ==
  /\ w_history \in Seq(W!Content) /\ W!Latest \in 1..WatcherVersions
  /\ w_heard \in 0..W!Latest /\ w_config \in 0..W!Latest
  /\ w_waiting \subseteq w_notified /\ w_notified \subseteq 1..W!Latest
  /\ w_boot # "watching" => w_waiting = {} /\ w_notified = {} /\ w_holder = 0

\* While the lock is held the config is the holder's; once it is free, whoever listened
\* when the config was written has it in the channel too.
WatcherChannel ==
  /\ w_audience \subseteq w_receivers
  /\ w_holder = 0 => ~w_counted /\ (w_audience # {} => w_channel = w_config)
  /\ w_holder # 0 => w_config = w_holder

\* What was over when a task was spawned is no pending task and no version still to be
\* reported, and the config is not among it once that task has written.
WatcherInOrder ==
  /\ w_settled \in [0..WatcherVersions -> SUBSET Nat]
  /\ \A v \in 0..WatcherVersions :
       /\ w_settled[v] \cap (w_waiting \cup {v}) = {}
       /\ w_settled[v] \subseteq 0..w_heard
       /\ v \notin w_notified => w_settled[v] = {}
  /\ w_boot = "watching" =>
       /\ w_notified \subseteq 1..w_heard /\ w_config <= w_heard
       /\ \A v \in w_notified \ w_waiting : W!Parses(v) => w_config \notin w_settled[v]

WatcherInv == WatcherTasks /\ WatcherChannel /\ WatcherInOrder

\* Nothing is notified or locked at the start.
LEMMA WatcherInit == W!Init => WatcherInv
<1> SUFFICES ASSUME W!Init PROVE WatcherInv
  OBVIOUS
<1>1. PICK c \in W!Content : w_history = <<c>>
  BY DEF W!Init
<1>2. w_history \in Seq(W!Content) /\ W!Latest = 1 /\ 1 \in 1..WatcherVersions
  BY <1>1, WatcherAssumption DEF W!Latest
<1>3. /\ w_waiting = {} /\ w_notified = {} /\ w_audience = {} /\ w_receivers = {}
      /\ w_holder = 0 /\ w_heard = 0 /\ w_counted = FALSE /\ w_config = 0 /\ w_boot = "start"
      /\ w_settled = [v \in 0..WatcherVersions |-> {}]
  BY DEF W!Init
<1>4. WatcherTasks
  BY <1>2, <1>3 DEF WatcherTasks
<1>5. WatcherChannel /\ WatcherInOrder
  BY <1>3 DEF WatcherChannel, WatcherInOrder
<1> QED
  BY <1>4, <1>5 DEF WatcherInv

\* Publishing leaves what was published before in place.
LEMMA WatcherPublishKeeps ==
  ASSUME WatcherTasks, NEW c \in W!Content, w_history' = Append(w_history, c)
  PROVE  /\ w_history' \in Seq(W!Content) /\ W!Latest' = W!Latest + 1
         /\ \A v \in 1..W!Latest : W!Parses(v)' <=> W!Parses(v)
<1>1. /\ w_history' \in Seq(W!Content) /\ W!Latest' = W!Latest + 1
      /\ \A v \in 1..W!Latest : w_history'[v] = w_history[v]
  BY DEF WatcherTasks, W!Latest
<1> QED
  BY <1>1 DEF W!Parses

-----------------------------------------------------------------------------
(* Each step of the watcher                                                *)

\* What was published is still there.
LEMMA WatcherPublishes == ASSUME WatcherInv, NEW c \in W!Content, W!Publish(c) PROVE WatcherInv'
<1>1. /\ w_history' \in Seq(W!Content) /\ W!Latest' = W!Latest + 1
      /\ \A v \in 1..W!Latest : W!Parses(v)' <=> W!Parses(v)
  BY WatcherPublishKeeps DEF W!Publish, WatcherInv
<1>2. W!Latest' \in 1..WatcherVersions /\ 0..W!Latest \subseteq 0..W!Latest' /\ 1..W!Latest \subseteq 1..W!Latest'
  BY <1>1, WatcherAssumption DEF W!Publish, WatcherInv, WatcherTasks
<1>3. WatcherTasks'
  BY <1>1, <1>2 DEF W!Publish, WatcherInv, WatcherTasks
<1>4. WatcherChannel'
  BY DEF W!Publish, WatcherInv, WatcherChannel
<1>5. WatcherInOrder'
  <2>1. \A v \in w_notified : W!Parses(v)' <=> W!Parses(v)
    BY <1>1 DEF WatcherInv, WatcherTasks
  <2> QED
    BY <2>1 DEF W!Publish, WatcherInv, WatcherInOrder
<1> QED
  BY <1>3, <1>4, <1>5 DEF WatcherInv

\* A task is spawned for a version nobody has seen, after all that is over.
LEMMA WatcherSpawns ==
  ASSUME WatcherInv, W!Spawn(W!Latest), w_heard' = W!Latest, w_boot' = "watching",
         UNCHANGED <<w_history, w_holder, w_counted, w_config, w_channel, w_receivers, w_audience>>,
         \/ w_boot = "made"
         \/ w_boot = "watching" /\ w_heard < W!Latest
  PROVE  WatcherInv'
<1>1. /\ W!Latest' = W!Latest /\ (\A v : W!Parses(v)' <=> W!Parses(v))
      /\ W!Latest \in 1..W!Latest /\ W!Latest \in 0..WatcherVersions /\ W!Latest \in Nat
  BY DEF W!Latest, W!Parses, WatcherInv, WatcherTasks
<1>2. WatcherTasks'
  BY <1>1 DEF W!Spawn, WatcherInv, WatcherTasks
<1>3. WatcherChannel'
  BY DEF WatcherInv, WatcherChannel
<1>4. /\ w_waiting' = w_waiting \cup {W!Latest} /\ w_notified' = w_notified \cup {W!Latest}
      /\ w_settled' = [w_settled EXCEPT ![W!Latest] = (w_notified \cup {w_config}) \ (w_waiting \cup {W!Latest})]
  BY DEF W!Spawn
<1>5. (w_notified \cup {w_config}) \ (w_waiting \cup {W!Latest}) \in SUBSET (0..W!Latest)
  BY <1>1 DEF WatcherInv, WatcherTasks
<1>6. /\ w_settled' \in [0..WatcherVersions -> SUBSET Nat]
      /\ w_settled'[W!Latest] = (w_notified \cup {w_config}) \ (w_waiting \cup {W!Latest})
      /\ \A v \in (0..WatcherVersions) \ {W!Latest} : w_settled'[v] = w_settled[v]
  <2>1. 0..W!Latest \subseteq Nat
    BY <1>1
  <2> QED
    BY <1>1, <1>4, <1>5, <2>1 DEF WatcherInv, WatcherInOrder
<1>7. \A v \in 0..WatcherVersions : W!Latest \notin w_settled[v]
  <2>1. CASE w_boot = "made"
    BY <2>1 DEF WatcherInv, WatcherTasks, WatcherInOrder
  <2>2. CASE w_boot = "watching" /\ w_heard < W!Latest
    <3>1. w_heard \in Nat /\ W!Latest \notin 0..w_heard
      BY <1>1, <2>2 DEF WatcherInv, WatcherTasks
    <3> QED
      BY <3>1 DEF WatcherInv, WatcherInOrder
  <2> QED
    BY <2>1, <2>2
<1>8. W!Latest \notin w_notified
  <2>1. CASE w_boot = "made"
    BY <2>1 DEF WatcherInv, WatcherTasks
  <2>2. CASE w_boot = "watching" /\ w_heard < W!Latest
    BY <1>1, <2>2 DEF WatcherInv, WatcherTasks, WatcherInOrder
  <2> QED
    BY <2>1, <2>2
<1>9. ASSUME NEW v \in 0..WatcherVersions
      PROVE  /\ w_settled'[v] \cap (w_waiting' \cup {v}) = {}
             /\ w_settled'[v] \subseteq 0..w_heard'
             /\ v \notin w_notified' => w_settled'[v] = {}
  <2>1. CASE v = W!Latest
    BY <1>4, <1>5, <1>6, <2>1
  <2>2. CASE v # W!Latest
    <3>1. w_settled[v] \cap (w_waiting \cup {v}) = {} /\ (v \notin w_notified => w_settled[v] = {})
      BY DEF WatcherInv, WatcherInOrder
    <3>2. w_settled[v] \subseteq 0..w_heard /\ w_heard \in 0..W!Latest
      BY DEF WatcherInv, WatcherTasks, WatcherInOrder
    <3>3. w_settled[v] \subseteq 0..W!Latest
      BY <1>1, <3>2
    <3> QED
      BY <1>4, <1>6, <1>7, <2>2, <3>1, <3>3
  <2> QED
    BY <2>1, <2>2
<1>10. w_notified' \subseteq 1..w_heard' /\ w_config' <= w_heard'
  BY <1>1, <1>2 DEF WatcherInv, WatcherTasks
<1>11. ASSUME NEW v \in w_notified' \ w_waiting', W!Parses(v)' PROVE w_config' \notin w_settled'[v]
  <2>0. v \in w_notified' /\ v \notin w_waiting' /\ W!Parses(v)'
    BY <1>11
  <2>1. v \in w_notified \ w_waiting /\ v # W!Latest /\ v \in 0..WatcherVersions
    <3>1. v \in w_notified /\ v \notin w_waiting /\ v # W!Latest
      BY <1>4, <2>0
    <3>2. w_notified \subseteq 1..W!Latest /\ W!Latest \in 1..WatcherVersions
      BY DEF WatcherInv, WatcherTasks
    <3> QED
      BY <1>1, <3>1, <3>2, WatcherAssumption
  <2>2. w_boot = "watching"
    BY <2>1 DEF WatcherInv, WatcherTasks
  <2> QED
    BY <1>1, <1>6, <2>0, <2>1, <2>2 DEF WatcherInv, WatcherInOrder
<1>12. WatcherInOrder'
  BY <1>6, <1>9, <1>10, <1>11 DEF WatcherInOrder
<1> QED
  BY <1>2, <1>3, <1>12 DEF WatcherInv

\* The listener hears of the newest version without a task for it.
LEMMA WatcherHears ==
  ASSUME WatcherInv, w_boot = "made", w_boot' = "watching", w_heard' = W!Latest,
         UNCHANGED <<w_history, w_waiting, w_holder, w_counted, w_config, w_channel, w_receivers, w_audience,
                     w_notified, w_settled>>
  PROVE  WatcherInv'
<1>1. W!Latest' = W!Latest /\ W!Latest \in Nat /\ w_waiting = {} /\ w_notified = {} /\ w_holder = 0
      /\ w_config <= W!Latest /\ \A v \in 0..WatcherVersions : w_settled[v] = {}
  BY DEF W!Latest, WatcherInv, WatcherTasks, WatcherInOrder
<1>2. WatcherTasks' /\ WatcherChannel'
  BY <1>1 DEF WatcherInv, WatcherTasks, WatcherChannel
<1>3. WatcherInOrder'
  BY <1>1 DEF WatcherInv, WatcherInOrder
<1> QED
  BY <1>2, <1>3 DEF WatcherInv

\* No step of the SDK, of the tasks or of the receivers breaks it.
LEMMA WatcherNext == WatcherInv /\ [W!Next]_(W!vars) => WatcherInv'
<1> SUFFICES ASSUME WatcherInv, [W!Next]_(W!vars) PROVE WatcherInv'
  OBVIOUS
<1>0. ASSUME UNCHANGED w_history
      PROVE  W!Latest' = W!Latest /\ \A v : W!Parses(v)' <=> W!Parses(v)
  BY <1>0 DEF W!Latest, W!Parses
<1>1. ASSUME NEW c \in W!Content, W!Publish(c) PROVE WatcherInv'
  BY <1>1, WatcherPublishes
<1>2. CASE W!Notify
  BY <1>2, WatcherSpawns DEF W!Notify
<1>3. CASE W!Load
  <2>1. /\ W!Latest' = W!Latest /\ W!Latest \in Nat /\ w_config' \in 0..W!Latest
        /\ w_holder = 0 /\ w_waiting = {} /\ w_notified = {}
    BY <1>0, <1>3 DEF W!Load, WatcherInv, WatcherTasks
  <2>2. WatcherTasks' /\ WatcherChannel' /\ WatcherInOrder'
    BY <1>3, <2>1 DEF W!Load, WatcherInv, WatcherTasks, WatcherChannel, WatcherInOrder
  <2> QED
    BY <2>2 DEF WatcherInv
<1>4. CASE W!AddListener
  <2>1. CASE W!Spawn(W!Latest)
    BY <1>4, <2>1, WatcherSpawns DEF W!AddListener
  <2>2. CASE UNCHANGED <<w_waiting, w_notified, w_settled>>
    BY <1>4, <2>2, WatcherHears DEF W!AddListener
  <2> QED
    BY <1>4, <2>1, <2>2 DEF W!AddListener
<1>5. CASE W!LoadFails
  <2>1. W!Latest' = W!Latest /\ \A v : W!Parses(v)' <=> W!Parses(v)
    BY <1>0, <1>5 DEF W!LoadFails
  <2>2. WatcherTasks' /\ WatcherChannel' /\ WatcherInOrder'
    BY <1>5, <2>1 DEF W!LoadFails, WatcherInv, WatcherTasks, WatcherChannel, WatcherInOrder
  <2> QED
    BY <1>5, <2>2 DEF W!LoadFails, WatcherInv
<1>6. ASSUME NEW v \in w_waiting, W!Drop(v) PROVE WatcherInv'
  <2>1. W!Latest' = W!Latest /\ \A w : W!Parses(w)' <=> W!Parses(w)
    BY <1>0, <1>6 DEF W!Drop
  <2>2. WatcherTasks' /\ WatcherChannel' /\ WatcherInOrder'
    BY <1>6, <2>1 DEF W!Drop, WatcherInv, WatcherTasks, WatcherChannel, WatcherInOrder
  <2> QED
    BY <1>6, <2>2 DEF W!Drop, WatcherInv
<1>7. ASSUME NEW v \in w_waiting, W!Write(v) PROVE WatcherInv'
  <2>1. /\ W!Latest' = W!Latest /\ (\A w : W!Parses(w)' <=> W!Parses(w))
        /\ v \in w_notified /\ v \in Nat \ {0} /\ w_boot = "watching"
    BY <1>0, <1>7 DEF W!Write, WatcherInv, WatcherTasks
  <2>2. WatcherTasks'
    BY <1>7, <2>1 DEF W!Write, WatcherInv, WatcherTasks
  <2>3. WatcherChannel'
    BY <1>7, <2>1 DEF W!Write, WatcherInv, WatcherChannel
  <2>4. WatcherInOrder'
    <3>1. \A w \in 0..WatcherVersions : v \notin w_settled[w]
      BY DEF WatcherInv, WatcherInOrder
    <3>0. w_heard \in Nat /\ W!Latest \in 1..WatcherVersions /\ w_notified \subseteq 1..W!Latest
      BY DEF WatcherInv, WatcherTasks
    <3>2. v <= w_heard /\ \A w \in w_notified : w \in 0..WatcherVersions
      BY <2>1, <3>0, WatcherAssumption DEF WatcherInv, WatcherInOrder
    <3>3. /\ w_waiting' = w_waiting \ {v} /\ w_config' = v
          /\ UNCHANGED <<w_boot, w_heard, w_notified, w_settled>>
      BY <1>7 DEF W!Write
    <3>4. \A w \in w_notified : w_config' \notin w_settled'[w]
      BY <3>1, <3>2, <3>3
    <3>5. \A w \in 0..WatcherVersions : w_settled'[w] \cap (w_waiting' \cup {w}) = {}
      BY <3>3 DEF WatcherInv, WatcherInOrder
    <3>6. w_notified' \subseteq 1..w_heard' /\ w_config' <= w_heard'
      BY <2>1, <3>2, <3>3 DEF WatcherInv, WatcherInOrder
    <3>7. /\ w_settled' \in [0..WatcherVersions -> SUBSET Nat]
          /\ \A w \in 0..WatcherVersions : w_settled'[w] \subseteq 0..w_heard'
          /\ \A w \in 0..WatcherVersions : w \notin w_notified' => w_settled'[w] = {}
      BY <3>3 DEF WatcherInv, WatcherInOrder
    <3>8. \A w \in w_notified' \ w_waiting' : W!Parses(w)' => w_config' \notin w_settled'[w]
      BY <3>3, <3>4
    <3>9. \A w \in 0..WatcherVersions :
            /\ w_settled'[w] \cap (w_waiting' \cup {w}) = {}
            /\ w_settled'[w] \subseteq 0..w_heard'
            /\ w \notin w_notified' => w_settled'[w] = {}
      BY <3>5, <3>7, Zenon
    <3> QED
      BY <3>6, <3>7, <3>8, <3>9, Zenon DEF WatcherInOrder
  <2> QED
    BY <2>2, <2>3, <2>4 DEF WatcherInv
<1>8. CASE W!Send
  <2>1. W!Latest' = W!Latest /\ \A v : W!Parses(v)' <=> W!Parses(v)
    BY <1>0, <1>8 DEF W!Send, W!SendToNobody, W!CountReceivers, W!Store
  <2>2. WatcherTasks'
    BY <1>8, <2>1 DEF W!Send, W!SendToNobody, W!CountReceivers, W!Store, WatcherInv, WatcherTasks
  <2>3. WatcherChannel'
    BY <1>8 DEF W!Send, W!SendToNobody, W!CountReceivers, W!Store, WatcherInv, WatcherChannel
  <2>4. WatcherInOrder'
    BY <1>8, <2>1 DEF W!Send, W!SendToNobody, W!CountReceivers, W!Store, WatcherInv, WatcherInOrder
  <2> QED
    BY <1>8, <2>2, <2>3, <2>4 DEF W!Send, W!SendToNobody, W!CountReceivers, W!Store, WatcherInv
<1>9. ASSUME NEW r \in Receiver, W!Subscribe(r) \/ W!Leave(r) PROVE WatcherInv'
  <2>1. W!Latest' = W!Latest /\ \A v : W!Parses(v)' <=> W!Parses(v)
    BY <1>0, <1>9 DEF W!Subscribe, W!Leave
  <2>2. UNCHANGED <<w_history, w_boot, w_heard, w_waiting, w_holder, w_counted, w_config, w_channel,
                    w_notified, w_settled>>
    BY <1>9 DEF W!Subscribe, W!Leave
  <2>3. WatcherTasks' /\ WatcherInOrder'
    BY <2>1, <2>2 DEF WatcherInv, WatcherTasks, WatcherInOrder
  <2>4. WatcherChannel'
    BY <1>9 DEF W!Subscribe, W!Leave, WatcherInv, WatcherChannel
  <2> QED
    BY <2>2, <2>3, <2>4 DEF WatcherInv
<1>10. CASE UNCHANGED W!vars
  <2>1. W!Latest' = W!Latest /\ \A v : W!Parses(v)' <=> W!Parses(v)
    BY <1>0, <1>10 DEF W!vars
  <2> QED
    BY <1>10, <2>1 DEF W!vars, WatcherInv, WatcherTasks, WatcherChannel, WatcherInOrder
<1> QED
  BY <1>1, <1>2, <1>3, <1>4, <1>5, <1>6, <1>7, <1>8, <1>9, <1>10 DEF W!Next

\* Beside NacosConfig the watcher makes its own steps or none.
LEMMA WatcherInvariant == MCSpec => []WatcherInv
<1>1. MCInit => W!Init
  BY DEF MCInit
<1>2. [MCNext]_<<side, vars, w_vars>> => [W!Next]_(W!vars)
  BY DEF MCNext, w_vars, W!vars
<1> QED
  BY <1>1, <1>2, WatcherInit, WatcherNext, PTL DEF MCSpec

\* SubscriberInStep: whoever has listened since before the last write finds in the
\* channel what the readers of the lock find.
THEOREM SubscribersStayInStep == MCSpec => []SubscriberInStep
<1>1. WatcherInv => SubscriberInStep
  BY DEF WatcherInv, WatcherChannel, SubscriberInStep, W!SubscriberInStep
<1> QED
  BY <1>1, WatcherInvariant, PTL

\* WatcherOldNeverReturns: what was over when a task was spawned does not come back
\* behind the lock once that task has written.
THEOREM WatcherMovesOn == MCSpec => []WatcherOldNeverReturns
<1>1. WatcherInv => WatcherOldNeverReturns
  BY DEF WatcherInv, WatcherInOrder, WatcherOldNeverReturns, W!WatcherOldNeverReturns
<1> QED
  BY <1>1, WatcherInvariant, PTL
=============================================================================
