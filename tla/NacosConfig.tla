------------------------------ MODULE NacosConfig ------------------------------
(***************************************************************************)
(* The router's runtime configuration: the content the Nacos server        *)
(* publishes, init_nacos at start-up, the listener whose notify spawns a   *)
(* task per change, the global RwLock the tasks write, and the request     *)
(* handlers that read it, once or twice, between their own awaits.         *)
(*                                                                         *)
(* A version is a position in the history of published contents; version 0 *)
(* is NacosConfig::default(), whose rpcs list is empty.  Tokio runs the    *)
(* spawned tasks on several threads and in any order; its RwLock serves    *)
(* readers and writers in the order they came, so the lock is the queue of *)
(* those that hold it or wait for it.                                      *)
(***************************************************************************)
EXTENDS Naturals, Sequences, SequencesExt

CONSTANTS
  Request,     \* requests that arrive, each handled once
  Kind,        \* [Request -> {"one_read", "create_swap"}], the handlers
  MaxVersions  \* bound on the number of published contents

ASSUME NacosAssumption ==
  /\ MaxVersions \in Nat \ {0}
  /\ Kind \in [Request -> {"one_read", "create_swap"}]

\* What a published content can be: JSON that parses, JSON that parses but lists no
\* rpcs, and text that does not parse.
Content == {"good", "no_rpcs", "malformed"}

VARIABLES
  history,   \* contents published so far
  boot,      \* where init_nacos is
  fetched,   \* version get_config returned
  heard,     \* last version the SDK has reported to the listener
  tasks,     \* versions carried by spawned tasks that have not ended
  lock,      \* who holds the RwLock or waits for it, in the order they came
  global,    \* version in nacos_global_config
  pc,        \* state of each request
  reads,     \* versions each request has read
  notified,  \* history variable: versions a task was ever spawned for
  settled    \* history variable: what was over when the task of a version was spawned

vars == <<history, boot, fetched, heard, tasks, lock, global, pc, reads, notified, settled>>

Latest == Len(history)

Parses(v)  == v > 0 /\ history[v] # "malformed"
HasRpcs(v) == v > 0 /\ history[v] = "good"

Init ==
  /\ history \in {<<c>> : c \in Content}
  /\ boot = "start"
  /\ fetched = 0 /\ heard = 0 /\ global = 0
  /\ tasks = {} /\ lock = <<>>
  /\ pc = [r \in Request |-> "idle"]
  /\ reads = [r \in Request |-> <<>>]
  /\ notified = {} /\ settled = [v \in 0..MaxVersions |-> {}]

-----------------------------------------------------------------------------
(* tokio::sync::RwLock (external)                                          *)

Writer(v) == <<"writing", v>>
Reader(r) == <<pc[r], r>>

\* The first in the queue holds the lock; readers hold it together.
Granted(p) == p = 1 \/ \A q \in 1..p : lock[q][1] # "writing"

Join(e) == lock' = Append(lock, e)

\* e holds the lock, and drops its guard in this step.
Release(e) == \E p \in 1..Len(lock) : lock[p] = e /\ Granted(p) /\ lock' = RemoveAt(lock, p)

-----------------------------------------------------------------------------
(* The Nacos server and its SDK (external)                                 *)

Publish(c) ==
  /\ Latest < MaxVersions
  /\ history' = Append(history, c)
  /\ UNCHANGED <<boot, fetched, heard, tasks, lock, global, pc, reads, notified, settled>>

Spawn(v) ==
  /\ tasks' = tasks \cup {v} /\ notified' = notified \cup {v}
  /\ settled' = [settled EXCEPT ![v] = (notified \cup {fetched}) \ (tasks \cup {v})]

\* The SDK reports the newest content and skips those published in between;
\* MyConfigChangeListener::notify spawns a task for it and returns.
Notify ==
  /\ boot = "serving" /\ heard < Latest
  /\ heard' = Latest
  /\ Spawn(Latest)
  /\ UNCHANGED <<history, boot, fetched, lock, global, pc, reads>>

-----------------------------------------------------------------------------
(* init_nacos                                                              *)

GetConfig ==
  /\ boot = "start"
  /\ boot' = "fetched" /\ fetched' = Latest
  /\ UNCHANGED <<history, heard, tasks, lock, global, pc, reads, notified, settled>>

SetInitialForgotten ==  \* mutant: the listener is relied on for the first content too
  /\ boot = "fetched" /\ Parses(fetched)
  /\ boot' = "set" /\ UNCHANGED global
  /\ UNCHANGED <<history, fetched, heard, tasks, lock, pc, reads, notified, settled>>

\* Nobody else is at the lock yet.
SetInitial ==
  /\ boot = "fetched" /\ Parses(fetched)
  /\ boot' = "set" /\ global' = fetched
  /\ UNCHANGED <<history, fetched, heard, tasks, lock, pc, reads, notified, settled>>

\* The SDK takes the content of this moment as what the listener knows; it may
\* or may not report it.  What was published since get_config is not reported again.
AddListener ==
  /\ boot = "set"
  /\ boot' = "serving" /\ heard' = Latest
  /\ Spawn(Latest) \/ UNCHANGED <<tasks, notified, settled>>
  /\ UNCHANGED <<history, fetched, lock, global, pc, reads>>

\* An error of the client, of the server or of the first content ends the process.
BootFails ==
  /\ boot \in {"start", "fetched", "set"}
  /\ boot = "fetched" => ~Parses(fetched)
  /\ boot' = "exited"
  /\ UNCHANGED <<history, fetched, heard, tasks, lock, global, pc, reads, notified, settled>>

-----------------------------------------------------------------------------
(* set_global_nacos_config in a spawned task                               *)

\* A content that does not parse is printed and dropped; the lock is not taken.
Drop(v) ==
  /\ v \in tasks /\ ~Parses(v)
  /\ tasks' = tasks \ {v}
  /\ UNCHANGED <<history, boot, fetched, heard, lock, global, pc, reads, notified, settled>>

AwaitWriteUnparsed(v) ==  \* mutant: the lock is taken before the content is parsed
  /\ v \in tasks /\ Writer(v) \notin ToSet(lock)
  /\ Join(Writer(v))
  /\ UNCHANGED <<history, boot, fetched, heard, tasks, global, pc, reads, notified, settled>>

AwaitWrite(v) ==
  /\ v \in tasks /\ Parses(v) /\ Writer(v) \notin ToSet(lock)
  /\ Join(Writer(v))
  /\ UNCHANGED <<history, boot, fetched, heard, tasks, global, pc, reads, notified, settled>>

ApplyTryWrite(v) ==  \* mutant: try_write, given up when another has come to the lock
  /\ v \in tasks /\ Release(Writer(v))
  /\ tasks' = tasks \ {v}
  /\ global' = IF Len(lock) = 1 THEN v ELSE global
  /\ UNCHANGED <<history, boot, fetched, heard, pc, reads, notified, settled>>

\* *nacos_config = cfg, under the write guard.
Apply(v) ==
  /\ v \in tasks /\ Release(Writer(v))
  /\ tasks' = tasks \ {v}
  /\ global' = v
  /\ UNCHANGED <<history, boot, fetched, heard, pc, reads, notified, settled>>

-----------------------------------------------------------------------------
(* The request handlers                                                    *)

ArriveEarly(r) ==  \* mutant: the server listens before init_nacos is done
  /\ boot # "exited" /\ pc[r] = "idle"
  /\ pc' = [pc EXCEPT ![r] = "reading"] /\ Join(<<"reading", r>>)
  /\ UNCHANGED <<history, boot, fetched, heard, tasks, global, reads, notified, settled>>

\* main serves only after init_nacos has returned; the handler comes to the lock.
Arrive(r) ==
  /\ boot = "serving" /\ pc[r] = "idle"
  /\ pc' = [pc EXCEPT ![r] = "reading"] /\ Join(<<"reading", r>>)
  /\ UNCHANGED <<history, boot, fetched, heard, tasks, global, reads, notified, settled>>

\* get_nacos_config().await.get_rand_rpc(): the clone leaves the lock, and the index
\* is taken modulo rpcs.len().
Read(r, then) ==
  /\ reads' = [reads EXCEPT ![r] = Append(@, global)]
  /\ pc' = [pc EXCEPT ![r] = IF HasRpcs(global) THEN then ELSE "panicked"]
  /\ UNCHANGED <<history, boot, fetched, heard, tasks, global, notified, settled>>

FirstReadKeepsGuard(r) ==  \* mutant: the guard is returned, and kept, instead of a clone
  /\ pc[r] = "reading"
  /\ \E p \in 1..Len(lock) : lock[p] = Reader(r) /\ Granted(p)
  /\ Read(r, IF Kind[r] = "create_swap" THEN "building" ELSE "answered")
  /\ lock' = IF pc'[r] = "building" THEN lock ELSE SelectSeq(lock, LAMBDA e : e # Reader(r))

\* quote_price, get_contract_info and list_line_position read once;
\* create_swap_transaction goes on to the chain and reads again to build.
FirstRead(r) ==
  /\ pc[r] = "reading" /\ Release(Reader(r))
  /\ Read(r, IF Kind[r] = "create_swap" THEN "building" ELSE "answered")

\* An account that cannot be read or parsed ends the request between the reads.
BuildFails(r) ==
  /\ pc[r] = "building"
  /\ pc' = [pc EXCEPT ![r] = "answered"]
  /\ UNCHANGED <<history, boot, fetched, heard, tasks, lock, global, reads, notified, settled>>

AwaitSecond(r) ==
  /\ pc[r] = "building"
  /\ pc' = [pc EXCEPT ![r] = "rereading"] /\ Join(<<"rereading", r>>)
  /\ UNCHANGED <<history, boot, fetched, heard, tasks, global, reads, notified, settled>>

SecondReadCached(r) ==  \* mutant: builds with the configuration init_nacos fetched
  /\ pc[r] = "rereading" /\ Release(Reader(r))
  /\ reads' = [reads EXCEPT ![r] = Append(@, fetched)]
  /\ pc' = [pc EXCEPT ![r] = IF HasRpcs(fetched) THEN "answered" ELSE "panicked"]
  /\ UNCHANGED <<history, boot, fetched, heard, tasks, global, notified, settled>>

SecondRead(r) ==
  /\ pc[r] = "rereading" /\ Release(Reader(r))
  /\ Read(r, "answered")

Task(v)   == Drop(v) \/ AwaitWrite(v) \/ Apply(v)
Handle(r) == FirstRead(r) \/ BuildFails(r) \/ AwaitSecond(r) \/ SecondRead(r)

Next ==
  \/ \E c \in Content : Publish(c)
  \/ Notify
  \/ GetConfig \/ SetInitial \/ AddListener \/ BootFails
  \/ \E v \in tasks : Task(v)
  \/ \E r \in Request : Arrive(r) \/ Handle(r)

\* Tokio runs every spawned task and every handler that can make a step; nothing is
\* assumed of the Nacos server, its SDK or the clients.
Fairness ==
  /\ \A v \in 1..MaxVersions : WF_vars(Task(v))
  /\ \A r \in Request : WF_vars(Handle(r))

Spec == Init /\ [][Next]_vars /\ Fairness

-----------------------------------------------------------------------------
(* Properties                                                              *)

\* Versions are published ones or the default; at the lock are tasks whose content
\* parses, and requests.
TypeOK ==
  /\ history \in Seq(Content) /\ Len(history) \in 1..MaxVersions
  /\ boot \in {"start", "fetched", "set", "serving", "exited"}
  /\ {fetched, heard, global} \subseteq 0..Latest
  /\ tasks \subseteq notified /\ notified \subseteq 1..Latest
  /\ lock \in Seq({Writer(v) : v \in {w \in notified : Parses(w)}}
                     \cup {"reading", "rereading"} \X Request)
  /\ pc \in [Request -> {"idle", "reading", "building", "rereading", "answered", "panicked"}]
  /\ reads \in [Request -> Seq(0..Latest)]
  /\ settled \in [0..MaxVersions -> SUBSET (0..Latest)]

\* The empty default is never what a request is served with: once the server
\* listens, the global holds a content that was published and parsed, whatever
\* malformed contents have been notified since.
NeverServesDefault == boot = "serving" => global > 0 /\ Parses(global)

\* A handler panics at the modulo only because an operator published an empty rpcs
\* list, never because of the start-up order or of a malformed content.
PanicOnlyOnEmptyRpcs ==
  \A r \in Request : pc[r] = "panicked" =>
    LET v == reads[r][Len(reads[r])] IN v > 0 /\ history[v] = "no_rpcs"

\* The tasks race for the lock, but only those that overlap: once the task of a
\* version that parses has ended, no configuration that was over when the task was
\* spawned, the fetched one included, is ever served again.
OldNeverReturns ==
  boot = "serving" =>
    \A v \in notified \ tasks : Parses(v) => global \notin settled[v]

\* When the SDK and all tasks are done, the newest content is served unless one of
\* two things happened: the task of an older one overlapped with its task and was
\* last at the lock, or it was published between get_config and add_listener and
\* nothing has been notified since.
NewestServed ==
  boot = "serving" /\ tasks = {} /\ heard = Latest /\ Parses(Latest) =>
    \/ global = Latest
    \/ global \in notified \ settled[Latest]
    \/ global = fetched /\ notified = {}

\* A swap is never built with a configuration that was over when the one its pool
\* was read with was notified, whichever tasks write between the two reads.
ReadsForward ==
  \A r \in Request : Len(reads[r]) = 2 => reads[r][2] \notin settled[reads[r][1]]

\* Nobody waits at the lock for ever: every spawned task ends, and every request that
\* arrived is answered or panics, though a swap comes to the lock twice and writers
\* may come in between.
NobodyWaitsForever ==
  /\ \A v \in 1..MaxVersions : v \in tasks ~> v \notin tasks
  /\ \A r \in Request : pc[r] # "idle" ~> pc[r] \in {"answered", "panicked"}
=============================================================================
