----------------------------- MODULE ConfigWatcher -----------------------------
(***************************************************************************)
(* The second implementation of the runtime configuration, compiled but    *)
(* not started by main: load_config_from_nacos makes a ConfigWatcher, a    *)
(* config under a RwLock and a tokio watch channel, and registers it; its  *)
(* notify spawns a task that writes the config and, still holding the      *)
(* lock, sends it to the receivers.                                        *)
(*                                                                         *)
(* The channel's send drops the value when nobody has subscribed, and      *)
(* counts the receivers before it stores; subscribing takes no lock.  The  *)
(* only receiver that watch::channel makes is dropped by new.  Versions    *)
(* are positions in the published history, as in NacosConfig.              *)
(***************************************************************************)
EXTENDS Naturals, Sequences, FiniteSets

CONSTANTS
  Receiver,    \* what may subscribe to the channel
  MaxVersions  \* bound on the number of published contents

VARIABLES
  history,    \* contents published so far
  boot,       \* where load_config_from_nacos is
  heard,      \* last version the SDK has reported to the listener
  waiting,    \* versions of spawned tasks that have not locked the config
  holder,     \* version of the task that holds the lock, 0 if none
  counted,    \* that task found a receiver and is about to store
  config,     \* version under the lock
  channel,    \* version in the watch channel
  receivers,  \* live receivers
  audience,   \* history variable: receivers there since before config was written
  notified,   \* history variable: versions a task was ever spawned for
  settled     \* history variable: what was over when the task of a version was spawned

vars == <<history, boot, heard, waiting, holder, counted, config, channel, receivers, audience,
          notified, settled>>

Content == {"good", "malformed"}
Latest  == Len(history)

Parses(v) == history[v] # "malformed"

Init ==
  /\ history \in {<<c>> : c \in Content}
  /\ boot = "start" /\ heard = 0
  /\ waiting = {} /\ holder = 0 /\ counted = FALSE
  /\ config = 0 /\ channel = 0
  /\ receivers = {} /\ audience = {}
  /\ notified = {} /\ settled = [v \in 0..MaxVersions |-> {}]

-----------------------------------------------------------------------------
(* The Nacos server and its SDK (external)                                 *)

Publish(c) ==
  /\ Latest < MaxVersions
  /\ history' = Append(history, c)
  /\ UNCHANGED <<boot, heard, waiting, holder, counted, config, channel, receivers, audience,
                 notified, settled>>

Spawn(v) ==
  /\ waiting' = waiting \cup {v} /\ notified' = notified \cup {v}
  /\ settled' = [settled EXCEPT ![v] = (notified \cup {config}) \ (waiting \cup {v})]

\* notify spawns a task and returns; contents published in between are skipped.
Notify ==
  /\ boot = "watching" /\ heard < Latest
  /\ heard' = Latest
  /\ Spawn(Latest)
  /\ UNCHANGED <<history, boot, holder, counted, config, channel, receivers, audience>>

-----------------------------------------------------------------------------
(* load_config_from_nacos                                                  *)

\* get_config, the parse and ConfigWatcher::new.
Load ==
  /\ boot = "start" /\ Parses(Latest)
  /\ boot' = "made"
  /\ config' = Latest /\ channel' = Latest
  /\ UNCHANGED <<history, heard, waiting, holder, counted, receivers, audience, notified, settled>>

\* The SDK may or may not report the content of this moment to a new listener.
AddListener ==
  /\ boot = "made"
  /\ boot' = "watching" /\ heard' = Latest
  /\ Spawn(Latest) \/ UNCHANGED <<waiting, notified, settled>>
  /\ UNCHANGED <<history, holder, counted, config, channel, receivers, audience>>

LoadFails ==
  /\ boot = "made" \/ boot = "start"
  /\ boot' = "exited"
  /\ UNCHANGED <<history, heard, waiting, holder, counted, config, channel, receivers, audience,
                 notified, settled>>

-----------------------------------------------------------------------------
(* A spawned task of notify                                                *)

\* A content that does not parse is logged; the lock is not taken.
Drop(v) ==
  /\ v \in waiting /\ ~Parses(v)
  /\ waiting' = waiting \ {v}
  /\ UNCHANGED <<history, boot, heard, holder, counted, config, channel, receivers, audience,
                 notified, settled>>

WriteWhileSending(v) ==  \* mutant: the lock does not cover the send of the task before
  /\ v \in waiting /\ Parses(v)
  /\ waiting' = waiting \ {v}
  /\ holder' = IF holder = 0 THEN v ELSE holder
  /\ config' = v /\ audience' = receivers
  /\ UNCHANGED <<history, boot, heard, counted, channel, receivers, notified, settled>>

WriteTry(v) ==  \* mutant: try_write, given up when the task before still holds the lock
  /\ v \in waiting /\ Parses(v)
  /\ waiting' = waiting \ {v}
  /\ holder' = IF holder = 0 THEN v ELSE holder
  /\ config' = IF holder = 0 THEN v ELSE config
  /\ audience' = IF holder = 0 THEN receivers ELSE audience
  /\ UNCHANGED <<history, boot, heard, counted, channel, receivers, notified, settled>>

\* *cfg = new_config, under the write lock.
Write(v) ==
  /\ v \in waiting /\ Parses(v) /\ holder = 0
  /\ waiting' = waiting \ {v}
  /\ holder' = v
  /\ config' = v /\ audience' = receivers
  /\ UNCHANGED <<history, boot, heard, counted, channel, receivers, notified, settled>>

\* send without a receiver returns an error, which is ignored; the guard is dropped.
SendToNobody ==
  /\ holder # 0 /\ ~counted /\ receivers = {}
  /\ holder' = 0
  /\ UNCHANGED <<history, boot, heard, waiting, counted, config, channel, receivers, audience,
                 notified, settled>>

CountReceivers ==
  /\ holder # 0 /\ ~counted /\ receivers # {}
  /\ counted' = TRUE
  /\ UNCHANGED <<history, boot, heard, waiting, holder, config, channel, receivers, audience,
                 notified, settled>>

Store ==
  /\ holder # 0 /\ counted
  /\ holder' = 0 /\ counted' = FALSE
  /\ channel' = holder
  /\ UNCHANGED <<history, boot, heard, waiting, config, receivers, audience, notified, settled>>

-----------------------------------------------------------------------------
(* Receivers                                                               *)

Subscribe(r) ==
  /\ boot = "watching" /\ r \notin receivers
  /\ receivers' = receivers \cup {r}
  /\ UNCHANGED <<history, boot, heard, waiting, holder, counted, config, channel, audience,
                 notified, settled>>

Leave(r) ==
  /\ r \in receivers
  /\ receivers' = receivers \ {r} /\ audience' = audience \ {r}
  /\ UNCHANGED <<history, boot, heard, waiting, holder, counted, config, channel, notified, settled>>

Send == SendToNobody \/ CountReceivers \/ Store

Next ==
  \/ \E c \in Content : Publish(c)
  \/ Notify
  \/ Load \/ AddListener \/ LoadFails
  \/ \E v \in waiting : Drop(v) \/ Write(v)
  \/ Send
  \/ \E r \in Receiver : Subscribe(r) \/ Leave(r)

\* std's RwLock promises no order of those that wait for it, so nothing is said of when
\* a task ends.
Spec == Init /\ [][Next]_vars

-----------------------------------------------------------------------------
(* Properties                                                              *)

\* A receiver that subscribed before the config was last written, and still listens,
\* finds in the channel what the readers of the lock find: the order of the sends is
\* the order of the writes.  One that subscribes later may find an older config.
SubscriberInStep == holder = 0 /\ audience # {} => channel = config

\* The tasks race for the lock, but only those that overlap: once the task of a
\* version that parses has written, no config that was over when it was spawned, the
\* one the watcher was made with included, is ever read under the lock again.
WatcherOldNeverReturns ==
  boot = "watching" =>
    \A v \in notified \ waiting : Parses(v) => config \notin settled[v]
=============================================================================
