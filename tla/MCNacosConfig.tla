----------------------------- MODULE MCNacosConfig -----------------------------
(***************************************************************************)
(* Small instances of both configurations: NacosConfig with a request that *)
(* reads once and one that builds a swap, and ConfigWatcher with two       *)
(* receivers.  They share nothing, so a behaviour runs one of them while   *)
(* the other stays where it started.                                       *)
(***************************************************************************)
EXTENDS NacosConfig

CONSTANTS quote, swap, Receiver, WatcherVersions

ASSUME WatcherAssumption == WatcherVersions \in Nat \ {0}

MCRequest == {quote, swap}
MCKind == [r \in MCRequest |-> IF r = swap THEN "create_swap" ELSE "one_read"]

VARIABLES
  side,  \* the configuration that runs
  w_history, w_boot, w_heard, w_waiting, w_holder, w_counted, w_config, w_channel, w_receivers,
  w_audience, w_notified, w_settled

w_vars == <<w_history, w_boot, w_heard, w_waiting, w_holder, w_counted, w_config, w_channel,
            w_receivers, w_audience, w_notified, w_settled>>

W == INSTANCE ConfigWatcher WITH
  MaxVersions <- WatcherVersions,
  history <- w_history, boot <- w_boot, heard <- w_heard, waiting <- w_waiting,
  holder <- w_holder, counted <- w_counted, config <- w_config, channel <- w_channel,
  receivers <- w_receivers, audience <- w_audience, notified <- w_notified,
  settled <- w_settled

MCInit ==
  /\ Init /\ W!Init
  /\ \/ side = "nacos"   /\ w_history = <<"good">>
     \/ side = "watcher" /\ history = <<"good">>

MCNext ==
  \/ side = "nacos"   /\ Next   /\ UNCHANGED <<side, w_vars>>
  \/ side = "watcher" /\ W!Next /\ UNCHANGED <<side, vars>>

MCSpec == MCInit /\ [][MCNext]_<<side, vars, w_vars>> /\ Fairness

\* A receiver of the watch channel and the readers of the lock see the same config.
SubscriberInStep == W!SubscriberInStep

\* An old config never comes back behind the watcher's lock.
WatcherOldNeverReturns == W!WatcherOldNeverReturns
=============================================================================
