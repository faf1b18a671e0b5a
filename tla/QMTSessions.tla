----------------------------- MODULE QMTSessions -----------------------------
(***************************************************************************)
(* QMTSessionManager for one session key, and the clients it builds.       *)
(* Deployments attach to the session and detach from it, process owners    *)
(* pin it and unpin it; the last one to leave closes the client, unless    *)
(* the configuration keeps the session resident.  These calls come from    *)
(* the event loop, one at a time.  Beside them run the consumer threads of *)
(* the clients and the callbacks of the broker library, so supervision,    *)
(* which reads a client's health and acts on it later, is two steps.       *)
(***************************************************************************)
EXTENDS Integers, FiniteSets

CONSTANTS
  Deployments,
  Processes,        \* process owners
  AlwaysOn,         \* config.always_on_owner
  SubscribeFails,   \* the broker may refuse a subscription after connecting
  MaxClients        \* bound: clients ever built

NoClient == 0
Clients == 1..MaxClients

VARIABLES
  owners,        \* _owners and _process_owners of the key
  hostPin,       \* the key is in _host_owner_pins
  client,        \* _clients[key], by order of construction
  made,          \* clients built so far
  open,          \* clients whose trader was not stopped
  listening,     \* clients that call the manager's dirty listener
  listenerKey,   \* the key is in _client_callback_listener_keys
  cached,        \* the client each owner's broker holds
  consumer,      \* clients whose consumer thread runs
  wire,          \* clients whose latest connection event is "connected"
  subscribed,    \* clients subscribed to the account's callbacks
  backoff,       \* clients whose next retry is not due
  consumerStatus,\* state.consumer_status
  supervision,   \* the supervision call in progress
  tearing        \* deployments whose engine is being unloaded

sessionVars == <<owners, hostPin, client, made, open, listening, listenerKey, cached,
                 consumer, wire, subscribed, backoff, consumerStatus, supervision, tearing>>
clientVars == <<made, open, listening, consumer, wire, subscribed, backoff>>

Owners == Deployments \cup Processes
Unsupervised == [at |-> "none"]

SessionInit ==
  /\ owners = {} /\ hostPin = FALSE /\ client = NoClient /\ made = 0
  /\ open = {} /\ listening = {} /\ listenerKey = FALSE
  /\ cached = [o \in Owners |-> NoClient]
  /\ consumer = {} /\ wire = {} /\ subscribed = {} /\ backoff = {}
  /\ consumerStatus = "" /\ supervision = Unsupervised /\ tearing = {}

LoopIsFree == supervision = Unsupervised /\ tearing = {}

(* resolve(): reuse the client or build one.  A new trader is connected    *)
(* and subscribed by the factory, which raises when either fails; a broken *)
(* build leaves the session without a client.                              *)
Resolve ==
  /\ hostPin' = (hostPin \/ AlwaysOn)
  /\ listenerKey' = TRUE
  /\ \/ /\ client # NoClient
        /\ client' = client
        /\ listening' = IF listenerKey THEN listening ELSE listening \cup {client}
        /\ UNCHANGED <<made, open, wire, subscribed>>
     \/ /\ client = NoClient /\ made < MaxClients
        /\ made' = made + 1 /\ client' = made + 1
        /\ open' = open \cup {client'}
        /\ wire' = wire \cup {client'} /\ subscribed' = subscribed \cup {client'}
        /\ listening' = IF listenerKey THEN listening ELSE listening \cup {client'}

(* Mutant: only deployments keep a session.                                *)
ResidentsPinned(os) == hostPin

Residents(os) == os \cap Processes # {} \/ hostPin

(* attach_owner() and pin_process_owner(): the first owner of its kind     *)
(* starts the consumer.                                                    *)
First(o) ==
  IF o \in Deployments THEN owners \cap Deployments = {} ELSE owners \cap Processes = {}

Attach(o) ==
  /\ LoopIsFree
  /\ Resolve
  /\ cached' = [cached EXCEPT ![o] = client']
  /\ owners' = owners \cup {o}
  /\ consumer' = IF o \notin owners /\ First(o) THEN consumer \cup {client'} ELSE consumer
  /\ UNCHANGED <<backoff, consumerStatus, supervision, tearing>>

(* _require_client(): a broker without a client of its own resolves the    *)
(* session when it is used.  Besides the brokers of deployments that are   *)
(* not loaded, this is what unloading an engine does: detached, its broker *)
(* is synchronised once more, to record how the session ended.             *)
Use(o) ==
  /\ cached[o] = NoClient
  /\ Resolve
  /\ cached' = [cached EXCEPT ![o] = client']
  /\ UNCHANGED <<owners, consumer, backoff, consumerStatus, supervision>>

UseUnattached(o) == LoopIsFree /\ o \notin owners /\ Use(o) /\ UNCHANGED tearing

LastSync(o) ==
  /\ o \in tearing
  /\ tearing' = tearing \ {o}
  /\ \/ Use(o)
     \/ /\ \/ cached[o] # NoClient
           \/ made = MaxClients   \* the factory raises, which is swallowed
        /\ UNCHANGED <<owners, hostPin, client, made, open, listening, listenerKey,
                       cached, consumer, wire, subscribed, backoff, consumerStatus,
                       supervision>>

(* Mutant: the key is left among those that have a listener.               *)
CloseKeepsListenerKey(c) ==
  /\ client' = NoClient /\ UNCHANGED listenerKey
  /\ open' = open \ {c}
  /\ wire' = wire \ {c} /\ subscribed' = subscribed \ {c}

(* close(): the trader is stopped; the consumer thread is given 0.2 s and  *)
(* may outlive it.                                                         *)
Close(c) ==
  /\ client' = NoClient /\ listenerKey' = FALSE
  /\ open' = open \ {c}
  /\ wire' = wire \ {c} /\ subscribed' = subscribed \ {c}

(* detach_owner() and unpin_process_owner().  The broker forgets its       *)
(* client when the state it gets back has no deployment left and no pin.   *)
Detach(o) ==
  /\ LoopIsFree
  /\ LET left == owners \ {o}
         unused == left \cap Deployments = {} /\ ~Residents(left) IN
       /\ owners' = left
       /\ IF o \in owners /\ client # NoClient /\ unused
            THEN Close(client)
            ELSE UNCHANGED <<client, listenerKey, open, wire, subscribed>>
       /\ cached' = [cached EXCEPT ![o] = IF unused THEN NoClient ELSE @]
  /\ tearing' = {o} \cap owners \cap Deployments
  /\ UNCHANGED <<hostPin, made, listening, consumer, backoff, consumerStatus, supervision>>

(* ensure_session_supervision(): the client and its health are read first. *)
Supervise ==
  /\ LoopIsFree
  /\ client # NoClient /\ owners # {}
  /\ supervision' = [at |-> "read", client |-> client, alive |-> client \in consumer,
                     down |-> client \notin wire]
  /\ UNCHANGED <<owners, hostPin, client, listenerKey, cached, consumerStatus, clientVars,
                 tearing>>

(* Mutant: a dropped connection is not looked at.                          *)
HealthyIfAlive(s) == s.alive

Healthy(s) == s.alive /\ ~s.down

SuperviseHealthy ==
  /\ supervision.at = "read" /\ Healthy(supervision)
  /\ consumerStatus' = "running"
  /\ supervision' = Unsupervised
  /\ UNCHANGED <<owners, hostPin, client, listenerKey, cached, clientVars, tearing>>

(* ensure_resident_session() looks again; a retry that is not due records  *)
(* a deferral, which counts as disconnected, and returns False.            *)
SuperviseDeferred ==
  /\ supervision.at = "read" /\ ~Healthy(supervision)
  /\ LET c == supervision.client IN
       /\ ~(c \in consumer /\ c \in wire)
       /\ c \in backoff
       /\ wire' = wire \ {c}
  /\ consumerStatus' = "unsupported"
  /\ supervision' = Unsupervised
  /\ UNCHANGED <<owners, hostPin, client, listenerKey, cached, made, open, listening,
                 consumer, subscribed, backoff, tearing>>

(* Otherwise the session reconnects, subscribes and starts its consumer.   *)
(* Connecting is recorded, and counts, before the subscription answers.    *)
SuperviseReconnects ==
  /\ supervision.at = "read" /\ ~Healthy(supervision)
  /\ LET c == supervision.client
         recovered == c \in consumer /\ c \in wire IN
       /\ recovered \/ c \notin backoff
       /\ \/ /\ wire' = wire \cup {c}
             /\ subscribed' = IF recovered THEN subscribed ELSE subscribed \cup {c}
             /\ consumer' = consumer \cup {c}
             /\ consumerStatus' = "running"
             /\ UNCHANGED backoff
          \/ /\ ~recovered
             /\ wire' = wire \ {c}
             /\ backoff' = backoff \cup {c}
             /\ consumerStatus' = "restart_failed"
             /\ UNCHANGED <<subscribed, consumer>>
          \/ /\ ~recovered /\ SubscribeFails
             /\ wire' = wire \cup {c}
             /\ subscribed' = subscribed \ {c}
             /\ backoff' = backoff \cup {c}
             /\ consumerStatus' = "restart_failed"
             /\ UNCHANGED consumer
  /\ supervision' = Unsupervised
  /\ UNCHANGED <<owners, hostPin, client, listenerKey, cached, made, open, listening,
                 tearing>>

(* The broker library: a consumer thread ends, a connection drops (and     *)
(* with it the subscription); a retry becomes due.                         *)
ConsumerEnds(c) ==
  /\ c \in consumer
  /\ consumer' = consumer \ {c}
  /\ UNCHANGED <<owners, hostPin, client, made, open, listening, listenerKey, cached,
                 wire, subscribed, backoff, consumerStatus, supervision, tearing>>

Disconnected(c) ==
  /\ c \in wire \cap open
  /\ wire' = wire \ {c} /\ subscribed' = subscribed \ {c}
  /\ UNCHANGED <<owners, hostPin, client, made, open, listening, listenerKey, cached,
                 consumer, backoff, consumerStatus, supervision, tearing>>

RetryIsDue(c) ==
  /\ c \in backoff
  /\ backoff' = backoff \ {c}
  /\ UNCHANGED <<owners, hostPin, client, made, open, listening, listenerKey, cached,
                 consumer, wire, subscribed, consumerStatus, supervision, tearing>>

SuperviseEnds == SuperviseHealthy \/ SuperviseDeferred \/ SuperviseReconnects

SessionNext ==
  \/ \E o \in Owners : Attach(o) \/ UseUnattached(o) \/ Detach(o) \/ LastSync(o)
  \/ Supervise \/ SuperviseEnds
  \/ \E c \in Clients : ConsumerEnds(c) \/ Disconnected(c) \/ RetryIsDue(c)

SessionSpec == SessionInit /\ [][SessionNext]_sessionVars

(* Ticks and pumps supervise the session of a loaded deployment again and  *)
(* again; retries become due; the broker does not refuse for ever.         *)
Working == client # NoClient /\ client \in consumer /\ client \in wire
SessionFairness ==
  /\ SF_sessionVars(Supervise) /\ WF_sessionVars(SuperviseEnds)
  /\ \A o \in Owners : WF_sessionVars(LastSync(o))
  /\ SF_sessionVars(SuperviseReconnects /\ Working')
  /\ \A c \in Clients : WF_sessionVars(RetryIsDue(c))

SessionFairSpec == SessionSpec /\ SessionFairness

(* Whoever owns the session, deployment or process, has an open client,    *)
(* and the one its broker holds: another owner's leaving never closes it,  *)
(* and nobody is left on the client of an earlier session.                 *)
OwnersShareAnOpenClient ==
  \A o \in owners : client # NoClient /\ client \in open /\ cached[o] = client

(* The session's client reports its callbacks to the manager, whichever    *)
(* client it is: a session that was closed and built anew is heard too.    *)
CurrentClientIsHeard == client # NoClient => client \in listening

(* Both: all owners of a session hold its one open client, which reports   *)
(* to the manager.                                                         *)
OwnersShareAHeardClient == OwnersShareAnOpenClient /\ CurrentClientIsHeard

(* A session that has lost its consumer or its connection while a          *)
(* deployment owns it is brought back by supervision.                      *)
Needed == client # NoClient /\ owners \cap Deployments # {}
SessionComesBack == Needed /\ ~Working ~> ~Needed \/ Working
=============================================================================
