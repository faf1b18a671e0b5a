----------------------------- MODULE CallbackSync -----------------------------
(***************************************************************************)
(* How execution callbacks reach the event log of one deployment.  The     *)
(* bridge of each client numbers them from one.  They come in twice: the   *)
(* manager pushes a callback to the event loop when a deployment owns the  *)
(* session, and a pump pulls what is beyond the cursor it has persisted.   *)
(* The shadow broker and the real owner each have a client and a scope of  *)
(* the same cursor row.  A pump keeps the event loop to itself, but        *)
(* callbacks arrive from the threads of the broker library meanwhile.      *)
(*                                                                         *)
(* Callback times are the order of arrival, over both clients.             *)
(***************************************************************************)
EXTENDS Integers, FiniteSets, SequencesExt

CONSTANTS
  MaxCallbacks,   \* bound: callbacks that ever arrive
  MaxSessions,    \* bound: clients per role
  NoSeq           \* sentinel: the cursor has no sequence number

ASSUME SyncAssumption == NoSeq \notin Nat

Roles == {"shadow", "real"}

VARIABLES
  session,     \* the client generation of each role, 0 when closed
  sessions,    \* generations so far
  journal,     \* the bridge of each client: arrival times by sequence number
  arrived,     \* callbacks so far
  engine,      \* "none", "attaching" or "loaded"
  pushed,      \* callbacks handed to the event loop and not yet run
  eventLog,    \* execution events in the store
  row,         \* the cursor row
  pump,        \* the pump in progress
  base         \* where the cursor of each client started (ghost)

syncVars == <<session, sessions, journal, arrived, engine, pushed, eventLog, row, pump, base>>

NoPump == [at |-> "none"]

(* The row is a flat cursor as long as only the shadow broker has written  *)
(* it, and holds a scope per role afterwards.                              *)
Flat(c) == [scoped |-> FALSE, shadow |-> c, real |-> NoSeq]

Scope(r, role) ==
  IF r.scoped THEN r[role]
  ELSE IF role = "shadow" THEN r.shadow ELSE NoSeq

(* Mutant: both scopes follow the cursor that was written last.            *)
MergedAsOne(r, role, c) == [scoped |-> TRUE, shadow |-> c, real |-> c]

Merged(r, role, c) ==
  IF role = "shadow" /\ ~r.scoped THEN Flat(c)
  ELSE [r EXCEPT !.scoped = TRUE, ![role] = c]

SyncInit ==
  /\ session = [r \in Roles |-> 0] /\ sessions = 0
  /\ journal = [r \in Roles |-> <<>>]
  /\ arrived = 0 /\ engine = "none" /\ pushed = {} /\ eventLog = {}
  /\ row = Flat(NoSeq) /\ pump = NoPump
  /\ base = [r \in Roles |-> NoSeq]

Callback(r, n) == [role |-> r, session |-> session[r], seq |-> n, time |-> journal[r][n]]

(* list_events(): beyond the sequence number when the cursor has one, else *)
(* not older than the latest execution event in the log.                   *)
LatestLogged == Max({0} \cup {e.time : e \in eventLog})
Beyond(r, c) ==
  {n \in DOMAIN journal[r] : IF c = NoSeq THEN journal[r][n] >= LatestLogged ELSE n > c}
Pulled(r, c) == {Callback(r, n) : n \in Beyond(r, c)}
NextCursor(r, c) ==
  IF Beyond(r, c) = {} THEN c
  ELSE Max(Beyond(r, c) \cup (IF c = NoSeq THEN {} ELSE {c}))

Based(r, c) == IF base[r] = NoSeq /\ c # NoSeq THEN [base EXCEPT ![r] = c] ELSE base

(* _start_engine(): the sessions are built first, and their callbacks can  *)
(* come in before the deployment is registered as an owner.                *)
AttachBegin ==
  /\ engine = "none"
  /\ sessions < MaxSessions
  /\ engine' = "attaching"
  /\ sessions' = sessions + 1
  /\ session' = [r \in Roles |-> IF session[r] = 0 THEN sessions + 1 ELSE session[r]]
  /\ journal' = [r \in Roles |-> IF session[r] = 0 THEN <<>> ELSE journal[r]]
  /\ base' = [r \in Roles |-> IF session[r] = 0 THEN NoSeq ELSE base[r]]
  /\ UNCHANGED <<arrived, pushed, eventLog, row, pump>>

(* The end of the start synchronises: of the shadow bundle only runtime    *)
(* events and their cursors are kept, the real owner's is kept whole.      *)
SaveReal ==
  LET c == Scope(row, "real") IN
    /\ eventLog' = eventLog \cup Pulled("real", c)
    /\ row' = Merged(row, "real", NextCursor("real", c))
    /\ base' = Based("real", NextCursor("real", c))

AttachEnd ==
  /\ engine = "attaching"
  /\ engine' = "loaded"
  /\ SaveReal
  /\ UNCHANGED <<session, sessions, journal, arrived, pushed, pump>>

(* A callback thread.                                                      *)
Arrive(r) ==
  /\ session[r] # 0
  /\ arrived < MaxCallbacks
  /\ arrived' = arrived + 1
  /\ journal' = [journal EXCEPT ![r] = Append(@, arrived + 1)]
  /\ pushed' = IF engine = "loaded"
                 THEN pushed \cup {[role |-> r, session |-> session[r],
                                    seq |-> Len(journal[r]) + 1, time |-> arrived + 1]}
                 ELSE pushed
  /\ UNCHANGED <<session, sessions, engine, eventLog, row, pump, base>>

(* _persist_qmt_callback_event(): dropped without an engine; a failure to  *)
(* persist is swallowed.                                                   *)
Push(e) ==
  /\ pump = NoPump /\ engine # "attaching"
  /\ e \in pushed
  /\ pushed' = pushed \ {e}
  /\ \/ engine = "loaded" /\ eventLog' = eventLog \cup {e}
     \/ UNCHANGED eventLog
  /\ UNCHANGED <<session, sessions, journal, arrived, engine, row, pump, base>>

(* _pump_broker_state_locked(): collect the shadow bundle, save its        *)
(* events, save the real owner's, and persist the shadow cursor last.  Any *)
(* save may raise and end the pump.                                        *)
PumpCollect ==
  /\ engine = "loaded" /\ pump = NoPump
  /\ LET c == Scope(row, "shadow") IN
       pump' = [at |-> "collected", events |-> Pulled("shadow", c),
                cursor |-> NextCursor("shadow", c)]
  /\ UNCHANGED <<session, sessions, journal, arrived, engine, pushed, eventLog, row, base>>

PumpSave ==
  /\ pump.at = "collected"
  /\ eventLog' = eventLog \cup pump.events
  /\ pump' = [pump EXCEPT !.at = "saved"]
  /\ UNCHANGED <<session, sessions, journal, arrived, engine, pushed, row, base>>

PumpSaveReal ==
  /\ pump.at = "saved"
  /\ SaveReal
  /\ pump' = [pump EXCEPT !.at = "savedReal"]
  /\ UNCHANGED <<session, sessions, journal, arrived, engine, pushed>>

PumpPersistCursor ==
  /\ pump.at = "savedReal"
  /\ row' = Merged(row, "shadow", pump.cursor)
  /\ base' = Based("shadow", pump.cursor)
  /\ pump' = NoPump
  /\ UNCHANGED <<session, sessions, journal, arrived, engine, pushed, eventLog>>

PumpFails ==
  /\ pump # NoPump
  /\ pump' = NoPump
  /\ UNCHANGED <<session, sessions, journal, arrived, engine, pushed, eventLog, row, base>>

(* Unloading detaches: each session is closed, or stays resident with its  *)
(* client when it is pinned.                                               *)
Unload ==
  /\ engine = "loaded" /\ pump = NoPump
  /\ engine' = "none"
  /\ \E closed \in SUBSET Roles :
       session' = [r \in Roles |-> IF r \in closed THEN 0 ELSE session[r]]
  /\ UNCHANGED <<sessions, journal, arrived, pushed, eventLog, row, pump, base>>

SyncCrash ==
  /\ engine # "none"
  /\ engine' = "none" /\ pump' = NoPump /\ pushed' = {}
  /\ session' = [r \in Roles |-> 0]
  /\ UNCHANGED <<sessions, journal, arrived, eventLog, row, base>>

SyncNext ==
  \/ AttachBegin \/ AttachEnd \/ Unload \/ SyncCrash
  \/ \E r \in Roles : Arrive(r)
  \/ \E e \in pushed : Push(e)
  \/ PumpCollect \/ PumpSave \/ PumpSaveReal \/ PumpPersistCursor \/ PumpFails

SyncSpec == SyncInit /\ [][SyncNext]_syncVars

Skipped(r, from) ==
  {n \in DOMAIN journal[r] :
     Scope(row, r) # NoSeq /\ from < n /\ n <= Scope(row, r) /\ Callback(r, n) \notin eventLog}

(* Once a session has persisted a cursor, the cursor never passes a        *)
(* callback that is not in the log: not when a save fails or the process   *)
(* dies between the save and the cursor, not when callbacks arrive during  *)
(* a pump, not when the other role writes the row they share.              *)
PullKeepsUp ==
  \A r \in Roles : session[r] # 0 /\ base[r] # NoSeq => Skipped(r, base[r]) = {}
=============================================================================
