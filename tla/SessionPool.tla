---------------------------- MODULE SessionPool ----------------------------
(***************************************************************************)
(* deerflow/mcp/session_pool.py with its caller in mcp/tools.py: persistent *)
(* MCP sessions, one per (server, conversation).  Every session is owned by *)
(* an actor, a task on the pool's own event loop that opens the transport,  *)
(* serves a queue of calls and leaves the transport; clients on any loop    *)
(* submit operations to that loop and wait for them, and cancel them.       *)
(***************************************************************************)
EXTENDS Naturals, FiniteSets, Sequences, SequencesExt

CONSTANTS
  Key,          \* (server_name, scope_key)
  Client,       \* coroutines that call tools, close scopes and stop the pool
  Identity,     \* tells the sessions of one key apart; bounds how many exist at a time
  Nobody,
  Sentinel,     \* the None that ends an actor
  MaxSessions,  \* MAX_SESSIONS
  MaxAlive,     \* bound on actors that are not gone
  Stoppers,     \* the clients that may close the whole pool (shutdown, configuration reload)
  Impatient     \* the clients that may be cancelled a second time

\* An actor, with the key of its session.
Actor == Key \X Identity

ASSUME SessionPoolAssumption ==
  /\ Key # {} /\ Identity # {}
  /\ MaxSessions \in Nat \ {0} /\ MaxAlive \in Nat \ {0}
  /\ {Nobody, Sentinel} \cap Client = {} /\ Nobody # Sentinel
  /\ Stoppers \cup Impatient \subseteq Client

VARIABLES
  pool,       \* _entries, the least recently used first
  guard,      \* who holds the creation guard of a key
  at,         \* where a client waits
  key,        \* the key it is getting a session for
  own,        \* the actor it starts or calls
  toClose,    \* the sessions it has taken out of the pool and still has to close
  op,         \* the state of its owner operation
  cancelled,  \* clients that were cancelled and wait for their operation to end
  actor,      \* where an actor stands
  inbox,      \* its queue
  current,    \* whose call it is executing
  closing     \* _closing

entryVars == <<pool, guard>>
clientVars == <<at, key, own, toClose, op, cancelled>>
actorVars == <<actor, inbox, current, closing>>
poolVars == <<entryVars, clientVars, actorVars>>

Ended == {"done", "failed", "dead"}

PoolTypeOK ==
  /\ pool \in Seq(Actor) /\ IsInjective(pool)
  /\ guard \in [Key -> Client \cup {Nobody}]
  /\ at \in [Client -> {"idle", "guard", "evicting", "starting", "calling", "closing", "stopping"}]
  /\ key \in [Client -> Key]
  /\ own \in [Client -> Actor]
  /\ toClose \in [Client -> Seq(Actor)]
  /\ op \in [Client -> Ended \cup {"none", "sent", "running", "unheard", "lost"}]
  /\ cancelled \subseteq Client
  /\ actor \in [Actor -> {"gone", "new", "opening", "serving", "busy", "leaving"}]
  /\ inbox \in [Actor -> Seq(Client \cup {Sentinel})]
  /\ current \in [Actor -> Client \cup {Nobody}]
  /\ closing \subseteq Actor

AnyOf(S) == CHOOSE x \in S : TRUE

PoolInit ==
  /\ pool = <<>>
  /\ guard = [k \in Key |-> Nobody]
  /\ at = [c \in Client |-> "idle"]
  /\ key = [c \in Client |-> AnyOf(Key)]
  /\ own = [c \in Client |-> AnyOf(Actor)]
  /\ toClose = [c \in Client |-> <<>>]
  /\ op = [c \in Client |-> "none"]
  /\ cancelled = {}
  /\ actor = [a \in Actor |-> "gone"]
  /\ inbox = [a \in Actor |-> <<>>]
  /\ current = [a \in Actor |-> Nobody]
  /\ closing = {}

-----------------------------------------------------------------------------
(* What a client waits for *)

\* What is left of s when only the elements in S, or all but those, are kept.  By
\* positions, not by recursion as SelectSeq, which proofs could not look into.
Places(s, S) == {i \in DOMAIN s : s[i] \in S}
Nth(P, n) == CHOOSE i \in P : Cardinality({j \in P : j <= i}) = n
Only(s, S) == [n \in 1..Cardinality(Places(s, S)) |-> s[Nth(Places(s, S), n)]]
Without(s, S) == Only(s, ToSet(s) \ S)

Pooled(k) == {a \in ToSet(pool) : a[1] = k}

\* The actor a client's operation is about.
Subject(c) == IF at[c] \in {"evicting", "closing", "stopping"} THEN Head(toClose[c]) ELSE own[c]
Waits(c, places, a) == op[c] = "running" /\ at[c] \in places /\ Subject(c) = a
Closers == {"evicting", "closing", "stopping"}

Fresh(a) ==
  /\ actor[a] = "gone" /\ a \notin ToSet(pool)
  /\ \A c \in Client :
       a \notin ToSet(toClose[c]) /\ ~(at[c] \in {"starting", "calling"} /\ own[c] = a)

Submit(c, place) == at' = [at EXCEPT ![c] = place] /\ op' = [op EXCEPT ![c] = "sent"]
GoIdle(c) ==
  /\ at' = [at EXCEPT ![c] = "idle"] /\ op' = [op EXCEPT ![c] = "none"]
  /\ cancelled' = cancelled \ {c} /\ toClose' = [toClose EXCEPT ![c] = <<>>]
  /\ key' = [key EXCEPT ![c] = AnyOf(Key)] /\ own' = [own EXCEPT ![c] = AnyOf(Actor)]

ReleaseGuard(c) == guard' = [k \in Key |-> IF guard[k] = c THEN Nobody ELSE guard[k]]

\* move_to_end()
Touched(a) == Append(Without(pool, {a}), a)

-----------------------------------------------------------------------------
(* get_session() *)

\* The session exists, or the client queues for the creation guard.
GetSession(c, k) ==
  /\ at[c] = "idle"
  /\ key' = [key EXCEPT ![c] = k]
  /\ \/ \E a \in Pooled(k) :
          pool' = Touched(a) /\ own' = [own EXCEPT ![c] = a] /\ Submit(c, "calling")
     \/ /\ Pooled(k) = {}
        /\ at' = [at EXCEPT ![c] = "guard"]
        /\ UNCHANGED <<pool, own, op>>
  /\ UNCHANGED <<guard, toClose, cancelled, actorVars>>

\* A new _SessionActor, whose start() is submitted to the owner.
Create(c) ==
  LET a == AnyOf({b \in Actor : b[1] = key[c] /\ Fresh(b)})
  IN /\ \E b \in Actor : b[1] = key[c] /\ Fresh(b)
     /\ Cardinality({b \in Actor : actor[b] # "gone"}) < MaxAlive
     /\ own' = [own EXCEPT ![c] = a]
     /\ actor' = [actor EXCEPT ![a] = "new"]
     /\ Submit(c, "starting")
     /\ UNCHANGED <<inbox, current, closing>>

\* The oldest sessions make room: the rest of the pool is below the limit.
Excess == IF Len(pool) < MaxSessions THEN 0 ELSE Len(pool) - MaxSessions + 1

\* Mutant: the guard's entry is dropped while it is held, so that a waiter gets a new one.
EnterFreshGuard(c) ==
  /\ at[c] = "guard" /\ Pooled(key[c]) = {}
  /\ pool' = SubSeq(pool, Excess + 1, Len(pool))
  /\ guard' = [guard EXCEPT ![key[c]] = c]
  /\ toClose' = [toClose EXCEPT ![c] = SubSeq(pool, 1, Excess)]
  /\ IF Excess > 0 THEN Submit(c, "evicting") /\ UNCHANGED <<own, actorVars>> ELSE Create(c)
  /\ UNCHANGED <<key, cancelled>>

\* The guard is free: the client takes it and looks again.
EnterGuard(c) ==
  /\ at[c] = "guard" /\ guard[key[c]] = Nobody
  /\ \/ \E a \in Pooled(key[c]) :
          /\ pool' = Touched(a) /\ own' = [own EXCEPT ![c] = a] /\ Submit(c, "calling")
          /\ UNCHANGED <<guard, toClose, actorVars>>
     \/ /\ Pooled(key[c]) = {}
        /\ pool' = SubSeq(pool, Excess + 1, Len(pool))
        /\ guard' = [guard EXCEPT ![key[c]] = c]
        /\ toClose' = [toClose EXCEPT ![c] = SubSeq(pool, 1, Excess)]
        /\ IF Excess > 0 THEN Submit(c, "evicting") /\ UNCHANGED <<own, actorVars>> ELSE Create(c)
  /\ UNCHANGED <<key, cancelled>>

\* aclose() of an evicted session has ended.
Evicted(c) ==
  /\ at[c] = "evicting" /\ op[c] = "done" /\ c \notin cancelled
  /\ toClose' = [toClose EXCEPT ![c] = Tail(@)]
  /\ IF Len(toClose[c]) > 1 THEN Submit(c, "evicting") /\ UNCHANGED <<own, actorVars>> ELSE Create(c)
  /\ UNCHANGED <<pool, guard, key, cancelled>>

\* The session is ready: it enters the pool, and the call that wanted it goes to it.
\* An entry of the same key would be replaced.
Started(c) ==
  /\ at[c] = "starting" /\ op[c] = "done" /\ c \notin cancelled
  /\ pool' = Append(Without(pool, Pooled(key[c])), own[c])
  /\ ReleaseGuard(c)
  /\ Submit(c, "calling")
  /\ UNCHANGED <<key, own, toClose, cancelled, actorVars>>

\* get_session() raises: an owner operation failed, or the client was cancelled.
GetFails(c) ==
  /\ at[c] \in {"evicting", "starting"} /\ op[c] \in Ended
  /\ op[c] = "failed" \/ c \in cancelled
  /\ ReleaseGuard(c) /\ GoIdle(c)
  /\ UNCHANGED <<pool, actorVars>>

-----------------------------------------------------------------------------
(* Calls and closes *)

\* A call returns, raises, or is over because the client was cancelled.
CallReturns(c) ==
  /\ at[c] = "calling" /\ op[c] \in Ended
  /\ op[c] # "dead" \/ c \in cancelled
  /\ GoIdle(c)
  /\ UNCHANGED <<entryVars, actorVars>>

\* Mutant: whatever session the key has now is evicted.
DiscoverAnyDead(c) ==
  /\ at[c] = "calling" /\ op[c] = "dead" /\ c \notin cancelled
  /\ pool' = Without(pool, Pooled(key[c]))
  /\ toClose' = [toClose EXCEPT ![c] = <<own[c]>>]
  /\ Submit(c, "closing")
  /\ UNCHANGED <<guard, key, own, cancelled, actorVars>>

\* The transport is dead: close_session_if_current().
DiscoverDead(c) ==
  /\ at[c] = "calling" /\ op[c] = "dead" /\ c \notin cancelled
  /\ IF own[c] \in ToSet(pool)
     THEN /\ pool' = Without(pool, {own[c]})
          /\ toClose' = [toClose EXCEPT ![c] = <<own[c]>>]
          /\ Submit(c, "closing")
          /\ UNCHANGED <<key, own, cancelled>>
     ELSE GoIdle(c) /\ UNCHANGED pool
  /\ UNCHANGED <<guard, actorVars>>

\* close_scope(), close_server(): the matching entries are taken out, then closed in turn.
CloseMatching(c, keys) ==
  LET matching == {a \in ToSet(pool) : a[1] \in keys}
  IN /\ at[c] = "idle" /\ matching # {}
     /\ pool' = Without(pool, matching)
     /\ toClose' = [toClose EXCEPT ![c] = Only(pool, matching)]
     /\ Submit(c, "closing")
     /\ UNCHANGED <<guard, key, own, cancelled, actorVars>>

\* close_all(), close_all_sync(): also of an empty pool, for the owner is stopped then.
CloseAll(c) ==
  /\ c \in Stoppers /\ at[c] = "idle"
  /\ pool' = <<>>
  /\ toClose' = [toClose EXCEPT ![c] = pool]
  /\ at' = [at EXCEPT ![c] = "stopping"]
  /\ op' = [op EXCEPT ![c] = IF pool = <<>> THEN "none" ELSE "sent"]
  /\ UNCHANGED <<guard, key, own, cancelled, actorVars>>

\* aclose() has ended, or close_sync() has waited long enough: on to the next session.
Closed(c) ==
  /\ at[c] \in {"closing", "stopping"} /\ toClose[c] # <<>> /\ c \notin cancelled
  /\ op[c] \in Ended \/ (at[c] = "stopping" /\ op[c] = "running")
  /\ IF Len(toClose[c]) > 1 \/ at[c] = "stopping"
     THEN /\ toClose' = [toClose EXCEPT ![c] = Tail(@)]
          /\ op' = [op EXCEPT ![c] = IF Len(toClose[c]) > 1 THEN "sent" ELSE "none"]
          /\ UNCHANGED <<at, key, own, cancelled>>
     ELSE GoIdle(c)
  /\ UNCHANGED <<entryVars, actorVars>>

CloseCancelled(c) ==
  /\ at[c] \in {"closing", "stopping"} /\ op[c] \in Ended /\ c \in cancelled
  /\ GoIdle(c)
  /\ UNCHANGED <<entryVars, actorVars>>

-----------------------------------------------------------------------------
(* The owner loop and the actors *)

\* The actor still reads its queue.
Reads(a) == actor[a] \in {"serving", "busy"}
Post(a, item) == inbox' = IF Reads(a) THEN [inbox EXCEPT ![a] = Append(@, item)] ELSE inbox
Becomes(c, state) == op' = [op EXCEPT ![c] = state]

\* A submitted operation starts on the owner loop.
BeginStart(c) ==
  /\ at[c] = "starting"
  /\ actor' = [actor EXCEPT ![own[c]] = "opening"]
  /\ Becomes(c, "running")
  /\ UNCHANGED <<inbox, closing>>

\* call_tool() asks whether the task is done, not whether it still reads.
BeginCall(c) ==
  /\ at[c] = "calling"
  /\ Becomes(c, CASE Reads(own[c]) -> "running"
                  [] actor[own[c]] = "leaving" -> "unheard"
                  [] OTHER -> "failed")
  /\ Post(own[c], c)
  /\ UNCHANGED <<actor, closing>>

BeginClose(c) ==
  LET a == Head(toClose[c])
  IN /\ at[c] \in Closers
     /\ Becomes(c, IF actor[a] = "gone" THEN "done" ELSE "running")
     /\ IF a \in closing THEN UNCHANGED inbox ELSE Post(a, Sentinel)
     /\ closing' = IF actor[a] = "gone" THEN closing ELSE closing \cup {a}
     /\ UNCHANGED actor

Begin(c) ==
  /\ op[c] = "sent"
  /\ BeginStart(c) \/ BeginCall(c) \/ BeginClose(c)
  /\ UNCHANGED <<entryVars, at, key, own, toClose, cancelled, current>>

\* The adapter context is entered and the session initialized, or that raises.
Open(a) ==
  /\ actor[a] = "opening"
  /\ \E ok \in BOOLEAN :
       /\ actor' = [actor EXCEPT ![a] = IF ok THEN "serving" ELSE "gone"]
       /\ op' = [c \in Client |-> IF ~Waits(c, {"starting"}, a) THEN op[c]
                                  ELSE IF ok THEN "done" ELSE "failed"]
  /\ UNCHANGED <<entryVars, at, key, own, toClose, cancelled, inbox, current, closing>>

\* The actor reads its queue; what stands behind the sentinel is never read.
Take(a) ==
  /\ actor[a] = "serving" /\ inbox[a] # <<>>
  /\ IF Head(inbox[a]) = Sentinel
     THEN /\ actor' = [actor EXCEPT ![a] = "leaving"]
          /\ inbox' = [inbox EXCEPT ![a] = <<>>]
          /\ op' = [c \in Client |-> IF c \in ToSet(inbox[a]) THEN "unheard" ELSE op[c]]
          /\ UNCHANGED current
     ELSE /\ UNCHANGED op
          /\ inbox' = [inbox EXCEPT ![a] = Tail(@)]
          /\ actor' = [actor EXCEPT ![a] = "busy"]
          /\ current' = [current EXCEPT ![a] = Head(inbox[a])]
  /\ UNCHANGED <<entryVars, at, key, own, toClose, cancelled, closing>>

\* The server answers, with an error perhaps, or the transport proves dead.
Answer(a) ==
  /\ actor[a] = "busy"
  /\ actor' = [actor EXCEPT ![a] = "serving"]
  /\ current' = [current EXCEPT ![a] = Nobody]
  /\ \E result \in {"done", "dead"} :
       op' = [c \in Client |-> IF c = current[a] THEN result ELSE op[c]]
  /\ UNCHANGED <<entryVars, at, key, own, toClose, cancelled, inbox, closing>>

\* __aexit__() is over and with it the task: whoever starts or closes the actor is told.
Exit(a) ==
  /\ actor[a] = "leaving"
  /\ actor' = [actor EXCEPT ![a] = "gone"]
  /\ closing' = closing \ {a}
  /\ op' = [c \in Client |-> IF Waits(c, Closers, a) THEN "done"
                             ELSE IF Waits(c, {"starting"}, a) THEN "failed" ELSE op[c]]
  /\ UNCHANGED <<entryVars, at, key, own, toClose, cancelled, inbox, current>>

\* Mutant: the calls in the queue of a cancelled actor are left there.
CancelActorOnly(a) ==
  IF actor[a] \in {"opening", "serving", "busy"}
  THEN /\ actor' = [actor EXCEPT ![a] = "leaving"]
       /\ inbox' = [inbox EXCEPT ![a] = <<>>]
       /\ current' = [current EXCEPT ![a] = Nobody]
       /\ op' = [c \in Client |-> IF c = current[a] THEN "failed" ELSE op[c]]
  ELSE UNCHANGED <<actor, inbox, current, op>>

\* The actor's task is cancelled: the calls it holds fail, and it leaves the transport.
CancelActor(a) ==
  IF actor[a] \in {"opening", "serving", "busy"}
  THEN /\ actor' = [actor EXCEPT ![a] = "leaving"]
       /\ inbox' = [inbox EXCEPT ![a] = <<>>]
       /\ current' = [current EXCEPT ![a] = Nobody]
       /\ op' = [c \in Client |-> IF c \in ToSet(inbox[a]) \cup {current[a]} THEN "failed" ELSE op[c]]
  ELSE UNCHANGED <<actor, inbox, current, op>>

\* A client is cancelled, by its timeout or its run; it waits for its operation to end.
CancelClient(c) ==
  /\ at[c] # "idle" /\ c \notin cancelled
  /\ IF at[c] = "guard" THEN GoIdle(c)
     ELSE /\ op[c] # "none"
          /\ cancelled' = cancelled \cup {c}
          /\ UNCHANGED <<at, key, own, toClose, op>>
  /\ UNCHANGED <<entryVars, actorVars>>

\* A call that was given up is still executed, for nobody: in the queue it is dropped.
Orphaned(c) == [a \in Actor |-> Without(inbox[a], {c})]

\* The cancellation reaches the owner before the operation has ended: one that has not
\* begun never does, a call is given up, and start() and close() cancel the actor.
CancelLands(c) ==
  /\ c \in cancelled
  /\ \/ /\ op[c] = "sent"
        /\ op' = [op EXCEPT ![c] = "failed"]
        /\ actor' = IF at[c] = "starting" THEN [actor EXCEPT ![own[c]] = "gone"] ELSE actor
        /\ UNCHANGED <<inbox, current>>
     \/ /\ op[c] \in {"running", "unheard"} /\ at[c] = "calling"
        /\ op' = [op EXCEPT ![c] = "failed"]
        /\ inbox' = Orphaned(c)
        /\ current' = [a \in Actor |-> IF current[a] = c THEN Nobody ELSE current[a]]
        /\ UNCHANGED actor
     \/ op[c] = "running" /\ at[c] # "calling" /\ CancelActor(Subject(c))
  /\ UNCHANGED <<entryVars, at, key, own, toClose, cancelled, closing>>

\* Cancelled once more, after the first cancellation has reached the owner: the client
\* neither waits for the actor to unwind nor holds the guard of its key any longer.
CancelClientAgain(c) ==
  /\ at[c] # "idle" /\ c \in cancelled \cap Impatient
  /\ \/ op[c] = "lost"
     \/ op[c] = "running" /\ at[c] # "calling" /\ actor[Subject(c)] = "leaving"
  /\ ReleaseGuard(c) /\ GoIdle(c)
  /\ UNCHANGED <<pool, actorVars>>

\* The owner loop stops: its tasks are cancelled and unwound, and an operation that is
\* on its way is refused, or scheduled on a loop that never runs again.
Stop(c) ==
  /\ at[c] = "stopping" /\ toClose[c] = <<>>
  /\ actor' = [a \in Actor |-> "gone"]
  /\ inbox' = [a \in Actor |-> <<>>]
  /\ current' = [a \in Actor |-> Nobody]
  /\ closing' = {}
  /\ \E late \in SUBSET {d \in Client : op[d] = "sent"} :
       op' = [d \in Client |-> IF d \in late THEN "lost"
                               ELSE IF op[d] \in {"sent", "running", "unheard"} THEN "failed" ELSE op[d]]
  /\ at' = [at EXCEPT ![c] = "idle"]
  /\ UNCHANGED <<entryVars, key, own, toClose, cancelled>>

Proceed(c) ==
  \/ Evicted(c) \/ Started(c) \/ GetFails(c)
  \/ CallReturns(c) \/ DiscoverDead(c) \/ Closed(c) \/ CloseCancelled(c)

Serve(a) == Open(a) \/ Take(a) \/ Answer(a) \/ Exit(a)

PoolNext ==
  \/ \E c \in Client, k \in Key : GetSession(c, k)
  \/ \E c \in Client : EnterGuard(c) \/ Proceed(c) \/ Begin(c)
  \/ \E c \in Client : CancelClient(c) \/ CancelLands(c) \/ CancelClientAgain(c)
  \/ \E c \in Client, keys \in SUBSET Key \ {{}} : CloseMatching(c, keys)
  \/ \E c \in Client : CloseAll(c) \/ Stop(c)
  \/ \E a \in Actor : Serve(a)

PoolSpec == PoolInit /\ [][PoolNext]_poolVars

\* The loops run, servers answer, and clients go on; nobody has to be cancelled.
PoolFairness ==
  /\ \A c \in Client : WF_poolVars(Proceed(c)) /\ WF_poolVars(Begin(c)) /\ WF_poolVars(Stop(c))
  /\ \A a \in Actor : WF_poolVars(Serve(a))

PoolLiveSpec == PoolSpec /\ PoolFairness

-----------------------------------------------------------------------------
(* Properties *)

\* The sessions that calls may find: those in the pool, and those being started.
InUse == ToSet(pool) \cup {own[c] : c \in {d \in Client : at[d] = "starting"}}

\* A conversation has one session with a server: no two calls start one each, so that a
\* stateful server keeps its state across calls (_acquire_creation_guard).  Types included.
OneSessionPerKey == PoolTypeOK /\ \A a, b \in InUse : a[1] = b[1] => a = b

\* Somebody will close the session, or it is closing.
LookedAfter(a) ==
  \/ actor[a] \in {"new", "leaving", "gone"}
  \/ a \in InUse \cup closing
  \/ \E c \in Client : a \in ToSet(toClose[c])

\* Only a client that is cancelled can lose a session: evictions, late discoveries of a
\* dead transport and failed starts leave none open that nobody knows.
NothingIsLost ==
  [][\A a \in Actor : LookedAfter(a) =>
       \/ LookedAfter(a)'
       \/ \E c \in cancelled : at[c] # "idle" /\ at'[c] = "idle"]_poolVars

\* If servers answer, whoever starts, calls or closes a session gets to an end, whatever
\* others evict, close, cancel and stop meanwhile - except a call that came too late for
\* the owner task, and an operation that the stopping loop has lost.
EveryoneReturns ==
  \A c \in Client :
    at[c] \in {"starting", "calling", "closing"} ~>
      at[c] \in {"idle", "guard"} \/ op[c] \in {"lost", "unheard"}
=============================================================================
