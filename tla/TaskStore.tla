----------------------------- MODULE TaskStore -----------------------------
(***************************************************************************)
(* The state that the replicas of the proxy share: the Redis keys that     *)
(* internal/tasks/orchestrator.go writes, and the task queue that the      *)
(* asynq library keeps in the same Redis.                                  *)
(*                                                                         *)
(* A Redis key is a value with an absolute expiry; it exists while its     *)
(* expiry lies after the clock and it is absent from then on, so that      *)
(* expiry needs no action of its own.  Expiry 0 is a key never written.    *)
(*                                                                         *)
(* Task ids and tokens are random in the code (uuid, 32 random bytes) and  *)
(* every request makes at most one of each: the request itself stands for  *)
(* the id of its task and for the token it mints.                          *)
(***************************************************************************)
EXTENDS Naturals, Sequences

CONSTANTS
    Requests,    \* submit requests, also the task ids and tokens they make
    Keys,        \* proxy API keys
    IdemKeys,    \* values of the Idempotency-Key header
    Engines,     \* names of configured engines
    Kinds,       \* content types an engine may answer with
    None,        \* no API key, no Idempotency-Key, no engine, no token...
    MaxFiles,    \* bound: file parts in one request
    ResultTTL,   \* tasks.result_ttl, after the code's default is applied
    Retention,   \* tasks.retention
    MaxRetry,    \* tasks.retry
    MaxTime      \* bound: last value of the clock

ASSUME StoreAssumption ==
    /\ None \notin Requests \cup Keys \cup IdemKeys \cup Engines \cup Kinds
    /\ ResultTTL \in Nat \ {0}
    /\ Retention \in Nat \ {0}
    /\ MaxRetry \in Nat
    /\ MaxTime \in Nat
    /\ MaxFiles \in Nat

VARIABLES
    now,      \* the clock all expiries are measured on
    blob,     \* owui-cee:blob:<uuid>, by request and part: its expiry
    token,    \* owui-cee:token:<token>, a tokenBinding
    queue,    \* owui-cee:queue:<task>, the queue hint: its expiry
    idem,     \* owui-cee:idem:<fp>:<key>, by slot: token and expiry
    body,     \* owui-cee:result:<task>
    ctype,    \* owui-cee:result:<task>:ct
    tstate,   \* asynq: the state of each task
    retried,  \* asynq: retries consumed by each task
    payload,  \* asynq: the Payload each task carries
    doneAt    \* asynq: when each task completed

redisVars == <<blob, token, queue, idem, body, ctype>>
asynqVars == <<tstate, retried, payload, doneAt>>
storeVars == <<now, blob, token, queue, idem, body, ctype,
               tstate, retried, payload, doneAt>>

-----------------------------------------------------------------------------
(* Keys and values *)

\* The fingerprint of an API key: injective on keys, empty for no key.
keyFromAPIKey(key) == IF key = None THEN {} ELSE {key}

Fingerprints == {keyFromAPIKey(key) : key \in Keys \cup {None}}

\* Mutant of idemKey: the slot forgets whose key it is.
idemKeyUnscoped(key, idemHeader) == <<{}, idemHeader>>

\* One idempotency slot per (fingerprint, Idempotency-Key) pair.
idemKey(key, idemHeader) == <<keyFromAPIKey(key), idemHeader>>

Slots == Fingerprints \X IdemKeys

Parts == 1..MaxFiles

NoBinding == [task |-> None, fp |-> {}, exp |-> 0]
Bindings  == [task: Requests \cup {None}, fp: SUBSET Keys, exp: Nat]

NoSlot == [token |-> None, exp |-> 0]
SlotVals == [token: Requests \cup {None}, exp: Nat]

NoValue == [val |-> None, exp |-> 0]
Values  == [val: Kinds \cup {None}, exp: Nat]

NoPayload == [engine |-> None, nfiles |-> 0]
Payloads  == [engine: Engines \cup {None}, nfiles: 0..MaxFiles]

TaskStates == {"absent", "pending", "active", "retry",
               "completed", "archived", "deleted"}

\* A key with this expiry is present in Redis.
Live(exp) == exp > now

\* SET with a TTL.
ExpireIn(ttl) == now + ttl

TypeOKStore ==
    /\ now \in 0..MaxTime
    /\ blob \in [Requests -> [Parts -> Nat]]
    /\ token \in [Requests -> Bindings]
    /\ queue \in [Requests -> Nat]
    /\ idem \in [Slots -> SlotVals]
    /\ body \in [Requests -> Values]
    /\ ctype \in [Requests -> Values]
    /\ tstate \in [Requests -> TaskStates]
    /\ retried \in [Requests -> 0..MaxRetry]
    /\ payload \in [Requests -> Payloads]
    /\ doneAt \in [Requests -> Nat]
    /\ \A t \in Requests : token[t].exp > 0 => token[t].task \in Requests

InitStore ==
    /\ now = 0
    /\ blob = [r \in Requests |-> [p \in Parts |-> 0]]
    /\ token = [r \in Requests |-> NoBinding]
    /\ queue = [r \in Requests |-> 0]
    /\ idem = [s \in Slots |-> NoSlot]
    /\ body = [r \in Requests |-> NoValue]
    /\ ctype = [r \in Requests |-> NoValue]
    /\ tstate = [r \in Requests |-> "absent"]
    /\ retried = [r \in Requests |-> 0]
    /\ payload = [r \in Requests |-> NoPayload]
    /\ doneAt = [r \in Requests |-> 0]

-----------------------------------------------------------------------------
(* Time, and what asynq does on its own *)

Tick ==
    /\ now < MaxTime
    /\ now' = now + 1
    /\ UNCHANGED <<redisVars, asynqVars>>

\* asynq settles a failed attempt: another try, or the archive when the
\* budget is spent or the handler said SkipRetry.
AsynqFail(r, skipRetry) ==
    LET exhausted == skipRetry \/ retried[r] >= MaxRetry
    IN  /\ tstate' = [tstate EXCEPT
                        ![r] = IF exhausted THEN "archived" ELSE "retry"]
        /\ retried' = [retried EXCEPT ![r] = IF exhausted THEN @ ELSE @ + 1]
        /\ UNCHANGED <<payload, doneAt>>

\* The scheduler hands a task whose retry delay is over back to the queue.
AsynqForward(r) ==
    /\ tstate[r] = "retry"
    /\ tstate' = [tstate EXCEPT ![r] = "pending"]
    /\ UNCHANGED <<now, redisVars, retried, payload, doneAt>>

\* The janitor deletes completed tasks once their retention is over.
AsynqJanitor(r) ==
    /\ tstate[r] = "completed"
    /\ now >= doneAt[r] + Retention
    /\ tstate' = [tstate EXCEPT ![r] = "deleted"]
    /\ UNCHANGED <<now, redisVars, retried, payload, doneAt>>

=============================================================================
