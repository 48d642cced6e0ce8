----------------------------- MODULE Idempotency -----------------------------
(***************************************************************************)
(* DurableIdempotencyMiddleware (backend/pkg/idempotency/middleware.go)    *)
(* around one mutating route: several HTTP attempts under one              *)
(* Idempotency-Key, the PostgreSQL row that records the key, the Redis     *)
(* entry that caches its answer, and the handler the attempts run.         *)
(*                                                                         *)
(* The row and the handler's business transaction commit separately, in    *)
(* that order: insert, handler, update.  An attempt may stop anywhere (the *)
(* process dies, or the client goes and its request context with it).      *)
(***************************************************************************)
EXTENDS Integers, FiniteSets

CONSTANTS
    Attempts,    \* HTTP attempts under the key
    Payloads,    \* request fingerprints
    Payload,     \* attempt -> its fingerprint
    Handler,     \* fingerprint -> how its route's handler takes a command it has done
    NoRecord,    \* no idempotency_requests row
    NoEntry,     \* nothing cached
    NoEffect     \* an attempt that has no successful answer to report

Statuses == {"PROCESSING", "COMPLETED", "FAILED"}

Row   == [hash: Payloads, status: Statuses, live: BOOLEAN, effect: Attempts \cup {NoEffect}]
Entry == [hash: Payloads, effect: Attempts]

\* The fingerprint covers method and route, so it determines the handler.
\* "once": the handler knows what it has done, and answers with it (checkout and
\* goods receipt look the key up in tables of their own) or refuses to do it
\* again (void).  "plain" (stock adjustment): it does it again.
ASSUME IdempotencyAssumption ==
    /\ Payload \in [Attempts -> Payloads]
    /\ Handler \in [Payloads -> {"once", "plain"}]
    /\ NoEffect \notin Attempts
    /\ NoRecord \notin Row
    /\ NoEntry \notin Entry

VARIABLES
    record,    \* the idempotency_requests row
    cache,     \* the Redis entry
    applied,   \* attempts whose business transaction committed
    expired,   \* has a lease ever run out?
    pc,        \* attempt -> what it does next
    effect,    \* attempt -> the committed attempt its answer reports
    answer     \* attempt -> its answer

vars == <<record, cache, applied, expired, pc, effect, answer>>

Steps == {"select", "fill", "insert", "renew", "execute", "record", "cache"}
Answers == {"none", "done", "replayed", "conflict", "mismatch", "failed", "lost"}

Goto(a, step) == pc' = [pc EXCEPT ![a] = step] /\ UNCHANGED answer

Answer(a, what) ==
    /\ pc' = [pc EXCEPT ![a] = "ended"]
    /\ answer' = [answer EXCEPT ![a] = what]

Report(a, x) == effect' = [effect EXCEPT ![a] = x]

Init ==
    /\ record = NoRecord
    /\ cache = NoEntry
    /\ applied = {}
    /\ expired = FALSE
    /\ pc = [a \in Attempts |-> "idle"]
    /\ effect = [a \in Attempts |-> NoEffect]
    /\ answer = [a \in Attempts |-> "none"]

\* Fast path.  No entry, or a Redis that does not answer, leads to the database.
LookInCache(a) ==
    /\ pc[a] = "idle"
    /\ \/ Goto(a, "select") /\ UNCHANGED effect
       \/ /\ cache # NoEntry
          /\ cache.hash = Payload[a]
          /\ Answer(a, "replayed")
          /\ Report(a, cache.effect)
       \/ /\ cache # NoEntry
          /\ cache.hash # Payload[a]
          /\ Answer(a, "mismatch")
          /\ UNCHANGED effect
    /\ UNCHANGED <<record, cache, applied, expired>>

\* Mutant of Known: the fingerprint is not compared.
KnownKey(a) == record # NoRecord

Known(a) == record # NoRecord /\ record.hash = Payload[a]

\* The durable check.  A FAILED row lets the attempt through as it is.
SelectRecord(a) ==
    /\ pc[a] = "select"
    /\ \/ record = NoRecord /\ Goto(a, "insert") /\ UNCHANGED effect
       \/ record # NoRecord /\ ~Known(a) /\ Answer(a, "mismatch") /\ UNCHANGED effect
       \/ /\ Known(a) /\ record.status = "COMPLETED"
          /\ Goto(a, "fill")
          /\ Report(a, record.effect)
       \/ /\ Known(a) /\ record.status = "PROCESSING" /\ record.live
          /\ Answer(a, "conflict")
          /\ UNCHANGED effect
       \/ /\ Known(a) /\ record.status = "PROCESSING" /\ ~record.live
          /\ Goto(a, "renew")
          /\ UNCHANGED effect
       \/ Known(a) /\ record.status = "FAILED" /\ Goto(a, "execute") /\ UNCHANGED effect
    /\ UNCHANGED <<record, cache, applied, expired>>

Cached(a) == [hash |-> Payload[a], effect |-> effect[a]]

\* A write to Redis whose failure nobody looks at.
Remember(a) == cache' \in {cache, Cached(a)}

Replay(a) ==
    /\ pc[a] = "fill"
    /\ Remember(a)
    /\ Answer(a, "replayed")
    /\ UNCHANGED <<record, applied, expired, effect>>

\* Mutant of Reserve: the conflict is ignored and the row taken over.
ReserveAnyway(a) ==
    /\ pc[a] = "insert"
    /\ record' = [hash |-> Payload[a], status |-> "PROCESSING", live |-> TRUE,
                  effect |-> NoEffect]
    /\ Goto(a, "execute")
    /\ UNCHANGED <<cache, applied, expired, effect>>

\* INSERT ... ON CONFLICT DO NOTHING
Reserve(a) ==
    /\ pc[a] = "insert"
    /\ \/ record # NoRecord /\ Answer(a, "conflict") /\ UNCHANGED record
       \/ /\ record = NoRecord
          /\ record' = [hash |-> Payload[a], status |-> "PROCESSING", live |-> TRUE,
                        effect |-> NoEffect]
          /\ Goto(a, "execute")
    /\ UNCHANGED <<cache, applied, expired, effect>>

\* The lease is renewed whatever has become of the row since it was read, and an
\* update that fails is not noticed.
Renew(a) ==
    /\ pc[a] = "renew"
    /\ record' \in {record, [record EXCEPT !.live = TRUE]}
    /\ Goto(a, "execute")
    /\ UNCHANGED <<cache, applied, expired, effect>>

\* The handler, up to the commit of its transaction: it does the command, finds
\* it done and says so, or fails.  A commit whose confirmation is lost is a
\* failure to the handler, but an effect all the same.
Execute(a) ==
    /\ pc[a] = "execute"
    /\ Goto(a, "record")
    /\ \/ /\ IF Handler[Payload[a]] = "plain" THEN TRUE ELSE applied = {}
          /\ applied' = applied \cup {a}
          /\ \E x \in {a, NoEffect} : Report(a, x)
       \/ /\ Handler[Payload[a]] = "once"
          /\ \E b \in applied : Report(a, b)
          /\ UNCHANGED applied
       \/ UNCHANGED <<applied, effect>>
    /\ UNCHANGED <<record, cache, expired>>

\* A success is recorded, unless the update fails, which is only logged.
RecordSuccess(a) ==
    /\ pc[a] = "record"
    /\ effect[a] # NoEffect
    /\ record' \in {record, [record EXCEPT !.status = "COMPLETED", !.effect = effect[a]]}
    /\ Goto(a, "cache")
    /\ UNCHANGED <<cache, applied, expired, effect>>

\* Mutant of RecordFailure: the failed answer is cached like a success.
RecordFailureCached(a) ==
    /\ pc[a] = "record"
    /\ effect[a] = NoEffect
    /\ record' \in {record, [record EXCEPT !.status = "FAILED"]}
    /\ cache' = Cached(a)
    /\ Answer(a, "failed")
    /\ UNCHANGED <<applied, expired, effect>>

\* A failure is recorded too, over whatever the row says by then.
RecordFailure(a) ==
    /\ pc[a] = "record"
    /\ effect[a] = NoEffect
    /\ record' \in {record, [record EXCEPT !.status = "FAILED"]}
    /\ Answer(a, "failed")
    /\ UNCHANGED <<cache, applied, expired, effect>>

CacheAnswer(a) ==
    /\ pc[a] = "cache"
    /\ Remember(a)
    /\ Answer(a, "done")
    /\ UNCHANGED <<record, applied, expired, effect>>

\* The process or the client is gone, or the database refuses a statement.
Stop(a) ==
    /\ pc[a] \in Steps
    /\ Answer(a, "lost")
    /\ UNCHANGED <<record, cache, applied, expired, effect>>

\* InProgressLockTTL, also under an attempt that is still at work.
LeaseExpires ==
    /\ record # NoRecord
    /\ record.status = "PROCESSING" /\ record.live
    /\ record' = [record EXCEPT !.live = FALSE]
    /\ expired' = TRUE
    /\ UNCHANGED <<cache, applied, pc, effect, answer>>

\* The entry's TTL, or an eviction.
CacheExpires ==
    /\ cache # NoEntry
    /\ cache' = NoEntry
    /\ UNCHANGED <<record, applied, expired, pc, effect, answer>>

Serve(a) ==
    \/ LookInCache(a)
    \/ SelectRecord(a)
    \/ Replay(a)
    \/ Reserve(a)
    \/ Renew(a)
    \/ Execute(a)
    \/ RecordSuccess(a)
    \/ RecordFailure(a)
    \/ CacheAnswer(a)

Next ==
    \/ \E a \in Attempts : Serve(a) \/ Stop(a)
    \/ LeaseExpires
    \/ CacheExpires

Spec == Init /\ [][Next]_vars

(***************************************************************************)
(* Properties.                                                             *)
(***************************************************************************)
TypeOK ==
    /\ record \in Row \cup {NoRecord}
    /\ cache \in Entry \cup {NoEntry}
    /\ applied \subseteq Attempts
    /\ expired \in BOOLEAN
    /\ pc \in [Attempts -> Steps \cup {"idle", "ended"}]
    /\ effect \in [Attempts -> Attempts \cup {NoEffect}]
    /\ answer \in [Attempts -> Answers]

\* An attempt answered with success, first hand or replayed, is answered with an
\* effect that was committed, and committed for the payload it sent: the handlers
\* that look the key up do not compare payloads.
SuccessIsTruthful ==
    \A a \in Attempts :
        answer[a] \in {"done", "replayed"} =>
            /\ effect[a] \in applied
            /\ Payload[effect[a]] = Payload[a]

\* docs/PRD.md: no double inventory decrement upon network retries.
OncePerKey == \A a, b \in applied : a = b

\* Even a handler that repeats itself runs once per key, as long as no attempt
\* failed and no lease ran out: attempts that only overlap, or whose answers are
\* lost, do no harm.
OnceUnlessDisturbed ==
    OncePerKey \/ expired \/ \E a \in Attempts : answer[a] = "failed"

(***************************************************************************)
(* The inductive invariant behind both (see Idempotency_proofs).           *)
(***************************************************************************)
\* What an attempt reports was committed, for its own payload.
TrueEffect(x, hash) == x \in applied /\ Payload[x] = hash

Stored ==
    /\ record # NoRecord /\ record.status = "COMPLETED" => TrueEffect(record.effect, record.hash)
    /\ cache # NoEntry => TrueEffect(cache.effect, cache.hash)
    /\ \A a \in applied : Known(a)

Reported(a) ==
    /\ effect[a] # NoEffect => TrueEffect(effect[a], Payload[a])
    /\ pc[a] \in {"fill", "cache"} \/ answer[a] \in {"done", "replayed"} => effect[a] # NoEffect
    /\ pc[a] \in {"renew", "execute", "record", "cache"} => Known(a)
    /\ pc[a] \in {"idle", "select", "insert", "renew", "execute"} => effect[a] = NoEffect
    /\ pc[a] # "ended" => answer[a] = "none"

Disturbed == expired \/ \E a \in Attempts : answer[a] = "failed"

Worked(a) == pc[a] \in {"execute", "record", "cache"} \/ a \in applied

Alone ==
    /\ record # NoRecord /\ record.status = "PROCESSING" /\ ~record.live => expired
    /\ record # NoRecord /\ record.status = "FAILED" => Disturbed
    /\ \A a \in Attempts : pc[a] = "renew" => expired
    /\ Disturbed \/ \A a, b \in Attempts : Worked(a) /\ Worked(b) => a = b

\* Row, cache and attempts only report effects committed for their payload, and
\* two attempts have worked only if one failed or a lease ran out.
IInv ==
    /\ TypeOK
    /\ Stored
    /\ \A a \in Attempts : Reported(a)
    /\ Alone
=============================================================================
