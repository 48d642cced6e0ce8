------------------------- MODULE Idempotency_proofs -------------------------
(***************************************************************************)
(* The safety of the idempotency middleware, for any number of attempts    *)
(* and payloads and for either kind of handler.                            *)
(***************************************************************************)
EXTENDS Idempotency, TLAPS

LEMMA InitIInv == Init => IInv
  BY IdempotencyAssumption
     DEF Init, IInv, TypeOK, Stored, Reported, Alone, Disturbed, Worked, Known, TrueEffect, Steps,
         Answers

\* A step that leaves the row alone and sets nobody to work keeps workers alone.
LEMMA AloneKept ==
    ASSUME Alone, record' = record, expired' = expired, Disturbed => Disturbed',
           \A b \in Attempts : Worked(b)' => Worked(b) \/ Disturbed,
           \A b \in Attempts : pc'[b] = "renew" => pc[b] = "renew" \/ expired
    PROVE  Alone'
  BY DEF Alone

\* An attempt answers once.
LEMMA AnswersStay ==
    ASSUME TypeOK, NEW a \in Attempts, Reported(a), pc[a] # "ended", NEW what,
           Answer(a, what) \/ UNCHANGED answer, expired' = expired
    PROVE  Disturbed => Disturbed'
  BY DEF TypeOK, Reported, Answer, Disturbed

-----------------------------------------------------------------------------
(***************************************************************************)
(* Steps that lead an attempt to the handler.                              *)
(***************************************************************************)
LEMMA LookInCacheKeeps ==
    ASSUME IInv, NEW a \in Attempts, LookInCache(a)
    PROVE  IInv'
<1>. USE DEF LookInCache, Goto, Answer, Report
<1>0. TypeOK /\ Stored /\ (\A b \in Attempts : Reported(b)) /\ Alone
  BY DEF IInv
<1>1. TypeOK'
  BY <1>0 DEF TypeOK, Entry, Steps, Answers
<1>2. Stored'
  BY <1>0 DEF Stored, TrueEffect, Known
<1>3. ASSUME NEW b \in Attempts
      PROVE  Reported(b)'
  <2>1. CASE b = a
    BY <2>1, <1>0, IdempotencyAssumption DEF Reported, Stored, TrueEffect, Known, TypeOK, Entry
  <2>2. CASE b # a
    BY <2>2, <1>0, IdempotencyAssumption DEF Reported, Stored, TrueEffect, Known, TypeOK, Entry
  <2>. QED
    BY <2>1, <2>2
<1>4. Alone'
  <2>1. Disturbed => Disturbed'
    BY <1>0, AnswersStay
  <2>2. ASSUME NEW b \in Attempts
        PROVE  /\ Worked(b)' => Worked(b) \/ Disturbed
               /\ pc'[b] = "renew" => pc[b] = "renew" \/ expired
    <3>1. CASE b = a
      BY <1>0, <3>1 DEF Worked, TypeOK, Alone, Known
    <3>2. CASE b # a
      BY <1>0, <3>2 DEF Worked, TypeOK
    <3>. QED
      BY <3>1, <3>2
  <2>. QED
    BY <1>0, <2>1, <2>2, AloneKept
<1>. QED
  BY <1>1, <1>2, <1>3, <1>4 DEF IInv

LEMMA SelectRecordKeeps ==
    ASSUME IInv, NEW a \in Attempts, SelectRecord(a)
    PROVE  IInv'
<1>. USE DEF SelectRecord, Goto, Answer, Report
<1>0. TypeOK /\ Stored /\ (\A b \in Attempts : Reported(b)) /\ Alone
  BY DEF IInv
<1>1. TypeOK'
  BY <1>0 DEF TypeOK, Row, Known, Steps, Answers
<1>2. Stored'
  BY <1>0 DEF Stored, TrueEffect, Known
<1>3. ASSUME NEW b \in Attempts
      PROVE  Reported(b)'
  <2>1. CASE b = a
    BY <2>1, <1>0, IdempotencyAssumption DEF Reported, Stored, TrueEffect, Known, TypeOK, Row
  <2>2. CASE b # a
    BY <2>2, <1>0, IdempotencyAssumption DEF Reported, Stored, TrueEffect, Known, TypeOK, Row
  <2>. QED
    BY <2>1, <2>2
<1>4. Alone'
  <2>1. Disturbed => Disturbed'
    BY <1>0, AnswersStay
  <2>2. ASSUME NEW b \in Attempts
        PROVE  /\ Worked(b)' => Worked(b) \/ Disturbed
               /\ pc'[b] = "renew" => pc[b] = "renew" \/ expired
    <3>1. CASE b = a
      BY <1>0, <3>1 DEF Worked, TypeOK, Alone, Known
    <3>2. CASE b # a
      BY <1>0, <3>2 DEF Worked, TypeOK
    <3>. QED
      BY <3>1, <3>2
  <2>. QED
    BY <1>0, <2>1, <2>2, AloneKept
<1>. QED
  BY <1>1, <1>2, <1>3, <1>4 DEF IInv

LEMMA ReserveKeeps ==
    ASSUME IInv, NEW a \in Attempts, Reserve(a)
    PROVE  IInv'
<1>. USE DEF Reserve, Goto, Answer
<1>0. TypeOK /\ Stored /\ (\A b \in Attempts : Reported(b)) /\ Alone
  BY DEF IInv
<1>1. [hash |-> Payload[a], status |-> "PROCESSING", live |-> TRUE, effect |-> NoEffect] \in Row
  BY IdempotencyAssumption DEF Row, Statuses
<1>2. TypeOK'
  BY <1>0, <1>1 DEF TypeOK, Steps, Answers
<1>3. Stored'
  BY <1>0 DEF Stored, TrueEffect, Known
<1>4. ASSUME NEW b \in Attempts
      PROVE  Reported(b)'
  <2>1. CASE b = a
    <3>1. pc'[a] = "execute" => record' # NoRecord /\ record'.hash = Payload[a]
      <4>. DEFINE R == [hash |-> Payload[a], status |-> "PROCESSING", live |-> TRUE,
                        effect |-> NoEffect]
      <4>1. pc'[a] = "execute" => record' = R
        BY <1>0 DEF TypeOK
      <4>2. R # NoRecord /\ R.hash = Payload[a]
        BY <1>1, IdempotencyAssumption
      <4>. QED
        BY <4>1, <4>2
    <3>2. effect[a] = NoEffect /\ effect' = effect /\ pc'[a] \in {"execute", "ended"}
      BY <1>0 DEF Reported, TypeOK
    <3>3. pc'[a] = "ended" => answer'[a] = "conflict"
      BY <1>0 DEF TypeOK
    <3>4. pc'[a] # "ended" => answer'[a] = "none"
      BY <1>0 DEF Reported, TypeOK
    <3>. HIDE DEF Reserve, Goto, Answer
    <3>. QED
      BY <2>1, <3>1, <3>2, <3>3, <3>4 DEF Reported, Known
  <2>2. CASE b # a
    BY <2>2, <1>0, IdempotencyAssumption DEF Reported, Stored, TrueEffect, Known, TypeOK, Row
  <2>. QED
    BY <2>1, <2>2
<1>5. Alone'
  BY <1>0, IdempotencyAssumption DEF Alone, Disturbed, Worked, TypeOK, Known, Stored, Reported
<1>. QED
  BY <1>2, <1>3, <1>4, <1>5 DEF IInv

LEMMA RenewKeeps ==
    ASSUME IInv, NEW a \in Attempts, Renew(a)
    PROVE  IInv'
<1>. USE DEF Renew, Goto
<1>0. TypeOK /\ Stored /\ (\A b \in Attempts : Reported(b)) /\ Alone
  BY DEF IInv
<1>1. record \in Row /\ record # NoRecord
  BY <1>0 DEF Reported, Known, TypeOK
<1>2. /\ record' \in Row /\ record' # NoRecord
      /\ record'.hash = record.hash /\ record'.status = record.status
      /\ record'.effect = record.effect
  <2>1. [record EXCEPT !.live = TRUE] \in Row
    BY <1>1 DEF Row
  <2>2. /\ [record EXCEPT !.live = TRUE].hash = record.hash
        /\ [record EXCEPT !.live = TRUE].status = record.status
        /\ [record EXCEPT !.live = TRUE].effect = record.effect
    BY <1>1 DEF Row
  <2>. QED
    BY <1>1, <2>1, <2>2, IdempotencyAssumption
<1>3. TypeOK'
  BY <1>0, <1>2 DEF TypeOK, Steps
<1>4. Stored'
  BY <1>0, <1>1, <1>2 DEF Stored, TrueEffect, Known
<1>5. ASSUME NEW b \in Attempts
      PROVE  Reported(b)'
  <2>1. CASE b = a
    BY <2>1, <1>0, <1>1, <1>2 DEF Reported, TrueEffect, Known, TypeOK
  <2>2. CASE b # a
    BY <2>2, <1>0, <1>1, <1>2 DEF Reported, TrueEffect, Known, TypeOK
  <2>. QED
    BY <2>1, <2>2
<1>6. Alone'
  BY <1>0, <1>1, <1>2 DEF Alone, Disturbed, Worked, TypeOK
<1>. QED
  BY <1>3, <1>4, <1>5, <1>6 DEF IInv

-----------------------------------------------------------------------------
(***************************************************************************)
(* The handler, and what is done with its answer.                          *)
(***************************************************************************)
LEMMA ExecuteKeeps ==
    ASSUME IInv, NEW a \in Attempts, Execute(a)
    PROVE  IInv'
<1>. USE DEF Execute, Goto, Report
<1>0. TypeOK /\ Stored /\ (\A b \in Attempts : Reported(b)) /\ Alone
  BY DEF IInv
<1>1. TypeOK'
  BY <1>0 DEF TypeOK, Steps
<1>2. Stored'
  BY <1>0 DEF Stored, TrueEffect, Known, Reported
<1>3. ASSUME NEW b \in Attempts
      PROVE  Reported(b)'
  <2>1. CASE b = a
    BY <2>1, <1>0 DEF Reported, Stored, TrueEffect, Known, TypeOK
  <2>2. CASE b # a
    BY <2>2, <1>0 DEF Reported, Stored, TrueEffect, Known, TypeOK
  <2>. QED
    BY <2>1, <2>2
<1>4. Alone'
  BY <1>0 DEF Alone, Disturbed, Worked, TypeOK
<1>. QED
  BY <1>1, <1>2, <1>3, <1>4 DEF IInv

LEMMA RecordKeeps ==
    ASSUME IInv, NEW a \in Attempts, RecordSuccess(a) \/ RecordFailure(a)
    PROVE  IInv'
<1>. USE DEF RecordSuccess, RecordFailure, Goto, Answer
<1>0. TypeOK /\ Stored /\ (\A b \in Attempts : Reported(b)) /\ Alone
  BY DEF IInv
<1>1. record \in Row /\ record # NoRecord /\ record.hash = Payload[a]
  BY <1>0 DEF Reported, Known, TypeOK
<1>2. /\ record' \in Row /\ record' # NoRecord
      /\ record'.hash = record.hash
      /\ \/ record' = record
         \/ record'.status = "COMPLETED" /\ record'.effect = effect[a] /\ effect[a] # NoEffect
         \/ record'.status = "FAILED" /\ answer'[a] = "failed"
  <2>1. [record EXCEPT !.status = "FAILED"] \in Row
    BY <1>1 DEF Row, Statuses
  <2>2. effect[a] # NoEffect => [record EXCEPT !.status = "COMPLETED", !.effect = effect[a]] \in Row
    BY <1>0, <1>1 DEF Row, Statuses, TypeOK
  <2>3. CASE RecordSuccess(a)
    <3>1. effect[a] # NoEffect
      BY <2>3
    <3>2. CASE record' = record
      BY <1>1, <3>2
    <3>3. CASE record' = [record EXCEPT !.status = "COMPLETED", !.effect = effect[a]]
      <4>1. record'.status = "COMPLETED" /\ record'.effect = effect[a] /\ record'.hash = record.hash
        BY <1>1, <3>3 DEF Row
      <4>2. record' \in Row /\ record' # NoRecord
        BY <2>2, <3>1, <3>3, IdempotencyAssumption DEF Row
      <4>. QED
        BY <3>1, <4>1, <4>2
    <3>. QED
      BY <2>3, <3>2, <3>3
  <2>4. CASE RecordFailure(a)
    <3>1. answer'[a] = "failed"
      BY <1>0, <2>4 DEF TypeOK
    <3>2. CASE record' = record
      BY <1>1, <3>2
    <3>3. CASE record' = [record EXCEPT !.status = "FAILED"]
      <4>1. record'.status = "FAILED" /\ record'.hash = record.hash
        BY <1>1, <3>3 DEF Row
      <4>2. record' \in Row /\ record' # NoRecord
        BY <2>1, <3>3, IdempotencyAssumption DEF Row
      <4>. QED
        BY <3>1, <4>1, <4>2
    <3>. QED
      BY <2>4, <3>2, <3>3
  <2>. QED
    BY <2>3, <2>4
<1>3. TypeOK'
  BY <1>0, <1>2 DEF TypeOK, Steps, Answers
<1>4. Stored'
  BY <1>0, <1>1, <1>2 DEF Stored, Reported, TrueEffect, Known
<1>5. ASSUME NEW b \in Attempts
      PROVE  Reported(b)'
  <2>1. CASE b = a
    BY <2>1, <1>0, <1>1, <1>2 DEF Reported, TrueEffect, Known, TypeOK
  <2>2. CASE b # a
    BY <2>2, <1>0, <1>1, <1>2 DEF Reported, TrueEffect, Known, TypeOK
  <2>. QED
    BY <2>1, <2>2
<1>6. Alone'
  BY <1>0, <1>1, <1>2 DEF Alone, Disturbed, Worked, TypeOK
<1>. QED
  BY <1>3, <1>4, <1>5, <1>6 DEF IInv

LEMMA RememberKeeps ==
    ASSUME IInv, NEW a \in Attempts, Replay(a) \/ CacheAnswer(a)
    PROVE  IInv'
<1>. USE DEF Replay, CacheAnswer, Remember, Cached, Answer
<1>0. TypeOK /\ Stored /\ (\A b \in Attempts : Reported(b)) /\ Alone
  BY DEF IInv
<1>1. effect[a] # NoEffect /\ TrueEffect(effect[a], Payload[a])
  BY <1>0 DEF Reported
<1>2. TypeOK'
  BY <1>0, <1>1, IdempotencyAssumption DEF TypeOK, Entry, Answers
<1>3. Stored'
  BY <1>0, <1>1 DEF Stored, TrueEffect, Known
<1>4. ASSUME NEW b \in Attempts
      PROVE  Reported(b)'
  <2>1. CASE b = a
    BY <2>1, <1>0 DEF Reported, TrueEffect, Known, TypeOK
  <2>2. CASE b # a
    BY <2>2, <1>0 DEF Reported, TrueEffect, Known, TypeOK
  <2>. QED
    BY <2>1, <2>2
<1>5. Alone'
  <2>1. Disturbed => Disturbed'
    BY <1>0, AnswersStay
  <2>2. ASSUME NEW b \in Attempts
        PROVE  /\ Worked(b)' => Worked(b) \/ Disturbed
               /\ pc'[b] = "renew" => pc[b] = "renew" \/ expired
    <3>1. CASE b = a
      BY <1>0, <3>1 DEF Worked, TypeOK, Alone, Known
    <3>2. CASE b # a
      BY <1>0, <3>2 DEF Worked, TypeOK
    <3>. QED
      BY <3>1, <3>2
  <2>. QED
    BY <1>0, <2>1, <2>2, AloneKept
<1>. QED
  BY <1>2, <1>3, <1>4, <1>5 DEF IInv

LEMMA StopKeeps ==
    ASSUME IInv, NEW a \in Attempts, Stop(a)
    PROVE  IInv'
<1>0. TypeOK /\ Stored /\ (\A b \in Attempts : Reported(b)) /\ Alone
  BY DEF IInv
<1>1. TypeOK' /\ Stored'
  BY <1>0 DEF Stop, Answer, TypeOK, Answers, Stored, TrueEffect, Known
<1>2. \A b \in Attempts : Reported(b)'
  BY <1>0 DEF Stop, Answer, Reported, TrueEffect, Known, TypeOK
<1>3. Alone'
  <2>1. Disturbed => Disturbed'
    BY <1>0, AnswersStay DEF Stop, Steps
  <2>2. \A b \in Attempts : /\ Worked(b)' => Worked(b)
                            /\ pc'[b] = "renew" => pc[b] = "renew"
    BY <1>0 DEF Stop, Answer, Worked, TypeOK
  <2>. QED
    BY <1>0, <2>1, <2>2, AloneKept DEF Stop
<1>. QED
  BY <1>1, <1>2, <1>3 DEF IInv

LEMMA ExpiryKeeps ==
    ASSUME IInv, LeaseExpires \/ CacheExpires
    PROVE  IInv'
<1>. USE DEF LeaseExpires, CacheExpires
<1>0. TypeOK /\ Stored /\ (\A b \in Attempts : Reported(b)) /\ Alone
  BY DEF IInv
<1>1. CASE LeaseExpires
  <2>1. /\ record' \in Row /\ record' # NoRecord
        /\ record'.hash = record.hash /\ record'.status = record.status
    BY <1>0, <1>1, IdempotencyAssumption DEF TypeOK, Row
  <2>2. TypeOK' /\ Stored'
    BY <1>0, <1>1, <2>1 DEF TypeOK, Stored, TrueEffect, Known
  <2>3. Alone' /\ \A b \in Attempts : Reported(b)'
    BY <1>0, <1>1, <2>1 DEF Reported, TrueEffect, Known, Alone, Disturbed, Worked
  <2>. QED
    BY <2>2, <2>3 DEF IInv
<1>2. CASE CacheExpires
  BY <1>0, <1>2 DEF IInv, TypeOK, Stored, Reported, Alone, TrueEffect, Known, Disturbed, Worked
<1>. QED
  BY <1>1, <1>2

-----------------------------------------------------------------------------
LEMMA IInvStep == IInv /\ [Next]_vars => IInv'
<1>1. IInv /\ UNCHANGED vars => IInv'
  BY DEF vars, IInv, TypeOK, Stored, Reported, Alone, TrueEffect, Known, Disturbed, Worked
<1>. QED
  BY <1>1, LookInCacheKeeps, SelectRecordKeeps, ReserveKeeps, RenewKeeps, ExecuteKeeps,
     RecordKeeps, RememberKeeps, StopKeeps, ExpiryKeeps DEF Next, Serve

\* The row, the cache and every attempt agree on what was committed.
THEOREM Inductive == Spec => []IInv
  BY InitIInv, IInvStep, PTL DEF Spec

\* The row, the cache and every attempt stay what their types say.
THEOREM TypeCorrect == Spec => []TypeOK
<1>1. IInv => TypeOK
  BY DEF IInv
<1>. QED
  BY <1>1, Inductive, PTL

\* Every success an attempt is answered with is a committed effect of its own
\* payload, however attempts, expiries and losses interleave.
THEOREM Truthful == Spec => []SuccessIsTruthful
<1>1. IInv => SuccessIsTruthful
  BY DEF IInv, Reported, TrueEffect, SuccessIsTruthful
<1>. QED
  BY <1>1, Inductive, PTL

\* One key, one effect, unless an attempt failed or a lease ran out.
THEOREM Once == Spec => []OnceUnlessDisturbed
<1>1. IInv => OnceUnlessDisturbed
  BY DEF IInv, TypeOK, Alone, Disturbed, Worked, OnceUnlessDisturbed, OncePerKey
<1>. QED
  BY <1>1, Inductive, PTL
=============================================================================
